------------------------- MODULE PacketQueueProofs -------------------------
(***************************************************************************)
(* What holds of PacketQueue for every pool size, blocking time and set of *)
(* payloads.                                                               *)
(***************************************************************************)
EXTENDS PacketQueue, Induction, FiniteSetTheorems, SequenceTheorems

USE DEF Packets, ProducerAt, ConsumerAt, shared, producer, consumer

LEMMA BumpType ==
  ASSUME stat \in [Tracked -> Nat], NEW c, NEW n \in Nat, Bump(c, n)
  PROVE  stat' \in [Tracked -> Nat]
BY DEF Bump

(* The pool, the ring and both threads' variables keep their types         *)
(* (packet_queue.hpp:49-109).                                              *)
THEOREM TypeCorrect == Spec => []TypeOK
<1>1. Init => TypeOK
  <2>1. << >> \in Seq(1..Size)
    BY EmptySeq
  <2>2. Size \in Nat \ {0}
    BY QueueAssumption
  <2> SUFFICES ASSUME Init
               PROVE  TypeOK
    OBVIOUS
  <2>3. signalled \in BOOLEAN /\ exhausted \in BOOLEAN
    BY Zenon DEF Init
  <2>4. ring \in Seq(1..Size) /\ stat \in [Tracked -> Nat]
    BY <2>1 DEF Init
  <2>5. /\ used \in [1..Size -> BOOLEAN]
        /\ size \in [1..Size -> Nat]
        /\ buf \in [1..Size -> Payloads \cup {NoData}]
    BY DEF Init
  <2>6. pcP = "idle" /\ slot = 1 /\ wait = 0 /\ tw = 0 /\ pcC = "idle" /\ pkt = 0
    BY DEF Init
  <2> QED BY <2>2, <2>3, <2>4, <2>5, <2>6 DEF TypeOK
<1>2. TypeOK /\ [Next]_vars => TypeOK'
  <2> SUFFICES ASSUME TypeOK, [Next]_vars
               PROVE  TypeOK'
    OBVIOUS
  <2> USE QueueAssumption
  <2>1. CASE PushCall
    BY <2>1 DEF PushCall, TypeOK
  <2>2. CASE PushTimeout
    <3>1. stat' \in [Tracked -> Nat]
      BY <2>2, BumpType DEF PushTimeout, TypeOK
    <3> QED BY <2>2, <3>1 DEF PushTimeout, TypeOK
  <2>3. CASE StartScan
    BY <2>3 DEF StartScan, TypeOK
  <2>4. CASE ScanUsed
    BY <2>4 DEF ScanUsed, TypeOK
  <2>5. CASE ScanFree
    BY <2>5 DEF ScanFree, TypeOK
  <2>6. CASE Claim
    <3>1. stat' \in [Tracked -> Nat]
      BY <2>6, BumpType DEF Claim, TypeOK
    <3> QED BY <2>6, <3>1 DEF Claim, TypeOK
  <2>7. CASE AllocFailed
    <3>1. stat' \in [Tracked -> Nat]
      BY <2>7, BumpType DEF AllocFailed, TypeOK
    <3> QED BY <2>7, <3>1 DEF AllocFailed, TypeOK
  <2>8. CASE Slept
    BY <2>8 DEF Slept, TypeOK
  <2>9. ASSUME NEW d \in Payloads, ActionOk(d)
        PROVE  TypeOK'
    <3>1. Length[d] \in Nat
      OBVIOUS
    <3>2. stat' \in [Tracked -> Nat]
      BY <2>9, <3>1, BumpType DEF ActionOk, TypeOK
    <3> QED BY <2>9, <3>1, <3>2 DEF ActionOk, TypeOK
  <2>10. CASE ActionFailed
    <3>1. stat' \in [Tracked -> Nat]
      BY <2>10, BumpType DEF ActionFailed, TypeOK
    <3> QED BY <2>10, <3>1 DEF ActionFailed, Free, TypeOK
  <2>11. CASE Enqueue
    <3>1. CASE Len(ring) < RingCapacity
      <4>1. ring' \in Seq(1..Size)
        <5>1. ring \in Seq(1..Size) /\ slot \in 1..Size
          BY <2>11 DEF Enqueue, TypeOK
        <5>2. ring' = Append(ring, slot)
          BY <2>11, <3>1 DEF Enqueue
        <5> QED BY <5>1, <5>2, AppendProperties
      <4> QED BY <2>11, <3>1, <4>1 DEF Enqueue, TypeOK
    <3>2. CASE ~(Len(ring) < RingCapacity)
      <4>1. stat' \in [Tracked -> Nat]
        BY <2>11, <3>2, BumpType DEF Enqueue, TypeOK
      <4> QED BY <2>11, <3>2, <4>1 DEF Enqueue, Free, TypeOK
    <3> QED BY <3>1, <3>2
  <2>12. CASE Notify
    <3>1. stat' \in [Tracked -> Nat]
      BY <2>12, BumpType DEF Notify, TypeOK
    <3> QED BY <2>12, <3>1 DEF Notify, TypeOK
  <2>13. CASE PopCall
    BY <2>13 DEF PopCall, TypeOK
  <2>14. CASE PollHit
    <3>1. /\ Head(ring) \in 1..Size
          /\ Tail(ring) \in Seq(1..Size)
      BY <2>14, HeadTailProperties DEF PollHit, TypeOK
    <3>2. stat' \in [Tracked -> Nat]
      BY <2>14, <3>1, BumpType DEF PollHit, TypeOK
    <3> QED BY <2>14, <3>1, <3>2 DEF PollHit, TypeOK
  <2>15. CASE PollMiss
    <3>1. stat' \in [Tracked -> Nat]
      BY <2>15, BumpType DEF PollMiss, TypeOK
    <3> QED BY <2>15, <3>1 DEF PollMiss, TypeOK
  <2>16. ASSUME NEW ok \in BOOLEAN, PopAction(ok)
         PROVE  TypeOK'
    <3>1. stat' \in [Tracked -> Nat]
      BY <2>16, BumpType DEF PopAction, TypeOK
    <3> QED BY <2>16, <3>1 DEF PopAction, TypeOK
  <2>17. CASE Release
    BY <2>17 DEF Release, Free, TypeOK
  <2>18. CASE EnterWait
    BY <2>18 DEF EnterWait, TypeOK
  <2>19. CASE Notified
    BY <2>19 DEF Notified, TypeOK
  <2>20. CASE SpuriousWakeup
    BY <2>20 DEF SpuriousWakeup, TypeOK
  <2>21. CASE TimedOut
    <3>1. stat' \in [Tracked -> Nat]
      BY <2>21, BumpType DEF TimedOut, TypeOK
    <3> QED BY <2>21, <3>1 DEF TimedOut, TypeOK
  <2>22. CASE UNCHANGED vars
    BY <2>22 DEF vars, TypeOK
  <2> QED
    BY <2>1, <2>2, <2>3, <2>4, <2>5, <2>6, <2>7, <2>8, <2>9, <2>10, <2>11,
       <2>12, <2>13, <2>14, <2>15, <2>16, <2>17, <2>18, <2>19, <2>20, <2>21,
       <2>22 DEF Next, PushStep, PopStep
<1> QED BY <1>1, <1>2, PTL DEF Spec
-----------------------------------------------------------------------------
(* The ring holds packets of the pool.                                     *)
LEMMA QueuedArePackets ==
  ASSUME TypeOK
  PROVE  Queued \subseteq Packets
<1>1. ring \in Seq(Packets)
  BY DEF TypeOK
<1>2. \A i \in 1..Len(ring) : ring[i] \in Packets
  BY <1>1, ElementOfSeq
<1> QED BY <1>2, Zenon DEF Queued

(* Enqueue appends to the ring's content, and changes nothing else in it.  *)
LEMMA QueuedAfterPush ==
  ASSUME TypeOK, NEW p \in Packets, ring' = Append(ring, p)
  PROVE  /\ Len(ring) \in Nat /\ Len(ring') = Len(ring) + 1
         /\ \A i \in 1..Len(ring) : ring'[i] = ring[i]
         /\ ring'[Len(ring) + 1] = p
         /\ Queued' = Queued \cup {p}
<1>1. ring \in Seq(1..Size)
  BY DEF TypeOK
<1>2. /\ Len(ring) \in Nat /\ Len(ring') = Len(ring) + 1
      /\ \A i \in 1..Len(ring) : ring'[i] = ring[i]
      /\ ring'[Len(ring) + 1] = p
  BY <1>1, AppendProperties, LenProperties
<1> QED BY <1>2 DEF Queued

(* A pop hands out the first packet and shifts the rest.                   *)
LEMMA QueuedAfterPop ==
  ASSUME TypeOK, ring # <<>>, ring' = Tail(ring)
  PROVE  /\ Len(ring) \in Nat \ {0} /\ Len(ring') = Len(ring) - 1
         /\ \A i \in 1..Len(ring') : ring'[i] = ring[i + 1]
         /\ Head(ring) = ring[1]
         /\ Queued = Queued' \cup {Head(ring)}
<1>1. ring \in Seq(1..Size)
  BY DEF TypeOK
<1>2. /\ Len(ring) \in Nat \ {0} /\ Len(ring') = Len(ring) - 1
      /\ \A i \in 1..Len(ring') : ring'[i] = ring[i + 1]
      /\ Head(ring) = ring[1]
  BY <1>1, HeadTailProperties, EmptySeq
<1>3. Head(ring) \in Queued
  BY <1>2 DEF Queued
<1>4. ASSUME NEW p \in Queued'
      PROVE  p \in Queued
  <2>1. PICK i \in 1..Len(ring') : p = ring'[i]
    BY DEF Queued
  <2>2. i + 1 \in 1..Len(ring) /\ ring[i + 1] = p
    BY <1>2, <2>1
  <2> QED BY <2>2 DEF Queued
<1>5. ASSUME NEW p \in Queued
      PROVE  p \in Queued' \cup {Head(ring)}
  <2>1. PICK i \in 1..Len(ring) : p = ring[i]
    BY DEF Queued
  <2>2. CASE i = 1
    BY <1>2, <2>1, <2>2
  <2>3. CASE i # 1
    <3>1. i - 1 \in 1..Len(ring') /\ ring'[i - 1] = p
      BY <1>2, <2>1, <2>3
    <3> QED BY <3>1 DEF Queued
  <2> QED BY <2>2, <2>3
<1> QED BY <1>2, <1>3, <1>4, <1>5

(* A step that leaves the flags, the ring and both hands alone.            *)
LEMMA SameOwners ==
  ASSUME Ownership, used' = used, ring' = ring,
         ProducersPacket' = ProducersPacket,
         ConsumersPacket' = ConsumersPacket,
         pcP' = "claim" => ~used[slot']
  PROVE  Ownership'
BY DEF Ownership, Queued

(* Only claim, free, the ring's push and pop and the actions' ends move a  *)
(* packet from one owner to another.                                       *)
LEMMA OwnershipStep ==
  TypeOK /\ Ownership /\ [Next]_vars => Ownership'
<1> SUFFICES ASSUME TypeOK, Ownership, [Next]_vars
             PROVE  Ownership'
  OBVIOUS
<1> USE QueueAssumption
<1>1. CASE PushCall
  BY <1>1, SameOwners DEF PushCall, ProducersPacket, ConsumersPacket
<1>2. CASE PushTimeout
  BY <1>2, SameOwners DEF PushTimeout, ProducersPacket, ConsumersPacket
<1>3. CASE StartScan
  BY <1>3, SameOwners DEF StartScan, ProducersPacket, ConsumersPacket
<1>4. CASE ScanUsed
  BY <1>4, SameOwners DEF ScanUsed, ProducersPacket, ConsumersPacket
<1>5. CASE ScanFree
  BY <1>5, SameOwners DEF ScanFree, ProducersPacket, ConsumersPacket
<1>6. CASE Claim
  <2>1. /\ slot \in 1..Size /\ ~used[slot] /\ slot' = slot
        /\ used' = [used EXCEPT ![slot] = TRUE] /\ pcP' = "action"
        /\ UNCHANGED <<ring, pcC, pkt>>
    BY <1>6 DEF Claim, TypeOK, Ownership
  <2>2. ProducersPacket = {} /\ ProducersPacket' = {slot}
    BY <1>6, <2>1 DEF Claim, ProducersPacket
  <2>3. ConsumersPacket' = ConsumersPacket /\ Queued' = Queued
    BY <2>1 DEF ConsumersPacket, Queued
  <2>4. slot \notin Queued \cup ConsumersPacket
    BY <2>1, <2>2 DEF Ownership
  <2>5. \A p \in Packets :
          used'[p] <=> p \in Queued' \cup ProducersPacket' \cup ConsumersPacket'
    BY <2>1, <2>2, <2>3 DEF Ownership, TypeOK
  <2> QED BY <2>1, <2>2, <2>3, <2>4, <2>5 DEF Ownership
<1>7. CASE AllocFailed
  BY <1>7, SameOwners DEF AllocFailed, ProducersPacket, ConsumersPacket
<1>8. CASE Slept
  BY <1>8, SameOwners DEF Slept, ProducersPacket, ConsumersPacket
<1>9. ASSUME NEW d \in Payloads, ActionOk(d)
      PROVE  Ownership'
  BY <1>9, SameOwners DEF ActionOk, ProducersPacket, ConsumersPacket
<1>10. CASE ActionFailed
  <2>1. /\ slot \in 1..Size
        /\ used' = [used EXCEPT ![slot] = FALSE] /\ pcP' = "idle"
        /\ UNCHANGED <<ring, pcC, pkt>>
        /\ ProducersPacket = {slot} /\ ProducersPacket' = {}
    BY <1>10 DEF ActionFailed, Free, TypeOK, ProducersPacket
  <2>2. ConsumersPacket' = ConsumersPacket /\ Queued' = Queued
    BY <2>1 DEF ConsumersPacket, Queued
  <2>3. \A p \in Packets :
          used'[p] <=> p \in Queued' \cup ProducersPacket' \cup ConsumersPacket'
    BY <2>1, <2>2 DEF Ownership, TypeOK
  <2> QED BY <2>1, <2>2, <2>3 DEF Ownership
<1>11. CASE Enqueue
  <2>1. /\ slot \in 1..Size /\ ProducersPacket = {slot} /\ ProducersPacket' = {}
        /\ UNCHANGED <<slot, pcC, pkt>> /\ ConsumersPacket' = ConsumersPacket
        /\ pcP' # "claim"
    BY <1>11 DEF Enqueue, TypeOK, ProducersPacket, ConsumersPacket
  <2>2. CASE Len(ring) < RingCapacity
    <3>1. ring' = Append(ring, slot) /\ used' = used
      BY <1>11, <2>2 DEF Enqueue
    <3>3. /\ Len(ring') = Len(ring) + 1 /\ Len(ring) \in Nat
          /\ \A i \in 1..Len(ring) : ring'[i] = ring[i]
          /\ ring'[Len(ring) + 1] = slot
          /\ Queued' = Queued \cup {slot}
      BY <2>1, <3>1, QueuedAfterPush
    <3>5. \A i \in 1..Len(ring) : ring[i] # slot
      BY <2>1 DEF Ownership, Queued
    <3>6. ASSUME NEW i \in 1..Len(ring'), NEW j \in 1..Len(ring'),
                 ring'[i] = ring'[j]
          PROVE  i = j
      BY <3>3, <3>5, <3>6 DEF Ownership
    <3> QED BY <2>1, <3>1, <3>3, <3>6 DEF Ownership
  <2>3. CASE ~(Len(ring) < RingCapacity)
    <3>1. used' = [used EXCEPT ![slot] = FALSE] /\ ring' = ring
      BY <1>11, <2>3 DEF Enqueue, Free
    <3>2. Queued' = Queued
      BY <3>1 DEF Queued
    <3>3. \A p \in Packets :
            used'[p] <=> p \in Queued' \cup ProducersPacket' \cup ConsumersPacket'
      BY <2>1, <3>1, <3>2 DEF Ownership, TypeOK
    <3> QED BY <2>1, <3>1, <3>2, <3>3 DEF Ownership
  <2> QED BY <2>2, <2>3
<1>12. CASE Notify
  BY <1>12, SameOwners DEF Notify, ProducersPacket, ConsumersPacket
<1>13. CASE PopCall
  BY <1>13, SameOwners DEF PopCall, ProducersPacket, ConsumersPacket, Ownership
<1>14. CASE PollHit
  <2>1. /\ ring \in Seq(1..Size) /\ ring # <<>>
        /\ pkt' = Head(ring) /\ ring' = Tail(ring)
        /\ UNCHANGED <<used, pcP, slot>> /\ ProducersPacket' = ProducersPacket
        /\ ConsumersPacket = {} /\ ConsumersPacket' = {Head(ring)}
    BY <1>14 DEF PollHit, TypeOK, ProducersPacket, ConsumersPacket
  <2>2. /\ Len(ring) \in Nat \ {0} /\ Len(ring') = Len(ring) - 1
        /\ \A i \in 1..Len(ring') : ring'[i] = ring[i + 1]
        /\ Head(ring) = ring[1]
        /\ Queued = Queued' \cup {Head(ring)}
    BY <2>1, QueuedAfterPop
  <2>4. Head(ring) \notin Queued'
    BY <2>2 DEF Ownership, Queued
  <2>5. ASSUME NEW i \in 1..Len(ring'), NEW j \in 1..Len(ring'),
               ring'[i] = ring'[j]
        PROVE  i = j
    <3>1. i + 1 \in 1..Len(ring) /\ j + 1 \in 1..Len(ring)
      BY <2>2
    <3>2. ring[i + 1] = ring[j + 1]
      BY <2>2, <2>5
    <3>3. i + 1 = j + 1
      BY <3>1, <3>2 DEF Ownership
    <3> QED BY <2>2, <3>3
  <2> QED BY <2>1, <2>2, <2>4, <2>5 DEF Ownership
<1>15. CASE PollMiss
  BY <1>15, SameOwners DEF PollMiss, ProducersPacket, ConsumersPacket, Ownership
<1>16. ASSUME NEW ok \in BOOLEAN, PopAction(ok)
       PROVE  Ownership'
  BY <1>16, SameOwners DEF PopAction, ProducersPacket, ConsumersPacket, Ownership
<1>17. CASE Release
  <2>1. /\ pkt \in 1..Size
        /\ used' = [used EXCEPT ![pkt] = FALSE]
        /\ UNCHANGED <<ring, pcP, slot>> /\ ProducersPacket' = ProducersPacket
        /\ ConsumersPacket = {pkt} /\ ConsumersPacket' = {}
    BY <1>17 DEF Release, Free, TypeOK, ProducersPacket, ConsumersPacket
  <2>2. Queued' = Queued
    BY <2>1 DEF Queued
  <2>3. \A p \in Packets :
          used'[p] <=> p \in Queued' \cup ProducersPacket' \cup ConsumersPacket'
    BY <2>1, <2>2 DEF Ownership, TypeOK
  <2>4. pcP' = "claim" => ~used'[slot']
    BY <2>1 DEF Ownership, TypeOK
  <2> QED BY <2>1, <2>2, <2>3, <2>4 DEF Ownership
<1>18. CASE EnterWait
  BY <1>18, SameOwners DEF EnterWait, ProducersPacket, ConsumersPacket, Ownership
<1>19. CASE Notified
  BY <1>19, SameOwners DEF Notified, ProducersPacket, ConsumersPacket, Ownership
<1>20. CASE SpuriousWakeup
  BY <1>20, SameOwners DEF SpuriousWakeup, ProducersPacket, ConsumersPacket, Ownership
<1>21. CASE TimedOut
  BY <1>21, SameOwners DEF TimedOut, ProducersPacket, ConsumersPacket, Ownership
<1>22. CASE UNCHANGED vars
  BY <1>22, SameOwners DEF vars, ProducersPacket, ConsumersPacket, Ownership
<1> QED
  BY <1>1, <1>2, <1>3, <1>4, <1>5, <1>6, <1>7, <1>8, <1>9, <1>10, <1>11,
     <1>12, <1>13, <1>14, <1>15, <1>16, <1>17, <1>18, <1>19, <1>20, <1>21,
     <1>22 DEF Next, PushStep, PopStep

(* A packet in use has exactly one owner (packet_queue.hpp:51-71, 87-95).  *)
THEOREM OneOwner == Spec => []Ownership
<1>1. Init => Ownership
  BY DEF Init, Ownership, Queued, ProducersPacket, ConsumersPacket
<1> QED BY <1>1, OwnershipStep, TypeCorrect, PTL DEF Spec

(* pop() works on one packet or none.                                      *)
LEMMA InHand ==
  Cardinality(ConsumersPacket) = IF pcC \in {"action", "free"} THEN 1 ELSE 0
<1>1. CASE pcC \in {"action", "free"}
  BY <1>1, FS_Singleton DEF ConsumersPacket
<1>2. CASE pcC \notin {"action", "free"}
  BY <1>2, FS_EmptySet DEF ConsumersPacket
<1> QED BY <1>1, <1>2

(* By the pigeonhole principle: the ring holds packets of the pool, each   *)
(* once, and neither the one push() is about to push nor the one pop()     *)
(* works on.                                                               *)
LEMMA RoomToPush ==
  ASSUME TypeOK, Ownership, pcP = "enqueue"
  PROVE  Len(ring) + Cardinality(ConsumersPacket) < Size
<1> DEFINE rest == (1..Size) \ {slot}
           others == rest \ ConsumersPacket
<1>1. Size \in Nat /\ slot \in 1..Size /\ ring \in Seq(1..Size)
  BY QueueAssumption DEF TypeOK
<1>2. Len(ring) \in Nat /\ ring \in [1..Len(ring) -> 1..Size]
  BY <1>1, LenProperties
<1>3. \A i \in 1..Len(ring) : ring[i] # slot /\ ring[i] \notin ConsumersPacket
  BY DEF Ownership, Queued, ProducersPacket
<1>4. ring \in Injection(1..Len(ring), others)
  <2>1. ring \in [1..Len(ring) -> others]
    BY <1>2, <1>3
  <2>2. \A i, j \in 1..Len(ring) : ring[i] = ring[j] => i = j
    BY DEF Ownership
  <2> QED BY <2>1, <2>2 DEF Injection, IsInjective
<1>5. IsFiniteSet(rest) /\ Cardinality(rest) = Size - 1
  <2>1. IsFiniteSet(1..Size) /\ Cardinality(1..Size) = Size
    BY <1>1, FS_Interval
  <2> QED BY <1>1, <2>1, FS_RemoveElement
<1>6. /\ IsFiniteSet(others)
      /\ Cardinality(others) = Size - 1 - Cardinality(ConsumersPacket)
  <2>1. CASE pcC \in {"action", "free"}
    <3>1. pkt \in rest /\ ConsumersPacket = {pkt}
      BY <2>1 DEF TypeOK, Ownership, ProducersPacket, ConsumersPacket
    <3>2. Cardinality(ConsumersPacket) = 1
      BY <2>1, InHand
    <3>3. IsFiniteSet(rest \ {pkt}) /\ Cardinality(rest \ {pkt}) = Size - 1 - 1
      <4>1. IsFiniteSet(rest \ {pkt}) /\ Cardinality(rest \ {pkt}) = Cardinality(rest) - 1
        BY <1>5, <3>1, FS_RemoveElement, Zenon
      <4> QED BY <1>1, <1>5, <4>1
    <3> QED BY <3>1, <3>2, <3>3
  <2>2. CASE pcC \notin {"action", "free"}
    <3>1. others = rest /\ ConsumersPacket = {}
      BY <2>2 DEF ConsumersPacket
    <3>2. Cardinality(ConsumersPacket) = 0
      BY <2>2, InHand
    <3> QED BY <1>1, <1>5, <3>1, <3>2
  <2> QED BY <2>1, <2>2
<1>7. Cardinality(1..Len(ring)) <= Cardinality(others)
  BY <1>4, <1>6, FS_Injection
<1>8. Cardinality(1..Len(ring)) = Len(ring)
  BY <1>2, FS_Interval
<1>9. Cardinality(ConsumersPacket) \in Nat
  BY InHand
<1> QED BY <1>1, <1>2, <1>6, <1>7, <1>8, <1>9

(* So q.push() never fails (packet_queue.hpp:58, 62-66).                   *)
THEOREM RingNeverFills == Spec => []RingNeverFull
<1>1. ASSUME TypeOK, Ownership
      PROVE  RingNeverFull
  <2> SUFFICES ASSUME pcP = "enqueue"
               PROVE  Len(ring) < Size
    BY DEF RingNeverFull, RingCapacity
  <2>1. Len(ring) + Cardinality(ConsumersPacket) < Size
    BY <1>1, RoomToPush
  <2>2. Cardinality(ConsumersPacket) \in Nat
    BY InHand
  <2>3. Len(ring) \in Nat /\ Size \in Nat
    BY <1>1, QueueAssumption, LenProperties DEF TypeOK
  <2> QED BY <2>1, <2>2, <2>3
<1> QED BY <1>1, TypeCorrect, OneOwner, PTL

(* While a scan that did not start with an empty pool goes on, a free      *)
(* packet is still ahead of it: nobody but the scan's own thread takes one.*)
FreePacketAhead ==
  (pcP = "alloc" /\ ~exhausted) => \E p \in slot..Size : ~used[p]

(* alloc() fails only if the pool was empty when it was called             *)
(* (packet_buffer.hpp:34-43).                                            *)
THEOREM AllocFailsOnlyIfExhausted == Spec => []AllocFailureIsReal
<1>1. Init => FreePacketAhead
  BY DEF Init, FreePacketAhead
<1>2. TypeOK /\ FreePacketAhead /\ [Next]_vars => FreePacketAhead'
  <2> SUFFICES ASSUME TypeOK, FreePacketAhead, [Next]_vars,
                      pcP' = "alloc", ~exhausted'
               PROVE  \E p \in slot'..Size : ~used'[p]
    BY DEF FreePacketAhead
  <2>1. CASE StartScan
    BY <2>1 DEF StartScan
  <2>2. CASE ScanUsed
    <3>1. PICK p \in slot..Size : ~used[p]
      BY <2>2 DEF ScanUsed, FreePacketAhead
    <3>2. p # slot /\ slot' = slot + 1 /\ used' = used /\ slot \in Int
      BY <2>2, <3>1 DEF ScanUsed, TypeOK
    <3>3. p \in slot'..Size
      BY <3>1, <3>2, QueueAssumption
    <3> QED BY <3>1, <3>2, <3>3
  <2>3. CASE Release
    <3>1. PICK p \in slot..Size : ~used[p]
      BY <2>3 DEF Release, FreePacketAhead
    <3>2. ~used'[p] /\ slot' = slot
      BY <2>3, <3>1 DEF Release, Free, TypeOK
    <3> QED BY <3>1, <3>2
  <2>4. CASE pcP = "alloc" /\ UNCHANGED <<used, slot, exhausted>>
    BY <2>4 DEF FreePacketAhead
  <2>5. StartScan \/ ScanUsed \/ Release
          \/ (pcP = "alloc" /\ UNCHANGED <<used, slot, exhausted>>)
    BY DEF Next, PushStep, PopStep, vars, PushCall, PushTimeout, ScanFree,
           Claim, AllocFailed, Slept, ActionOk, ActionFailed, Enqueue, Notify,
           PopCall, PollHit, PollMiss, PopAction, EnterWait, Notified,
           SpuriousWakeup, TimedOut
  <2> QED BY <2>1, <2>2, <2>3, <2>4, <2>5
<1>3. TypeOK /\ FreePacketAhead => AllocFailureIsReal
  BY QueueAssumption DEF FreePacketAhead, AllocFailureIsReal, TypeOK
<1> QED BY <1>1, <1>2, <1>3, TypeCorrect, PTL DEF Spec

(* A scan is started only while less than blockWait was slept.             *)
ScanInTime == (pcP \in {"alloc", "claim"}) => tw < BlockWait

(* push() starts no sleep once it slept for blockWait, and no sleep longer *)
(* than 100 ms (packet_queue.hpp:50, 75-78).                               *)
THEOREM BackoffIsBounded == Spec => []BackoffBounded
<1> DEFINE I == ScanInTime /\ BackoffBounded
<1>1. Init => I
  BY DEF Init, ScanInTime, BackoffBounded
<1>2. TypeOK /\ I /\ [Next]_vars => I'
  <2> SUFFICES ASSUME TypeOK, I, [Next]_vars
               PROVE  I'
    OBVIOUS
  <2>1. CASE AllocFailed
    <3>1. /\ wait' = IF wait < 100 THEN wait ELSE 100
          /\ tw' = tw + wait' /\ pcP' = "sleep" /\ tw < BlockWait
          /\ wait \in Nat /\ tw \in Nat /\ BlockWait \in Nat
      BY <2>1, QueueAssumption DEF AllocFailed, TypeOK, ScanInTime
    <3>2. wait' \in Nat /\ wait' <= 100 /\ tw' - wait' = tw
      BY <3>1
    <3> QED BY <3>1, <3>2 DEF ScanInTime, BackoffBounded
  <2>2. CASE StartScan
    BY <2>2 DEF StartScan, ScanInTime, BackoffBounded
  <2>3. CASE pcP' \notin {"alloc", "claim", "sleep"}
    BY <2>3 DEF ScanInTime, BackoffBounded
  <2>4. CASE ScanUsed \/ ScanFree
    BY <2>4 DEF ScanUsed, ScanFree, ScanInTime, BackoffBounded
  <2>5. CASE UNCHANGED <<pcP, wait, tw>>
    BY <2>5 DEF ScanInTime, BackoffBounded
  <2>6. AllocFailed \/ StartScan \/ pcP' \notin {"alloc", "claim", "sleep"}
          \/ ScanUsed \/ ScanFree \/ UNCHANGED <<pcP, wait, tw>>
    BY DEF Next, PushStep, PopStep, vars, PushCall, PushTimeout, Claim,
           Slept, ActionOk, ActionFailed, Enqueue, Notify, PopCall, PollHit,
           PollMiss, PopAction, Release, EnterWait, Notified, SpuriousWakeup,
           TimedOut
  <2> QED BY <2>1, <2>2, <2>3, <2>4, <2>5, <2>6
<1> QED BY <1>1, <1>2, TypeCorrect, PTL DEF Spec
-----------------------------------------------------------------------------
LEMMA BumpValue ==
  ASSUME stat \in [Tracked -> Nat], NEW c, NEW n \in Nat, Bump(c, n),
         NEW k \in Tracked
  PROVE  stat'[k] = IF k = c THEN stat[k] + n ELSE stat[k]
BY DEF Bump

(* Every packet alloc() handed out ends in one of push()'s three counters  *)
(* or is still in its hands (packet_queue.hpp:53-71).                      *)
THEOREM AllocsAreAccounted ==
  ASSUME {"allocOk", "pushOk", "pushActionFailed", "pushFailed"} \subseteq Tracked
  PROVE  Spec => []AllocAccounting
<1>1. Init => AllocAccounting
  BY DEF Init, AllocAccounting, At
<1>2. TypeOK /\ AllocAccounting /\ [Next]_vars => AllocAccounting'
  <2> SUFFICES ASSUME TypeOK, AllocAccounting, [Next]_vars
               PROVE  AllocAccounting'
    OBVIOUS
  <2> USE DEF AllocAccounting, At
  <2>1. /\ stat \in [Tracked -> Nat]
        /\ stat["allocOk"] \in Nat /\ stat["pushOk"] \in Nat
        /\ stat["pushActionFailed"] \in Nat /\ stat["pushFailed"] \in Nat
    BY DEF TypeOK
  <2>2. CASE stat' = stat /\ pcP' = pcP
    BY <2>2
  <2>3. CASE PushCall \/ StartScan \/ ScanUsed \/ ScanFree \/ Slept
    BY <2>3 DEF PushCall, StartScan, ScanUsed, ScanFree, Slept
  <2>4. CASE PushTimeout
    BY <2>1, <2>4, BumpValue DEF PushTimeout
  <2>5. CASE Claim
    BY <2>1, <2>5, BumpValue DEF Claim
  <2>6. CASE AllocFailed
    BY <2>1, <2>6, BumpValue DEF AllocFailed
  <2>7. ASSUME NEW d \in Payloads, ActionOk(d)
        PROVE  AllocAccounting'
    <3>1. Length[d] \in Nat
      BY QueueAssumption
    <3> QED BY <2>1, <2>7, <3>1, BumpValue DEF ActionOk
  <2>8. CASE ActionFailed
    BY <2>1, <2>8, BumpValue DEF ActionFailed
  <2>9. CASE Enqueue
    <3>1. CASE Len(ring) < RingCapacity
      BY <2>9, <3>1 DEF Enqueue
    <3>2. CASE ~(Len(ring) < RingCapacity)
      BY <2>1, <2>9, <3>2, BumpValue DEF Enqueue
    <3> QED BY <3>1, <3>2
  <2>10. CASE Notify
    BY <2>1, <2>10, BumpValue DEF Notify
  <2>11. ASSUME NEW c, NEW n \in Nat, Bump(c, n), pcP' = pcP,
                c \in {"popPacketSize", "popEmpty", "popOk",
                       "popActionFailed", "popTimeout"}
         PROVE  AllocAccounting'
    BY <2>1, <2>11, BumpValue
  <2>12. CASE PollHit
    <3>1. Head(ring) \in 1..Size
      BY <2>12, HeadTailProperties DEF PollHit, TypeOK
    <3>2. size[Head(ring)] \in Nat
      BY <3>1 DEF TypeOK
    <3> QED BY <2>11, <2>12, <3>2 DEF PollHit
  <2>13. CASE PollMiss
    BY <2>11, <2>13 DEF PollMiss
  <2>14. ASSUME NEW ok \in BOOLEAN, PopAction(ok)
         PROVE  AllocAccounting'
    <3>1. CASE ok
      BY <2>11, <2>14, <3>1 DEF PopAction
    <3>2. CASE ~ok
      BY <2>11, <2>14, <3>2 DEF PopAction
    <3> QED BY <3>1, <3>2
  <2>15. CASE TimedOut
    BY <2>11, <2>15 DEF TimedOut
  <2>16. CASE PopCall \/ Release \/ EnterWait \/ Notified \/ SpuriousWakeup
    BY <2>2, <2>16 DEF PopCall, Release, EnterWait, Notified, SpuriousWakeup
  <2>17. CASE UNCHANGED vars
    BY <2>2, <2>17 DEF vars
  <2> QED
    BY <2>3, <2>4, <2>5, <2>6, <2>7, <2>8, <2>9, <2>10, <2>12, <2>13, <2>14,
       <2>15, <2>16, <2>17 DEF Next, PushStep, PopStep
<1> QED BY <1>1, <1>2, TypeCorrect, PTL DEF Spec

(* Every packet push() counted is in the ring, in pop()'s hand, or in one  *)
(* of pop()'s two counters (packet_queue.hpp:58-60, 87-93).                *)
THEOREM FlowIsAccounted ==
  ASSUME {"pushOk", "popOk", "popActionFailed"} \subseteq Tracked
  PROVE  Spec => []FlowAccounting
<1>1. Init => FlowAccounting
  BY DEF Init, FlowAccounting, At
<1>2. TypeOK /\ FlowAccounting /\ [Next]_vars => FlowAccounting'
  <2> SUFFICES ASSUME TypeOK, FlowAccounting, [Next]_vars
               PROVE  FlowAccounting'
    OBVIOUS
  <2> USE DEF FlowAccounting, At
  <2>1. /\ stat \in [Tracked -> Nat] /\ Len(ring) \in Nat
        /\ stat["pushOk"] \in Nat /\ stat["popOk"] \in Nat
        /\ stat["popActionFailed"] \in Nat
    BY LenProperties DEF TypeOK
  <2>2. CASE stat' = stat /\ ring' = ring
                /\ (pcP = "notify") = (pcP' = "notify")
                /\ (pcC = "action") = (pcC' = "action")
    BY <2>2
  <2>3. ASSUME NEW c, NEW n \in Nat, Bump(c, n), ring' = ring,
               c \notin {"pushOk", "popOk", "popActionFailed"},
               (pcP = "notify") = (pcP' = "notify"),
               (pcC = "action") = (pcC' = "action")
        PROVE  FlowAccounting'
    BY <2>1, <2>3, BumpValue
  <2>4. CASE PushCall \/ StartScan \/ ScanUsed \/ ScanFree \/ Slept
    BY <2>2, <2>4 DEF PushCall, StartScan, ScanUsed, ScanFree, Slept
  <2>5. CASE PushTimeout
    BY <2>3, <2>5 DEF PushTimeout
  <2>6. CASE Claim
    BY <2>3, <2>6 DEF Claim
  <2>7. CASE AllocFailed
    BY <2>3, <2>7 DEF AllocFailed
  <2>8. ASSUME NEW d \in Payloads, ActionOk(d)
        PROVE  FlowAccounting'
    <3>1. Length[d] \in Nat
      BY QueueAssumption
    <3> QED BY <2>3, <2>8, <3>1 DEF ActionOk
  <2>9. CASE ActionFailed
    BY <2>3, <2>9 DEF ActionFailed
  <2>10. CASE Enqueue
    <3>1. CASE Len(ring) < RingCapacity
      <4>1. ring' = Append(ring, slot) /\ slot \in Packets
        BY <2>10, <3>1 DEF Enqueue, TypeOK
      <4>2. Len(ring') = Len(ring) + 1
        BY <4>1, QueuedAfterPush
      <4> QED BY <2>1, <2>10, <3>1, <4>2 DEF Enqueue
    <3>2. CASE ~(Len(ring) < RingCapacity)
      BY <2>3, <2>10, <3>2 DEF Enqueue
    <3> QED BY <3>1, <3>2
  <2>11. CASE Notify
    BY <2>1, <2>11, BumpValue DEF Notify
  <2>12. CASE PollHit
    <3>1. Head(ring) \in 1..Size
      BY <2>12, HeadTailProperties DEF PollHit, TypeOK
    <3>2. size[Head(ring)] \in Nat
      BY <3>1 DEF TypeOK
    <3>3. Len(ring') = Len(ring) - 1
      BY <2>12, QueuedAfterPop DEF PollHit
    <3>4. /\ stat'["pushOk"] = stat["pushOk"] /\ stat'["popOk"] = stat["popOk"]
          /\ stat'["popActionFailed"] = stat["popActionFailed"]
      BY <2>1, <2>12, <3>2, BumpValue DEF PollHit
    <3> QED BY <2>1, <2>12, <3>3, <3>4 DEF PollHit
  <2>13. CASE PollMiss
    BY <2>3, <2>13 DEF PollMiss
  <2>14. ASSUME NEW ok \in BOOLEAN, PopAction(ok)
         PROVE  FlowAccounting'
    <3>1. CASE ok
      BY <2>1, <2>14, <3>1, BumpValue DEF PopAction
    <3>2. CASE ~ok
      BY <2>1, <2>14, <3>2, BumpValue DEF PopAction
    <3> QED BY <3>1, <3>2
  <2>15. CASE TimedOut
    BY <2>3, <2>15 DEF TimedOut
  <2>16. CASE PopCall \/ Release \/ EnterWait \/ Notified \/ SpuriousWakeup
    BY <2>2, <2>16 DEF PopCall, Release, EnterWait, Notified, SpuriousWakeup
  <2>17. CASE UNCHANGED vars
    BY <2>2, <2>17 DEF vars
  <2> QED
    BY <2>4, <2>5, <2>6, <2>7, <2>8, <2>9, <2>10, <2>11, <2>12, <2>13, <2>14,
       <2>15, <2>16, <2>17 DEF Next, PushStep, PopStep
<1> QED BY <1>1, <1>2, TypeCorrect, PTL DEF Spec
-----------------------------------------------------------------------------
(* The sums that make up Bytes.                                            *)
Sums(queue, sizes, sum) ==
  /\ sum \in [0..Len(queue) -> Nat]
  /\ sum[0] = 0
  /\ \A i \in 1..Len(queue) : sum[i] = sum[i - 1] + sizes[queue[i]]

LEMMA SumsExist ==
  ASSUME NEW queue \in Seq(Packets), NEW sizes \in [Packets -> Nat]
  PROVE  \E sum : Sums(queue, sizes, sum) /\ Bytes(queue, sizes) = sum[Len(queue)]
<1> DEFINE n == Len(queue)
           step == [i \in 1..n |-> [m \in Nat |-> m + sizes[queue[i]]]]
           IsSum(g) == g = [i \in 0..n |-> IF i = 0 THEN 0
                                          ELSE g[i - 1] + sizes[queue[i]]]
           sum == CHOOSE g : IsSum(g)
<1>1. n \in Nat /\ \A i \in 1..n : queue[i] \in Packets
  BY ElementOfSeq, LenProperties
<1>2. step \in [1..n -> [Nat -> Nat]]
  BY <1>1
<1>3. PICK g \in [0..n -> Nat] : Follows(g, n, 0, step)
  <2>1. n \in Nat /\ 0 \in Nat
    BY <1>1
  <2> HIDE DEF step, n
  <2> QED BY <1>2, <2>1, RecursionExists
<1>4. g[0] = 0 /\ \A i \in 1..n : g[i] = g[i - 1] + sizes[queue[i]]
  <2>1. \A i \in 1..n : g[i] = step[i][g[i - 1]] /\ g[i - 1] \in Nat
    <3> HIDE DEF step
    <3>1. \A i \in 1..n : i - 1 \in 0..n
      BY <1>1
    <3> HIDE DEF n
    <3>2. \A i \in 1..n : g[i - 1] \in Nat
      BY <1>3, <3>1
    <3>3. \A i \in 1..n : g[i] = step[i][g[i - 1]]
      BY <1>3 DEF Follows
    <3> QED BY <3>2, <3>3
  <2>2. g[0] = 0
    BY <1>3 DEF Follows
  <2> HIDE DEF n
  <2> QED BY <2>1, <2>2
<1>5. IsSum(g)
  <2> HIDE DEF step
  <2>1. \A i \in 0..n : g[i] = IF i = 0 THEN 0 ELSE g[i - 1] + sizes[queue[i]]
    BY <1>1, <1>4
  <2> QED BY <1>3, <2>1
<1>6. IsSum(sum)
  <2> HIDE DEF IsSum
  <2> QED BY <1>5
<1>7. Sums(queue, sizes, sum)
  <2> HIDE DEF sum
  <2>1. \A i \in 0..n : sum[i] = IF i = 0 THEN 0 ELSE sum[i - 1] + sizes[queue[i]]
    BY <1>6
  <2>2. sum[0] = 0 /\ \A i \in 1..n : sum[i] = sum[i - 1] + sizes[queue[i]]
    BY <1>1, <2>1
  <2>3. \A i \in 0..n : i \in {k \in 0..n : sum[k] \in Nat}
    <3> DEFINE T == {k \in 0..n : sum[k] \in Nat}
    <3>1. 0 \in T
      BY <1>1, <2>2
    <3>2. \A i \in 1..n : i - 1 \in T => i \in T
      BY <1>1, <2>2
    <3> HIDE DEF T
    <3>3. \A i \in 0..n : i \in T
      BY <1>1, <3>1, <3>2, SetInduction
    <3> QED BY <3>3 DEF T
  <2>4. sum \in [0..n -> Nat]
    BY <1>6, <2>3
  <2> QED BY <2>2, <2>4 DEF Sums
<1>8. Bytes(queue, sizes) = sum[n]
  BY DEF Bytes
<1> QED BY <1>7, <1>8

LEMMA BytesOfNone == ASSUME NEW sizes \in [Packets -> Nat] PROVE Bytes(<<>>, sizes) = 0
<1>1. <<>> \in Seq(Packets) /\ Len(<<>>) = 0
  BY EmptySeq
<1> QED BY <1>1, SumsExist DEF Sums

(* Bytes adds up the sizes of the packets and looks at nothing else.       *)
LEMMA BytesOfSame ==
  ASSUME NEW queue \in Seq(Packets),
         NEW sizes \in [Packets -> Nat], NEW others \in [Packets -> Nat],
         \A i \in 1..Len(queue) : others[queue[i]] = sizes[queue[i]]
  PROVE  Bytes(queue, others) = Bytes(queue, sizes)
<1> DEFINE n == Len(queue)
<1>1. PICK s : Sums(queue, sizes, s) /\ Bytes(queue, sizes) = s[n]
  BY SumsExist
<1>2. PICK t : Sums(queue, others, t) /\ Bytes(queue, others) = t[n]
  BY SumsExist
<1>3. n \in Nat
  BY LenProperties
<1> DEFINE T == {i \in 0..n : t[i] = s[i]}
<1>4. 0 \in T /\ \A i \in 1..n : i - 1 \in T => i \in T
  BY <1>1, <1>2, <1>3 DEF Sums
<1> HIDE DEF T
<1>5. n \in T
  <2>1. \A i \in 0..n : i \in T
    BY <1>3, <1>4, SetInduction
  <2> QED BY <1>3, <2>1
<1> QED BY <1>1, <1>2, <1>5 DEF T

LEMMA BytesAfterPush ==
  ASSUME NEW queue \in Seq(Packets), NEW sizes \in [Packets -> Nat], NEW p \in Packets
  PROVE  Bytes(Append(queue, p), sizes) = Bytes(queue, sizes) + sizes[p]
<1> DEFINE n == Len(queue)
           q == Append(queue, p)
<1>1. /\ n \in Nat /\ q \in Seq(Packets) /\ Len(q) = n + 1
      /\ \A i \in 1..n : q[i] = queue[i]
      /\ q[n + 1] = p
  BY AppendProperties, LenProperties
<1>2. PICK s : Sums(queue, sizes, s) /\ Bytes(queue, sizes) = s[n]
  BY SumsExist
<1> HIDE DEF q
<1>3. PICK t : Sums(q, sizes, t) /\ Bytes(q, sizes) = t[n + 1]
  BY <1>1, SumsExist
<1> DEFINE T == {i \in 0..n : t[i] = s[i]}
<1>4. 0 \in T /\ \A i \in 1..n : i - 1 \in T => i \in T
  <2>1. 0 \in T
    BY <1>1, <1>2, <1>3 DEF Sums
  <2>2. ASSUME NEW i \in 1..n, i - 1 \in T
        PROVE  i \in T
    <3>1. s[i] = s[i - 1] + sizes[queue[i]]
      BY <1>2 DEF Sums
    <3>2. i \in 1..Len(q) /\ i \in 0..n /\ q[i] = queue[i]
      BY <1>1
    <3>3. t[i] = t[i - 1] + sizes[q[i]]
      BY <1>3, <3>2 DEF Sums
    <3>4. t[i - 1] = s[i - 1]
      BY <2>2
    <3> QED BY <3>1, <3>2, <3>3, <3>4
  <2> QED BY <2>1, <2>2
<1> HIDE DEF T
<1>5. n \in T
  <2>1. \A i \in 0..n : i \in T
    BY <1>1, <1>4, SetInduction
  <2> QED BY <1>1, <2>1
<1>6. t[n + 1] = t[n] + sizes[q[n + 1]]
  <2>1. n + 1 \in 1..Len(q) /\ (n + 1) - 1 = n
    BY <1>1
  <2> QED BY <1>3, <2>1 DEF Sums
<1> QED BY <1>1, <1>2, <1>3, <1>5, <1>6 DEF T, q

LEMMA BytesAfterPop ==
  ASSUME NEW queue \in Seq(Packets), NEW sizes \in [Packets -> Nat], queue # <<>>
  PROVE  Bytes(queue, sizes) = Bytes(Tail(queue), sizes) + sizes[Head(queue)]
<1> DEFINE n == Len(queue)
           q == Tail(queue)
<1>1. /\ n \in Nat /\ n > 0 /\ q \in Seq(Packets) /\ Len(q) = n - 1
      /\ \A i \in 1..n - 1 : q[i] = queue[i + 1]
      /\ Head(queue) = queue[1] /\ queue[1] \in Packets
  <2>1. /\ n \in Nat /\ n > 0 /\ Len(q) = n - 1
        /\ \A i \in 1..Len(q) : q[i] = queue[i + 1]
        /\ Head(queue) = queue[1]
    BY HeadTailProperties, LenProperties, EmptySeq
  <2>2. q \in Seq(Packets) /\ Head(queue) \in Packets
    BY HeadTailProperties
  <2> QED BY <2>1, <2>2
<1>2. PICK s : Sums(queue, sizes, s) /\ Bytes(queue, sizes) = s[n]
  BY SumsExist
<1> HIDE DEF q
<1>3. PICK t : Sums(q, sizes, t) /\ Bytes(q, sizes) = t[n - 1]
  BY <1>1, SumsExist
<1> DEFINE T == {i \in 0..n - 1 : s[i + 1] = t[i] + sizes[queue[1]]}
<1>4. 0 \in T
  <2>1. 1 \in 1..n /\ s[1] = s[1 - 1] + sizes[queue[1]] /\ s[0] = 0
    BY <1>1, <1>2 DEF Sums
  <2>2. t[0] = 0 /\ 0 \in 0..n - 1
    BY <1>1, <1>3 DEF Sums
  <2> QED BY <1>1, <2>1, <2>2
<1>5. ASSUME NEW i \in 1..n - 1, i - 1 \in T
      PROVE  i \in T
  <2>1. i \in 0..n - 1 /\ i + 1 \in 1..n /\ i - 1 \in 0..n - 1
    BY <1>1
  <2>2. s[i + 1] = s[i] + sizes[queue[i + 1]]
    <3>1. (i + 1) - 1 = i
      OBVIOUS
    <3> QED BY <1>2, <2>1, <3>1 DEF Sums
  <2>3. t[i] = t[i - 1] + sizes[queue[i + 1]]
    BY <1>1, <1>3 DEF Sums
  <2>4. s[i] = t[i - 1] + sizes[queue[1]]
    <3>1. (i - 1) + 1 = i
      OBVIOUS
    <3> QED BY <1>5, <3>1
  <2>5. t[i - 1] \in Nat /\ sizes[queue[1]] \in Nat /\ sizes[queue[i + 1]] \in Nat
    BY <1>1, <1>3, <2>1, ElementOfSeq DEF Sums
  <2> QED BY <2>1, <2>2, <2>3, <2>4, <2>5
<1> HIDE DEF T
<1>6. n - 1 \in T
  <2>1. n - 1 \in Nat /\ n - 1 \in 0..n - 1
    BY <1>1
  <2> QED BY <1>4, <1>5, <2>1, SetInduction
<1> QED BY <1>1, <1>2, <1>3, <1>6 DEF T, q

(* What push() counted is what pop() counted and what is in between        *)
(* (packet_queue.hpp:56-57, 89).                                           *)
THEOREM BytesAreAccounted ==
  ASSUME {"pushPacketSize", "popPacketSize"} \subseteq Tracked
  PROVE  Spec => []ByteAccounting
<1>1. Init => ByteAccounting
  <2> SUFFICES ASSUME Init PROVE ByteAccounting
    OBVIOUS
  <2>1. size \in [Packets -> Nat] /\ ring = <<>> /\ pcP = "idle"
    BY DEF Init
  <2>2. stat["pushPacketSize"] = 0 /\ stat["popPacketSize"] = 0
    BY DEF Init
  <2> QED BY <2>1, <2>2, BytesOfNone DEF ByteAccounting
<1>2. TypeOK /\ Ownership /\ RingNeverFull /\ ByteAccounting /\ [Next]_vars => ByteAccounting'
  <2> SUFFICES ASSUME TypeOK, Ownership, RingNeverFull, ByteAccounting, [Next]_vars
               PROVE  ByteAccounting'
    OBVIOUS
  <2>1. /\ stat \in [Tracked -> Nat] /\ ring \in Seq(Packets) /\ size \in [Packets -> Nat]
        /\ stat["pushPacketSize"] \in Nat /\ stat["popPacketSize"] \in Nat
        /\ Bytes(ring, size) \in Nat
    <3>1. ring \in Seq(Packets) /\ size \in [Packets -> Nat]
      BY DEF TypeOK
    <3>2. PICK sum : Sums(ring, size, sum) /\ Bytes(ring, size) = sum[Len(ring)]
      BY <3>1, SumsExist
    <3>3. Len(ring) \in 0..Len(ring)
      BY <3>1, LenProperties
    <3>4. sum[Len(ring)] \in Nat
      BY <3>2, <3>3 DEF Sums
    <3> QED BY <3>1, <3>2, <3>4 DEF TypeOK
  <2>2. CASE stat' = stat /\ ring' = ring /\ size' = size
                /\ pcP # "enqueue" /\ pcP' # "enqueue"
    BY <2>2 DEF ByteAccounting
  <2>3. ASSUME NEW c, NEW n \in Nat, Bump(c, n), ring' = ring, size' = size,
               c \notin {"pushPacketSize", "popPacketSize"},
               (pcP = "enqueue") = (pcP' = "enqueue"), slot' = slot \/ pcP # "enqueue"
        PROVE  ByteAccounting'
    <3>1. /\ stat'["pushPacketSize"] = stat["pushPacketSize"]
          /\ stat'["popPacketSize"] = stat["popPacketSize"]
      BY <2>1, <2>3, BumpValue
    <3> QED BY <2>3, <3>1 DEF ByteAccounting
  <2>4. CASE stat' = stat /\ ring' = ring /\ size' = size /\ pcP' = pcP /\ slot' = slot
    BY <2>4 DEF ByteAccounting
  <2>5. CASE PushCall \/ StartScan \/ ScanUsed \/ ScanFree \/ Slept
    BY <2>2, <2>5 DEF PushCall, StartScan, ScanUsed, ScanFree, Slept
  <2>6. CASE PushTimeout \/ Claim \/ AllocFailed \/ ActionFailed
    BY <2>3, <2>6 DEF PushTimeout, Claim, AllocFailed, ActionFailed
  <2>7. ASSUME NEW d \in Payloads, ActionOk(d)
        PROVE  ByteAccounting'
    <3>1. Length[d] \in Nat /\ slot \in Packets /\ slot \notin Queued
      BY <2>7, QueueAssumption DEF ActionOk, TypeOK, Ownership, ProducersPacket
    <3>2. size' \in [Packets -> Nat] /\ size'[slot] = Length[d]
          /\ \A i \in 1..Len(ring) : size'[ring[i]] = size[ring[i]]
      BY <2>1, <2>7, <3>1, ElementOfSeq DEF ActionOk, Queued
    <3>3. Bytes(ring, size') = Bytes(ring, size) /\ ring' = ring
      BY <2>1, <2>7, <3>2, BytesOfSame DEF ActionOk
    <3>4. /\ stat'["pushPacketSize"] = stat["pushPacketSize"] + Length[d]
          /\ stat'["popPacketSize"] = stat["popPacketSize"]
      BY <2>1, <2>7, <3>1, BumpValue DEF ActionOk
    <3>5. pcP = "action" /\ pcP' = "enqueue" /\ slot' = slot
      BY <2>7 DEF ActionOk
    <3> QED BY <2>1, <3>1, <3>2, <3>3, <3>4, <3>5 DEF ByteAccounting
  <2>8. CASE Enqueue
    <3>1. /\ ring' = Append(ring, slot) /\ slot \in Packets /\ stat' = stat
          /\ size' = size /\ pcP = "enqueue" /\ pcP' = "notify"
      BY <2>8 DEF Enqueue, TypeOK, RingNeverFull
    <3>2. Bytes(ring', size) = Bytes(ring, size) + size[slot]
      BY <2>1, <3>1, BytesAfterPush
    <3>3. size[slot] \in Nat
      BY <2>1, <3>1
    <3> QED BY <2>1, <3>1, <3>2, <3>3 DEF ByteAccounting
  <2>9. CASE Notify
    BY <2>3, <2>9 DEF Notify
  <2>10. CASE PollHit
    <3>1. Head(ring) \in Packets /\ size[Head(ring)] \in Nat
      BY <2>1, <2>10, HeadTailProperties DEF PollHit
    <3>2. /\ stat'["pushPacketSize"] = stat["pushPacketSize"]
          /\ stat'["popPacketSize"] = stat["popPacketSize"] + size[Head(ring)]
      BY <2>1, <2>10, <3>1, BumpValue DEF PollHit
    <3>3. Bytes(ring, size) = Bytes(ring', size) + size[Head(ring)]
      BY <2>1, <2>10, BytesAfterPop DEF PollHit
    <3>4. Bytes(ring', size) \in Nat
      <4>1. ring' \in Seq(Packets) /\ Len(ring') \in 0..Len(ring')
        BY <2>1, <2>10, HeadTailProperties, LenProperties DEF PollHit
      <4> QED BY <2>1, <4>1, SumsExist DEF Sums
    <3>5. size' = size /\ pcP' = pcP /\ slot' = slot
      BY <2>10 DEF PollHit
    <3>6. CASE pcP = "enqueue"
      <4>1. size[slot] \in Nat
        BY <2>1, <3>6 DEF TypeOK
      <4> QED BY <2>1, <3>1, <3>2, <3>3, <3>4, <3>5, <3>6, <4>1 DEF ByteAccounting
    <3>7. CASE pcP # "enqueue"
      BY <2>1, <3>1, <3>2, <3>3, <3>4, <3>5, <3>7 DEF ByteAccounting
    <3> QED BY <3>6, <3>7
  <2>11. CASE PollMiss \/ TimedOut \/ \E ok \in BOOLEAN : PopAction(ok)
    BY <2>3, <2>11 DEF PollMiss, TimedOut, PopAction
  <2>12. CASE PopCall \/ Release \/ EnterWait \/ Notified \/ SpuriousWakeup
    BY <2>4, <2>12 DEF PopCall, Release, EnterWait, Notified, SpuriousWakeup
  <2>13. CASE UNCHANGED vars
    BY <2>4, <2>13 DEF vars
  <2> QED
    BY <2>5, <2>6, <2>7, <2>8, <2>9, <2>10, <2>11, <2>12, <2>13
       DEF Next, PushStep, PopStep
<1> QED BY <1>1, <1>2, TypeCorrect, OneOwner, RingNeverFills, PTL DEF Spec
-----------------------------------------------------------------------------
(* Packets that carry a message: filled, queued, or being worked on.       *)
Loaded ==
  Queued \cup (IF pcP = "enqueue" THEN {slot} ELSE {})
         \cup (IF pcC = "action" THEN {pkt} ELSE {})

(* A loaded packet's buffer and size field belong together.                *)
Carried == \A p \in Loaded : MessageIn(p) \in Messages

LEMMA CarriedInit == Init => Carried
BY DEF Init, Carried, Loaded, Queued

LEMMA CarriedStep == TypeOK /\ Ownership /\ Carried /\ [Next]_vars => Carried'
<1> SUFFICES ASSUME TypeOK, Ownership, Carried, [Next]_vars
             PROVE  Carried'
  OBVIOUS
<1>1. CASE Loaded' \subseteq Loaded /\ UNCHANGED <<buf, size>>
  BY <1>1 DEF Carried, MessageIn
<1>2. ASSUME NEW d \in Payloads, ActionOk(d)
      PROVE  Carried'
  <2>1. /\ slot \in 1..Size /\ slot' = slot
        /\ buf' = [buf EXCEPT ![slot] = d]
        /\ size' = [size EXCEPT ![slot] = Length[d]]
        /\ Loaded' = Loaded \cup {slot} /\ slot \notin Loaded
    BY <1>2 DEF ActionOk, TypeOK, Loaded, Queued, Ownership, ProducersPacket,
                ConsumersPacket
  <2>2. Loaded \subseteq Packets
    BY QueuedArePackets DEF Loaded, TypeOK
  <2>3. MessageIn(slot)' = [buf |-> d, size |-> Length[d]]
    BY <2>1 DEF MessageIn, TypeOK
  <2>4. MessageIn(slot)' \in Messages
    BY <2>3 DEF Messages
  <2>5. \A p \in Loaded : MessageIn(p)' = MessageIn(p)
    BY <2>1, <2>2 DEF MessageIn, TypeOK
  <2> QED BY <2>1, <2>4, <2>5 DEF Carried
<1>3. CASE Enqueue
  <2>1. UNCHANGED <<buf, size, pcC, pkt>> /\ slot \in Packets
    BY <1>3 DEF Enqueue, TypeOK
  <2>2. CASE Len(ring) < RingCapacity
    BY <1>3, <2>1, <2>2, <1>1, QueuedAfterPush DEF Enqueue, Loaded
  <2>3. CASE ~(Len(ring) < RingCapacity)
    BY <1>3, <2>1, <2>3, <1>1 DEF Enqueue, Loaded, Queued
  <2> QED BY <2>2, <2>3
<1>4. CASE PollHit
  BY <1>1, <1>4, QueuedAfterPop DEF PollHit, Loaded
<1>5. CASE PushCall \/ PushTimeout \/ StartScan \/ ScanUsed \/ ScanFree
             \/ Claim \/ AllocFailed \/ Slept
  BY <1>1, <1>5 DEF PushCall, PushTimeout, StartScan, ScanUsed, ScanFree,
     Claim, AllocFailed, Slept, Loaded, Queued
<1>6. CASE ActionFailed \/ Notify
  BY <1>1, <1>6 DEF ActionFailed, Notify, Loaded, Queued
<1>7. ASSUME NEW ok \in BOOLEAN, PopAction(ok)
      PROVE  Carried'
  BY <1>1, <1>7 DEF PopAction, Loaded, Queued
<1>8. CASE PopCall \/ PollMiss \/ Release \/ EnterWait \/ Notified
             \/ SpuriousWakeup \/ TimedOut
  BY <1>1, <1>8 DEF PopCall, PollMiss, Release, EnterWait, Notified,
     SpuriousWakeup, TimedOut, Loaded, Queued
<1>9. CASE UNCHANGED vars
  BY <1>1, <1>9 DEF vars, Loaded, Queued
<1> QED
  BY <1>2, <1>3, <1>4, <1>5, <1>6, <1>7, <1>8, <1>9
     DEF Next, PushStep, PopStep
-----------------------------------------------------------------------------
(* The contents of the ring and of the consumer's hand, as the abstract    *)
(* channel sees them.                                                      *)
Contents == [i \in 1..Len(ring) |-> MessageIn(ring[i])]
Handed == IF pcC = "action" THEN MessageIn(pkt) ELSE NoData

(* A step that touches no loaded packet, nor the ring, nor the hand.       *)
LEMMA SameChannel ==
  ASSUME ring' = ring, Handed' = Handed,
         \A p \in Queued : MessageIn(p)' = MessageIn(p)
  PROVE  UNCHANGED Chan!vars
<1>1. \A i \in 1..Len(ring) : MessageIn(ring[i])' = MessageIn(ring[i])
  BY DEF Queued, MessageIn
<1>2. Contents' = Contents
  BY <1>1 DEF Contents
<1> QED BY <1>2 DEF Chan!vars, Contents, Handed

(* push() accepts the packet's message.                                    *)
LEMMA PushAccepts ==
  ASSUME TypeOK, Ownership, Carried, Enqueue, Len(ring) < RingCapacity
  PROVE  Chan!Accept(MessageIn(slot))
<1>1. /\ ring' = Append(ring, slot) /\ slot \in 1..Size /\ pcP = "enqueue"
      /\ UNCHANGED <<buf, size, slot, pcC, pkt>>
  BY DEF Enqueue, TypeOK
<1>2. /\ Len(ring) \in Nat /\ Len(ring') = Len(ring) + 1
      /\ \A i \in 1..Len(ring) : ring'[i] = ring[i]
      /\ ring'[Len(ring) + 1] = slot
  BY <1>1, QueuedAfterPush
<1>3. Contents \in Seq(Messages) /\ Len(Contents) = Len(ring)
  <2>1. \A i \in 1..Len(ring) : MessageIn(ring[i]) \in Messages
    BY DEF Carried, Loaded, Queued
  <2> QED BY <1>2, <2>1 DEF Contents
<1>4. MessageIn(slot) \in Messages
  BY <1>1 DEF Carried, Loaded
<1>5. Contents' = Append(Contents, MessageIn(slot))
  <2>1. Contents' = [i \in 1..(Len(ring) + 1) |-> MessageIn(ring'[i])]
    BY <1>1, <1>2 DEF Contents, MessageIn
  <2> QED BY <1>2, <1>3, <1>4, <2>1 DEF Contents
<1>6. Handed' = Handed
  BY <1>1 DEF Handed, MessageIn
<1>7. Len(Contents) + (IF Handed = NoData THEN 0 ELSE 1) < Size
  <2>1. Len(ring) + Cardinality(ConsumersPacket) < Size
    BY <1>1, RoomToPush
  <2>2. (IF Handed = NoData THEN 0 ELSE 1) <= Cardinality(ConsumersPacket)
    BY InHand DEF Handed
  <2>3. Cardinality(ConsumersPacket) \in Nat
    BY InHand
  <2> QED BY <1>2, <1>3, <2>1, <2>2, <2>3, QueueAssumption
<1> QED BY <1>5, <1>6, <1>7 DEF Chan!Accept, Chan!Outstanding, Contents, Handed

(* pop() takes the oldest message.                                         *)
LEMMA PopTakes ==
  ASSUME TypeOK, Carried, PollHit
  PROVE  Chan!Take
<1>1. /\ ring # <<>> /\ ring' = Tail(ring) /\ pkt' = Head(ring)
      /\ pcC = "poll" /\ pcC' = "action" /\ UNCHANGED <<buf, size>>
  BY DEF PollHit
<1>2. /\ Len(ring) \in Nat \ {0} /\ Len(ring') = Len(ring) - 1
      /\ \A i \in 1..Len(ring') : ring'[i] = ring[i + 1]
      /\ Head(ring) = ring[1]
  BY <1>1, QueuedAfterPop
<1>3. Contents \in Seq(Messages) /\ Len(Contents) = Len(ring)
  <2>1. \A i \in 1..Len(ring) : MessageIn(ring[i]) \in Messages
    BY DEF Carried, Loaded, Queued
  <2> QED BY <1>2, <2>1 DEF Contents
<1>4. Contents # <<>>
  BY <1>2, <1>3
<1>5. Handed = NoData /\ Handed' = Head(Contents)
  BY <1>1, <1>2, <1>3 DEF Handed, Contents, MessageIn
<1>6. Contents' = Tail(Contents)
  <2>1. Contents' = [i \in 1..(Len(ring) - 1) |-> MessageIn(ring[i + 1])]
    BY <1>1, <1>2 DEF Contents, MessageIn
  <2> QED BY <1>2, <1>3, <2>1 DEF Contents
<1> QED BY <1>4, <1>5, <1>6 DEF Chan!Take, Contents, Handed

(* The queue implements the bounded first-in first-out channel: nothing is *)
(* lost, repeated, reordered or changed between the two actions            *)
(* (packet_queue.hpp:49-109).                                              *)
THEOREM QueueImplementsChannel == Spec => ImplementsChannel
<1>1. Init => Chan!Init
  BY DEF Init, Chan!Init
<1>2. TypeOK /\ Ownership /\ Carried /\ [Next]_vars => [Chan!Next]_Chan!vars
  <2> SUFFICES ASSUME TypeOK, Ownership, Carried, [Next]_vars
               PROVE  Chan!Next \/ UNCHANGED Chan!vars
    OBVIOUS
  <2>1. CASE Enqueue
    <3>1. CASE Len(ring) < RingCapacity
      <4>1. Chan!Accept(MessageIn(slot))
        BY <2>1, <3>1, PushAccepts
      <4>2. MessageIn(slot) \in Messages
        BY <2>1 DEF Enqueue, Carried, Loaded
      <4> QED BY <4>1, <4>2 DEF Chan!Next
    <3>2. CASE ~(Len(ring) < RingCapacity)
      BY <2>1, <3>2, SameChannel DEF Enqueue, Handed, MessageIn
    <3> QED BY <3>1, <3>2
  <2>2. CASE PollHit
    BY <2>2, PopTakes DEF Chan!Next
  <2>3. ASSUME NEW ok \in BOOLEAN, PopAction(ok)
        PROVE  Chan!Finish
    <3>1. /\ pcC = "action" /\ pcC' = "free"
          /\ UNCHANGED <<ring, buf, size, pkt>>
      BY <2>3 DEF PopAction
    <3>2. MessageIn(pkt) # NoData
      BY <3>1, QueueAssumption DEF Carried, Loaded
    <3>3. Handed # NoData /\ Handed' = NoData /\ Contents' = Contents
      BY <3>1, <3>2 DEF Handed, Contents, MessageIn
    <3> QED BY <3>3 DEF Chan!Finish, Handed, Contents
  <2>4. ASSUME NEW d \in Payloads, ActionOk(d)
        PROVE  UNCHANGED Chan!vars
    <3>1. /\ pcP = "action" /\ UNCHANGED <<ring, pcC, pkt>>
          /\ buf' = [buf EXCEPT ![slot] = d]
          /\ size' = [size EXCEPT ![slot] = Length[d]]
      BY <2>4 DEF ActionOk
    <3>2. slot \notin Queued /\ (pcC = "action" => pkt # slot)
      BY <3>1 DEF Ownership, ProducersPacket, ConsumersPacket
    <3>3. Queued \subseteq Packets
      BY QueuedArePackets
    <3>4. \A p \in Packets : p # slot => MessageIn(p)' = MessageIn(p)
      BY <3>1 DEF MessageIn, TypeOK
    <3>5. Handed' = Handed
      BY <3>1, <3>2, <3>4 DEF Handed, TypeOK
    <3> QED BY <3>1, <3>2, <3>3, <3>4, <3>5, SameChannel
  <2>5. CASE PushCall \/ PushTimeout \/ StartScan \/ ScanUsed \/ ScanFree
               \/ Claim \/ AllocFailed \/ Slept \/ ActionFailed \/ Notify
    BY <2>5, SameChannel DEF PushCall, PushTimeout, StartScan, ScanUsed,
       ScanFree, Claim, AllocFailed, Slept, ActionFailed, Notify, Handed,
       MessageIn
  <2>6. CASE PopCall \/ PollMiss \/ Release \/ EnterWait \/ Notified
               \/ SpuriousWakeup \/ TimedOut
    BY <2>6, SameChannel DEF PopCall, PollMiss, Release, EnterWait, Notified,
       SpuriousWakeup, TimedOut, Handed, MessageIn
  <2>7. CASE UNCHANGED vars
    BY <2>7, SameChannel DEF vars, Handed, MessageIn
  <2> QED
    BY <2>1, <2>2, <2>3, <2>4, <2>5, <2>6, <2>7
       DEF Next, PushStep, PopStep, Chan!Next
<1>3. Spec => []Carried
  BY CarriedInit, CarriedStep, TypeCorrect, OneOwner, PTL DEF Spec
<1> QED
  BY <1>1, <1>2, <1>3, TypeCorrect, OneOwner, PTL
     DEF Spec, Chan!Spec, ImplementsChannel
=============================================================================
