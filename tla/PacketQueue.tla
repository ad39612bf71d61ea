---------------------------- MODULE PacketQueue ----------------------------
(***************************************************************************)
(* PacketQueue (src/packet_queue.hpp) with the PacketBuffer pool it        *)
(* allocates from (src/packet_buffer.hpp, src/packet.hpp): one producer    *)
(* thread calls push(), one consumer thread calls pop(), and they share    *)
(* the packets' used flags, the lock-free ring of packet pointers and the  *)
(* condition variable.  The queue's mutex is locked by pop() alone, around *)
(* its timed wait, so it orders nothing and has no variable.               *)
(*                                                                         *)
(* A step is what one thread does between two accesses the other thread    *)
(* can see: one used flag read by the scan, one flag written, one ring     *)
(* operation, the notification, the entry into the wait.                   *)
(*                                                                         *)
(* Time is abstract: sleep_for and wait_for end at any moment.  The        *)
(* backoff arithmetic of push() is kept, in milliseconds.                  *)
(***************************************************************************)
EXTENDS Integers, Sequences, FiniteSets

CONSTANTS
  Size,       \* packets in the pool, and the size the ring is created with
  BlockWait,  \* blockWait: milliseconds push() and pop() block for
  Payloads,   \* what an action can write into a packet's buffer
  Length,     \* the bytes each payload takes, what the action then returns
  NoData,     \* the contents of a buffer nobody wrote yet
  Tracked,    \* the counters of PacketStatistic a model follows
  MaxCount    \* bound: no new call once a followed counter reached it

CounterNames ==
  {"allocFailed", "allocOk", "pushActionFailed", "popActionFailed",
   "pushTimeout", "popTimeout", "pushPacketSize", "popPacketSize",
   "pushOk", "popOk", "popEmpty", "pushFailed"}

(* What a whole packet carries: its buffer and its size field.             *)
Messages == {[buf |-> d, size |-> Length[d]] : d \in Payloads}

ASSUME QueueAssumption ==
  /\ Size \in Nat \ {0}
  /\ BlockWait \in Nat
  /\ Length \in [Payloads -> Nat \ {0}]
  /\ NoData \notin Payloads
  /\ NoData \notin Messages
  /\ Tracked \subseteq CounterNames
  /\ MaxCount \in Nat

VARIABLES
  used,       \* Packet::used of each packet
  size,       \* Packet::size of each packet
  buf,        \* what Packet::buf of each packet holds
  ring,       \* the packets in the ring, oldest first
  pcP,        \* where the producer is in push()
  slot,       \* alloc()'s index, then the packet push() works on
  wait,       \* push(): the length of the next sleep
  tw,         \* push(): the time slept so far
  pcC,        \* where the consumer is in pop()
  pkt,        \* pop(): the packet taken from the ring, 0 when none
  signalled,  \* a notification reached the waiting consumer
  exhausted,  \* history: every packet was in use when the scan started
  stat        \* PacketStatistic::current, the followed counters

shared == <<used, size, buf, ring>>
producer == <<pcP, slot, wait, tw, exhausted>>
consumer == <<pcC, pkt>>
vars == <<used, size, buf, ring, pcP, slot, wait, tw, pcC, pkt, signalled,
          exhausted, stat>>

Packets == 1..Size
ProducerAt == {"idle", "loop", "alloc", "claim", "action", "enqueue",
               "notify", "sleep"}
ConsumerAt == {"idle", "poll", "action", "free", "lock", "wait"}

(* Mutant: a ring that keeps one place empty to tell full from empty.      *)
RingCapacity_OneLess == Size - 1

(* boost's ring buffer, created with q(size): it holds size pointers.      *)
RingCapacity == Size

(* The inc... and add... operations of PacketStatistic.                    *)
Bump(c, n) ==
  stat' = [k \in Tracked |-> IF k = c THEN stat[k] + n ELSE stat[k]]

Free(p) == used' = [used EXCEPT ![p] = FALSE]

(* The bound on the calls of a run that follows counters.                  *)
WithinBound == \A c \in Tracked : stat[c] < MaxCount
-----------------------------------------------------------------------------
(* Construction.                                                           *)

Init ==
  /\ used = [p \in Packets |-> FALSE]
  /\ size = [p \in Packets |-> 0]
  /\ buf = [p \in Packets |-> NoData]
  /\ ring = <<>>
  /\ pcP = "idle" /\ slot = 1 /\ wait = 0 /\ tw = 0
  /\ pcC = "idle" /\ pkt = 0
  /\ signalled = FALSE /\ exhausted = FALSE
  /\ stat = [c \in Tracked |-> 0]
-----------------------------------------------------------------------------
(* The producer: push().                                                   *)

PushCall ==
  /\ pcP = "idle" /\ WithinBound
  /\ pcP' = "loop" /\ wait' = 0 /\ tw' = 0
  /\ UNCHANGED <<shared, slot, exhausted, consumer, signalled, stat>>

(* tw >= blockWait: push() gives up.                                       *)
PushTimeout ==
  /\ pcP = "loop" /\ tw >= BlockWait
  /\ Bump("pushTimeout", 1)
  /\ pcP' = "idle"
  /\ UNCHANGED <<shared, slot, wait, tw, exhausted, consumer, signalled>>

(* Mutant: packets are counted from zero.                                  *)
StartScan_FromZero ==
  /\ pcP = "loop" /\ tw < BlockWait
  /\ pcP' = "alloc" /\ slot' = 0
  /\ exhausted' = (\A p \in Packets : used[p])
  /\ UNCHANGED <<shared, wait, tw, consumer, signalled, stat>>

(* Mutant: the scan skips the first packet.                                *)
StartScan_SkipsFirst ==
  /\ pcP = "loop" /\ tw < BlockWait
  /\ pcP' = "alloc" /\ slot' = 2
  /\ exhausted' = (\A p \in Packets : used[p])
  /\ UNCHANGED <<shared, wait, tw, consumer, signalled, stat>>

(* Mutant: the loop runs once more, tw <= blockWait.                       *)
StartScan_OneMoreRound ==
  /\ pcP = "loop" /\ tw <= BlockWait
  /\ pcP' = "alloc" /\ slot' = 1
  /\ exhausted' = (\A p \in Packets : used[p])
  /\ UNCHANGED <<shared, wait, tw, consumer, signalled, stat>>

(* alloc() is called: its scan starts at the first packet.                 *)
StartScan ==
  /\ pcP = "loop" /\ tw < BlockWait
  /\ pcP' = "alloc" /\ slot' = 1
  /\ exhausted' = (\A p \in Packets : used[p])
  /\ UNCHANGED <<shared, wait, tw, consumer, signalled, stat>>

ScanUsed ==
  /\ pcP = "alloc" /\ slot <= Size
  /\ used[slot]
  /\ slot' = slot + 1
  /\ UNCHANGED <<shared, pcP, wait, tw, exhausted, consumer, signalled, stat>>

ScanFree ==
  /\ pcP = "alloc" /\ slot <= Size
  /\ ~used[slot]
  /\ pcP' = "claim"
  /\ UNCHANGED <<shared, slot, wait, tw, exhausted, consumer, signalled, stat>>

(* The flag is written after it was read: two accesses, not one exchange.  *)
Claim ==
  /\ pcP = "claim"
  /\ used' = [used EXCEPT ![slot] = TRUE]
  /\ Bump("allocOk", 1)
  /\ pcP' = "action"
  /\ UNCHANGED <<size, buf, ring, slot, wait, tw, exhausted, consumer,
                 signalled>>

(* Mutant: the time slept is not summed up.                                *)
AllocFailed_ForgetsTime ==
  /\ pcP = "alloc" /\ slot > Size
  /\ Bump("allocFailed", 1)
  /\ wait' = IF wait < 100 THEN wait ELSE 100
  /\ pcP' = "sleep"
  /\ UNCHANGED <<shared, slot, tw, exhausted, consumer, signalled>>

(* alloc() returned 0: push() sleeps, 0, 10, 20, ... at most 100 ms.       *)
AllocFailed ==
  /\ pcP = "alloc" /\ slot > Size
  /\ Bump("allocFailed", 1)
  /\ wait' = IF wait < 100 THEN wait ELSE 100
  /\ tw' = tw + wait'
  /\ pcP' = "sleep"
  /\ UNCHANGED <<shared, slot, exhausted, consumer, signalled>>

Slept ==
  /\ pcP = "sleep"
  /\ wait' = wait + 10
  /\ pcP' = "loop"
  /\ UNCHANGED <<shared, slot, tw, exhausted, consumer, signalled, stat>>

(* Mutant: the returned length is not stored in the packet.                *)
ActionOk_StaleSize(d) ==
  /\ pcP = "action"
  /\ buf' = [buf EXCEPT ![slot] = d]
  /\ Bump("pushPacketSize", Length[d])
  /\ pcP' = "enqueue"
  /\ UNCHANGED <<used, size, ring, slot, wait, tw, exhausted, consumer,
                 signalled>>

(* The caller's action filled the packet and returned its length.          *)
ActionOk(d) ==
  /\ pcP = "action"
  /\ buf' = [buf EXCEPT ![slot] = d]
  /\ size' = [size EXCEPT ![slot] = Length[d]]
  /\ Bump("pushPacketSize", Length[d])
  /\ pcP' = "enqueue"
  /\ UNCHANGED <<used, ring, slot, wait, tw, exhausted, consumer, signalled>>

(* Mutant: the packet is not given back when the action failed.            *)
ActionFailed_Leaks ==
  /\ pcP = "action"
  /\ Bump("pushActionFailed", 1)
  /\ pcP' = "idle"
  /\ UNCHANGED <<shared, slot, wait, tw, exhausted, consumer, signalled>>

(* Mutant: the failed action is not counted.                               *)
ActionFailed_Uncounted ==
  /\ pcP = "action"
  /\ Free(slot)
  /\ pcP' = "idle"
  /\ UNCHANGED <<size, buf, ring, slot, wait, tw, exhausted, consumer,
                 signalled, stat>>

(* The action returned 0 or less: nothing read, device closed, error.      *)
ActionFailed ==
  /\ pcP = "action"
  /\ Free(slot)
  /\ Bump("pushActionFailed", 1)
  /\ pcP' = "idle"
  /\ UNCHANGED <<size, buf, ring, slot, wait, tw, exhausted, consumer,
                 signalled>>

(* q.push(packet).  A full ring gives the packet back.                     *)
Enqueue ==
  /\ pcP = "enqueue"
  /\ IF Len(ring) < RingCapacity
     THEN /\ ring' = Append(ring, slot)
          /\ pcP' = "notify"
          /\ UNCHANGED <<used, stat>>
     ELSE /\ Free(slot)
          /\ Bump("pushFailed", 1)
          /\ pcP' = "idle"
          /\ UNCHANGED ring
  /\ UNCHANGED <<size, buf, slot, wait, tw, exhausted, consumer, signalled>>

(* cond.notify_one() is lost unless the consumer is in its wait.  Nothing  *)
(* another thread can see lies between it, the count and the return.       *)
Notify ==
  /\ pcP = "notify"
  /\ signalled' = (signalled \/ pcC = "wait")
  /\ Bump("pushOk", 1)
  /\ pcP' = "idle"
  /\ UNCHANGED <<shared, slot, wait, tw, exhausted, consumer>>
-----------------------------------------------------------------------------
(* The consumer: pop().                                                    *)

PopCall ==
  /\ pcC = "idle" /\ WithinBound
  /\ pcC' = "poll"
  /\ UNCHANGED <<shared, producer, pkt, signalled, stat>>

(* Mutant: the packet is given back before the action worked on it.        *)
PollHit_FreesEarly ==
  /\ pcC = "poll" /\ ring # <<>>
  /\ pkt' = Head(ring)
  /\ ring' = Tail(ring)
  /\ Free(Head(ring))
  /\ Bump("popPacketSize", size[Head(ring)])
  /\ pcC' = "action"
  /\ UNCHANGED <<size, buf, producer, signalled>>

(* q.pop(&pkt, 1) returned a packet.                                       *)
PollHit ==
  /\ pcC = "poll" /\ ring # <<>>
  /\ pkt' = Head(ring)
  /\ ring' = Tail(ring)
  /\ Bump("popPacketSize", size[Head(ring)])
  /\ pcC' = "action"
  /\ UNCHANGED <<used, size, buf, producer, signalled>>

PollMiss ==
  /\ pcC = "poll" /\ ring = <<>>
  /\ Bump("popEmpty", 1)
  /\ pcC' = "lock"
  /\ UNCHANGED <<shared, producer, pkt, signalled>>

(* Mutant: a packet the consumer's action failed on is not counted.        *)
PopAction_FailureUncounted(ok) ==
  /\ pcC = "action"
  /\ IF ok THEN Bump("popOk", 1) ELSE UNCHANGED stat
  /\ pcC' = "free"
  /\ UNCHANGED <<shared, producer, pkt, signalled>>

(* The caller's action worked on the packet; ok says what it returned.     *)
PopAction(ok) ==
  /\ pcC = "action"
  /\ Bump(IF ok THEN "popOk" ELSE "popActionFailed", 1)
  /\ pcC' = "free"
  /\ UNCHANGED <<shared, producer, pkt, signalled>>

Release ==
  /\ pcC = "free"
  /\ Free(pkt)
  /\ pkt' = 0
  /\ pcC' = "idle"
  /\ UNCHANGED <<size, buf, ring, producer, signalled, stat>>

(* From the missed poll to here a notification is lost.                    *)
EnterWait ==
  /\ pcC = "lock"
  /\ signalled' = FALSE
  /\ pcC' = "wait"
  /\ UNCHANGED <<shared, producer, pkt, stat>>

Notified ==
  /\ pcC = "wait" /\ signalled
  /\ signalled' = FALSE
  /\ pcC' = "poll"
  /\ UNCHANGED <<shared, producer, pkt, stat>>

SpuriousWakeup ==
  /\ pcC = "wait" /\ ~signalled
  /\ pcC' = "poll"
  /\ UNCHANGED <<shared, producer, pkt, signalled, stat>>

(* Mutant: wait() instead of wait_for().                                   *)
TimedOut_Never == FALSE /\ UNCHANGED vars

(* wait_for timed out; a notification may have come just as it did.        *)
TimedOut ==
  /\ pcC = "wait"
  /\ Bump("popTimeout", 1)
  /\ signalled' = FALSE
  /\ pcC' = "idle"
  /\ UNCHANGED <<shared, producer, pkt>>
-----------------------------------------------------------------------------
PushStep ==
  \/ PushTimeout \/ StartScan \/ ScanUsed \/ ScanFree \/ Claim
  \/ AllocFailed \/ Slept
  \/ \E d \in Payloads : ActionOk(d)
  \/ ActionFailed \/ Enqueue \/ Notify

PopStep ==
  \/ PollHit \/ PollMiss
  \/ \E ok \in BOOLEAN : PopAction(ok)
  \/ Release \/ EnterWait \/ Notified

Next ==
  \/ PushCall \/ PushStep
  \/ PopCall \/ PopStep \/ SpuriousWakeup \/ TimedOut

Spec == Init /\ [][Next]_vars

(* What the scheduler owes a thread inside push() or pop(): it goes on.    *)
(* wait_for() ends at its deadline, but pop() restarts it after a spurious *)
(* wakeup, so only strong fairness says that wakeups do not always come    *)
(* first.  Nobody is obliged to call.                                      *)
FairSpec ==
  Spec /\ WF_vars(PushStep) /\ WF_vars(PopStep) /\ SF_vars(TimedOut)
-----------------------------------------------------------------------------
(* Properties.                                                             *)

(* Every variable keeps its type; slot is a packet from claim on.          *)
TypeOK ==
  /\ used \in [Packets -> BOOLEAN]
  /\ size \in [Packets -> Nat]
  /\ buf \in [Packets -> Payloads \cup {NoData}]
  /\ ring \in Seq(Packets)
  /\ pcP \in ProducerAt
  /\ slot \in 1..(Size + 1)
  /\ pcP \in {"claim", "action", "enqueue"} => slot \in Packets
  /\ wait \in Nat
  /\ tw \in Nat
  /\ pcC \in ConsumerAt
  /\ pkt \in Packets \cup {0}
  /\ pkt \in Packets <=> pcC \in {"action", "free"}
  /\ signalled \in BOOLEAN
  /\ exhausted \in BOOLEAN
  /\ stat \in [Tracked -> Nat]

Queued == {ring[i] : i \in 1..Len(ring)}
ProducersPacket == IF pcP \in {"action", "enqueue"} THEN {slot} ELSE {}
ConsumersPacket == IF pcC \in {"action", "free"} THEN {pkt} ELSE {}

(* A packet in use has one owner: it is the one the producer fills, the    *)
(* one the consumer works on, or it is in the ring once; a packet alloc()  *)
(* found free stays free until it is claimed.  So no two threads touch one *)
(* packet's bytes, none is freed twice and none is lost to the pool,       *)
(* whatever the actions return (packet_queue.hpp:51-71, 87-95).            *)
Ownership ==
  /\ \A p \in Packets :
       used[p] <=> p \in Queued \cup ProducersPacket \cup ConsumersPacket
  /\ \A i, j \in 1..Len(ring) : ring[i] = ring[j] => i = j
  /\ Queued \cap ProducersPacket = {}
  /\ Queued \cap ConsumersPacket = {}
  /\ ProducersPacket \cap ConsumersPacket = {}
  /\ pcP = "claim" => ~used[slot]

(* q.push() never meets a full ring: the pool runs out first, so the       *)
(* branch that frees a filled packet (packet_queue.hpp:62-66) is dead.     *)
RingNeverFull == pcP = "enqueue" => Len(ring) < RingCapacity

(* alloc() scans while the consumer frees packets behind and before its    *)
(* index, yet it reports a failure only if every packet was in use when    *)
(* the scan started (packet_buffer.hpp:34-43).                           *)
AllocFailureIsReal == (pcP = "alloc" /\ slot > Size) => exhausted

(* push() starts no sleep once it has slept for blockWait, so it sleeps    *)
(* less than blockWait and one sleep of 100 ms (packet_queue.hpp:50,75-78).*)
BackoffBounded ==
  pcP = "sleep" => (tw - wait < BlockWait /\ wait <= 100)

(* One for the packet a thread holds.                                      *)
At(b) == IF b THEN 1 ELSE 0

(* Every packet alloc() handed out is accounted for: it was pushed, its    *)
(* action failed, the ring refused it, or push() still holds it            *)
(* (packet_queue.hpp:53-71).                                               *)
AllocAccounting ==
  stat["allocOk"] = stat["pushOk"] + stat["pushActionFailed"]
                      + stat["pushFailed"]
                      + At(pcP \in {"action", "enqueue", "notify"})

(* Every packet pushed was popped, with its action's success or failure,   *)
(* or is still in the ring or in pop()'s hand: the two sides count on      *)
(* their own, the push after the packet became visible                     *)
(* (packet_queue.hpp:58-60, 87-93).                                        *)
FlowAccounting ==
  stat["pushOk"] + At(pcP = "notify")
    = stat["popOk"] + stat["popActionFailed"] + Len(ring) + At(pcC = "action")

(* The bytes of queued packets, by their size fields.                      *)
Bytes(queue, sizes) ==
  LET sum[i \in 0..Len(queue)] ==
        IF i = 0 THEN 0 ELSE sum[i - 1] + sizes[queue[i]]
  IN  sum[Len(queue)]

(* The bytes push() counted are the bytes pop() counted, but for the       *)
(* packets in between: the length the action returned is the length the    *)
(* other side sees (packet_queue.hpp:56-57, 89).                           *)
ByteAccounting ==
  stat["pushPacketSize"]
    = stat["popPacketSize"] + Bytes(ring, size)
        + (IF pcP = "enqueue" THEN size[slot] ELSE 0)

(* A call of push() returns although the consumer may never run again      *)
(* (packet_queue.hpp:50,80).                                               *)
PushReturns == pcP # "idle" ~> pcP = "idle"

(* A call of pop() returns although nothing may ever be pushed and a       *)
(* notification may be lost (packet_queue.hpp:101-104).                    *)
PopReturns == pcC # "idle" ~> pcC = "idle"

(* The queue is a bounded first-in first-out channel: what the consumer's  *)
(* action is given is what the producer's action wrote, whole, in order,   *)
(* once, and it does not change while the action works on it.              *)
MessageIn(p) == [buf |-> buf[p], size |-> size[p]]

Chan == INSTANCE PacketChannel WITH
  Capacity <- Size,
  NoMessage <- NoData,
  chan <- [i \in 1..Len(ring) |-> MessageIn(ring[i])],
  out <- IF pcC = "action" THEN MessageIn(pkt) ELSE NoData

ImplementsChannel == Chan!Spec

(* While the consumer is a loop around pop(), as every caller's is, every  *)
(* pushed packet is delivered although its notification may come between   *)
(* the missed poll and the wait (packet_queue.hpp:59, 87-101).             *)
DeliversEverything == WF_vars(PopCall) => Chan!Fairness
=============================================================================
