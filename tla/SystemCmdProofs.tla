-------------------------- MODULE SystemCmdProofs --------------------------
(***************************************************************************)
(* What holds of SystemCmd for every number of other children and of tuns, *)
(* and for outputs and buffers of any size.                                *)
(***************************************************************************)
EXTENDS SystemCmd, Sequences, TLAPS, FiniteSetTheorems, WellFoundedInduction

USE DEF process, command, heirs, result, waits

Types ==
  TypeOK /\ wrote \in [Outputs -> Nat] /\ shown \in [Outputs -> Nat]

(* The ends that run() has opened and not closed, where it is.             *)
Reads == Outputs \X {"read"}

OpenEnds ==
  IF at = "pipeErr" THEN {"out"} \X {"read", "write"}
  ELSE IF at \in {"fork", "closeOut"} THEN Ends
  ELSE IF at = "closeErr" THEN Ends \ {<<"out", "write">>}
  ELSE IF at = "run" \/ (at = "closing" /\ closed = 0) THEN Reads
  ELSE IF at = "closing" /\ closed = 1 THEN {<<"out", "read">>}
  ELSE {}

Tuns == {n \in Numbers : fds[n] = Tun}

(* The table of descriptors: an end has at most the number run() knows,    *)
(* and exactly that until the parent closes the first one.                 *)
Table ==
  /\ \A n \in Numbers : fds[n] \in Ends => fds[n] \in OpenEnds /\ num[fds[n]] = n
  /\ at \in {"pipeErr", "fork"} =>
       \A e \in OpenEnds : num[e] \in Numbers /\ fds[num[e]] = e
  /\ Cardinality(Tuns) <= MaxTuns
  /\ at \notin {"closing", "returned"} => closed = 0
  /\ at = "closing" => closed < 6

(* The readers, the command and the handler: while the command runs it has *)
(* both outputs, and no end of them is seen.                               *)
Progress ==
  /\ at \in {"pipeOut", "pipeErr", "fork", "failed"} => child = "none"
  /\ at \in {"pipeOut", "pipeErr", "fork", "closeOut", "closeErr"} => eof = {}
  /\ at \in {"fork", "closeOut", "closeErr"} => waiting
  /\ at \in {"closing", "returned"} => eof = Outputs /\ ~waiting
  /\ child = "running" => holds["command"] = Outputs /\ eof = {}
  /\ \A o \in eof : shown[o] = wrote[o]

Decoded ==
  /\ child # "none" /\ ~waiting /\ ~guessed => child = "reaped" /\ exitCode = ending
  /\ child = "reaped" /\ waiting => status = Signalled
  /\ child \in {"ended", "reaped"} /\ execFails =>
       ending = ExecFailed /\ \A o \in Outputs : wrote[o] = 1

IInv == Types /\ Table /\ Progress /\ Decoded
-----------------------------------------------------------------------------
(* What a number stands for is told apart.                                 *)
LEMMA Kinds ==
  /\ Free \notin Ends /\ Tun \notin Ends /\ ClosedTun \notin Ends
  /\ Free # Tun /\ Free # ClosedTun /\ Tun # ClosedTun
<1>1. \A e \in Ends : Len(e) = 2
  BY DEF Ends
<1>2. Len(Free) = 0 /\ Len(Tun) = 1 /\ Len(ClosedTun) = 1
  BY DEF Free, Tun, ClosedTun
<1>3. Tun # ClosedTun
  <2>1. Tun[1] = "tun" /\ ClosedTun[1] = "closed tun"
    BY DEF Tun, ClosedTun
  <2> QED BY <2>1
<1> QED BY <1>1, <1>2, <1>3

LEMMA EndsAre ==
  /\ \A e \in Ends : \E o \in Outputs : e = <<o, "read">> \/ e = <<o, "write">>
  /\ \A o \in Outputs : <<o, "read">> \in Ends /\ <<o, "write">> \in Ends
BY DEF Ends, Outputs

LEMMA CountPair ==
  ASSUME NEW a, NEW b, a # b
  PROVE  IsFiniteSet({a, b}) /\ Cardinality({a, b}) = 2
<1>1. {a, b} = {a} \cup {b} /\ b \notin {a}
  OBVIOUS
<1>2. IsFiniteSet({a}) /\ Cardinality({a}) = 1
  BY FS_Singleton
<1>3. IsFiniteSet({a} \cup {b}) /\ Cardinality({a} \cup {b}) = Cardinality({a}) + 1
  BY <1>1, <1>2, FS_AddElement
<1> QED BY <1>1, <1>2, <1>3

LEMMA CountEnds ==
  /\ IsFiniteSet(Ends) /\ Cardinality(Ends) = 4
  /\ \A o : IsFiniteSet({o} \X {"read", "write"})
             /\ Cardinality({o} \X {"read", "write"}) = 2
<1>1. IsFiniteSet(Outputs) /\ Cardinality(Outputs) = 2
  BY CountPair DEF Outputs
<1>2. IsFiniteSet({"read", "write"}) /\ Cardinality({"read", "write"}) = 2
  BY CountPair
<1>3. ASSUME NEW o
      PROVE  /\ IsFiniteSet({o} \X {"read", "write"})
             /\ Cardinality({o} \X {"read", "write"}) = 2
  <2>1. IsFiniteSet({o}) /\ Cardinality({o}) = 1
    BY FS_Singleton
  <2>2. /\ IsFiniteSet({o} \X {"read", "write"})
        /\ Cardinality({o} \X {"read", "write"}) = 1 * 2
    BY <1>2, <2>1, FS_Product
  <2> QED BY <2>2
<1>4. IsFiniteSet(Ends) /\ Cardinality(Ends) = 2 * 2
  BY <1>1, <1>2, FS_Product DEF Ends
<1> QED BY <1>3, <1>4

LEMMA CountNumbers ==
  /\ Numbers = 1..(4 + MaxTuns)
  /\ IsFiniteSet(Numbers) /\ Cardinality(Numbers) = 4 + MaxTuns
<1>1. Numbers = 1..(4 + MaxTuns) /\ 4 + MaxTuns \in Nat
  BY CountEnds, CmdAssumption DEF Numbers
<1> QED BY <1>1, FS_Interval, CmdAssumption

(* The kernel finds the lowest number if any is free.                      *)
LEMMA MinIsOne ==
  ASSUME NEW S \in SUBSET Nat, S # {}
  PROVE  Min(S) \in S
<1> DEFINE R == {ss \in Nat \X Nat : ss[1] < ss[2]}
<1>1. IsWellFoundedOn(R, Nat)
  BY NatLessThanWellFounded DEF OpToRel
<1>2. \A x, y \in Nat : y < x => <<y, x>> \in R
  OBVIOUS
<1> HIDE DEF R
<1>3. PICK x \in S : \A y \in S : <<y, x>> \notin R
  BY <1>1, WFMin
<1>4. ASSUME NEW y \in S
      PROVE  x =< y
  <2>1. x \in Nat /\ y \in Nat
    OBVIOUS
  <2>2. ~(y < x)
    BY <1>2, <1>3, <2>1, Zenon
  <2> QED BY <2>1, <2>2
<1> QED BY <1>4 DEF Min

LEMMA TunsAreFinite ==
  /\ IsFiniteSet(Tuns) /\ Cardinality(Tuns) \in Nat
  /\ IsFiniteSet(Unused) /\ Cardinality(Unused) \in Nat
<1>1. Tuns \in SUBSET Numbers /\ Unused \in SUBSET Numbers
  BY DEF Tuns, Unused
<1> QED BY <1>1, CountNumbers, FS_Subset, FS_CardinalityType

(* Numbers are free but for the ends that are open and the tuns.           *)
LEMMA Room ==
  ASSUME Types, Table, ~Stray
  PROVE  /\ IsFiniteSet(OpenEnds) /\ Cardinality(OpenEnds) \in 0..4
         /\ Cardinality(Unused) + Cardinality(OpenEnds) + Cardinality(Tuns)
              >= 4 + MaxTuns
<1> DEFINE Owned == {n \in Numbers : fds[n] \in Ends}
           f == [n \in Owned |-> fds[n]]
<1>1. IsFiniteSet(OpenEnds) /\ Cardinality(OpenEnds) \in 0..4
  <2>1. OpenEnds \in SUBSET Ends
    BY EndsAre DEF OpenEnds, Reads, Ends, Outputs
  <2> QED BY <2>1, CountEnds, FS_Subset, FS_CardinalityType
<1>2. IsFiniteSet(Owned) /\ Cardinality(Owned) <= Cardinality(OpenEnds)
  <2>1. f \in [Owned -> OpenEnds]
    BY DEF Table
  <2>2. \A m, n \in Owned : f[m] = f[n] => m = n
    BY DEF Table
  <2>3. f \in Injection(Owned, OpenEnds)
    BY <2>1, <2>2 DEF Injection, IsInjective
  <2> QED BY <1>1, <2>3, FS_Injection
<1>3. Numbers = (Unused \cup Owned) \cup Tuns
  BY DEF Types, TypeOK, Stray, Unused, Tuns
<1>4. Cardinality(Owned) \in Nat
  BY <1>2, FS_CardinalityType
<1> HIDE DEF Owned
<1>5. /\ IsFiniteSet(Unused \cup Owned)
      /\ Cardinality(Unused \cup Owned) <= Cardinality(Unused) + Cardinality(Owned)
      /\ Cardinality(Unused \cup Owned) \in Nat
  <2>1. Cardinality(Unused \cap Owned) \in Nat
    BY TunsAreFinite, FS_Intersection, FS_CardinalityType
  <2>2. /\ IsFiniteSet(Unused \cup Owned)
        /\ Cardinality(Unused \cup Owned) = Cardinality(Unused) + Cardinality(Owned)
                                           - Cardinality(Unused \cap Owned)
    BY <1>2, TunsAreFinite, FS_Union
  <2> QED BY <1>4, <2>1, <2>2, TunsAreFinite, FS_CardinalityType
<1>6. Cardinality(Numbers) <= Cardinality(Unused \cup Owned) + Cardinality(Tuns)
  <2>1. Cardinality((Unused \cup Owned) \cap Tuns) \in Nat
    BY <1>5, FS_Intersection, FS_CardinalityType
  <2>2. Cardinality(Numbers) = Cardinality(Unused \cup Owned) + Cardinality(Tuns)
                               - Cardinality((Unused \cup Owned) \cap Tuns)
    BY <1>3, <1>5, TunsAreFinite, FS_Union
  <2> QED BY <1>5, <2>1, <2>2, TunsAreFinite
<1> QED BY <1>1, <1>2, <1>4, <1>5, <1>6, TunsAreFinite, CountNumbers, CmdAssumption

LEMMA LowestIsUnused ==
  ASSUME Cardinality(Unused) >= 1
  PROVE  Lowest \in Unused
<1>1. Unused # {} /\ Unused \in SUBSET Nat
  BY TunsAreFinite, FS_EmptySet, CountNumbers DEF Unused
<1> QED BY <1>1, MinIsOne DEF Lowest

LEMMA Lowest2IsUnused ==
  ASSUME Cardinality(Unused) >= 2
  PROVE  Lowest \in Unused /\ Lowest2 \in Unused /\ Lowest2 # Lowest
<1>1. Lowest \in Unused
  BY LowestIsUnused, TunsAreFinite
<1>2. /\ IsFiniteSet(Unused \ {Lowest})
      /\ Cardinality(Unused \ {Lowest}) = Cardinality(Unused) - 1
  BY <1>1, TunsAreFinite, FS_RemoveElement
<1>3. Unused \ {Lowest} # {} /\ Unused \ {Lowest} \in SUBSET Nat
  <2>1. Cardinality(Unused \ {Lowest}) # 0
    BY <1>2, TunsAreFinite
  <2>2. Unused \ {Lowest} # {}
    BY <2>1, FS_EmptySet
  <2>3. Unused \ {Lowest} \in SUBSET Nat
    BY CountNumbers DEF Unused
  <2> QED BY <2>2, <2>3
<1>4. Lowest2 \in Unused \ {Lowest}
  BY <1>3, MinIsOne DEF Lowest2
<1> QED BY <1>1, <1>4

(* Where a pipe is opened, and where another thread opens a tun.           *)
LEMMA RoomForPipe ==
  ASSUME Types, Table, ~Stray, at \in {"pipeOut", "pipeErr"}
  PROVE  Lowest \in Unused /\ Lowest2 \in Unused /\ Lowest2 # Lowest
<1>1. Cardinality(OpenEnds) <= 2
  <2>1. CASE at = "pipeOut"
    BY <2>1, FS_EmptySet DEF OpenEnds
  <2>2. CASE at = "pipeErr"
    <3>1. OpenEnds = {"out"} \X {"read", "write"}
      BY <2>2 DEF OpenEnds
    <3> QED BY <3>1, CountEnds
  <2> QED BY <2>1, <2>2
<1>2. Cardinality(Tuns) <= MaxTuns
  BY DEF Table
<1> QED BY <1>1, <1>2, Room, Lowest2IsUnused, TunsAreFinite, CmdAssumption

LEMMA RoomForTun ==
  ASSUME Types, Table, ~Stray, Cardinality(Tuns) < MaxTuns
  PROVE  Lowest \in Unused
BY Room, LowestIsUnused, TunsAreFinite, CmdAssumption
-----------------------------------------------------------------------------
LEMMA ClosesAre ==
  /\ Cardinality(DOMAIN Closes) = 6
  /\ \A i \in 1..6 : Closes[i] \in Ends
  /\ Closes[1] = <<"err", "read">> /\ Closes[2] = <<"out", "read">>
<1>1. DOMAIN Closes = 1..6
  BY DEF Closes
<1>2. Cardinality(1..6) = 6
  <2>1. \A n \in Nat : Cardinality(1..n) = n
    BY FS_Interval
  <2> QED BY <2>1
<1>3. /\ Closes[1] \in Ends /\ Closes[2] \in Ends /\ Closes[3] \in Ends
      /\ Closes[4] \in Ends /\ Closes[5] \in Ends /\ Closes[6] \in Ends
  BY DEF Closes, Ends, Outputs
<1>4. \A i \in 1..6 : i = 1 \/ i = 2 \/ i = 3 \/ i = 4 \/ i = 5 \/ i = 6
  OBVIOUS
<1>5. Closes[1] = <<"err", "read">> /\ Closes[2] = <<"out", "read">>
  BY DEF Closes
<1> QED BY <1>1, <1>2, <1>3, <1>4, <1>5

LEMMA InvInit == Init => IInv
<1> SUFFICES ASSUME Init
             PROVE  IInv
  OBVIOUS
<1> USE CmdAssumption DEF Init, Endings, Signalled
<1>1. Types
  <2>1. num \in [Ends -> Numbers \cup {0}] /\ closed \in 0..Cardinality(DOMAIN Closes)
    BY ClosesAre
  <2>2. fds \in [Numbers -> Ends \cup {Free, Tun, ClosedTun}]
    OBVIOUS
  <2>3. /\ wrote \in [Outputs -> Nat] /\ shown \in [Outputs -> Nat]
        /\ \A o \in Outputs : wrote[o] \in 0..MaxOutput /\ shown[o] \in 0..wrote[o]
    OBVIOUS
  <2>4. {execFails, signal, waiting, guessed} \subseteq BOOLEAN
    OBVIOUS
  <2>5. /\ child \in {"none", "running", "ended", "reaped"}
        /\ ending \in Endings /\ status \in Endings
        /\ exitCode \in Endings \ {Signalled}
    BY DEF ExecFailed
  <2>6. /\ at \in {"pipeOut", "pipeErr", "fork", "closeOut", "closeErr", "run",
                   "closing", "returned", "failed"}
        /\ others \in [Others -> {"none", "running", "ended"}]
        /\ holds \in [Others \cup {"command"} -> SUBSET Outputs]
        /\ eof \subseteq Outputs
    OBVIOUS
  <2> HIDE DEF Init
  <2> QED BY <2>1, <2>2, <2>3, <2>4, <2>5, <2>6 DEF Types, TypeOK
<1>2. Table
  <2>1. Tuns = {}
    BY Kinds DEF Tuns
  <2> QED BY <2>1, Kinds, FS_EmptySet DEF Table
<1>3. Progress /\ Decoded
  BY DEF Progress, Decoded
<1> QED BY <1>1, <1>2, <1>3 DEF IInv

(* What a close() leaves of the table: an end it was told to close is not  *)
(* in it, whatever the number stands for by now.                           *)
LEMMA CloseFdKeeps ==
  ASSUME Types, Table, NEW e \in Ends, CloseFd(e)
  PROVE  /\ fds' \in [Numbers -> Ends \cup {Free, Tun, ClosedTun}]
         /\ \A n \in Numbers :
              fds'[n] \in Ends => fds'[n] = fds[n] /\ fds'[n] # e
         /\ Cardinality(Tuns') <= MaxTuns
<1>1. fds \in [Numbers -> Ends \cup {Free, Tun, ClosedTun}]
  BY DEF Types, TypeOK
<1>2. fds' \in [Numbers -> Ends \cup {Free, Tun, ClosedTun}]
  BY <1>1 DEF CloseFd
<1>3. \A n \in Numbers : fds'[n] = fds[n] \/ (n = num[e] /\ fds'[n] \in {Free, ClosedTun})
  BY <1>1 DEF CloseFd
<1>4. \A n \in Numbers : fds'[n] \in Ends => fds'[n] = fds[n] /\ fds'[n] # e
  <2> SUFFICES ASSUME NEW n \in Numbers, fds'[n] \in Ends
               PROVE  fds'[n] = fds[n] /\ fds'[n] # e
    OBVIOUS
  <2>1. fds'[n] = fds[n]
    BY <1>3, Kinds
  <2>2. ASSUME fds'[n] = e
        PROVE  FALSE
    <3>1. num[e] = n
      BY <2>1, <2>2 DEF Table
    <3>2. fds'[n] = Free
      BY <1>1, <2>1, <2>2, <3>1 DEF CloseFd
    <3> QED BY <3>2, Kinds
  <2> QED BY <2>1, <2>2
<1>5. Cardinality(Tuns') <= MaxTuns
  <2>1. Tuns' \in SUBSET Tuns
    BY <1>3, Kinds DEF Tuns
  <2>2. Cardinality(Tuns') <= Cardinality(Tuns) /\ Cardinality(Tuns') \in Nat
    BY <2>1, TunsAreFinite, FS_Subset, FS_CardinalityType
  <2> QED BY <2>2, TunsAreFinite, CmdAssumption DEF Table
<1> QED BY <1>2, <1>4, <1>5

TableTypes ==
  /\ fds \in [Numbers -> Ends \cup {Free, Tun, ClosedTun}]
  /\ num \in [Ends -> Numbers \cup {0}]
  /\ closed \in 0..6

LEMMA OpenPipeTable ==
  ASSUME Types, Table, NEW o \in Outputs, OpenPipe(o)
  PROVE  Table' /\ TableTypes'
<1>1. ~Stray /\ at \in {"pipeOut", "pipeErr"}
  BY DEF OpenPipe, Goto
<1>2. /\ Lowest \in Numbers /\ Lowest2 \in Numbers /\ Lowest2 # Lowest
      /\ fds[Lowest] = Free /\ fds[Lowest2] = Free
  BY <1>1, RoomForPipe DEF Unused
<1>3. /\ fds \in [Numbers -> Ends \cup {Free, Tun, ClosedTun}]
      /\ num \in [Ends -> Numbers \cup {0}]
  BY DEF Types, TypeOK
<1>4. /\ <<o, "read">> \in Ends /\ <<o, "write">> \in Ends
      /\ <<o, "read">> # <<o, "write">>
  BY EndsAre
<1>5. /\ fds' = [fds EXCEPT ![Lowest] = <<o, "read">>, ![Lowest2] = <<o, "write">>]
      /\ num' = [num EXCEPT ![<<o, "read">>] = Lowest, ![<<o, "write">>] = Lowest2]
      /\ closed' = closed
  BY DEF OpenPipe
<1>6. /\ fds' \in [Numbers -> Ends \cup {Free, Tun, ClosedTun}]
      /\ num' \in [Ends -> Numbers \cup {0}]
  BY <1>2, <1>3, <1>4, <1>5
<1>7. /\ fds'[Lowest] = <<o, "read">> /\ fds'[Lowest2] = <<o, "write">>
      /\ \A n \in Numbers \ {Lowest, Lowest2} : fds'[n] = fds[n]
      /\ num'[<<o, "read">>] = Lowest /\ num'[<<o, "write">>] = Lowest2
      /\ \A e \in Ends \ {<<o, "read">>, <<o, "write">>} : num'[e] = num[e]
  BY <1>2, <1>3, <1>4, <1>5
<1>8. /\ <<o, "read">> \notin OpenEnds /\ <<o, "write">> \notin OpenEnds
      /\ OpenEnds' = OpenEnds \cup {<<o, "read">>, <<o, "write">>}
      /\ at' \in {"pipeErr", "fork"}
  <2>1. CASE o = "out"
    BY <2>1 DEF OpenPipe, Goto, OpenEnds
  <2>2. CASE o = "err"
    BY <2>2 DEF OpenPipe, Goto, OpenEnds, Ends, Outputs
  <2> QED BY <2>1, <2>2 DEF Outputs
<1>9. \A n \in Numbers : fds'[n] \in Ends => fds'[n] \in OpenEnds' /\ num'[fds'[n]] = n
  <2> SUFFICES ASSUME NEW n \in Numbers, fds'[n] \in Ends
               PROVE  fds'[n] \in OpenEnds' /\ num'[fds'[n]] = n
    OBVIOUS
  <2>1. CASE n \in {Lowest, Lowest2}
    BY <1>7, <1>8, <2>1
  <2>2. CASE n \notin {Lowest, Lowest2}
    <3>1. fds'[n] = fds[n] /\ fds[n] \in OpenEnds /\ num[fds[n]] = n
      BY <1>7, <2>2 DEF Table
    <3>2. fds[n] \in Ends \ {<<o, "read">>, <<o, "write">>}
      BY <1>8, <3>1
    <3> QED BY <1>7, <1>8, <3>1, <3>2
  <2> QED BY <2>1, <2>2
<1>10. \A e \in OpenEnds' : num'[e] \in Numbers /\ fds'[num'[e]] = e
  <2> SUFFICES ASSUME NEW e \in OpenEnds'
               PROVE  num'[e] \in Numbers /\ fds'[num'[e]] = e
    OBVIOUS
  <2>1. CASE e \in {<<o, "read">>, <<o, "write">>}
    BY <1>2, <1>7, <2>1
  <2>2. CASE e \notin {<<o, "read">>, <<o, "write">>}
    <3>1. at = "pipeErr" /\ e \in OpenEnds /\ e \in Ends
      BY <1>1, <1>8, <2>2, EndsAre DEF OpenEnds, Ends, Outputs
    <3>2. num[e] \in Numbers /\ fds[num[e]] = e /\ num'[e] = num[e]
      BY <1>7, <2>2, <3>1 DEF Table
    <3>3. num[e] \notin {Lowest, Lowest2}
      BY <1>2, <3>1, <3>2, Kinds
    <3> QED BY <1>7, <3>2, <3>3
  <2> QED BY <2>1, <2>2
<1>11. Cardinality(Tuns') <= MaxTuns
  <2>1. Tuns' = Tuns
    BY <1>2, <1>4, <1>7, Kinds DEF Tuns
  <2> QED BY <2>1 DEF Table
<1>12. closed = 0
  BY <1>1 DEF Table
<1>13. Table'
  BY <1>5, <1>8, <1>9, <1>10, <1>11, <1>12 DEF Table
<1> QED BY <1>5, <1>6, <1>12, <1>13 DEF TableTypes

LEMMA CloseWriteTable ==
  ASSUME Types, Table, NEW o \in Outputs, CloseWrite(o)
  PROVE  Table' /\ TableTypes'
<1>1. <<o, "write">> \in Ends /\ CloseFd(<<o, "write">>)
  BY EndsAre DEF CloseWrite
<1>2. /\ fds' \in [Numbers -> Ends \cup {Free, Tun, ClosedTun}]
      /\ \A n \in Numbers :
           fds'[n] \in Ends => fds'[n] = fds[n] /\ fds'[n] # <<o, "write">>
      /\ Cardinality(Tuns') <= MaxTuns
  BY <1>1, CloseFdKeeps
<1>3. /\ OpenEnds \ {<<o, "write">>} \subseteq OpenEnds' /\ at' \in {"closeErr", "run"}
      /\ closed = 0 /\ closed' = 0 /\ num' = num
  <2>1. CASE o = "out"
    BY <2>1 DEF CloseWrite, Goto, OpenEnds, Table
  <2>2. CASE o = "err"
    BY <2>2 DEF CloseWrite, Goto, OpenEnds, Reads, Ends, Outputs, Table
  <2> QED BY <2>1, <2>2 DEF Outputs
<1> QED BY <1>2, <1>3 DEF Table, TableTypes, Types, TypeOK

LEMMA DestructTable ==
  ASSUME Types, Table, Destruct
  PROVE  Table' /\ TableTypes'
<1>0. closed \in 0..6
  BY ClosesAre DEF Types, TypeOK
<1>1. /\ at = "closing" /\ closed' = closed + 1 /\ closed \in 0..5
      /\ at' = IF closed' = 6 THEN "returned" ELSE "closing"
      /\ CloseFd(Closes[closed']) /\ num' = num
  BY <1>0, ClosesAre DEF Destruct, Goto, Table
<1>2. Closes[closed'] \in Ends
  BY <1>1, ClosesAre
<1>3. /\ fds' \in [Numbers -> Ends \cup {Free, Tun, ClosedTun}]
      /\ \A n \in Numbers :
           fds'[n] \in Ends => fds'[n] = fds[n] /\ fds'[n] # Closes[closed']
      /\ Cardinality(Tuns') <= MaxTuns
  BY <1>1, <1>2, CloseFdKeeps
<1>4. OpenEnds \ {Closes[closed']} \subseteq OpenEnds'
  <2>1. CASE closed = 0
    BY <1>1, <2>1, ClosesAre DEF OpenEnds, Reads, Outputs
  <2>2. CASE closed = 1
    BY <1>1, <2>2, ClosesAre DEF OpenEnds
  <2>3. CASE closed \notin {0, 1}
    BY <1>1, <2>3 DEF OpenEnds
  <2> QED BY <2>1, <2>2, <2>3
<1> QED BY <1>1, <1>3, <1>4 DEF Table, TableTypes, Types, TypeOK

LEMMA OpenTunTable ==
  ASSUME Types, Table, OpenTun
  PROVE  Table' /\ TableTypes'
<1>1. /\ ~Stray /\ Cardinality(Tuns) < MaxTuns /\ fds' = [fds EXCEPT ![Lowest] = Tun]
      /\ UNCHANGED <<at, num, closed>>
  BY DEF OpenTun, Tuns
<1>2. Lowest \in Numbers /\ fds[Lowest] = Free
  BY <1>1, RoomForTun DEF Unused
<1>3. /\ fds' \in [Numbers -> Ends \cup {Free, Tun, ClosedTun}]
      /\ fds'[Lowest] = Tun /\ \A n \in Numbers \ {Lowest} : fds'[n] = fds[n]
  BY <1>1, <1>2 DEF Types, TypeOK
<1>4. OpenEnds' = OpenEnds
  BY <1>1 DEF OpenEnds
<1>5. \A n \in Numbers : fds'[n] \in Ends => fds'[n] = fds[n]
  BY <1>2, <1>3, Kinds
<1>6. \A e \in Ends : num[e] \in Numbers /\ fds[num[e]] = e => fds'[num[e]] = e
  BY <1>2, <1>3, Kinds
<1>7. Cardinality(Tuns') <= MaxTuns
  <2>1. Tuns' = Tuns \cup {Lowest}
    BY <1>2, <1>3 DEF Tuns
  <2>2. Lowest \notin Tuns
    BY <1>2, Kinds DEF Tuns
  <2>3. Cardinality(Tuns') = Cardinality(Tuns) + 1
    BY <2>1, <2>2, TunsAreFinite, FS_AddElement
  <2> QED BY <1>1, <2>3, TunsAreFinite, CmdAssumption
<1>8. \A e \in OpenEnds : e \in Ends
  BY EndsAre DEF OpenEnds, Reads, Ends, Outputs
<1> QED BY <1>1, <1>3, <1>4, <1>5, <1>6, <1>7, <1>8, ClosesAre
        DEF Table, TableTypes, Types, TypeOK

LEMMA TableStep ==
  ASSUME Types, Table, [Next]_vars
  PROVE  Table' /\ TableTypes'
<1>0. TableTypes
  BY ClosesAre DEF Types, TypeOK, TableTypes
<1>1. ASSUME UNCHANGED <<fds, num, closed>>,
             UNCHANGED at \/ (at = "fork" /\ at' = "closeOut")
               \/ (at = "run" /\ at' = "closing")
      PROVE  Table' /\ TableTypes'
  <2>1. OpenEnds' = OpenEnds
    BY <1>1 DEF OpenEnds, Table
  <2>2. Tuns' = Tuns
    BY <1>1 DEF Tuns
  <2> QED BY <1>0, <1>1, <2>1, <2>2 DEF Table, TableTypes
<1>2. ASSUME NEW o \in Outputs, OpenPipe(o)
      PROVE  Table' /\ TableTypes'
  BY <1>2, OpenPipeTable
<1>3. CASE PipeFails
  <2>1. /\ fds' = [n \in Numbers |-> IF fds[n] \in Ends THEN Free ELSE fds[n]]
        /\ at' = "failed" /\ num' = num /\ closed = 0 /\ closed' = 0
    BY <1>3 DEF PipeFails, Table
  <2>2. Tuns' = Tuns
    BY <2>1, Kinds DEF Tuns
  <2>3. fds' \in [Numbers -> Ends \cup {Free, Tun, ClosedTun}]
    BY <1>0, <2>1 DEF TableTypes
  <2> QED BY <1>0, <2>1, <2>2, <2>3, Kinds DEF Table, TableTypes
<1>4. ASSUME NEW fails \in BOOLEAN, Fork(fails)
      PROVE  Table' /\ TableTypes'
  BY <1>1, <1>4 DEF Fork, Goto
<1>5. CASE ForkFails \/ Return
  BY <1>1, <1>5 DEF ForkFails, Return, Goto
<1>6. ASSUME NEW o \in Outputs, CloseWrite(o)
      PROVE  Table' /\ TableTypes'
  BY <1>6, CloseWriteTable
<1>7. CASE Command
  BY <1>1, <1>7 DEF Command, Writes, CommandEnds, ExecFailure, EndWith
<1>8. CASE OpenTun
  BY <1>8, OpenTunTable
<1>9. ASSUME NEW c \in Others, Other(c)
      PROVE  Table' /\ TableTypes'
  BY <1>1, <1>9 DEF Other, OtherForks, OtherEnds
<1>10. ASSUME NEW o \in Outputs, ReadOn(o) \/ ReadEof(o)
       PROVE  Table' /\ TableTypes'
  BY <1>1, <1>10 DEF ReadOn, ReadEof
<1>11. CASE HandleSignal \/ HandleNothing \/ UNCHANGED vars
  BY <1>1, <1>11 DEF HandleSignal, HandleNothing, vars
<1>12. CASE Destruct
  BY <1>12, DestructTable
<1> QED BY <1>2, <1>3, <1>4, <1>5, <1>6, <1>7, <1>8, <1>9, <1>10, <1>11, <1>12
        DEF Next, Run
-----------------------------------------------------------------------------
(* The types of what is not the table of descriptors.                      *)
OtherTypes ==
  /\ at \in {"pipeOut", "pipeErr", "fork", "closeOut", "closeErr", "run",
             "closing", "returned", "failed"}
  /\ child \in {"none", "running", "ended", "reaped"}
  /\ ending \in Endings /\ status \in Endings
  /\ exitCode \in Endings \ {Signalled}
  /\ others \in [Others -> {"none", "running", "ended"}]
  /\ holds \in [Others \cup {"command"} -> SUBSET Outputs]
  /\ wrote \in [Outputs -> Nat] /\ shown \in [Outputs -> Nat]
  /\ \A o \in Outputs : wrote[o] <= MaxOutput /\ shown[o] <= wrote[o]
  /\ eof \subseteq Outputs
  /\ execFails \in BOOLEAN /\ signal \in BOOLEAN
  /\ waiting \in BOOLEAN /\ guessed \in BOOLEAN

LEMMA TypesAre == Types <=> TableTypes /\ OtherTypes
<1>1. /\ \A b : b \in BOOLEAN <=> {b} \subseteq BOOLEAN
      /\ {execFails, signal, waiting, guessed} \subseteq BOOLEAN
           <=> /\ execFails \in BOOLEAN /\ signal \in BOOLEAN
               /\ waiting \in BOOLEAN /\ guessed \in BOOLEAN
  BY Zenon
<1>2. wrote \in [Outputs -> Nat] /\ shown \in [Outputs -> Nat] =>
        ((\A o \in Outputs : wrote[o] \in 0..MaxOutput /\ shown[o] \in 0..wrote[o])
           <=> \A o \in Outputs : wrote[o] <= MaxOutput /\ shown[o] <= wrote[o])
  BY CmdAssumption
<1> QED BY <1>1, <1>2, ClosesAre DEF Types, TypeOK, TableTypes, OtherTypes

LEMMA OtherTypesStep ==
  ASSUME OtherTypes, [Next]_vars
  PROVE  OtherTypes'
<1> USE CmdAssumption DEF OtherTypes
<1>1. ASSUME NEW o \in Outputs, OpenPipe(o)
      PROVE  OtherTypes'
  BY <1>1 DEF OpenPipe, Goto
<1>2. CASE PipeFails
  BY <1>2 DEF PipeFails
<1>3. ASSUME NEW fails \in BOOLEAN, Fork(fails)
      PROVE  OtherTypes'
  BY <1>3 DEF Fork, Goto, Inherited
<1>4. CASE ForkFails
  BY <1>4 DEF ForkFails, Goto
<1>5. ASSUME NEW o \in Outputs, CloseWrite(o)
      PROVE  OtherTypes'
  BY <1>5 DEF CloseWrite, Goto
<1>6. ASSUME NEW o \in Outputs, Writes(o)
      PROVE  OtherTypes'
  BY <1>6 DEF Writes
<1>7. CASE CommandEnds
  BY <1>7 DEF CommandEnds, EndWith, Endings
<1>8. CASE ExecFailure
  BY <1>8 DEF ExecFailure, EndWith, Endings
<1>9. CASE OpenTun
  BY <1>9 DEF OpenTun
<1>10. ASSUME NEW c \in Others, OtherForks(c)
       PROVE  OtherTypes'
  BY <1>10 DEF OtherForks, Inherited
<1>11. ASSUME NEW c \in Others, OtherEnds(c)
       PROVE  OtherTypes'
  BY <1>11 DEF OtherEnds
<1>12. ASSUME NEW o \in Outputs, ReadOn(o)
       PROVE  OtherTypes'
  BY <1>12 DEF ReadOn
<1>13. ASSUME NEW o \in Outputs, ReadEof(o)
       PROVE  OtherTypes'
  BY <1>13 DEF ReadEof
<1>14. CASE HandleSignal
  BY <1>14 DEF HandleSignal, Reaped
<1>15. CASE HandleNothing
  BY <1>15 DEF HandleNothing
<1>16. CASE Return
  BY <1>16 DEF Return, Goto
<1>17. CASE Destruct
  BY <1>17 DEF Destruct, Goto
<1>18. CASE UNCHANGED vars
  BY <1>18 DEF vars
<1> QED BY <1>1, <1>2, <1>3, <1>4, <1>5, <1>6, <1>7, <1>8, <1>9, <1>10,
           <1>11, <1>12, <1>13, <1>14, <1>15, <1>16, <1>17, <1>18
        DEF Next, Run, Command, Other

LEMMA ProgressStep ==
  ASSUME OtherTypes, Table, Progress, [Next]_vars
  PROVE  Progress'
<1> USE CmdAssumption DEF OtherTypes, Progress
<1>0. at = "fork" => Inherited = Outputs
  <2> SUFFICES ASSUME at = "fork", NEW o \in Outputs
               PROVE  \E n \in Numbers : fds[n] = <<o, "write">>
    BY DEF Inherited
  <2>1. <<o, "write">> \in OpenEnds
    BY EndsAre DEF OpenEnds
  <2> QED BY <2>1 DEF Table
<1>1. ASSUME NEW o \in Outputs, OpenPipe(o)
      PROVE  Progress'
  BY <1>1 DEF OpenPipe, Goto, Outputs
<1>2. CASE PipeFails
  BY <1>2 DEF PipeFails
<1>3. ASSUME NEW fails \in BOOLEAN, Fork(fails)
      PROVE  Progress'
  BY <1>3, <1>0 DEF Fork, Goto
<1>4. CASE ForkFails
  BY <1>4 DEF ForkFails, Goto
<1>5. ASSUME NEW o \in Outputs, CloseWrite(o)
      PROVE  Progress'
  BY <1>5 DEF CloseWrite, Goto
<1>6. ASSUME NEW o \in Outputs, Writes(o)
      PROVE  Progress'
  BY <1>6 DEF Writes
<1>7. CASE CommandEnds
  BY <1>7 DEF CommandEnds, EndWith
<1>8. CASE ExecFailure
  BY <1>8 DEF ExecFailure, EndWith
<1>9. CASE OpenTun
  BY <1>9 DEF OpenTun
<1>10. ASSUME NEW c \in Others, OtherForks(c)
       PROVE  Progress'
  BY <1>10 DEF OtherForks
<1>11. ASSUME NEW c \in Others, OtherEnds(c)
       PROVE  Progress'
  BY <1>11 DEF OtherEnds
<1>12. ASSUME NEW o \in Outputs, ReadOn(o)
       PROVE  Progress'
  BY <1>12 DEF ReadOn
<1>13. ASSUME NEW o \in Outputs, ReadEof(o)
       PROVE  Progress'
  BY <1>13 DEF ReadEof, NoWriter
<1>14. CASE HandleSignal
  BY <1>14 DEF HandleSignal, Reaped
<1>15. CASE HandleNothing
  BY <1>15 DEF HandleNothing
<1>16. CASE Return
  BY <1>16 DEF Return, Goto
<1>17. CASE Destruct
  BY <1>17 DEF Destruct, Goto
<1>18. CASE UNCHANGED vars
  BY <1>18 DEF vars
<1> QED BY <1>1, <1>2, <1>3, <1>4, <1>5, <1>6, <1>7, <1>8, <1>9, <1>10,
           <1>11, <1>12, <1>13, <1>14, <1>15, <1>16, <1>17, <1>18
        DEF Next, Run, Command, Other

LEMMA DecodedStep ==
  ASSUME OtherTypes, Progress, Decoded, [Next]_vars
  PROVE  Decoded'
<1> USE CmdAssumption DEF OtherTypes, Progress, Decoded
<1>1. ASSUME NEW o \in Outputs, OpenPipe(o)
      PROVE  Decoded'
  BY <1>1 DEF OpenPipe, Goto
<1>2. CASE PipeFails
  BY <1>2 DEF PipeFails
<1>3. ASSUME NEW fails \in BOOLEAN, Fork(fails)
      PROVE  Decoded'
  BY <1>3 DEF Fork, Goto
<1>4. CASE ForkFails
  BY <1>4 DEF ForkFails, Goto
<1>5. ASSUME NEW o \in Outputs, CloseWrite(o)
      PROVE  Decoded'
  BY <1>5 DEF CloseWrite, Goto
<1>6. ASSUME NEW o \in Outputs, Writes(o)
      PROVE  Decoded'
  BY <1>6 DEF Writes
<1>7. CASE CommandEnds
  BY <1>7 DEF CommandEnds, EndWith
<1>8. CASE ExecFailure
  BY <1>8 DEF ExecFailure, EndWith
<1>9. CASE OpenTun
  BY <1>9 DEF OpenTun
<1>10. ASSUME NEW c \in Others, OtherForks(c)
       PROVE  Decoded'
  BY <1>10 DEF OtherForks
<1>11. ASSUME NEW c \in Others, OtherEnds(c)
       PROVE  Decoded'
  BY <1>11 DEF OtherEnds
<1>12. ASSUME NEW o \in Outputs, ReadOn(o)
       PROVE  Decoded'
  BY <1>12 DEF ReadOn
<1>13. ASSUME NEW o \in Outputs, ReadEof(o)
       PROVE  Decoded'
  BY <1>13 DEF ReadEof
<1>14. CASE HandleSignal
  BY <1>14 DEF HandleSignal, Reaped
<1>15. CASE HandleNothing
  BY <1>15 DEF HandleNothing
<1>16. CASE Return
  BY <1>16 DEF Return, Goto
<1>17. CASE Destruct
  BY <1>17 DEF Destruct, Goto
<1>18. CASE UNCHANGED vars
  BY <1>18 DEF vars
<1> QED BY <1>1, <1>2, <1>3, <1>4, <1>5, <1>6, <1>7, <1>8, <1>9, <1>10,
           <1>11, <1>12, <1>13, <1>14, <1>15, <1>16, <1>17, <1>18
        DEF Next, Run, Command, Other
-----------------------------------------------------------------------------
(* run(), the command, the handler and the table of descriptors stay in    *)
(* step (system_cmd.hpp:33-247).                                           *)
THEOREM RunIsInStep == Spec => []IInv
<1> DEFINE Parts == TableTypes /\ OtherTypes /\ Table /\ Progress /\ Decoded
<1>1. IInv <=> Parts
  BY TypesAre DEF IInv
<1>2. IInv /\ [Next]_vars => Parts'
  BY TypesAre, TableStep, OtherTypesStep, ProgressStep, DecodedStep DEF IInv
<1> HIDE DEF Parts
<1> QED BY <1>1, <1>2, InvInit, PTL DEF Spec

(* The result never has more than was written                              *)
(* (system_cmd.hpp:143-162).                                               *)
THEOREM TypeCorrect == Spec => []TypeOK
<1>1. IInv => TypeOK
  BY DEF IInv, Types
<1> QED BY <1>1, RunIsInStep, PTL

(* When run() is through, the result holds all that the command wrote, and *)
(* the command has ended (system_cmd.hpp:143-162, 193-238).                *)
THEOREM OutputIsWhole == Spec => []WholeOutput
<1>1. IInv => WholeOutput
  <2> SUFFICES ASSUME IInv, Done
               PROVE  shown = wrote /\ child # "running"
    BY DEF WholeOutput
  <2>1. eof = Outputs /\ \A o \in Outputs : shown[o] = wrote[o]
    BY DEF IInv, Progress, Done
  <2>2. shown \in [Outputs -> Nat] /\ wrote \in [Outputs -> Nat]
    BY DEF IInv, Types
  <2>3. shown = wrote
    BY <2>1, <2>2
  <2>4. child # "running"
    BY <2>1 DEF IInv, Progress, Outputs
  <2> QED BY <2>3, <2>4
<1> QED BY <1>1, RunIsInStep, PTL

(* The exit code is the command's, and its process is reaped, but for a    *)
(* status that nobody stored (system_cmd.hpp:193-206).                     *)
THEOREM ExitCodeIsDecoded == Spec => []ExitCodeIsCommands
<1>1. IInv => ExitCodeIsCommands
  BY DEF IInv, Progress, Decoded, ExitCodeIsCommands, Done
<1> QED BY <1>1, RunIsInStep, PTL

(* sr.ok tells whether the command was executed, with that exception       *)
(* (system_cmd.hpp:180-185, 243).                                          *)
THEOREM OkIsTrue == Spec => []OkIsExecuted
<1>1. IInv => OkIsExecuted
  <2> SUFFICES ASSUME IInv, Done, ~guessed
               PROVE  Ok <=> ~execFails
    BY DEF OkIsExecuted
  <2>1. child = "reaped" /\ exitCode = ending
    BY DEF IInv, Progress, Decoded, Done
  <2>2. \A o \in Outputs : shown[o] = wrote[o]
    BY DEF IInv, Progress, Done
  <2>3. CASE execFails
    BY <2>1, <2>2, <2>3 DEF IInv, Decoded, Ok
  <2>4. CASE ~execFails
    BY <2>4 DEF Ok
  <2> QED BY <2>3, <2>4
<1> QED BY <1>1, RunIsInStep, PTL

(* No end of its pipes is open when run() has returned, whatever failed    *)
(* and whoever took the numbers in between (system_cmd.hpp:33-65, 187-188, *)
(* 209-247).                                                               *)
THEOREM NothingStaysOpen == Spec => []FdsReturned
<1>1. IInv => FdsReturned
  BY DEF IInv, Table, OpenEnds, FdsReturned
<1> QED BY <1>1, RunIsInStep, PTL
=============================================================================
