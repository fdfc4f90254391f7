-------------------------- MODULE TraceBinningProofs --------------------------
(***************************************************************************)
(* The phase table and the traffic matrices, proved for every capture and  *)
(* every size of the arrays: which captures can leave the arrays, that the *)
(* phases tile the trace but for the one-second gaps between them, that a  *)
(* packet inside a phase is counted there, and one in a gap never in a     *)
(* phase that is still to come, and that all phases together hold every    *)
(* byte of a flow.                                                         *)
(***************************************************************************)
EXTENDS TraceBinning, ArithmeticFacts, TLAPS

USE DEF given   \* what every step leaves unchanged

(* What the assumptions say of the constants.                               *)
LEMMA BinningConstants ==
  /\ PhaseSize \in Nat \ {0} /\ Tick \in Nat \ {0} /\ MaxPhases \in Nat \ {0}
  /\ LeafNodes \in Nat \ {0} /\ RowWidth \in Nat /\ Word \in Nat \ {0}
  /\ 2 + LeafNodes * LeafNodes + 6 <= RowWidth /\ RowWidth < Word
  /\ Garbage \subseteq 0 .. Word - 1
  /\ WindowSizes \subseteq Nat /\ MaxStatistics \in Nat
  /\ MaxPhases * PhaseSize <= MaxStatistics /\ MaxPhases * PhaseSize <= Word \div 2
BY ConstantsAssumption, StatisticsAssumption

(* What SavePayload adds to a cell (main.cpp:322).                          *)
LEMMA NetBytesNatural ==
  ASSUME NEW len \in Nat
  PROVE  NetBytes(len) \in Nat
<1>1. Word \in Nat \ {0} /\ len - HeaderLen \in Int
  BY BinningConstants DEF HeaderLen
<1>2. (len - HeaderLen) % Word \in 0 .. Word - 1
  BY <1>1, Remainder
<1>3. (len - HeaderLen) % Word \in Nat
  <2>1. \A w \in 0 .. Word - 1 : w \in Nat
    BY <1>1
  <2> QED BY <1>2, <2>1
<1> QED BY <1>3 DEF NetBytes

(* The number of phases, computed in uint32_t (main.cpp:252-253), is never  *)
(* zero; it exceeds the allocated rows only for a longer or an inverted     *)
(* capture.                                                                 *)
LEMMA PhaseCountBounds ==
  ASSUME NEW lo \in Int, NEW hi \in Int
  PROVE  /\ PhaseCount(lo, hi) \in Nat \ {0}
         /\ lo <= hi /\ hi - lo < Word /\ hi - lo < MaxPhases * PhaseSize
              => PhaseCount(lo, hi) <= MaxPhases
<1> USE BinningConstants
<1>1. (hi - lo) % Word \in Nat
  BY Remainder
<1>2. ((hi - lo) % Word) \div PhaseSize \in Nat
  BY <1>1
<1>3. ASSUME lo <= hi, hi - lo < Word, hi - lo < MaxPhases * PhaseSize
      PROVE  ((hi - lo) % Word) \div PhaseSize < MaxPhases
  <2>1. (hi - lo) % Word = hi - lo
    <3>1. hi - lo \in 0 .. Word - 1
      BY <1>3
    <3>2. \A a \in 0 .. Word - 1 : a \in Int /\ a % Word = a
      BY Remainder
    <3> QED BY <3>1, <3>2
  <2> DEFINE q == (hi - lo) \div PhaseSize
  <2>2. q \in Nat /\ PhaseSize * q <= hi - lo
    BY <1>3, Quotient
  <2>3. PhaseSize * q < MaxPhases * PhaseSize
    BY <1>3, <2>2
  <2>4. q < MaxPhases
    <3>1. \A x, y \in Nat, z \in Nat \ {0} : z * x < y * z => x < y
      OBVIOUS
    <3> HIDE DEF q
    <3> QED BY <2>2, <2>3, <3>1
  <2> QED BY <2>1, <2>4
<1> QED BY <1>2, <1>3 DEF PhaseCount

(* The end of a phase and the start of the next one are again 32-bit        *)
(* numbers (main.cpp:294-297).                                              *)
LEMMA PhaseEndTypes ==
  ASSUME NEW lo \in Nat, NEW hi \in Nat
  PROVE  PhaseEnd(lo, hi) \in Nat /\ (PhaseEnd(lo, hi) + 1) % Word \in 0 .. Word - 1
<1> USE BinningConstants
<1>1. (lo + PhaseSize) % Word \in Nat
  BY Remainder
<1>2. PhaseEnd(lo, hi) \in Nat
  BY <1>1 DEF PhaseEnd
<1>3. PhaseEnd(lo, hi) + 1 \in Int
  BY <1>2
<1> QED BY <1>2, <1>3, Remainder

(* The loop of main.cpp:313-319 finds a phase of the table, the first that  *)
(* encloses the time, or leaves mark alone.                                 *)
LEMMA FoundPhase ==
  ASSUME NEW ts, number_phase \in Nat
  PROVE  \/ /\ \A j \in Phases : ~ Inside(phase_data[j], ts)
            /\ FindPhase(ts) = mark
         \/ /\ FindPhase(ts) \in Phases
            /\ Inside(phase_data[FindPhase(ts)], ts)
<1> DEFINE hits == {j \in Phases : Inside(phase_data[j], ts)}
<1>1. CASE hits = {}
  BY <1>1 DEF FindPhase
<1>2. CASE hits # {}
  <2>1. hits \subseteq Nat
    BY DEF Phases
  <2>2. \E x \in hits : \A y \in hits : x <= y
    BY <1>2, <2>1, LeastNatural
  <2>3. Min(hits) \in hits
    BY <2>2 DEF Min
  <2> QED BY <1>2, <2>3 DEF FindPhase
<1> QED BY <1>1, <1>2

-----------------------------------------------------------------------------
(* TypeOK needs to know that a table that was completed has no more phases  *)
(* than rows, so that a phase that is found is a row.                       *)
TypeInv == TypeOK /\ (pc \in {"bin", "done"} => number_phase <= MaxPhases)

(* A packet that is about to be binned is one of the capture, and the phase *)
(* it is taken to be in, found or inherited, is a row of the table          *)
(* (main.cpp:311-319).                                                      *)
LEMMA Binned ==
  ASSUME TypeInv, pc = "bin", k <= Len(trace)
  PROVE  /\ k \in 1 .. Len(trace) /\ trace[k] \in PacketType
         /\ FindPhase(trace[k].ts) \in Rows /\ FindPhase(trace[k].ts) < number_phase
<1>1. k \in 1 .. Len(trace) /\ Len(trace) \in Nat
  BY DEF TypeInv, TypeOK
<1>2. number_phase \in Nat /\ number_phase <= MaxPhases
  BY DEF TypeInv, TypeOK
<1>3. \A j \in Phases : j \in Rows /\ j < number_phase
  BY <1>2, BinningConstants DEF Phases, Rows
<1>4. mark \in Rows /\ mark < number_phase
  BY DEF TypeInv, TypeOK
<1>5. trace[k] \in PacketType
  BY <1>1 DEF TypeInv, TypeOK
<1> QED BY <1>1, <1>2, <1>3, <1>4, <1>5, FoundPhase

(* TypeInv is inductive: AddPhase stops at the last row, and mark is only   *)
(* ever set to a phase or to 0 (main.cpp:292-337).                          *)
LEMMA TypeInductive == Spec => []TypeInv
<1> USE BinningConstants
<1>1. Init => TypeInv
  <2> SUFFICES ASSUME Init PROVE TypeInv
    OBVIOUS
  <2>1. trace \in Seq(PacketType) /\ Len(trace) \in Nat
    BY TracesAssumption DEF Init
  <2>2. min \in 0 .. Word - 1 /\ max \in Nat
    <3>1. CASE trace = <<>>
      <4>1. min \in Garbage /\ max \in Garbage
        BY <3>1 DEF Init
      <4> QED BY <4>1
    <3>2. CASE trace # <<>>
      <4>1. 1 \in 1 .. Len(trace) /\ Len(trace) \in 1 .. Len(trace)
        BY <2>1, <3>2
      <4>2. trace[1].ts \in Nat /\ trace[Len(trace)].ts \in Nat
        <5>1. trace[1] \in PacketType /\ trace[Len(trace)] \in PacketType
          BY <2>1, <4>1
        <5> QED BY <5>1 DEF PacketType
      <4>3. trace[1].ts \div Tick \in Nat /\ trace[Len(trace)].ts \div Tick \in Nat
        BY <4>2, Quotient
      <4>4. trace[1].ts \div Tick < Word
        BY <4>1, TracesAssumption DEF Init
      <4> QED BY <3>2, <4>3, <4>4 DEF Init, FirstSecond, LastSecond
    <3> QED BY <3>1, <3>2
  <2>3. number_phase \in Nat \ {0}
    BY <2>2, PhaseCountBounds DEF Init
  <2> QED BY <2>1, <2>2, <2>3 DEF Init, TypeInv, TypeOK, Rows, Columns
<1>2. TypeInv /\ [Next]_vars => TypeInv'
  <2> SUFFICES ASSUME TypeInv, [Next]_vars PROVE TypeInv'
    OBVIOUS
  <2>0. CASE InitStatistics \/ StatisticsTooMany
    BY <2>0 DEF InitStatistics, StatisticsTooMany, TypeInv, TypeOK, Rows, Columns
  <2>1. CASE AddPhase
    <3>1. p \in Rows /\ p + 1 \in 0 .. MaxPhases /\ p + 1 <= number_phase
      BY <2>1 DEF AddPhase, MorePhases, TypeInv, TypeOK, Rows
    <3>2. min \in Nat /\ max \in Nat
      BY DEF TypeInv, TypeOK
    <3>3. min' \in 0 .. Word - 1
      BY <2>1, <3>2, PhaseEndTypes DEF AddPhase
    <3>4. phase_data' \in [Rows -> [Columns -> Nat]]
      <4>1. PhaseEnd(min, max) \in Nat
        BY <3>2, PhaseEndTypes
      <4>2. phase_data' = [phase_data EXCEPT ![p][0] = min, ![p][1] = PhaseEnd(min, max)]
        BY <2>1 DEF AddPhase
      <4> QED BY <3>1, <3>2, <4>1, <4>2 DEF TypeInv, TypeOK
    <3> QED BY <2>1, <3>1, <3>3, <3>4 DEF AddPhase, TypeInv, TypeOK, Rows, Columns
  <2>2. CASE TableOverflow
    BY <2>2 DEF TableOverflow, TypeInv, TypeOK, Rows, Columns
  <2>3. CASE TableDone
    BY <2>3 DEF TableDone, MorePhases, TypeInv, TypeOK, Rows, Columns
  <2>4. CASE SkipAck
    <3>1. pc = "bin" /\ k \in 1 .. Len(trace) /\ k + 1 \in 1 .. Len(trace) + 1
      BY <2>4 DEF SkipAck, TypeInv, TypeOK
    <3>2. mark' \in Rows /\ mark' < number_phase
      BY <2>4, <3>1, Binned DEF SkipAck
    <3>3. placed' \in Seq(Rows \cup {NoRow}) /\ Len(placed') = k
      BY <2>4 DEF SkipAck, TypeInv, TypeOK
    <3> QED BY <2>4, <3>1, <3>2, <3>3 DEF SkipAck, TypeInv, TypeOK, Rows, Columns
  <2>5. CASE SavePayload
    <3>1. pc = "bin" /\ k \in 1 .. Len(trace) /\ k + 1 \in 1 .. Len(trace) + 1
      BY <2>5 DEF SavePayload, TypeInv, TypeOK
    <3> DEFINE row == FindPhase(trace[k].ts)
               col == Column(trace[k].src, trace[k].dst)
               net == NetBytes(trace[k].payload)
    <3>2. row \in Rows /\ trace[k] \in PacketType
      BY <3>1, Binned
    <3>3. net \in Nat
      <4>1. trace[k].payload \in Nat
        BY <3>2 DEF PacketType
      <4> QED BY <4>1, NetBytesNatural
    <3>4. col \in Columns /\ phase_data' = [phase_data EXCEPT ![row][col] = @ + net]
      BY <2>5 DEF SavePayload, AddBytes
    <3> HIDE DEF row, col, net
    <3>5. phase_data' \in [Rows -> [Columns -> Nat]]
      <4>1. phase_data[row][col] + net \in Nat
        BY <3>2, <3>3, <3>4 DEF TypeInv, TypeOK
      <4> QED BY <3>2, <3>4, <4>1 DEF TypeInv, TypeOK
    <3>6. placed' \in Seq(Rows \cup {NoRow}) /\ Len(placed') = k
      <4>1. placed' = Append(placed, row)
        BY <2>5 DEF SavePayload, row
      <4> QED BY <3>2, <4>1 DEF TypeInv, TypeOK
    <3>7. mark' \in Rows /\ mark' < number_phase
      BY <2>5 DEF SavePayload, Rows, TypeInv, TypeOK
    <3>8. k' = k + 1 /\ UNCHANGED <<trace, window_size, min, max, number_phase, p, pc>>
      BY <2>5 DEF SavePayload
    <3>9. k' \in 1 .. Len(trace') + 1 /\ Len(placed') = k' - 1
      BY <3>1, <3>6, <3>8
    <3> QED BY <3>5, <3>6, <3>7, <3>8, <3>9 DEF TypeInv, TypeOK, Rows, Columns
  <2>6. CASE SaveOutsideRow
    BY <2>6 DEF SaveOutsideRow, TypeInv, TypeOK, Rows, Columns
  <2>7. CASE TraceDone
    BY <2>7 DEF TraceDone, TypeInv, TypeOK, Rows, Columns
  <2>8. CASE UNCHANGED vars
    BY <2>8 DEF vars, TypeInv, TypeOK, Rows, Columns
  <2> QED BY <2>0, <2>1, <2>2, <2>3, <2>4, <2>5, <2>6, <2>7, <2>8 DEF Next
<1> QED BY <1>1, <1>2, PTL DEF Spec

(* TypeOK: no row past the allocated ones is ever indexed, and no element   *)
(* past the end of a row (main.cpp:292-337).                                *)
THEOREM TypeCorrect == Spec => []TypeOK
<1>1. TypeInv => TypeOK
  BY DEF TypeInv
<1> QED BY <1>1, TypeInductive, PTL

-----------------------------------------------------------------------------
(* The column of a flow between simulated hosts (main.cpp:322): the         *)
(* unsigned arithmetic does not wrap, and the column is one of the matrix,  *)
(* after the two bounds and before the results.                             *)
LEMMA HostColumn ==
  ASSUME NEW s \in Hosts, NEW d \in Hosts
  PROVE  /\ Column(s, d) = 2 + LeafNodes * (s - 2) + (d - 2)
         /\ Column(s, d) \in 2 .. LeafNodes * LeafNodes + 1
         /\ Column(s, d) \in Columns
<1> USE BinningConstants
<1> DEFINE x == s - 2
           y == d - 2
<1>1. x \in 0 .. LeafNodes - 1 /\ y \in 0 .. LeafNodes - 1
  BY DEF Hosts
<1> HIDE DEF x, y
<1>2. LeafNodes * x <= LeafNodes * (LeafNodes - 1) /\ LeafNodes * x \in Nat
  BY <1>1
<1>3. LeafNodes * (LeafNodes - 1) = LeafNodes * LeafNodes - LeafNodes
  OBVIOUS
<1>4. LeafNodes * LeafNodes \in Nat
  OBVIOUS
<1>5. 2 + LeafNodes * x + y \in 2 .. LeafNodes * LeafNodes + 1
  BY <1>1, <1>2, <1>3, <1>4
<1>6. 2 + LeafNodes * x + y \in 0 .. Word - 1
  BY <1>4, <1>5
<1>7. \A a \in 0 .. Word - 1 : a \in Int /\ a % Word = a
  BY Remainder
<1>8. (2 + LeafNodes * x + y) % Word = 2 + LeafNodes * x + y
  BY <1>6, <1>7
<1>9. Column(s, d) = 2 + LeafNodes * x + y
  BY <1>8 DEF Column, x, y
<1>10. 2 + LeafNodes * x + y \in Columns
  BY <1>4, <1>5 DEF Columns
<1> QED BY <1>5, <1>9, <1>10 DEF x, y

(* Once the table is built, no step of a well-formed capture moves the      *)
(* bounds of a row.                                                         *)
LEMMA RowsStay ==
  ASSUME TypeInv, [Next]_vars, WellFormed, pc \notin {"init", "table"}, NEW j \in Rows
  PROVE  /\ phase_data'[j][0] = phase_data[j][0]
         /\ phase_data'[j][1] = phase_data[j][1]
<1>1. CASE SavePayload
  <2>1. pc = "bin" /\ k \in 1 .. Len(trace)
    BY <1>1 DEF SavePayload, TypeInv, TypeOK
  <2> DEFINE row == FindPhase(trace[k].ts)
             col == Column(trace[k].src, trace[k].dst)
  <2>2. col \in 2 .. LeafNodes * LeafNodes + 1 /\ col \in Columns
    BY <2>1, HostColumn DEF WellFormed
  <2>3. col # 0 /\ col # 1
    BY <2>2
  <2>4. \E b : phase_data' = [phase_data EXCEPT ![row][col] = b]
    BY <1>1 DEF SavePayload, AddBytes
  <2> HIDE DEF row, col
  <2> QED BY <2>3, <2>4 DEF TypeInv, TypeOK
<1>2. CASE ~ SavePayload
  BY <1>2 DEF Next, vars, InitStatistics, StatisticsTooMany, AddPhase, TableOverflow, TableDone, SkipAck, SaveOutsideRow, TraceDone
<1> QED BY <1>1, <1>2

(* BoundsFrozen: in a well-formed capture no packet is added to the bounds  *)
(* of a phase, although they are in the same row as its matrix.             *)
THEOREM BoundsStay == Spec => BoundsFrozen
<1> DEFINE Frozen ==
      WellFormed /\ pc \in {"bin", "done"} =>
        \A r \in Rows : /\ phase_data'[r][0] = phase_data[r][0]
                        /\ phase_data'[r][1] = phase_data[r][1]
<1>1. TypeInv /\ [Next]_vars => [Frozen]_vars
  BY RowsStay
<1> QED BY <1>1, TypeInductive, PTL DEF Spec, BoundsFrozen

-----------------------------------------------------------------------------
(* The number of phases is that of the capture, and only an unusual capture *)
(* faults.                                                                  *)
FaultInv ==
  WellFormed => number_phase = PhaseCount(FirstSecond(trace), LastSecond(trace))
                /\ pc # "fault"

(* What NetworkSimulation::init allocates for a well-formed capture         *)
(* (main.cpp:205-206): no more elements than the table has seconds.         *)
LEMMA StatisticsFit ==
  ASSUME TypeInv, WellFormed
  PROVE  ~ StatisticsTooMany
<1> USE BinningConstants
<1> DEFINE span == trace[Len(trace)].ts - trace[1].ts
           width == Tick * window_size
           most == MaxPhases * PhaseSize
           first == trace[1].ts
           last == trace[Len(trace)].ts
<1>1. trace # <<>> /\ window_size \in Nat /\ window_size > 0
  BY DEF WellFormed, TypeInv, TypeOK
<1>2. first \in Nat /\ last \in Nat
  <2>1. trace \in Seq(PacketType) /\ Len(trace) \in Nat
    BY DEF TypeInv, TypeOK
  <2>2. 1 \in 1 .. Len(trace) /\ Len(trace) \in 1 .. Len(trace)
    BY <1>1, <2>1
  <2>3. trace[1] \in PacketType /\ trace[Len(trace)] \in PacketType
    BY <2>1, <2>2
  <2> QED BY <2>3 DEF PacketType
<1>3. most \in Nat /\ width \in Nat \ {0} /\ Tick <= width
  <2>1. \A a, b \in Nat \ {0} : a * b \in Nat \ {0} /\ a <= a * b
    OBVIOUS
  <2> QED BY <1>1, <2>1
<1>4. first \div Tick <= last \div Tick /\ last \div Tick - first \div Tick < most
  BY DEF WellFormed, FirstSecond, LastSecond
<1> HIDE DEF first, last, width, most
<1>5. last - first < most * Tick /\ first - last < Tick
  <2> DEFINE a == first \div Tick
             b == last \div Tick
  <2>1. /\ a \in Nat /\ Tick * a <= first /\ first < Tick * (a + 1)
        /\ b \in Nat /\ Tick * b <= last /\ last < Tick * (b + 1)
    BY <1>2, Quotient, QuotientUpper
  <2>2. a <= b /\ b + 1 <= a + most
    BY <1>3, <1>4, <2>1
  <2> HIDE DEF a, b
  <2>3. Tick * a <= Tick * b /\ Tick * (b + 1) <= Tick * (a + most)
    BY <1>3, <2>1, <2>2
  <2>4. /\ Tick * (a + most) = Tick * a + most * Tick
        /\ Tick * (a + 1) = Tick * a + Tick
    BY <1>3, <2>1
  <2>5. /\ Tick * a \in Int /\ Tick * b \in Int /\ Tick * (b + 1) \in Int
        /\ Tick * (a + most) \in Int /\ most * Tick \in Int
    BY <1>3, <2>1
  <2> QED BY <1>2, <2>1, <2>3, <2>4, <2>5
<1>6. IntQuotient(last - first, width) \in 0 .. most - 1
  <2> DEFINE q == IF last - first >= 0 THEN (last - first) \div width
                  ELSE -((-(last - first)) \div width)
  <2>1. q \in 0 .. most - 1
    <3>1. CASE last - first >= 0
      <4>1. last - first \in Nat /\ last - first < most * width
        <5>1. most * Tick <= most * width
          BY <1>3
        <5>2. most * Tick \in Int /\ most * width \in Int
          BY <1>3
        <5> QED BY <1>2, <1>5, <3>1, <5>1, <5>2
      <4>2. \A x, m \in Nat, w \in Nat \ {0} :
              x < m * w => x \div w \in Nat /\ x \div w < m
        OBVIOUS
      <4>3. (last - first) \div width \in Nat /\ (last - first) \div width < most
        BY <1>3, <4>1, <4>2
      <4> QED BY <1>3, <3>1, <4>3
    <3>2. CASE last - first < 0
      <4>1. -(last - first) \in 0 .. width - 1
        BY <1>2, <1>3, <1>5, <3>2
      <4>2. \A w \in Nat \ {0} : \A x \in 0 .. w - 1 : x \div w = 0
        OBVIOUS
      <4>3. (-(last - first)) \div width = 0
        BY <1>3, <4>1, <4>2
      <4>4. most > 0
        BY <1>3, <1>4, Quotient, <1>2
      <4> QED BY <1>2, <1>3, <3>2, <4>3, <4>4
    <3> QED BY <1>2, <3>1, <3>2
  <2>2. q \in LeastInt .. -LeastInt - 1
    <3>1. most <= Word \div 2 /\ Word \div 2 \in Nat
      BY DEF most
    <3> HIDE DEF q
    <3> QED BY <1>3, <2>1, <3>1 DEF LeastInt
  <2>3. IntQuotient(last - first, width) = q
    BY <2>2 DEF IntQuotient
  <2> HIDE DEF q
  <2> QED BY <2>1, <2>3
<1>7. StatisticsCounts = {(IntQuotient(last - first, width) + 1) % Word}
  BY <1>1 DEF StatisticsCounts, first, last, width
<1>8. \A x \in 0 .. most - 1 : (x + 1) % Word <= MaxStatistics
  <2> SUFFICES ASSUME NEW x \in 0 .. most - 1 PROVE (x + 1) % Word <= MaxStatistics
    OBVIOUS
  <2>1. most <= Word \div 2 /\ Word \div 2 < Word /\ Word \div 2 \in Nat
        /\ most <= MaxStatistics
    <3>1. Word \div 2 \in Nat /\ Word \div 2 < Word
      OBVIOUS
    <3> QED BY <3>1 DEF most
  <2>2. x + 1 \in 0 .. Word - 1 /\ x + 1 <= MaxStatistics
    BY <1>3, <2>1
  <2>3. \A a \in 0 .. Word - 1 : a \in Int /\ a % Word = a
    BY Remainder
  <2> QED BY <2>2, <2>3
<1> QED BY <1>6, <1>7, <1>8 DEF StatisticsTooMany

(* FaultInv is inductive: the two faults need more phases than rows, or a   *)
(* packet whose column is not in the row (main.cpp:292-337).                *)
LEMMA FaultInductive == Spec => []FaultInv
<1> USE BinningConstants
<1>1. Init => FaultInv
  BY DEF Init, FaultInv, WellFormed
<1>2. TypeInv /\ FaultInv /\ [Next]_vars => FaultInv'
  <2> SUFFICES ASSUME TypeInv, FaultInv, [Next]_vars, WellFormed'
               PROVE  number_phase' = PhaseCount(FirstSecond(trace'), LastSecond(trace'))
                      /\ pc' # "fault"
    BY DEF FaultInv
  <2>1. UNCHANGED <<trace, window_size, number_phase>>
    BY DEF Next, vars, InitStatistics, StatisticsTooMany, AddPhase, TableOverflow, TableDone,
           SkipAck, SavePayload, SaveOutsideRow, TraceDone
  <2>2. WellFormed
    BY <2>1 DEF WellFormed, Hosts
  <2>3. number_phase = PhaseCount(FirstSecond(trace), LastSecond(trace)) /\ pc # "fault"
    BY <2>2 DEF FaultInv
  <2>4. FirstSecond(trace) \in Nat /\ LastSecond(trace) \in Nat
    <3>1. trace[1] \in PacketType /\ trace[Len(trace)] \in PacketType
      <4>1. trace \in Seq(PacketType) /\ trace # <<>>
        BY <2>2 DEF WellFormed, TypeInv, TypeOK
      <4>2. 1 \in 1 .. Len(trace) /\ Len(trace) \in 1 .. Len(trace)
        BY <4>1
      <4> QED BY <4>1, <4>2
    <3>2. trace[1].ts \in Nat /\ trace[Len(trace)].ts \in Nat
      BY <3>1 DEF PacketType
    <3>3. trace[1].ts \div Tick \in Nat /\ trace[Len(trace)].ts \div Tick \in Nat
      BY <3>2, Quotient
    <3> QED BY <3>3 DEF FirstSecond, LastSecond
  <2>5. number_phase <= MaxPhases
    <3> DEFINE lo == FirstSecond(trace)
               hi == LastSecond(trace)
    <3>1. lo <= hi /\ hi - lo < Word /\ hi - lo < MaxPhases * PhaseSize
      BY <2>2, <2>4 DEF WellFormed
    <3>2. lo \in Int /\ hi \in Int
      BY <2>4
    <3> HIDE DEF lo, hi
    <3>3. PhaseCount(lo, hi) <= MaxPhases
      BY <3>1, <3>2, PhaseCountBounds
    <3> QED BY <2>3, <3>3 DEF lo, hi
  <2>6. ~ TableOverflow
    BY <2>5 DEF TableOverflow, MorePhases, TypeInv, TypeOK
  <2>7. ~ SaveOutsideRow
    <3>1. SUFFICES ASSUME k \in 1 .. Len(trace)
                   PROVE  Column(trace[k].src, trace[k].dst) \in Columns
      BY DEF SaveOutsideRow, TypeInv, TypeOK
    <3> QED BY <2>2, <3>1, HostColumn DEF WellFormed
  <2>8. pc' # "fault"
    BY <2>2, <2>3, <2>6, <2>7, StatisticsFit
       DEF Next, vars, InitStatistics, AddPhase, TableDone, SkipAck, SavePayload, TraceDone
  <2> QED BY <2>1, <2>3, <2>8
<1> QED BY <1>1, <1>2, TypeInductive, PTL DEF Spec

(* WellFormedNeverFaults: a capture of some packets between simulated       *)
(* hosts, whose clock did not step back and which is not too long, cut with *)
(* a window_size above zero, is processed without exhausting the memory or  *)
(* leaving the arrays.                                                      *)
THEOREM NeverFaults == Spec => []WellFormedNeverFaults
<1>1. FaultInv => WellFormedNeverFaults
  BY DEF FaultInv, WellFormedNeverFaults
<1> QED BY <1>1, FaultInductive, PTL

-----------------------------------------------------------------------------
(* Which phase a packet goes to.                                            *)

Start(j) == phase_data[j][0]
End(j)   == phase_data[j][1]

(* The rows below p hold phases that follow each other, cover every second  *)
(* up to min, and do not reach it.                                          *)
RowsInv ==
  /\ \A j \in 0 .. p - 1 : /\ Start(j) <= End(j) + 1 /\ End(j) < min
  /\ \A i, j \in 0 .. p - 1 : i < j => End(i) < Start(j)
  /\ \A sec \in FirstSecond(trace) .. min - 1 :
       \E j \in 0 .. p - 1 : Start(j) <= sec /\ sec <= End(j)

(* A phase takes PhaseSize + 1 seconds of the trace, as long as there are   *)
(* any.                                                                     *)
NextStart ==
  /\ max = LastSecond(trace)
  /\ min \in FirstSecond(trace) .. LastSecond(trace) + 1
  /\ min = LastSecond(trace) + 1 \/ min = FirstSecond(trace) + p * (PhaseSize + 1)

TableInv == WellFormed => /\ RowsInv /\ NextStart
                          /\ pc \in {"bin", "done"} => p = number_phase

(* Nothing is placed before the table is built, and data goes to some row.  *)
PlacedInRows ==
  /\ pc \in {"init", "table"} => placed = <<>> /\ mark = 0
  /\ \A n \in 1 .. Len(placed) : Data(n) => placed[n] \in Rows

(* What mark is left at: a phase that had begun when the last packet taken  *)
(* was sent.  In time order this is no later than the next one.             *)
MarkInv ==
  WellFormed /\ InTimeOrder =>
    mark = 0 \/ (k > 1 /\ Start(mark) * Tick <= trace[k - 1].ts)

PlacedInv == PlacedInRows /\ MatchedIsLocal /\ MarkInv /\ NeverBinnedAhead

-----------------------------------------------------------------------------
(* The bounds of a row are whole seconds (main.cpp:294-295).                *)
LEMMA RowTypes ==
  ASSUME TypeInv, NEW j \in Rows
  PROVE  Start(j) \in Nat /\ End(j) \in Nat
<1>1. 0 \in Columns /\ 1 \in Columns
  <2>1. LeafNodes * LeafNodes \in Nat
    BY BinningConstants
  <2> QED BY <2>1, BinningConstants DEF Columns
<1> QED BY <1>1 DEF Start, End, TypeInv, TypeOK

(* The seconds of a well-formed capture, in which uint32_t does not wrap.   *)
LEMMA CaptureSeconds ==
  ASSUME TypeInv, WellFormed
  PROVE  /\ FirstSecond(trace) \in Nat /\ LastSecond(trace) \in Nat
         /\ FirstSecond(trace) <= LastSecond(trace)
         /\ LastSecond(trace) + PhaseSize + 1 < Word
         /\ \A n \in 1 .. Len(trace) : trace[n].ts \in Nat
<1>1. trace \in Seq(PacketType) /\ trace # <<>>
  BY DEF WellFormed, TypeInv, TypeOK
<1>2. 1 \in 1 .. Len(trace) /\ Len(trace) \in 1 .. Len(trace)
  BY <1>1
<1>3. \A n \in 1 .. Len(trace) : trace[n].ts \in Nat
  <2>1. \A n \in 1 .. Len(trace) : trace[n] \in PacketType
    BY <1>1
  <2> QED BY <2>1 DEF PacketType
<1>4. trace[1].ts \div Tick \in Nat /\ trace[Len(trace)].ts \div Tick \in Nat
  BY <1>2, <1>3, BinningConstants, Quotient
<1> QED BY <1>3, <1>4 DEF WellFormed, FirstSecond, LastSecond

(* The phases counted (main.cpp:252-253) are enough to reach the end.       *)
LEMMA PhasesReachTheEnd ==
  ASSUME NEW lo \in Nat, NEW hi \in Nat, lo <= hi, hi < Word
  PROVE  hi < lo + PhaseCount(lo, hi) * (PhaseSize + 1)
<1> USE BinningConstants
<1> DEFINE q == (hi - lo) \div PhaseSize
<1>1. (hi - lo) % Word = hi - lo
  <2>1. hi - lo \in 0 .. Word - 1
    OBVIOUS
  <2>2. \A a \in 0 .. Word - 1 : a \in Int /\ a % Word = a
    BY Remainder
  <2> QED BY <2>1, <2>2
<1>2. PhaseCount(lo, hi) = q + 1
  BY <1>1 DEF PhaseCount
<1>3. q \in Nat /\ hi - lo < PhaseSize * q + PhaseSize
  <2>1. hi - lo \in Nat
    OBVIOUS
  <2>2. \A a \in Nat, b \in Nat \ {0} : a < b * (a \div b) + b /\ a \div b \in Nat
    OBVIOUS
  <2> QED BY <2>1, <2>2
<1> HIDE DEF q
<1>4. (q + 1) * (PhaseSize + 1) = PhaseSize * q + PhaseSize + q + 1
  BY <1>3
<1>5. PhaseSize * q \in Nat
  BY <1>3
<1> QED BY <1>2, <1>3, <1>4, <1>5

(* The end of the phase that starts at min, and the start of the next.      *)
LEMMA NextPhase ==
  ASSUME TypeInv, WellFormed, NextStart
  PROVE  LET e == PhaseEnd(min, max)
         IN  /\ e \in Nat /\ (e + 1) % Word = e + 1
             /\ min <= e + 1 /\ e <= LastSecond(trace)
             /\ \/ e = LastSecond(trace)
                \/ e + 1 = FirstSecond(trace) + (p + 1) * (PhaseSize + 1)
<1> USE BinningConstants
<1> DEFINE lo == FirstSecond(trace)
           hi == LastSecond(trace)
           e == PhaseEnd(min, max)
<1>1. lo \in Nat /\ hi \in Nat /\ lo <= hi /\ hi + PhaseSize + 1 < Word
  BY CaptureSeconds
<1>2. max = hi /\ min \in lo .. hi + 1 /\ (min = hi + 1 \/ min = lo + p * (PhaseSize + 1))
  BY DEF NextStart
<1>3. p \in Nat
  BY DEF TypeInv, TypeOK
<1> HIDE DEF lo, hi
<1>4. \A a \in 0 .. Word - 1 : a \in Int /\ a % Word = a
  BY Remainder
<1>5. min + PhaseSize \in 0 .. Word - 1
  BY <1>1, <1>2
<1>6. e = IF min + PhaseSize < hi THEN min + PhaseSize ELSE hi
  BY <1>2, <1>4, <1>5 DEF PhaseEnd
<1>7. e \in Nat /\ e <= hi /\ min <= e + 1
  BY <1>1, <1>2, <1>6
<1>8. e + 1 \in 0 .. Word - 1
  BY <1>1, <1>7
<1>9. (e + 1) % Word = e + 1
  BY <1>4, <1>8
<1>10. e = hi \/ e + 1 = lo + (p + 1) * (PhaseSize + 1)
  <2>1. SUFFICES ASSUME min + PhaseSize < hi
                 PROVE  e + 1 = lo + (p + 1) * (PhaseSize + 1)
    BY <1>6
  <2>2. min = lo + p * (PhaseSize + 1)
    BY <1>1, <1>2, <2>1
  <2>3. (p + 1) * (PhaseSize + 1) = p * (PhaseSize + 1) + PhaseSize + 1
    BY <1>3
  <2>4. p * (PhaseSize + 1) \in Nat
    BY <1>3
  <2> QED BY <1>1, <1>6, <2>1, <2>2, <2>3, <2>4
<1> QED BY <1>7, <1>9, <1>10 DEF lo, hi

(* AddPhase extends the table by a phase (main.cpp:292-298).                *)
LEMMA AddPhaseKeepsTable ==
  ASSUME TypeInv, WellFormed, RowsInv, NextStart, AddPhase
  PROVE  RowsInv' /\ NextStart'
<1> DEFINE e == PhaseEnd(min, max)
<1>1. p \in Rows /\ p \in Nat /\ p + 1 \in Nat /\ min \in Nat
  BY BinningConstants DEF AddPhase, TypeInv, TypeOK, Rows
<1>2. /\ e \in Nat /\ (e + 1) % Word = e + 1
      /\ min <= e + 1 /\ e <= LastSecond(trace)
      /\ e = LastSecond(trace) \/ e + 1 = FirstSecond(trace) + (p + 1) * (PhaseSize + 1)
  BY NextPhase
<1>3. phase_data' = [phase_data EXCEPT ![p][0] = min, ![p][1] = e]
      /\ min' = (e + 1) % Word /\ p' = p + 1 /\ UNCHANGED <<trace, max>>
  BY DEF AddPhase
<1> HIDE DEF e
<1>4. min' = e + 1
  BY <1>2, <1>3
<1>5. 0 \in Columns /\ 1 \in Columns
  <2>1. LeafNodes * LeafNodes \in Nat
    BY BinningConstants
  <2> QED BY <2>1, BinningConstants DEF Columns
<1>6. phase_data'[p][0] = min /\ phase_data'[p][1] = e
  BY <1>1, <1>3, <1>5 DEF TypeInv, TypeOK
<1>7. \A j \in 0 .. p - 1 : /\ j \in Rows
                           /\ phase_data'[j][0] = Start(j) /\ phase_data'[j][1] = End(j)
  <2>1. \A j \in 0 .. p - 1 : j \in Rows /\ j # p
    BY <1>1, BinningConstants DEF Rows
  <2> QED BY <1>1, <1>3, <1>5, <2>1 DEF TypeInv, TypeOK, Start, End
<1>8. \A j \in 0 .. p - 1 : Start(j) \in Nat /\ End(j) \in Nat
  BY <1>7, RowTypes
<1>9. FirstSecond(trace) \in Nat /\ LastSecond(trace) \in Nat
  BY CaptureSeconds
<1>10. FirstSecond(trace') = FirstSecond(trace) /\ LastSecond(trace') = LastSecond(trace)
  BY <1>3
<1>11. NextStart'
  BY <1>1, <1>2, <1>3, <1>4, <1>9, <1>10 DEF NextStart
<1>12. ASSUME NEW j \in 0 .. p
       PROVE  phase_data'[j][0] <= phase_data'[j][1] + 1 /\ phase_data'[j][1] < min'
  <2>1. CASE j = p
    BY <1>2, <1>4, <1>6, <1>1, <2>1
  <2>2. CASE j # p
    <3>1. j \in 0 .. p - 1
      BY <1>1, <2>2
    <3>2. Start(j) <= End(j) + 1 /\ End(j) < min
      BY <3>1 DEF RowsInv
    <3> QED BY <1>1, <1>2, <1>4, <1>7, <1>8, <3>1, <3>2
  <2> QED BY <2>1, <2>2
<1>13. ASSUME NEW i \in 0 .. p, NEW j \in 0 .. p, i < j
       PROVE  phase_data'[i][1] < phase_data'[j][0]
  <2>1. i \in 0 .. p - 1
    BY <1>1, <1>13
  <2>2. CASE j = p
    BY <1>6, <1>7, <2>1, <2>2 DEF RowsInv
  <2>3. CASE j # p
    <3>1. j \in 0 .. p - 1
      BY <1>1, <2>3
    <3> QED BY <1>7, <1>13, <2>1, <3>1 DEF RowsInv
  <2> QED BY <2>2, <2>3
<1>14. ASSUME NEW sec \in FirstSecond(trace) .. e
       PROVE  \E j \in 0 .. p : phase_data'[j][0] <= sec /\ sec <= phase_data'[j][1]
  <2>1. CASE sec < min
    <3>1. sec \in FirstSecond(trace) .. min - 1
      BY <1>1, <1>2, <1>9, <2>1
    <3>2. PICK j \in 0 .. p - 1 : Start(j) <= sec /\ sec <= End(j)
      BY <3>1 DEF RowsInv
    <3>3. j \in 0 .. p
      BY <1>1
    <3> QED BY <1>7, <3>2, <3>3
  <2>2. CASE ~ (sec < min)
    <3>1. min <= sec /\ sec <= e
      BY <1>1, <1>2, <1>9, <2>2
    <3>2. p \in 0 .. p
      BY <1>1
    <3> QED BY <1>6, <3>1, <3>2
  <2> QED BY <2>1, <2>2
<1>15. RowsInv'
  <2>1. 0 .. p' - 1 = 0 .. p /\ min' - 1 = e
    BY <1>1, <1>2, <1>3, <1>4
  <2> QED BY <1>10, <1>12, <1>13, <1>14, <2>1 DEF RowsInv, Start, End
<1> QED BY <1>11, <1>15

(* TableInv is inductive; after the table only the matrices change.         *)
LEMMA TableInductive == Spec => []TableInv
<1> USE BinningConstants
<1>1. Init /\ TypeInv => TableInv
  <2> SUFFICES ASSUME Init, TypeInv, WellFormed PROVE RowsInv /\ NextStart /\ pc \in {"init", "table"}
    BY DEF TableInv
  <2>1. p = 0 /\ pc \in {"init", "table"} /\ min = FirstSecond(trace) /\ max = LastSecond(trace)
    BY DEF Init, WellFormed
  <2>2. FirstSecond(trace) \in Nat /\ LastSecond(trace) \in Nat
        /\ FirstSecond(trace) <= LastSecond(trace)
    BY CaptureSeconds
  <2>3. 0 * (PhaseSize + 1) = 0
    OBVIOUS
  <2> QED BY <2>1, <2>2, <2>3 DEF RowsInv, NextStart
<1>2. TypeInv /\ TableInv /\ [Next]_vars => TableInv'
  <2> SUFFICES ASSUME TypeInv, TableInv, [Next]_vars, WellFormed'
               PROVE  RowsInv' /\ NextStart' /\ (pc' \in {"bin", "done"} => p' = number_phase')
    BY DEF TableInv
  <2>1. UNCHANGED <<trace, window_size, number_phase, max>>
    BY DEF Next, vars, InitStatistics, StatisticsTooMany, AddPhase, TableOverflow, TableDone,
           SkipAck, SavePayload, SaveOutsideRow, TraceDone
  <2>2. WellFormed
    BY <2>1 DEF WellFormed, Hosts
  <2>3. RowsInv /\ NextStart /\ (pc \in {"bin", "done"} => p = number_phase)
    BY <2>2 DEF TableInv
  <2>4. CASE AddPhase
    BY <2>2, <2>3, <2>4, AddPhaseKeepsTable DEF AddPhase
  <2>5. CASE TableDone
    <3>1. p = number_phase
      BY <2>5 DEF TableDone, MorePhases, TypeInv, TypeOK
    <3> QED BY <2>3, <2>5, <3>1 DEF TableDone, RowsInv, NextStart, Start, End
  <2>6. CASE TableOverflow
    BY <2>3, <2>6 DEF TableOverflow, RowsInv, NextStart, Start, End
  <2>7. CASE ~ (AddPhase \/ TableDone \/ TableOverflow)
    <3>1. UNCHANGED <<trace, window_size, number_phase, max, min, p>>
          /\ (pc' \in {"bin", "done"} => pc' = pc \/ pc = "bin")
      BY <2>7 DEF Next, vars, InitStatistics, StatisticsTooMany, SkipAck, SavePayload, SaveOutsideRow, TraceDone
    <3>2. \A j \in 0 .. p - 1 : j \in Rows
      BY DEF TypeInv, TypeOK, Rows
    <3>3. \A j \in 0 .. p - 1 : /\ phase_data'[j][0] = phase_data[j][0]
                               /\ phase_data'[j][1] = phase_data[j][1]
      <4>1. CASE pc \notin {"init", "table"}
        BY <2>2, <3>2, <4>1, RowsStay
      <4>2. CASE pc \in {"init", "table"}
        BY <2>7, <4>2 DEF Next, vars, InitStatistics, StatisticsTooMany, SkipAck, SavePayload, SaveOutsideRow, TraceDone
      <4> QED BY <4>1, <4>2
    <3> QED BY <2>3, <3>1, <3>3 DEF RowsInv, NextStart, Start, End
  <2> QED BY <2>4, <2>5, <2>6, <2>7
<1> QED BY <1>1, <1>2, TypeInductive, PTL DEF Spec

-----------------------------------------------------------------------------
(* The finished table: rows that follow each other up to the last second.   *)
LEMMA FinishedTable ==
  ASSUME TypeInv, TableInv, FaultInv, WellFormed, pc \notin {"init", "table"}
  PROVE  /\ RowsInv /\ p = number_phase /\ Phases = 0 .. p - 1 /\ Phases \subseteq Rows
         /\ min = LastSecond(trace) + 1
<1> USE BinningConstants
<1>1. pc \in {"bin", "done"} /\ number_phase = PhaseCount(FirstSecond(trace), LastSecond(trace))
  BY DEF FaultInv, TypeInv, TypeOK
<1>2. RowsInv /\ NextStart /\ p = number_phase
  BY <1>1 DEF TableInv
<1>3. Phases = 0 .. p - 1 /\ Phases \subseteq Rows
  BY <1>2 DEF Phases, Rows, TypeInv, TypeOK
<1> DEFINE lo == FirstSecond(trace)
           hi == LastSecond(trace)
<1>4. lo \in Nat /\ hi \in Nat /\ lo <= hi /\ hi < Word
  BY CaptureSeconds
<1>5. min \in lo .. hi + 1 /\ (min = hi + 1 \/ min = lo + PhaseCount(lo, hi) * (PhaseSize + 1))
  BY <1>1, <1>2 DEF NextStart
<1> HIDE DEF lo, hi
<1>6. hi < lo + PhaseCount(lo, hi) * (PhaseSize + 1)
  BY <1>4, PhasesReachTheEnd
<1>7. min = hi + 1
  BY <1>4, <1>5, <1>6
<1> QED BY <1>2, <1>3, <1>7 DEF hi

(* No time lies in two phases.                                              *)
LEMMA OnePhase ==
  ASSUME TypeInv, TableInv, FaultInv, WellFormed, pc \notin {"init", "table"},
         NEW ts \in Nat, NEW i \in Phases, NEW j \in Phases,
         Inside(phase_data[i], ts), Inside(phase_data[j], ts)
  PROVE  i = j
<1>1. ASSUME NEW a \in Phases, NEW b \in Phases, a < b,
             Inside(phase_data[a], ts), Inside(phase_data[b], ts)
      PROVE  FALSE
  <2>1. End(a) < Start(b)
    BY <1>1, FinishedTable DEF RowsInv
  <2>2. End(a) \in Nat /\ Start(b) \in Nat
    BY FinishedTable, RowTypes
  <2>3. End(a) * Tick <= Start(b) * Tick
    BY <2>1, <2>2, BinningConstants, TimesMonotone
  <2>4. Start(b) * Tick <= ts /\ ts < End(a) * Tick
    BY <1>1 DEF Inside, Start, End
  <2>5. Start(b) * Tick \in Nat /\ End(a) * Tick \in Nat
    BY <2>2, BinningConstants
  <2> QED BY <2>3, <2>4, <2>5
<1>2. i \in Nat /\ j \in Nat
  BY FinishedTable DEF Rows
<1> QED BY <1>1, <1>2

(* A time within the seconds of a phase but its last is inside, and a time  *)
(* inside is within them.                                                   *)
LEMMA InsideSeconds ==
  ASSUME NEW a \in Nat, NEW b \in Nat, NEW ts \in Nat
  PROVE  (a * Tick <= ts /\ ts < b * Tick) <=> (a <= ts \div Tick /\ ts \div Tick < b)
<1> DEFINE sec == ts \div Tick
<1>1. Tick \in Nat \ {0}
  BY BinningConstants
<1>2. sec \in Nat /\ sec * Tick <= ts /\ ts < (sec + 1) * Tick
  <2>1. \A x \in Nat, y \in Nat \ {0} :
          x \div y \in Nat /\ (x \div y) * y <= x /\ x < (x \div y + 1) * y
    OBVIOUS
  <2> QED BY <1>1, <2>1
<1> HIDE DEF sec
<1>3. \A x, y \in Nat : x * Tick \in Nat /\ (x <= y => x * Tick <= y * Tick)
  BY <1>1, TimesMonotone
<1>4. a <= sec => a * Tick <= ts
  BY <1>2, <1>3
<1>5. a * Tick <= ts => a <= sec
  <2>1. SUFFICES ASSUME sec + 1 <= a PROVE ts < a * Tick
    BY <1>2, <1>3
  <2> QED BY <1>2, <1>3, <2>1
<1>6. sec < b => ts < b * Tick
  <2>1. SUFFICES ASSUME sec + 1 <= b PROVE ts < b * Tick
    BY <1>2
  <2> QED BY <1>2, <1>3, <2>1
<1>7. ts < b * Tick => sec < b
  <2>1. SUFFICES ASSUME b <= sec PROVE b * Tick <= ts
    BY <1>2, <1>3
  <2> QED BY <1>2, <1>3, <2>1
<1> QED BY <1>4, <1>5, <1>6, <1>7 DEF sec

(* TableTilesTheTrace: every instant of the capture before its last second  *)
(* lies in exactly one phase, or in the second that is the end of one       *)
(* (main.cpp:292-298 and 313-319).                                          *)
THEOREM TableTiles == Spec => []TableTilesTheTrace
<1>1. TypeInv /\ TableInv /\ FaultInv => TableTilesTheTrace
  <2> SUFFICES ASSUME TypeInv, TableInv, FaultInv, WellFormed, pc \notin {"init", "table"},
                      NEW ts \in FirstSecond(trace) * Tick .. LastSecond(trace) * Tick - 1
               PROVE  LET homes == {j \in Phases : Inside(phase_data[j], ts)}
                      IN  /\ \A i, j \in homes : i = j
                          /\ homes = {} <=> \E j \in Phases : phase_data[j][1] = ts \div Tick
    BY DEF TableTilesTheTrace
  <2> DEFINE homes == {j \in Phases : Inside(phase_data[j], ts)}
             sec == ts \div Tick
             lo == FirstSecond(trace)
             hi == LastSecond(trace)
  <2>1. lo \in Nat /\ hi \in Nat
    BY CaptureSeconds
  <2>2. ts \in Nat /\ lo * Tick <= ts /\ ts < hi * Tick
    BY <2>1, BinningConstants
  <2>3. lo <= sec /\ sec < hi /\ sec \in Nat
    <3>1. sec \in Nat
      BY <2>2, BinningConstants, Quotient
    <3> HIDE DEF lo, hi
    <3> QED BY <2>1, <2>2, <3>1, InsideSeconds
  <2>4. \A i, j \in homes : i = j
    BY <2>2, OnePhase
  <2>5. \A j \in Phases : /\ Start(j) \in Nat /\ End(j) \in Nat
                          /\ j \in homes <=> Start(j) <= sec /\ sec < End(j)
    <3>1. ASSUME NEW j \in Phases PROVE Start(j) \in Nat /\ End(j) \in Nat
      BY FinishedTable, RowTypes
    <3>2. ASSUME NEW j \in Phases
          PROVE  Inside(phase_data[j], ts) <=> Start(j) <= sec /\ sec < End(j)
      <4>1. Inside(phase_data[j], ts) <=> Start(j) * Tick <= ts /\ ts < End(j) * Tick
        BY DEF Inside, Start, End
      <4> QED BY <2>2, <3>1, <4>1, InsideSeconds
    <3> QED BY <3>1, <3>2
  <2>6. PICK c \in Phases : Start(c) <= sec /\ sec <= End(c)
    <3>1. min - 1 = hi /\ RowsInv /\ Phases = 0 .. p - 1
      BY <2>1, FinishedTable
    <3>2. sec \in lo .. min - 1
      BY <2>1, <2>3, <3>1
    <3> QED BY <3>1, <3>2 DEF RowsInv
  <2>7. ASSUME homes = {} PROVE \E j \in Phases : End(j) = sec
    <3>1. ~ (sec < End(c))
      BY <2>5, <2>6, <2>7
    <3> QED BY <2>3, <2>5, <2>6, <3>1
  <2>8. ASSUME NEW j \in Phases, End(j) = sec, NEW i \in homes PROVE FALSE
    <3>1. i \in Phases /\ Start(i) <= End(j) /\ End(j) < End(i)
      BY <2>5, <2>8
    <3>2. /\ Start(j) <= End(j) + 1
          /\ i < j => End(i) < Start(j)
          /\ j < i => End(j) < Start(i)
      BY <3>1, FinishedTable DEF RowsInv
    <3>3. i \in Nat /\ j \in Nat
      BY <3>1, FinishedTable DEF Rows
    <3>4. i # j
      BY <2>5, <3>1
    <3> QED BY <2>5, <3>1, <3>2, <3>3, <3>4
  <2> HIDE DEF homes, sec
  <2>9. homes = {} <=> \E j \in Phases : End(j) = sec
    BY <2>7, <2>8
  <2> QED BY <2>4, <2>9 DEF homes, sec, End
<1> QED BY <1>1, TypeInductive, TableInductive, FaultInductive, PTL

-----------------------------------------------------------------------------
(* What a step adds to the placement (main.cpp:311-337): nothing, the row   *)
(* of a data packet, or, for an ACK, only a new mark.                       *)
Pause == UNCHANGED <<placed, mark, k>>

PutRow == /\ placed' = Append(placed, FindPhase(trace[k].ts)) /\ mark' = 0 /\ Data(k)

PutNone == /\ placed' = Append(placed, NoRow) /\ mark' = FindPhase(trace[k].ts) /\ ~ Data(k)

(* Every step is of one of these three kinds (main.cpp:292-337).            *)
LEMMA PlacementStep ==
  ASSUME TypeInv, [Next]_vars
  PROVE  /\ UNCHANGED <<trace, window_size, number_phase>>
         /\ pc' \in {"init", "table"} => pc \in {"init", "table"}
         /\ \/ Pause
            \/ /\ pc = "bin" /\ k \in 1 .. Len(trace) /\ k' = k + 1
               /\ PutRow \/ PutNone
<1>1. UNCHANGED <<trace, window_size, number_phase>> /\ (pc' \in {"init", "table"} => pc \in {"init", "table"})
  BY DEF Next, vars, InitStatistics, StatisticsTooMany, AddPhase, TableOverflow, TableDone,
         SkipAck, SavePayload, SaveOutsideRow, TraceDone
<1>2. CASE SkipAck
  BY <1>1, <1>2 DEF SkipAck, PutNone, Data, TypeInv, TypeOK
<1>3. CASE SavePayload
  BY <1>1, <1>3 DEF SavePayload, PutRow, Data, TypeInv, TypeOK
<1>4. CASE ~ (SkipAck \/ SavePayload)
  BY <1>1, <1>4 DEF Pause, Next, vars, InitStatistics, StatisticsTooMany,
                      AddPhase, TableOverflow, TableDone, SaveOutsideRow, TraceDone
<1> QED BY <1>1, <1>2, <1>3, <1>4

(* The new element of placed, and the old ones.                             *)
LEMMA AppendedRow ==
  ASSUME TypeInv, pc = "bin", k \in 1 .. Len(trace), PutRow \/ PutNone
  PROVE  /\ Len(placed') = k /\ Len(placed) = k - 1
         /\ \A n \in 1 .. Len(placed) : placed'[n] = placed[n]
         /\ placed'[k] = IF PutRow THEN FindPhase(trace[k].ts) ELSE NoRow
<1>1. FindPhase(trace[k].ts) \in Rows
  BY Binned
<1>2. placed \in Seq(Rows \cup {NoRow}) /\ Len(placed) = k - 1 /\ k \in Nat
  BY DEF TypeInv, TypeOK
<1>3. PICK x \in Rows \cup {NoRow} :
        placed' = Append(placed, x) /\ x = IF PutRow THEN FindPhase(trace[k].ts) ELSE NoRow
  BY <1>1 DEF PutRow, PutNone
<1> QED BY <1>2, <1>3

(* PlacedInRows: a packet that is counted is counted in a row.              *)
LEMMA PlacedInRowsKept ==
  ASSUME TypeInv, PlacedInRows, [Next]_vars
  PROVE  PlacedInRows'
<1>1. CASE Pause
  BY <1>1, PlacementStep DEF Pause, PlacedInRows, Data
<1>2. CASE pc = "bin" /\ k \in 1 .. Len(trace) /\ (PutRow \/ PutNone)
  <2>1. pc' \notin {"init", "table"} /\ trace' = trace
    BY <1>2, PlacementStep
  <2>2. ASSUME NEW n \in 1 .. Len(placed'), trace[n].payload # AckLen PROVE placed'[n] \in Rows
    <3>1. CASE n = k
      <4>1. PutRow
        BY <1>2, <2>2, <3>1 DEF PutNone, Data
      <4> QED BY <1>2, <3>1, <4>1, AppendedRow, Binned
    <3>2. CASE n # k
      <4>1. n \in 1 .. Len(placed)
        BY <1>2, <3>2, AppendedRow
      <4> QED BY <1>2, <2>2, <4>1, AppendedRow DEF PlacedInRows, Data
    <3> QED BY <3>1, <3>2
  <2> QED BY <2>1, <2>2 DEF PlacedInRows, Data
<1> QED BY <1>1, <1>2, PlacementStep

(* A data packet inside a phase is found there, and nowhere else.           *)
LEMMA MatchedKept ==
  ASSUME TypeInv, TableInv, FaultInv, PlacedInRows, MatchedIsLocal, [Next]_vars
  PROVE  MatchedIsLocal'
<1> SUFFICES ASSUME WellFormed', NEW n \in 1 .. Len(placed'), NEW j \in Phases',
                    Data(n)', Inside(phase_data[j], trace[n].ts)'
             PROVE  placed'[n] = j
  BY DEF MatchedIsLocal
<1>1. UNCHANGED <<trace, window_size, number_phase>>
  BY PlacementStep
<1>2. WellFormed /\ Data(n) /\ j \in Phases
  BY <1>1 DEF WellFormed, Hosts, Data, Phases
<1>3. CASE pc \in {"init", "table"}
  <2>1. placed' = <<>>
    BY <1>3, PlacementStep DEF PlacedInRows, Pause
  <2> QED BY <2>1
<1>4. CASE pc \notin {"init", "table"}
  <2>1. Inside(phase_data[j], trace[n].ts)
    <3>1. j \in Rows
      BY <1>2, <1>4, FinishedTable
    <3> QED BY <1>1, <1>2, <1>4, <3>1, RowsStay DEF Inside
  <2>2. CASE n \in 1 .. Len(placed)
    <3>1. placed'[n] = placed[n]
      BY <2>2, PlacementStep, AppendedRow DEF Pause
    <3> QED BY <1>2, <2>1, <2>2, <3>1 DEF MatchedIsLocal
  <2>3. CASE n \notin 1 .. Len(placed)
    <3>1. pc = "bin" /\ k \in 1 .. Len(trace) /\ (PutRow \/ PutNone)
      BY <2>3, PlacementStep DEF Pause
    <3>2. n = k
      BY <2>3, <3>1, AppendedRow
    <3>3. PutRow
      BY <1>2, <3>1, <3>2 DEF PutNone
    <3>4. placed'[n] = FindPhase(trace[n].ts)
      BY <3>1, <3>2, <3>3, AppendedRow
    <3>5. number_phase \in Nat
      BY DEF TypeInv, TypeOK
    <3>6. FindPhase(trace[n].ts) \in Phases /\ Inside(phase_data[FindPhase(trace[n].ts)], trace[n].ts)
      BY <1>2, <2>1, <3>5, FoundPhase
    <3>7. trace[n].ts \in Nat
      BY <1>2, <3>1, <3>2, CaptureSeconds
    <3> QED BY <1>2, <1>4, <2>1, <3>4, <3>6, <3>7, OnePhase
  <2> QED BY <2>2, <2>3
<1> QED BY <1>3, <1>4

(* The phase a packet is taken to be in, found or inherited, has begun when *)
(* it is sent, or is the first.                                             *)
LEMMA FoundHasBegun ==
  ASSUME TypeInv, MarkInv, WellFormed, InTimeOrder, pc = "bin", k \in 1 .. Len(trace)
  PROVE  LET row == FindPhase(trace[k].ts)
         IN  row = 0 \/ Start(row) * Tick <= trace[k].ts
<1> DEFINE row == FindPhase(trace[k].ts)
<1>1. number_phase \in Nat /\ mark \in Rows
  BY DEF TypeInv, TypeOK
<1>2. CASE row \in Phases /\ Inside(phase_data[row], trace[k].ts)
  BY <1>2 DEF Inside, Start
<1>3. CASE row = mark
  <2>1. SUFFICES ASSUME k > 1, Start(mark) * Tick <= trace[k - 1].ts
                 PROVE  Start(mark) * Tick <= trace[k].ts
    BY <1>3 DEF MarkInv
  <2>2. k - 1 \in 1 .. Len(trace) /\ k - 1 <= k
    BY <2>1
  <2>3. trace[k - 1].ts <= trace[k].ts
    BY <2>2 DEF InTimeOrder
  <2>4. trace[k - 1].ts \in Nat /\ trace[k].ts \in Nat
    BY <2>2, CaptureSeconds
  <2>5. Start(mark) * Tick \in Nat
    BY <1>1, RowTypes, BinningConstants
  <2> HIDE DEF row
  <2> QED BY <2>1, <2>3, <2>4, <2>5
<1> QED BY <1>1, <1>2, <1>3, FoundPhase

(* MarkInv and NeverBinnedAhead: what is inherited is not from the future.  *)
LEMMA NotAheadKept ==
  ASSUME TypeInv, TableInv, FaultInv, PlacedInRows, MarkInv, NeverBinnedAhead, [Next]_vars
  PROVE  MarkInv' /\ NeverBinnedAhead'
<1>1. UNCHANGED <<trace, window_size, number_phase>>
  BY PlacementStep
<1>2. SUFFICES ASSUME WellFormed, InTimeOrder
               PROVE  /\ \/ mark' = 0
                         \/ k' > 1 /\ phase_data'[mark'][0] * Tick <= trace[k' - 1].ts
                      /\ \A n \in 1 .. Len(placed') :
                           Data(n) => \/ placed'[n] = 0
                                      \/ phase_data'[placed'[n]][0] * Tick <= trace[n].ts
  BY <1>1 DEF MarkInv, NeverBinnedAhead, WellFormed, InTimeOrder, Hosts, Data, Start
<1>3. CASE pc \in {"init", "table"}
  <2>1. mark' = 0 /\ placed' = <<>>
    BY <1>3, PlacementStep DEF PlacedInRows, Pause
  <2> QED BY <2>1
<1>4. CASE pc \notin {"init", "table"}
  <2>1. \A j \in Rows : phase_data'[j][0] = Start(j)
    BY <1>2, <1>4, RowsStay DEF Start
  <2>2. mark \in Rows /\ k \in Nat
    BY DEF TypeInv, TypeOK
  <2>3. \A n \in 1 .. Len(placed) :
          Data(n) => placed[n] = 0 \/ phase_data'[placed[n]][0] * Tick <= trace[n].ts
    BY <1>2, <2>1 DEF NeverBinnedAhead, PlacedInRows, Start
  <2>4. CASE Pause
    BY <1>2, <2>1, <2>2, <2>3, <2>4 DEF Pause, MarkInv
  <2>5. CASE pc = "bin" /\ k \in 1 .. Len(trace) /\ k' = k + 1 /\ (PutRow \/ PutNone)
    <3> DEFINE row == FindPhase(trace[k].ts)
    <3>1. row \in Rows /\ (row = 0 \/ Start(row) * Tick <= trace[k].ts)
      BY <1>2, <2>5, Binned, FoundHasBegun
    <3> HIDE DEF row
    <3>2. mark' = 0 \/ (k' > 1 /\ phase_data'[mark'][0] * Tick <= trace[k' - 1].ts)
      <4>1. mark' = 0 \/ mark' = row
        BY <2>5 DEF PutRow, PutNone, row
      <4>2. k' > 1 /\ k' - 1 = k
        BY <2>2, <2>5
      <4> QED BY <2>1, <3>1, <4>1, <4>2
    <3>3. ASSUME NEW n \in 1 .. Len(placed'), Data(n)
          PROVE  placed'[n] = 0 \/ phase_data'[placed'[n]][0] * Tick <= trace[n].ts
      <4>1. CASE n = k
        <5>1. placed'[n] = row
          BY <2>5, <3>3, <4>1, AppendedRow DEF PutNone, row
        <5> QED BY <2>1, <3>1, <4>1, <5>1
      <4>2. CASE n # k
        <5>1. n \in 1 .. Len(placed) /\ placed'[n] = placed[n]
          BY <2>5, <4>2, AppendedRow
        <5> QED BY <2>3, <3>3, <5>1
      <4> QED BY <4>1, <4>2
    <3> QED BY <3>2, <3>3
  <2> QED BY <2>4, <2>5, PlacementStep
<1> QED BY <1>3, <1>4

(* The placement as a whole is inductive.                                   *)
LEMMA PlacedInductive == Spec => []PlacedInv
<1>1. Init => PlacedInv
  BY DEF Init, PlacedInv, PlacedInRows, MatchedIsLocal, MarkInv, NeverBinnedAhead
<1>2. TypeInv /\ TableInv /\ FaultInv /\ PlacedInv /\ [Next]_vars => PlacedInv'
  BY PlacedInRowsKept, MatchedKept, NotAheadKept DEF PlacedInv
<1> QED BY <1>1, <1>2, TypeInductive, TableInductive, FaultInductive, PTL DEF Spec

(* MatchedIsLocal: in a well-formed capture a data packet whose time lies   *)
(* in a phase is counted in that phase (main.cpp:311-337).                  *)
THEOREM MatchedStayLocal == Spec => []MatchedIsLocal
<1>1. PlacedInv => MatchedIsLocal
  BY DEF PlacedInv
<1> QED BY <1>1, PlacedInductive, PTL

(* NeverBinnedAhead: in time order, a data packet that lies in no phase     *)
(* goes to the first phase or to one that has begun; mark may be stale but  *)
(* never points to the future (main.cpp:311-337).                           *)
THEOREM NoneAhead == Spec => []NeverBinnedAhead
<1>1. PlacedInv => NeverBinnedAhead
  BY DEF PlacedInv
<1> QED BY <1>1, PlacedInductive, PTL

-----------------------------------------------------------------------------
(* What the phases hold of a flow, the packets of the flow that have been   *)
(* processed, and the bytes they count for.                                 *)
Held(s, d)  == [r \in Rows |-> phase_data[r][Column(s, d)]]
Mine(s, d)  == {n \in 1 .. k - 1 : Data(n) /\ trace[n].src = s /\ trace[n].dst = d}
Bytes(s, d) == [n \in Mine(s, d) |-> trace[n].payload - HeaderLen]

FlowSum(s, d) ==
  SumFunctionOnSet(Held(s, d), Rows) = SumFunctionOnSet(Bytes(s, d), Mine(s, d))

(* In a well-formed capture the payload does not wrap (main.cpp:321).       *)
LEMMA NetBytesExact ==
  ASSUME trace \in Traces, WellFormed, NEW n \in 1 .. Len(trace)
  PROVE  /\ NetBytes(trace[n].payload) = trace[n].payload - HeaderLen
         /\ trace[n].payload - HeaderLen \in Nat
         /\ trace[n].src \in Hosts /\ trace[n].dst \in Hosts
<1>1. trace[n] \in PacketType /\ trace[n].payload < Word
  BY TracesAssumption
<1>2. trace[n].payload \in Nat /\ trace[n].payload >= HeaderLen
  BY <1>1 DEF PacketType, WellFormed
<1>3. trace[n].payload - HeaderLen \in 0 .. Word - 1
  BY <1>1, <1>2, BinningConstants DEF HeaderLen
<1>4. trace[n].payload - HeaderLen \in Nat
  BY <1>3
<1>5. (trace[n].payload - HeaderLen) % Word = trace[n].payload - HeaderLen
  <2> DEFINE a == trace[n].payload - HeaderLen
  <2>1. a \in Int /\ a \in 0 .. Word - 1 /\ Word \in Nat \ {0}
    BY <1>3, <1>4, BinningConstants
  <2> HIDE DEF a
  <2>2. a % Word = a
    BY <2>1, Remainder
  <2> QED BY <2>2 DEF a
<1> QED BY <1>4, <1>5 DEF NetBytes, WellFormed

(* Two flows between hosts share no column.                                 *)
LEMMA ColumnsDiffer ==
  ASSUME NEW s \in Hosts, NEW d \in Hosts, NEW u \in Hosts, NEW v \in Hosts,
         Column(s, d) = Column(u, v)
  PROVE  s = u /\ d = v
<1> DEFINE a == s - 2
           b == d - 2
           x == u - 2
           y == v - 2
<1>1. /\ a \in 0 .. LeafNodes - 1 /\ b \in 0 .. LeafNodes - 1
      /\ x \in 0 .. LeafNodes - 1 /\ y \in 0 .. LeafNodes - 1
  BY BinningConstants DEF Hosts
<1>2. Column(s, d) = 2 + LeafNodes * a + b /\ Column(u, v) = 2 + LeafNodes * x + y
  BY HostColumn
<1>3. LeafNodes \in Nat \ {0}
  BY BinningConstants
<1>4. s = a + 2 /\ u = x + 2 /\ d = b + 2 /\ v = y + 2
  BY BinningConstants DEF Hosts
<1> HIDE DEF a, b, x, y
<1>5. LeafNodes * a + b = LeafNodes * x + y
  <2>1. LeafNodes * a \in Nat /\ LeafNodes * x \in Nat
    BY <1>1, <1>3
  <2>2. 2 + LeafNodes * a + b = 2 + LeafNodes * x + y
    BY <1>2
  <2> HIDE DEF a, b, x, y
  <2> QED BY <1>1, <2>1, <2>2
<1>6. ~ (a < x) /\ ~ (x < a)
  <2>1. a < x => LeafNodes * a + b < LeafNodes * x + y
    BY <1>1, <1>3, FirstDigit
  <2>2. x < a => LeafNodes * x + y < LeafNodes * a + b
    BY <1>1, <1>3, FirstDigit
  <2>3. LeafNodes * a + b \in Nat /\ LeafNodes * x + y \in Nat
    BY <1>1, <1>3
  <2> QED BY <1>5, <2>1, <2>2, <2>3
<1>7. a = x
  BY <1>1, <1>6
<1>8. b = y
  <2>1. LeafNodes * x \in Nat
    BY <1>1, <1>3
  <2> QED BY <1>1, <1>5, <1>7, <2>1
<1> QED BY <1>4, <1>7, <1>8

(* What both sums are taken over.                                           *)
LEMMA FlowTypes ==
  ASSUME TypeInv, trace \in Traces, WellFormed, NEW s \in Hosts, NEW d \in Hosts
  PROVE  /\ IsFiniteSet(Rows) /\ \A r \in Rows : Held(s, d)[r] \in Nat
         /\ IsFiniteSet(Mine(s, d)) /\ \A n \in Mine(s, d) : Bytes(s, d)[n] \in Nat
<1>1. IsFiniteSet(Rows)
  BY BinningConstants, FS_Interval DEF Rows
<1>2. \A r \in Rows : Held(s, d)[r] \in Nat
  BY HostColumn DEF Held, TypeInv, TypeOK
<1>3. k \in Nat /\ k - 1 <= Len(trace) /\ Len(trace) \in Nat
  BY DEF TypeInv, TypeOK
<1>4. IsFiniteSet(Mine(s, d))
  <2>1. IsFiniteSet(1 .. k - 1)
    BY <1>3, FS_Interval
  <2> QED BY <2>1, FS_Subset DEF Mine
<1>5. \A n \in Mine(s, d) : Bytes(s, d)[n] \in Nat
  <2>1. \A n \in Mine(s, d) : n \in 1 .. Len(trace)
    BY <1>3 DEF Mine
  <2> QED BY <2>1, NetBytesExact DEF Bytes
<1> QED BY <1>1, <1>2, <1>4, <1>5

(* A packet that is counted adds its bytes to one cell of its flow's column *)
(* and to no cell of another flow's (main.cpp:320-324).                     *)
LEMMA PacketCounted ==
  ASSUME TypeInv, trace \in Traces, WellFormed, NEW s \in Hosts, NEW d \in Hosts,
         FlowSum(s, d), SavePayload
  PROVE  FlowSum(s, d)'
<1>1. pc = "bin" /\ k \in 1 .. Len(trace) /\ Data(k) /\ k' = k + 1 /\ trace' = trace
  BY DEF SavePayload, TypeInv, TypeOK, Data
<1> DEFINE u == trace[k].src
           v == trace[k].dst
           row == FindPhase(trace[k].ts)
           b == trace[k].payload - HeaderLen
<1>2. /\ u \in Hosts /\ v \in Hosts /\ b \in Nat
      /\ phase_data' = [phase_data EXCEPT ![row][Column(u, v)] = @ + b]
  BY <1>1, NetBytesExact DEF SavePayload, AddBytes
<1>3. row \in Rows
  BY <1>1, Binned
<1>4. trace[k].src = u /\ trace[k].dst = v /\ trace[k].payload - HeaderLen = b
  OBVIOUS
<1> HIDE DEF u, v, row, b
<1>5. Column(s, d) \in Columns /\ Column(u, v) \in Columns
  BY <1>2, HostColumn
<1>6. \A r \in Rows : Held(s, d)'[r] = IF r = row /\ Column(s, d) = Column(u, v)
                                        THEN Held(s, d)[r] + b ELSE Held(s, d)[r]
  <2>1. phase_data \in [Rows -> [Columns -> Nat]]
    BY DEF TypeInv, TypeOK
  <2> QED BY <1>2, <1>3, <1>5, <2>1 DEF Held
<1>7. /\ IsFiniteSet(Rows) /\ \A r \in Rows : Held(s, d)[r] \in Nat
      /\ IsFiniteSet(Mine(s, d)) /\ \A n \in Mine(s, d) : Bytes(s, d)[n] \in Nat
  BY FlowTypes
<1>8. k \notin Mine(s, d) /\ k \in Nat
  BY <1>1 DEF Mine
<1>9. CASE s = u /\ d = v
  <2>1. SumFunctionOnSet(Held(s, d)', Rows) = SumFunctionOnSet(Held(s, d), Rows) + b
    <3>1. \A r \in Rows : Held(s, d)'[r] = IF r = row THEN Held(s, d)[r] + b
                                                       ELSE Held(s, d)[r]
      BY <1>6, <1>9
    <3>2. \A r \in Rows : Held(s, d)[r] \in Int
      BY <1>7
    <3> QED BY <1>2, <1>3, <1>7, <3>1, <3>2, SumBump
  <2>2. Mine(s, d)' = Mine(s, d) \cup {k}
    BY <1>1, <1>4, <1>8, <1>9 DEF Mine, Data
  <2>3. /\ Bytes(s, d)'[k] = b
        /\ \A n \in Mine(s, d) : Bytes(s, d)'[n] = Bytes(s, d)[n]
    BY <1>1, <1>4, <2>2 DEF Bytes
  <2>4. SumFunctionOnSet(Bytes(s, d)', Mine(s, d)')
          = b + SumFunctionOnSet(Bytes(s, d)', Mine(s, d))
    <3>1. /\ \A n \in Mine(s, d) : Bytes(s, d)'[n] \in Int
          /\ Bytes(s, d)'[k] \in Int
      BY <1>2, <1>7, <2>3
    <3>2. SumFunctionOnSet(Bytes(s, d)', Mine(s, d) \cup {k})
            = Bytes(s, d)'[k] + SumFunctionOnSet(Bytes(s, d)', Mine(s, d))
      BY <1>7, <1>8, <3>1, SumAdd
    <3> QED BY <2>2, <2>3, <3>2
  <2>5. SumFunctionOnSet(Bytes(s, d)', Mine(s, d))
          = SumFunctionOnSet(Bytes(s, d), Mine(s, d))
    <3>1. \A n \in Mine(s, d) : /\ Bytes(s, d)[n] \in Int
                                /\ Bytes(s, d)'[n] = Bytes(s, d)[n]
      BY <1>7, <2>3
    <3> QED BY <1>7, <3>1, SumEqual
  <2>6. SumFunctionOnSet(Held(s, d), Rows) \in Nat
    BY <1>7, SumNat
  <2> QED BY <1>2, <2>1, <2>4, <2>5, <2>6 DEF FlowSum
<1>10. CASE ~ (s = u /\ d = v)
  <2>1. Column(s, d) # Column(u, v)
    BY <1>2, <1>10, ColumnsDiffer
  <2>2. Mine(s, d)' = Mine(s, d)
    BY <1>1, <1>4, <1>8, <1>10 DEF Mine, Data
  <2>3. Held(s, d)' = Held(s, d)
    BY <1>6, <2>1 DEF Held
  <2>4. Bytes(s, d)' = Bytes(s, d)
    BY <1>1, <2>2 DEF Bytes
  <2> QED BY <2>2, <2>3, <2>4 DEF FlowSum
<1> QED BY <1>9, <1>10

(* The other steps leave both sums alone: the table's bounds are in columns *)
(* that belong to no flow (main.cpp:292-319).                               *)
LEMMA NothingCounted ==
  ASSUME TypeInv, trace \in Traces, WellFormed, NEW s \in Hosts, NEW d \in Hosts,
         FlowSum(s, d), [Next]_vars, ~ SavePayload
  PROVE  FlowSum(s, d)'
<1>1. trace' = trace
  BY PlacementStep
<1>2. Held(s, d)' = Held(s, d)
  <2>1. CASE AddPhase
    <3>1. Column(s, d) # 0 /\ Column(s, d) # 1 /\ Column(s, d) \in Columns
      BY HostColumn
    <3>2. PICK x, y : phase_data' = [phase_data EXCEPT ![p][0] = x, ![p][1] = y]
      BY <2>1 DEF AddPhase
    <3>3. phase_data \in [Rows -> [Columns -> Nat]]
      BY DEF TypeInv, TypeOK
    <3> QED BY <3>1, <3>2, <3>3 DEF Held
  <2>2. CASE ~ AddPhase
    <3>1. phase_data' = phase_data
      BY <2>2 DEF Next, vars, InitStatistics, StatisticsTooMany, TableOverflow, TableDone, SkipAck, SaveOutsideRow, TraceDone
    <3> QED BY <3>1 DEF Held
  <2> QED BY <2>1, <2>2
<1>3. Mine(s, d)' = Mine(s, d)
  <2>1. CASE SkipAck
    <3>1. k' = k + 1 /\ k \in Nat /\ ~ Data(k)
      BY <2>1 DEF SkipAck, Data, TypeInv, TypeOK
    <3> QED BY <1>1, <3>1 DEF Mine, Data
  <2>2. CASE ~ SkipAck
    <3>1. k' = k
      BY <2>2 DEF Next, vars, InitStatistics, StatisticsTooMany, AddPhase, TableOverflow, TableDone, SaveOutsideRow, TraceDone
    <3> QED BY <1>1, <3>1 DEF Mine, Data
  <2> QED BY <2>1, <2>2
<1>4. Bytes(s, d)' = Bytes(s, d)
  BY <1>1, <1>3 DEF Bytes
<1> QED BY <1>2, <1>3, <1>4 DEF FlowSum

(* The flows are complete after every packet.                               *)
FlowInv == trace \in Traces /\ (WellFormed => \A s, d \in Hosts : FlowSum(s, d))

(* FlowInv is inductive: before the first packet both sums are zero.        *)
LEMMA FlowInductive == Spec => []FlowInv
<1>1. Init => FlowInv
  <2> SUFFICES ASSUME Init, WellFormed, NEW s \in Hosts, NEW d \in Hosts
               PROVE  FlowSum(s, d)
    BY DEF FlowInv, Init
  <2>1. Mine(s, d) = {}
    BY DEF Init, Mine
  <2>2. \A r \in Rows : Held(s, d)[r] = 0
    BY HostColumn DEF Init, Held
  <2>3. IsFiniteSet(Rows)
    BY BinningConstants, FS_Interval DEF Rows
  <2>4. SumFunctionOnSet(Held(s, d), Rows) = 0
    BY <2>2, <2>3, SumZero
  <2>5. SumFunctionOnSet(Bytes(s, d), {}) = 0
    BY SumEmpty
  <2> QED BY <2>1, <2>4, <2>5 DEF FlowSum
<1>2. TypeInv /\ FlowInv /\ [Next]_vars => FlowInv'
  <2> SUFFICES ASSUME TypeInv, FlowInv, [Next]_vars PROVE FlowInv'
    OBVIOUS
  <2>1. trace' = trace /\ window_size' = window_size
    BY PlacementStep
  <2>2. WellFormed' = WellFormed
    BY <2>1 DEF WellFormed, Hosts
  <2>3. ASSUME WellFormed, NEW s \in Hosts, NEW d \in Hosts PROVE FlowSum(s, d)'
    BY <2>3, PacketCounted, NothingCounted DEF FlowInv
  <2> QED BY <2>1, <2>2, <2>3 DEF FlowInv, Hosts
<1> QED BY <1>1, <1>2, TypeInductive, PTL DEF Spec

(* FlowTotals: at every point of the pre-processing of a well-formed        *)
(* capture, the matrices of the phases hold, for each flow, the bytes of    *)
(* exactly its own packets so far (main.cpp:305-337).                       *)
THEOREM FlowsComplete == Spec => []FlowTotals
<1>1. FlowInv => FlowTotals
  BY DEF FlowInv, FlowTotals, FlowSum, Held, Mine, Bytes
<1> QED BY <1>1, FlowInductive, PTL
=============================================================================
