-------------------------- MODULE PhaseDriverProofs --------------------------
(***************************************************************************)
(* The loop over the phases, proved for every number of phases and flows,  *)
(* every traffic and every outcome of the simulations: cosines stay in     *)
(* bounds, the totals add up, the archive is faithful, results are final,  *)
(* with the thresholds of the code nothing is ever reused, with a known    *)
(* topology the loop implements PhaseEstimator, and every step of it makes *)
(* a number smaller, so that it ends with a result for every phase.        *)
(*                                                                         *)
(* CosineBounded is the inequality of Cauchy and Schwarz; it is inductive  *)
(* together with NormOK, which says that a norm is not so small that       *)
(* normalising it would raise the cos.                                     *)
(***************************************************************************)
EXTENDS PhaseDriver, ArithmeticFacts, TLAPS

(* Root, the square root of main.cpp:414-415, exists and is rounded up.     *)
LEMMA RootIsUpper ==
  ASSUME NEW m \in Nat
  PROVE  /\ Root(m) \in 0 .. m
         /\ Root(m) * Root(m) >= m
<1> DEFINE T == {r \in Nat : r * r >= m}
<1>1. m * m >= m
  OBVIOUS
<1>2. PICK r \in T : \A s \in T : r <= s
  <2>1. m \in T
    BY <1>1
  <2> QED BY <2>1, LeastNatural
<1>3. r \in 0 .. m
  BY <1>1, <1>2
<1>4. r = 0 \/ (r - 1) * (r - 1) < m
  BY <1>2
<1> QED BY <1>2, <1>3, <1>4 DEF Root

-----------------------------------------------------------------------------
(* What the assumptions say of the constants.                               *)
LEMMA ConstantTypes ==
  /\ NumPhases \in Nat /\ NumPhases > 0 /\ NumFlows \in Nat /\ NumFlows > 0
  /\ Scale \in Nat /\ Scale > 0
  /\ Demands \subseteq [Phases -> Matrix] /\ Latencies \subseteq Nat
BY ConstantsAssumption

(* The norms and the cos of a finished comparison are natural numbers.      *)
LEMMA NormalisedTypes ==
  ASSUME cos \in Nat, w1 \in Nat, w2 \in Nat
  PROVE  Norm1 \in Nat /\ Norm2 \in Nat /\ Cosine \in Nat
<1>1. Scale * w1 \in Nat /\ Scale * w2 \in Nat
  BY ConstantTypes
<1>2. Norm1 \in Nat /\ Norm2 \in Nat
  BY <1>1, RootIsUpper DEF Norm1, Norm2
<1>3. Norm1 * Norm2 # 0 => Norm1 * Norm2 \in Nat \ {0}
  BY <1>2
<1>4. cos * Scale * Scale \in Nat
  BY ConstantTypes
<1>5. Norm1 * Norm2 # 0 => (cos * Scale * Scale) \div (Norm1 * Norm2) \in Nat
  BY <1>3, <1>4, Quotient
<1> QED BY <1>2, <1>5 DEF Cosine

(* A simulation reports a natural number as its latency.                    *)
LEMMA OutcomesAreNat ==
  ASSUME NEW m \in Matrix
  PROVE  Outcomes(m) \subseteq Nat
BY ConstantTypes DEF Outcomes

(* TypeOK: the loop never leaves its arrays; in particular there is always  *)
(* a row of the archive left for a phase that is simulated (main.cpp:852),  *)
(* and a comparison only looks at rows that exist (main.cpp:405).           *)
THEOREM TypeCorrect == Spec => []TypeOK
<1>1. Init => TypeOK
  BY ConstantTypes, ConstantsAssumption
     DEF Init, TypeOK, Phases, Row, EmptyRow, Matrix, NoPhase
<1>2. TypeOK /\ [Next]_vars => TypeOK'
  <2> SUFFICES ASSUME TypeOK, [Next]_vars PROVE TypeOK'
    OBVIOUS
  <2> USE ConstantTypes
  <2>1. CASE AddColumn
    <3>1. i \in Phases /\ j \in Phases /\ col \in Flows
      BY <2>1 DEF AddColumn, TypeOK, Phases, Flows
    <3>2. archive[j].matrix[col] \in Nat /\ demand[i][col] \in Nat
      BY <3>1 DEF TypeOK, Row, Matrix
    <3>3. \A c, x, y \in Nat : c + Scale * x * y \in Nat
      OBVIOUS
    <3>4. cos' \in Nat /\ w1' \in Nat /\ w2' \in Nat
      BY <2>1, <3>2, <3>3 DEF AddColumn, Accumulate, TypeOK
    <3>5. col' \in 1 .. NumFlows + 1
      BY <2>1 DEF AddColumn, TypeOK
    <3>6. /\ pc' = "compare" /\ pc = "compare"
          /\ UNCHANGED <<topology, demand, latency, stats, window, archive, n, final_real,
                         totals, lock, i, j>>
      BY <2>1 DEF AddColumn, data
    <3> HIDE ConstantTypes
    <3> QED BY <3>4, <3>5, <3>6 DEF TypeOK
  <2>2. CASE Reuse
    <3>1. i \in Phases /\ j \in Phases /\ i + 1 \in 0 .. NumPhases
      BY <2>2 DEF Reuse, TypeOK, Phases
    <3>2. archive[j].latency \in Nat /\ archive[j].stats \in Phases \cup {NoPhase}
          /\ window[j] \in Phases \cup {NoPhase}
      BY <3>1 DEF TypeOK, Row
    <3>3. Norm1 \in Nat /\ Norm2 \in Nat /\ Cosine \in Nat
      BY NormalisedTypes DEF TypeOK
    <3>4. final_real' \in Nat
      <4>1. final_real' = final_real + archive[j].latency
        BY <2>2 DEF Reuse, Record, RaisedTotal
      <4> QED BY <3>2, <4>1 DEF TypeOK
    <3>5. latency' \in [Phases -> Nat]
      BY <2>2, <3>2 DEF Reuse, Record, TypeOK
    <3>6. /\ stats' \in [Phases -> Phases \cup {NoPhase}]
          /\ window' \in [Phases -> Phases \cup {NoPhase}]
      BY <2>2, <3>2 DEF Reuse, QueueFigures, Record, TypeOK
    <3>7. totals' \in [0 .. NumPhases -> Nat]
      BY <2>2, <3>1, <3>4 DEF Reuse, Record, TypeOK
    <3>8. cos' \in Nat /\ w1' \in Nat /\ w2' \in Nat
      BY <2>2, <3>3 DEF Reuse
    <3>9. /\ lock' \in BOOLEAN /\ pc' = "decide" /\ pc = "compare"
          /\ UNCHANGED <<topology, demand, archive, n, i, j, col>>
      BY <2>2 DEF Reuse, Record
    <3> HIDE ConstantTypes
    <3> QED BY <3>4, <3>5, <3>6, <3>7, <3>8, <3>9 DEF TypeOK
  <2>3. CASE Differ
    <3>1. Norm1 \in Nat /\ Norm2 \in Nat /\ Cosine \in Nat
      BY NormalisedTypes DEF TypeOK
    <3>2. cos' \in Nat /\ w1' \in Nat /\ w2' \in Nat
      BY <2>3, <3>1 DEF Differ
    <3>3. j' \in 0 .. NumPhases /\ j' <= n' /\ col' \in 1 .. NumFlows + 1
      BY <2>3 DEF Differ, TypeOK, data
    <3> QED BY <2>3, <3>2, <3>3 DEF Differ, TypeOK, data
  <2>4. CASE ArchiveExhausted
    BY <2>4 DEF ArchiveExhausted, TypeOK, data, scan
  <2>5. CASE Simulate
    <3>1. i \in Phases /\ n \in Phases /\ i + 1 \in 0 .. NumPhases /\ n + 1 \in 0 .. NumPhases
      BY <2>5 DEF Simulate, Undecided, TypeOK, Phases
    <3>2. demand[i] \in Matrix
      BY <3>1 DEF TypeOK
    <3>3. PICK lat \in Outcomes(demand[i]) :
            Record(lat, i, i) /\ archive' = [archive EXCEPT ![n] = ArchiveRow(lat)]
      BY <2>5 DEF Simulate
    <3>4. lat \in Nat /\ final_real' \in Nat
      BY <3>2, <3>3, OutcomesAreNat DEF TypeOK, Record, RaisedTotal
    <3>5. ArchiveRow(lat) \in Row
      BY <3>1, <3>2, <3>4 DEF ArchiveRow, Row
    <3>6. archive' \in [Phases -> Row] /\ latency' \in [Phases -> Nat]
      BY <3>1, <3>3, <3>4, <3>5 DEF Record, TypeOK
    <3>7. /\ stats' \in [Phases -> Phases \cup {NoPhase}]
          /\ window' \in [Phases -> Phases \cup {NoPhase}]
          /\ totals' \in [0 .. NumPhases -> Nat]
      BY <3>1, <3>3, <3>4 DEF Record, TypeOK
    <3>8. n' \in 0 .. NumPhases /\ n' <= i' /\ i' \in 0 .. NumPhases
      BY <2>5, <3>1 DEF Simulate, Advance, TypeOK
    <3>9. /\ pc' \in {"compare", "decide", "done", "fault"}
          /\ (pc' = "done" <=> i' = NumPhases)
      BY <2>5, <3>1 DEF Simulate, Advance, TypeOK
    <3> QED BY <2>5, <3>3, <3>4, <3>6, <3>7, <3>8, <3>9 DEF Simulate, Record, Advance, TypeOK
  <2>6. CASE SimulateNothing
    <3>1. i + 1 \in 0 .. NumPhases
      BY <2>6 DEF SimulateNothing, Undecided, TypeOK
    <3> QED BY <2>6, <3>1 DEF SimulateNothing, Undecided, Advance, TypeOK
  <2>7. CASE HostsMissing
    BY <2>7 DEF HostsMissing, Undecided, TypeOK, data, scan
  <2>8. CASE AlreadyDecided
    <3>1. i + 1 \in 0 .. NumPhases
      BY <2>8 DEF AlreadyDecided, Undecided, TypeOK
    <3> QED BY <2>8, <3>1 DEF AlreadyDecided, Undecided, Advance, TypeOK
  <2>9. CASE UNCHANGED vars
    BY <2>9 DEF vars, data, scan, TypeOK
  <2> QED
    BY <2>1, <2>2, <2>3, <2>4, <2>5, <2>6, <2>7, <2>8, <2>9 DEF Next
<1> QED BY <1>1, <1>2, PTL DEF Spec

-----------------------------------------------------------------------------
(* A norm that is not zero is at least 1: were it smaller, dividing by it   *)
(* could raise cos above the norms that the next comparison starts from.    *)
NormOK(w) == w = 0 \/ w >= Scale

CosInv == CosineBounded /\ NormOK(w1) /\ NormOK(w2)

(* Rounding up keeps a norm what it should be.                              *)
LEMMA RootOfNorm ==
  ASSUME NEW w \in Nat, NormOK(w)
  PROVE  /\ Root(Scale * w) \in Nat /\ NormOK(Root(Scale * w))
         /\ Root(Scale * w) * Root(Scale * w) >= Scale * w
<1> DEFINE r == Root(Scale * w)
<1>1. Scale * w \in Nat
  BY ConstantTypes
<1>2. r \in 0 .. Scale * w /\ r * r >= Scale * w
  BY <1>1, RootIsUpper
<1>3. CASE w = 0
  BY <1>2, <1>3, ConstantTypes DEF NormOK
<1>4. CASE w >= Scale
  <2>1. Scale * w >= Scale * Scale
    BY <1>4, ConstantTypes
  <2>2. r * r >= Scale * Scale
    BY <1>1, <1>2, <2>1, ConstantTypes
  <2>3. Scale <= r
    BY <1>1, <1>2, <2>2, SquareMonotone, ConstantTypes
  <2> QED BY <1>1, <1>2, <2>3 DEF NormOK
<1> QED BY <1>3, <1>4 DEF NormOK

(* Normalising (main.cpp:414-423) yields a cos of at most 1, which keeps    *)
(* within the norms that stay behind for the next comparison.               *)
LEMMA CosineAtMostOne ==
  ASSUME cos \in Nat, w1 \in Nat, w2 \in Nat, CosInv
  PROVE  /\ Cosine <= Scale
         /\ Cosine * Cosine <= Norm1 * Norm2
         /\ NormOK(Norm1) /\ NormOK(Norm2)
<1>1. /\ Norm1 \in Nat /\ NormOK(Norm1) /\ Norm1 * Norm1 >= Scale * w1
      /\ Norm2 \in Nat /\ NormOK(Norm2) /\ Norm2 * Norm2 >= Scale * w2
  BY RootOfNorm DEF CosInv, Norm1, Norm2
<1>2. CASE Norm1 * Norm2 = 0 \/ cos = 0
  <2>1. Cosine = 0
    BY <1>2 DEF Cosine
  <2>2. Norm1 * Norm2 \in Nat
    BY <1>1
  <2> QED BY <1>1, <2>1, <2>2, ConstantTypes
<1>3. CASE ~ (Norm1 * Norm2 = 0 \/ cos = 0)
  <2> DEFINE d == Norm1 * Norm2
  <2>1. d \in Nat \ {0}
    BY <1>1, <1>3
  <2>2. (cos * Scale) * (cos * Scale) <= d * d
    <3>1. cos * cos <= w1 * w2
      BY DEF CosInv, CosineBounded
    <3>2. (cos * Scale) * (cos * Scale) = (cos * cos) * (Scale * Scale)
      BY ConstantTypes
    <3>3. (cos * cos) * (Scale * Scale) <= (w1 * w2) * (Scale * Scale)
      <4>1. cos * cos \in Nat /\ w1 * w2 \in Nat /\ Scale * Scale \in Nat
        BY ConstantTypes
      <4>2. \A x, y, z \in Nat : x <= y => x * z <= y * z
        OBVIOUS
      <4> QED BY <3>1, <4>1, <4>2
    <3>4. (w1 * w2) * (Scale * Scale) = (Scale * w1) * (Scale * w2)
      BY ConstantTypes
    <3>5. (Scale * w1) * (Scale * w2) <= (Norm1 * Norm1) * (Norm2 * Norm2)
      <4>1. /\ Scale * w1 \in Nat /\ Scale * w2 \in Nat
            /\ Norm1 * Norm1 \in Nat /\ Norm2 * Norm2 \in Nat
        BY <1>1, ConstantTypes
      <4>2. \A x, y, u, v \in Nat : x <= u /\ y <= v => x * y <= u * v
        OBVIOUS
      <4> QED BY <1>1, <4>1, <4>2
    <3>6. (Norm1 * Norm1) * (Norm2 * Norm2) = d * d
      BY <1>1
    <3>7. /\ (cos * cos) * (Scale * Scale) \in Nat
          /\ (w1 * w2) * (Scale * Scale) \in Nat
          /\ (Norm1 * Norm1) * (Norm2 * Norm2) \in Nat
      BY <1>1, ConstantTypes
    <3> HIDE DEF d
    <3> QED BY <3>2, <3>3, <3>4, <3>5, <3>6, <3>7
  <2>3. cos * Scale <= d
    <3>1. cos * Scale \in Nat
      BY ConstantTypes
    <3> HIDE DEF d
    <3> QED BY <2>1, <2>2, <3>1, SquareMonotone
  <2>4. (cos * Scale * Scale) \div d \in Nat /\ d * ((cos * Scale * Scale) \div d) <= cos * Scale * Scale
    <3>1. cos * Scale * Scale \in Nat
      BY ConstantTypes
    <3> HIDE DEF d
    <3> QED BY <2>1, <3>1, Quotient
  <2>5. Cosine = (cos * Scale * Scale) \div d
    BY <1>3 DEF Cosine
  <2>6. d * Cosine <= d * Scale
    <3>1. (cos * Scale) * Scale <= d * Scale
      <4>1. \A x, y, z \in Nat : x <= y => x * z <= y * z
        OBVIOUS
      <4>2. cos * Scale \in Nat
        BY ConstantTypes
      <4> HIDE DEF d
      <4> QED BY <2>1, <2>3, <4>1, <4>2, ConstantTypes
    <3>2. d * Scale \in Nat /\ (cos * Scale) * Scale \in Nat /\ d * Cosine \in Nat
      <4> HIDE DEF d
      <4> QED BY <2>1, <2>4, <2>5, ConstantTypes
    <3> HIDE DEF d
    <3> QED BY <2>4, <2>5, <3>1, <3>2
  <2>7. Cosine <= Scale
    <3>1. \A x \in Nat \ {0}, y, z \in Nat : x * y <= x * z => y <= z
      OBVIOUS
    <3>2. Cosine \in Nat
      BY <2>4, <2>5
    <3> HIDE DEF d
    <3> QED BY <2>1, <2>6, <3>1, <3>2, ConstantTypes
  <2>8. Norm1 >= Scale /\ Norm2 >= Scale
    BY <1>1, <1>3 DEF NormOK
  <2>9. Cosine * Cosine <= Norm1 * Norm2
    <3>1. \A x, y, u, v \in Nat : x <= u /\ y <= v => x * y <= u * v
      OBVIOUS
    <3>2. Cosine \in Nat /\ Cosine <= Norm1 /\ Cosine <= Norm2
      BY <1>1, <2>4, <2>5, <2>7, <2>8, ConstantTypes
    <3> QED BY <1>1, <3>1, <3>2
  <2> QED BY <1>1, <2>7, <2>9
<1> QED BY <1>2, <1>3

(* A column keeps the invariant.                                            *)
LEMMA ColumnStep ==
  ASSUME TypeOK, CosInv, AddColumn
  PROVE  CosInv'
<1> DEFINE a == archive[j].matrix[col]
           b == demand[i][col]
<1>1. i \in Phases /\ j \in Phases /\ col \in Flows
  BY ConstantTypes DEF AddColumn, TypeOK, Phases, Flows
<1>2. a \in Nat /\ b \in Nat /\ cos \in Nat /\ w1 \in Nat /\ w2 \in Nat
  BY <1>1 DEF TypeOK, Row, Matrix
<1>3. /\ cos' = cos + Scale * a * b
      /\ w1' = w1 + Scale * a * a /\ w2' = w2 + Scale * b * b
  BY DEF AddColumn, Accumulate
<1>4. col' # 1
  BY <1>1, ConstantTypes DEF AddColumn, Flows
<1> HIDE DEF a, b
<1>5. cos' * cos' <= w1' * w2'
  BY <1>2, <1>3, ConstantTypes, CauchyStep DEF CosInv, CosineBounded
<1>6. \A w, x \in Nat : NormOK(w) => NormOK(w + Scale * x * x)
  <2>1. SUFFICES ASSUME NEW w \in Nat, NEW x \in Nat, NormOK(w)
                 PROVE  NormOK(w + Scale * x * x)
    OBVIOUS
  <2>2. x * x = 0 \/ x * x >= 1
    BY <2>1
  <2>3. Scale * x * x = 0 \/ Scale * x * x >= Scale
    <3>1. Scale * x * x = Scale * (x * x) /\ x * x \in Nat
      BY ConstantTypes
    <3> QED BY <2>2, <3>1, ConstantTypes
  <2>4. Scale * x * x \in Nat
    BY ConstantTypes
  <2> QED BY <2>1, <2>3, <2>4, ConstantTypes DEF NormOK
<1>7. NormOK(w1') /\ NormOK(w2')
  BY <1>2, <1>3, <1>6 DEF CosInv
<1>8. NormOK(w1)' /\ NormOK(w2)'
  BY <1>7 DEF NormOK
<1> QED BY <1>4, <1>5, <1>8 DEF CosInv, CosineBounded

(* The invariant of cos, w1 and w2 from column to column and from one       *)
(* comparison to the next (main.cpp:405-432).                               *)
LEMMA CosInvariant == Spec => []CosInv
<1>1. Init => CosInv
  BY ConstantTypes DEF Init, CosInv, CosineBounded, NormOK
<1>2. TypeOK /\ CosInv /\ [Next]_vars => CosInv'
  <2> SUFFICES ASSUME TypeOK, CosInv, [Next]_vars PROVE CosInv'
    OBVIOUS
  <2>1. cos \in Nat /\ w1 \in Nat /\ w2 \in Nat
    BY DEF TypeOK
  <2>2. CASE AddColumn
    BY <2>2, ColumnStep
  <2>3. CASE Reuse \/ Differ
    <3>1. cos' = Cosine /\ w1' = Norm1 /\ w2' = Norm2
      BY <2>3 DEF Reuse, Differ
    <3>2. NormOK(w1)' /\ NormOK(w2)'
      BY <2>1, <3>1, CosineAtMostOne DEF NormOK
    <3> QED BY <2>1, <3>1, <3>2, CosineAtMostOne DEF CosInv, CosineBounded
  <2>4. CASE Simulate \/ SimulateNothing \/ AlreadyDecided
    <3>1. cos' = 0 /\ w1' = 0 /\ w2' = 0
      BY <2>4 DEF Simulate, SimulateNothing, AlreadyDecided, Advance
    <3> QED BY <3>1, ConstantTypes DEF CosInv, CosineBounded, NormOK
  <2>5. CASE ArchiveExhausted \/ HostsMissing \/ UNCHANGED vars
    <3>1. UNCHANGED <<cos, w1, w2, col>>
      BY <2>5 DEF ArchiveExhausted, HostsMissing, vars, scan
    <3> QED BY <3>1 DEF CosInv, CosineBounded, NormOK
  <2> QED BY <2>2, <2>3, <2>4, <2>5 DEF Next
<1> QED BY <1>1, <1>2, TypeCorrect, PTL DEF Spec

(* CosineBounded: no comparison yields a cos above 1, whatever was left of  *)
(* earlier ones (main.cpp:416-423).                                         *)
THEOREM CosNeverAboveOne == Spec => []CosineBounded
<1>1. CosInv => CosineBounded
  BY DEF CosInv
<1> QED BY <1>1, CosInvariant, PTL

-----------------------------------------------------------------------------
(* What the loop does with its results.                                     *)

(* Record writes row i of the results and element i + 1 of the totals, and  *)
(* sets lock; nothing else changes (main.cpp:437-461 and 774-857).          *)
LEMMA RecordWrites ==
  ASSUME TypeOK, i \in Phases, NEW lat \in Nat,
         NEW origin, NEW queues, Record(lat, origin, queues)
  PROVE  /\ final_real' = final_real + lat /\ lock' = TRUE
         /\ latency'[i] = lat /\ stats'[i] = origin /\ window'[i] = queues
         /\ totals'[i + 1] = final_real + lat
         /\ \A q \in Phases \ {i} :
              /\ latency'[q] = latency[q] /\ stats'[q] = stats[q]
              /\ window'[q] = window[q]
         /\ \A q \in (0 .. NumPhases) \ {i + 1} : totals'[q] = totals[q]
<1>1. i + 1 \in 0 .. NumPhases
  BY ConstantTypes DEF Phases
<1> QED BY <1>1 DEF Record, RaisedTotal, TypeOK

-----------------------------------------------------------------------------
(* SettledIsFinal: once the loop has moved on from a phase, no comparison   *)
(* and no simulation of a later one changes what is reported for it.        *)
THEOREM ResultsAreFinal == Spec => SettledIsFinal
<1> DEFINE Final ==
      \A q \in Phases : q < i =>
        /\ latency'[q] = latency[q] /\ stats'[q] = stats[q]
        /\ window'[q] = window[q] /\ totals'[q + 1] = totals[q + 1]
<1>1. TypeOK /\ [Next]_vars => [Final]_vars
  <2> SUFFICES ASSUME TypeOK, [Next]_vars, NEW q \in Phases, q < i
               PROVE  /\ latency'[q] = latency[q] /\ stats'[q] = stats[q]
                      /\ window'[q] = window[q] /\ totals'[q + 1] = totals[q + 1]
    OBVIOUS
  <2>0. /\ q # i /\ q + 1 \in 0 .. NumPhases /\ q + 1 # i + 1
        /\ i \in Nat /\ NumPhases \in Nat
    BY ConstantTypes DEF Phases, TypeOK
  <2>1. CASE Reuse
    <3>1. i \in Phases /\ j \in Phases
      BY <2>1, ConstantTypes DEF Reuse, TypeOK, Phases
    <3>2. archive[j].latency \in Nat
      BY <3>1 DEF TypeOK, Row
    <3> QED BY <2>0, <2>1, <3>1, <3>2, RecordWrites DEF Reuse
  <2>2. CASE Simulate
    <3>1. i \in Phases
      BY <2>2, ConstantTypes DEF Simulate, Undecided, TypeOK, Phases
    <3>2. PICK lat \in Outcomes(demand[i]) : Record(lat, i, i)
      BY <2>2 DEF Simulate
    <3>3. lat \in Nat
      BY <3>1, <3>2, OutcomesAreNat DEF TypeOK
    <3> QED BY <2>0, <3>1, <3>2, <3>3, RecordWrites
  <2>3. CASE SimulateNothing \/ AlreadyDecided
    <3>1. totals' = [totals EXCEPT ![i + 1] = final_real]
          /\ UNCHANGED <<latency, stats, window>>
      BY <2>3 DEF SimulateNothing, AlreadyDecided
    <3> QED BY <2>0, <3>1 DEF TypeOK
  <2>4. CASE AddColumn \/ Differ \/ ArchiveExhausted \/ HostsMissing \/ UNCHANGED vars
    BY <2>4 DEF AddColumn, Differ, ArchiveExhausted, HostsMissing, vars, data
  <2> QED BY <2>1, <2>2, <2>3, <2>4 DEF Next
<1> QED BY <1>1, TypeCorrect, PTL DEF Spec, SettledIsFinal

-----------------------------------------------------------------------------
(* ArchiveIsFaithful: whatever later phases are compared with, or copied    *)
(* from, is the matrix and the results of one phase that was simulated.     *)
THEOREM ArchiveFaithful == Spec => []ArchiveIsFaithful
<1>1. Init => ArchiveIsFaithful
  BY DEF Init, ArchiveIsFaithful
<1>2. TypeOK /\ ArchiveIsFaithful /\ [Next]_vars => ArchiveIsFaithful'
  <2> SUFFICES ASSUME TypeOK, ArchiveIsFaithful, [Next]_vars
               PROVE  ArchiveIsFaithful'
    OBVIOUS
  <2>0. /\ n \in 0 .. NumPhases /\ i \in 0 .. NumPhases /\ n <= i
        /\ NumPhases \in Nat /\ NumPhases > 0
    BY ConstantTypes DEF TypeOK
  <2>1. CASE Reuse
    <3>1. i \in Phases /\ j \in Phases
      BY <2>1, ConstantTypes DEF Reuse, TypeOK, Phases
    <3>2. archive[j].latency \in Nat
      BY <3>1 DEF TypeOK, Row
    <3>3. /\ \A q \in Phases \ {i} : latency'[q] = latency[q] /\ stats'[q] = stats[q]
          /\ UNCHANGED <<i, n, archive, demand>>
      BY <2>1, <3>1, <3>2, RecordWrites DEF Reuse
    <3>4. \A q \in 0 .. i - 1 : q \in Phases \ {i}
      BY <2>0 DEF Phases
    <3> QED BY <3>3, <3>4 DEF ArchiveIsFaithful
  <2>2. CASE Simulate
    <3>1. i \in Phases /\ n \in Phases
      BY <2>0, <2>2 DEF Simulate, Undecided, TypeOK, Phases
    <3>2. PICK lat \in Outcomes(demand[i]) :
            Record(lat, i, i) /\ archive' = [archive EXCEPT ![n] = ArchiveRow(lat)]
      BY <2>2 DEF Simulate
    <3>3. lat \in Nat
      BY <3>1, <3>2, OutcomesAreNat DEF TypeOK
    <3>4. /\ latency'[i] = lat /\ stats'[i] = i
          /\ \A q \in Phases \ {i} : latency'[q] = latency[q] /\ stats'[q] = stats[q]
          /\ i' = i + 1 /\ n' = n + 1 /\ demand' = demand
      BY <2>2, <3>1, <3>2, <3>3, RecordWrites DEF Simulate, Advance
    <3>5. /\ archive'[n] = ArchiveRow(lat)
          /\ \A a \in 0 .. n - 1 : archive'[a] = archive[a]
      BY <2>0, <3>1, <3>2 DEF TypeOK, Phases
    <3>6. ASSUME NEW a \in 0 .. n'  - 1
          PROVE  /\ archive'[a].stats \in 0 .. i' - 1
                 /\ stats'[archive'[a].stats] = archive'[a].stats
                 /\ archive'[a].matrix = demand'[archive'[a].stats]
                 /\ archive'[a].latency = latency'[archive'[a].stats]
                 /\ \A b \in 0 .. a - 1 : archive'[b].stats < archive'[a].stats
      <4>1. CASE a = n
        <5>1. archive'[a].stats = i /\ archive'[a].matrix = demand[i]
              /\ archive'[a].latency = lat
          BY <3>5, <4>1 DEF ArchiveRow
        <5>2. \A b \in 0 .. n - 1 : archive[b].stats \in 0 .. i - 1
          BY DEF ArchiveIsFaithful
        <5> QED BY <2>0, <3>4, <3>5, <4>1, <5>1, <5>2
      <4>2. CASE a # n
        <5>1. a \in 0 .. n - 1 /\ archive'[a] = archive[a]
          BY <2>0, <3>4, <3>5, <4>2
        <5>2. \A b \in 0 .. a - 1 : archive'[b] = archive[b]
          BY <2>0, <3>5, <5>1
        <5>3. archive[a].stats \in 0 .. i - 1
          BY <5>1 DEF ArchiveIsFaithful
        <5>4. archive[a].stats \in Phases \ {i} /\ archive[a].stats \in 0 .. i' - 1
          BY <2>0, <3>4, <5>3 DEF Phases
        <5> QED BY <3>4, <5>1, <5>2, <5>4 DEF ArchiveIsFaithful
      <4> QED BY <4>1, <4>2
    <3> QED BY <3>6 DEF ArchiveIsFaithful
  <2>3. CASE SimulateNothing \/ AlreadyDecided
    <3>1. i' = i + 1 /\ UNCHANGED <<n, archive, demand, latency, stats>>
      BY <2>3 DEF SimulateNothing, AlreadyDecided, Advance
    <3>2. \A q : q \in 0 .. i - 1 => q \in 0 .. i' - 1
      BY <2>0, <3>1
    <3> QED BY <3>1, <3>2 DEF ArchiveIsFaithful
  <2>4. CASE AddColumn \/ Differ \/ ArchiveExhausted \/ HostsMissing \/ UNCHANGED vars
    <3>1. UNCHANGED <<i, n, archive, demand, latency, stats>>
      BY <2>4 DEF AddColumn, Differ, ArchiveExhausted, HostsMissing, vars, data, scan
    <3> QED BY <3>1 DEF ArchiveIsFaithful
  <2> QED BY <2>1, <2>2, <2>3, <2>4 DEF Next
<1> QED BY <1>1, <1>2, TypeCorrect, PTL DEF Spec

-----------------------------------------------------------------------------
(* TotalsAddUp is not inductive: AlreadyDecided and SimulateNothing add     *)
(* nothing to final_real, which is right for a phase that was matched       *)
(* because its latency was added then, and for any other one because its    *)
(* latency is still zero; and Simulate adds a latency, which is right only  *)
(* because a matched phase leaves lock set and so is not simulated again.   *)
TotalsInv ==
  /\ TotalsAddUp
  /\ \A q \in Phases : ~ Settled(q) => latency[q] = 0
  /\ Settled(i) => lock = TRUE

(* Settled, in the terms the proofs need.                                   *)
LEMMA SettledTypes ==
  ASSUME TypeOK
  PROVE  /\ i \in Nat /\ NumPhases \in Nat
         /\ \A q \in Phases : q \in Nat /\ q + 1 \in 0 .. NumPhases
         /\ \A q \in Phases : q # i => (Settled(q) <=> q < i)
         /\ Settled(i) <=> pc = "decide" /\ j < n
         /\ Settled(i) => i \in Phases /\ i # 0
BY ConstantTypes DEF TypeOK, Phases, Settled

(* A step that leaves the results alone and settles no phase. *)
LEMMA TotalsStutter ==
  ASSUME TypeOK, TotalsInv, UNCHANGED <<i, latency, totals, final_real>>,
         Settled(i)' <=> Settled(i), Settled(i) => lock' = TRUE
  PROVE  TotalsInv'
<1>1. \A q \in Phases : Settled(q)' <=> Settled(q)
  BY SettledTypes DEF Settled
<1> QED BY <1>1 DEF TotalsInv, TotalsAddUp

(* The loop moves on from a phase whose latency has been accounted for.     *)
LEMMA TotalsAdvance ==
  ASSUME TypeOK, TotalsInv, i \in Phases, Advance, NEW lat \in Nat,
         latency'[i] = lat, totals'[i + 1] = final_real',
         final_real' = totals[i] + lat,
         \A q \in Phases \ {i} : latency'[q] = latency[q],
         \A q \in (0 .. NumPhases) \ {i + 1} : totals'[q] = totals[q]
  PROVE  TotalsInv'
<1>1. i' = i + 1 /\ pc' # "decide" /\ i \in Nat /\ NumPhases \in Nat
  BY SettledTypes DEF Advance
<1>2. \A q : Settled(q)' <=> q < i + 1
  BY <1>1 DEF Settled
<1>3. \A q \in Phases : Settled(q)' => totals'[q + 1] = totals'[q] + latency'[q]
  <2>1. SUFFICES ASSUME NEW q \in Phases, q < i + 1
                 PROVE  totals'[q + 1] = totals'[q] + latency'[q]
    BY <1>2
  <2>2. q \in Nat /\ q \in 0 .. NumPhases /\ q + 1 \in 0 .. NumPhases
    BY <1>1 DEF Phases
  <2>3. CASE q = i
    BY <1>1, <2>2, <2>3
  <2>4. CASE q # i
    <3>1. q < i /\ q # i + 1 /\ q + 1 # i + 1
      BY <1>1, <2>1, <2>2, <2>4
    <3>2. totals[q + 1] = totals[q] + latency[q]
      BY <3>1 DEF TotalsInv, TotalsAddUp, Settled
    <3> QED BY <2>2, <2>4, <3>1, <3>2
  <2> QED BY <2>3, <2>4
<1>4. totals'[0] = 0
  BY <1>1 DEF TotalsInv, TotalsAddUp
<1>5. \A q \in Phases : ~ Settled(q)' => latency'[q] = 0
  <2>1. SUFFICES ASSUME NEW q \in Phases, ~ (q < i + 1) PROVE latency'[q] = 0
    BY <1>2
  <2>2. q # i /\ ~ (q < i)
    BY <1>1, <2>1 DEF Phases
  <2> QED BY <2>2, SettledTypes DEF TotalsInv
<1>6. ~ Settled(i)'
  BY <1>1 DEF Settled
<1>7. totals'[i'] = final_real'
  BY <1>1
<1> QED BY <1>3, <1>4, <1>5, <1>6, <1>7 DEF TotalsInv, TotalsAddUp

(* TotalsAddUp: final_real is the sum of the latencies of the phases, each  *)
(* added once, when it was simulated or when it was matched.                *)
THEOREM TotalsCorrect == Spec => []TotalsAddUp
<1>1. Init => TotalsInv
  BY ConstantTypes DEF Init, TotalsInv, TotalsAddUp, Settled, Phases
<1>2. TypeOK /\ TotalsInv /\ [Next]_vars => TotalsInv'
  <2> SUFFICES ASSUME TypeOK, TotalsInv, [Next]_vars PROVE TotalsInv'
    OBVIOUS
  <2>0. i \in 0 .. NumPhases /\ NumPhases \in Nat
    BY ConstantTypes DEF TypeOK
  <2>1. CASE AddColumn \/ Differ \/ ArchiveExhausted \/ HostsMissing
    <3>1. UNCHANGED <<i, latency, totals, final_real>>
      BY <2>1 DEF AddColumn, Differ, ArchiveExhausted, HostsMissing, data
    <3>2. ~ Settled(i)'
      <4>1. CASE AddColumn \/ Differ
        BY <4>1 DEF AddColumn, Differ, Settled, TypeOK, data
      <4>2. CASE ArchiveExhausted
        BY <4>2 DEF ArchiveExhausted, Settled, TypeOK, data, scan
      <4>3. CASE HostsMissing
        BY <4>3 DEF HostsMissing, Settled, TypeOK
      <4> QED BY <2>1, <4>1, <4>2, <4>3
    <3>3. ~ Settled(i)
      <4>1. CASE AddColumn \/ Differ \/ ArchiveExhausted
        BY <4>1 DEF AddColumn, Differ, ArchiveExhausted, Settled, TypeOK
      <4>2. CASE HostsMissing
        BY <4>2, SettledTypes DEF HostsMissing, Undecided, TotalsInv
      <4> QED BY <2>1, <4>1, <4>2
    <3> QED BY <3>1, <3>2, <3>3, TotalsStutter
  <2>2. CASE UNCHANGED vars
    <3>1. Settled(i)' <=> Settled(i)
      BY <2>2 DEF vars, data, scan, Settled
    <3>2. UNCHANGED <<i, latency, totals, final_real, lock>>
      BY <2>2 DEF vars, data
    <3> QED BY <3>1, <3>2, TotalsStutter DEF TotalsInv
  <2>3. CASE Reuse
    <3>1. i \in Phases /\ j \in Phases
      BY <2>3, ConstantTypes DEF Reuse, TypeOK, Phases
    <3>2. archive[j].latency \in Nat
      BY <3>1 DEF TypeOK, Row
    <3> DEFINE lat == archive[j].latency
    <3>3. /\ i' = i /\ final_real' = final_real + lat /\ lock' = TRUE
          /\ latency'[i] = lat /\ totals'[i + 1] = final_real + lat
          /\ \A q \in Phases \ {i} : latency'[q] = latency[q]
          /\ \A q \in (0 .. NumPhases) \ {i + 1} : totals'[q] = totals[q]
      BY <2>3, <3>1, <3>2, RecordWrites DEF Reuse
    <3> HIDE DEF lat
    <3>4. ~ Settled(i) /\ Settled(i)'
      BY <2>0, <2>3 DEF Reuse, Settled
    <3>5. final_real = totals[i]
      BY <3>4 DEF TotalsInv, TotalsAddUp
    <3>6. \A q \in Phases \ {i} : /\ Settled(q)' <=> Settled(q)
                                  /\ Settled(q)' <=> q < i
      BY <3>3 DEF Settled
    <3>7. ASSUME NEW q \in Phases, Settled(q)'
          PROVE  totals'[q + 1] = totals'[q] + latency'[q]
      <4>1. q \in Nat /\ q \in 0 .. NumPhases /\ q + 1 \in 0 .. NumPhases /\ q # q + 1
        BY <2>0 DEF Phases
      <4>2. CASE q = i
        BY <2>0, <3>3, <3>5, <4>1, <4>2
      <4>3. CASE q # i
        <5>1. q < i /\ Settled(q)
          BY <3>6, <3>7, <4>3
        <5>2. q # i + 1 /\ q + 1 # i + 1
          BY <2>0, <4>1, <5>1
        <5>3. totals[q + 1] = totals[q] + latency[q]
          BY <5>1 DEF TotalsInv, TotalsAddUp
        <5> QED BY <3>3, <4>1, <4>3, <5>2, <5>3
      <4> QED BY <4>2, <4>3
    <3>8. totals'[0] = 0
      BY <2>0, <3>3 DEF TotalsInv, TotalsAddUp
    <3>9. \A q \in Phases : ~ Settled(q)' => latency'[q] = 0
      BY <3>3, <3>4, <3>6 DEF TotalsInv
    <3> QED BY <3>3, <3>4, <3>7, <3>8, <3>9 DEF TotalsInv, TotalsAddUp
  <2>4. CASE Simulate
    <3>1. i \in Phases
      BY <2>4, ConstantTypes DEF Simulate, Undecided, TypeOK, Phases
    <3>2. PICK lat \in Outcomes(demand[i]) : Record(lat, i, i)
      BY <2>4 DEF Simulate
    <3>3. lat \in Nat
      BY <3>1, <3>2, OutcomesAreNat DEF TypeOK
    <3>4. ~ Settled(i)
      BY <2>4, SettledTypes DEF Simulate, Undecided, TotalsInv
    <3>5. final_real = totals[i]
      BY <3>4 DEF TotalsInv, TotalsAddUp
    <3>6. Advance
      BY <2>4 DEF Simulate
    <3> QED BY <3>1, <3>2, <3>3, <3>5, <3>6, RecordWrites, TotalsAdvance
  <2>5. CASE SimulateNothing \/ AlreadyDecided
    <3>1. i \in Phases /\ i + 1 \in 0 .. NumPhases
      BY <2>5, ConstantTypes DEF SimulateNothing, AlreadyDecided, Undecided, TypeOK, Phases
    <3>2. /\ Advance /\ totals' = [totals EXCEPT ![i + 1] = final_real]
          /\ UNCHANGED <<latency, final_real>>
      BY <2>5 DEF SimulateNothing, AlreadyDecided
    <3>3. latency[i] \in Nat /\ final_real = totals[i] + latency[i]
      <4>1. latency[i] \in Nat /\ totals[i] \in Nat /\ final_real \in Nat
        BY <2>0, <3>1 DEF TypeOK
      <4>2. CASE Settled(i)
        BY <3>1, <4>1, <4>2 DEF TotalsInv, TotalsAddUp
      <4>3. CASE ~ Settled(i)
        BY <3>1, <4>1, <4>3 DEF TotalsInv, TotalsAddUp
      <4> QED BY <4>1, <4>2, <4>3
    <3>4. /\ totals'[i + 1] = final_real'
          /\ \A q \in (0 .. NumPhases) \ {i + 1} : totals'[q] = totals[q]
      BY <3>1, <3>2 DEF TypeOK
    <3> QED BY <3>1, <3>2, <3>3, <3>4, TotalsAdvance
  <2> QED BY <2>1, <2>2, <2>3, <2>4, <2>5 DEF Next
<1>3. TotalsInv => TotalsAddUp
  BY DEF TotalsInv
<1> QED BY <1>1, <1>2, <1>3, TypeCorrect, PTL DEF Spec

-----------------------------------------------------------------------------
(* With a known topology lock tells the truth when it is looked at: a phase *)
(* other than the first, all of whose comparisons failed, is one with lock  *)
(* cleared, because there was at least one comparison.                      *)
LockInv ==
  topology # "other" =>
    /\ i > 0 => n > 0
    /\ pc = "compare" /\ j > 0 => lock = FALSE
    /\ pc = "decide" /\ i > 0 /\ ~ Settled(i) => lock = FALSE
    /\ Settled(i) => lock = TRUE

(* LockInv holds: the decision of main.cpp:471 may rely on lock.            *)
LEMMA LockCorrect == Spec => []LockInv
<1>1. Init => LockInv
  BY DEF Init, LockInv, Settled
<1>2. TypeOK /\ LockInv /\ [Next]_vars => LockInv'
  <2> SUFFICES ASSUME TypeOK, LockInv, [Next]_vars, (topology # "other")'
               PROVE  /\ i' > 0 => n' > 0
                      /\ pc' = "compare" /\ j' > 0 => lock' = FALSE
                      /\ pc' = "decide" /\ i' > 0 /\ ~ Settled(i)' => lock' = FALSE
                      /\ Settled(i)' => lock' = TRUE
    BY DEF LockInv
  <2>0. /\ i \in Nat /\ n \in Nat /\ j \in Nat /\ n <= i /\ j <= n
        /\ topology' = topology /\ topology # "other"
    BY ConstantTypes DEF TypeOK, Next, vars, AddColumn, Reuse, Differ, ArchiveExhausted,
                         Simulate, SimulateNothing, HostsMissing, AlreadyDecided
  <2>1. CASE AddColumn
    BY <2>0, <2>1 DEF AddColumn, LockInv, Settled, data
  <2>2. CASE Reuse
    BY <2>0, <2>2 DEF Reuse, Record, LockInv, Settled
  <2>3. CASE Differ
    BY <2>0, <2>3 DEF Differ, LockInv, Settled, data
  <2>4. CASE ArchiveExhausted
    BY <2>0, <2>4 DEF ArchiveExhausted, LockInv, Settled, data, scan
  <2>5. CASE Simulate
    BY <2>0, <2>5 DEF Simulate, Advance, LockInv, Settled
  <2>6. CASE SimulateNothing
    BY <2>0, <2>6 DEF SimulateNothing
  <2>7. CASE HostsMissing
    BY <2>0, <2>7 DEF HostsMissing, LockInv, Settled, data, scan
  <2>8. CASE AlreadyDecided
    BY <2>0, <2>8 DEF AlreadyDecided, Undecided, Advance, LockInv, Settled
  <2>9. CASE UNCHANGED vars
    BY <2>0, <2>9 DEF vars, data, scan, LockInv, Settled
  <2> QED
    BY <2>1, <2>2, <2>3, <2>4, <2>5, <2>6, <2>7, <2>8, <2>9 DEF Next
<1> QED BY <1>1, <1>2, TypeCorrect, PTL DEF Spec

-----------------------------------------------------------------------------
(* A cos of at most 1 does not exceed such a threshold.                     *)
LEMMA NeverSimilar ==
  ASSUME CosMin >= Scale, TypeOK, CosInv
  PROVE  ~ Similar
<1>1. Cosine \in Nat /\ Cosine <= Scale
  BY NormalisedTypes, CosineAtMostOne DEF TypeOK
<1> QED BY <1>1, ConstantTypes, ConstantsAssumption DEF Similar

(* EveryPhaseSimulated: with a threshold that is not below 1 (main.cpp:436  *)
(* has 2.4) no phase is ever matched.  By CosineAtMostOne a comparison that *)
(* has been normalised has a cos of at most 1; the theorem also rests on    *)
(* LockCorrect, without which a phase could be left out.                    *)
THEOREM AllSimulated ==
  ASSUME CosMin >= Scale
  PROVE  Spec => []EveryPhaseSimulated
<1>1. Init => EveryPhaseSimulated
  BY DEF Init, EveryPhaseSimulated, Phases
<1>2. TypeOK /\ CosInv /\ LockInv /\ EveryPhaseSimulated /\ [Next]_vars => EveryPhaseSimulated'
  <2> SUFFICES ASSUME TypeOK, CosInv, LockInv, EveryPhaseSimulated, [Next]_vars
               PROVE  EveryPhaseSimulated'
    OBVIOUS
  <2>0. /\ i \in Nat /\ n \in Nat /\ j \in Nat /\ n <= i /\ j <= n /\ NumPhases \in Nat
        /\ ~ Settled(i)
    BY ConstantTypes DEF TypeOK, EveryPhaseSimulated, Settled
  <2>1. ~ Reuse
    BY NeverSimilar DEF Reuse
  <2>2. CASE AddColumn \/ Differ
    BY <2>2 DEF AddColumn, Differ, EveryPhaseSimulated, data
  <2>3. CASE ArchiveExhausted
    BY <2>0, <2>3 DEF ArchiveExhausted, EveryPhaseSimulated, data, scan
  <2>4. CASE Simulate
    <3>1. i \in Phases /\ topology' = topology /\ i' = i + 1 /\ n' = n + 1 /\ pc' # "decide"
      BY <2>4, ConstantTypes DEF Simulate, Undecided, Advance, TypeOK, Phases
    <3>2. PICK lat \in Outcomes(demand[i]) : Record(lat, i, i)
      BY <2>4 DEF Simulate
    <3>3. lat \in Nat
      BY <3>1, <3>2, OutcomesAreNat DEF TypeOK
    <3>4. stats'[i] = i /\ \A q \in Phases \ {i} : stats'[q] = stats[q]
      BY <3>1, <3>2, <3>3, RecordWrites
    <3>5. \A q \in Phases : q < i + 1 => q = i \/ q < i
      BY <2>0 DEF Phases
    <3> QED BY <2>0, <3>1, <3>4, <3>5 DEF EveryPhaseSimulated
  <2>5. CASE SimulateNothing
    BY <2>0, <2>5 DEF SimulateNothing, Advance, EveryPhaseSimulated
  <2>6. CASE HostsMissing
    BY <2>0, <2>6 DEF HostsMissing, EveryPhaseSimulated, data, scan
  <2>7. CASE AlreadyDecided
    <3>1. topology = "other"
      BY <2>0, <2>7 DEF AlreadyDecided, Undecided, LockInv
    <3> QED BY <2>0, <2>7, <3>1 DEF AlreadyDecided, Advance, EveryPhaseSimulated
  <2>8. CASE UNCHANGED vars
    BY <2>8 DEF vars, data, scan, EveryPhaseSimulated
  <2> QED BY <2>1, <2>2, <2>3, <2>4, <2>5, <2>6, <2>7, <2>8 DEF Next
<1> QED BY <1>1, <1>2, TypeCorrect, CosInvariant, LockCorrect, PTL DEF Spec

-----------------------------------------------------------------------------
(* Writing the results of phase i is, in terms of PhaseEstimator, settling  *)
(* the next phase.                                                          *)
LEMMA SettlesPhase ==
  ASSUME TypeOK, i \in Phases, ~ Settled(i), NEW lat \in Nat,
         NEW origin, NEW queues, Record(lat, origin, queues),
         (i' = i /\ Settled(i)') \/ (i' = i + 1 /\ ~ Settled(i)')
  PROVE  Estimator!Settle(lat, origin)
BY DEF Record, RaisedTotal, Estimator!Settle

(* ImplementsEstimator: with a known topology each step of the loop settles *)
(* the next phase as PhaseEstimator does, or leaves its variables alone.    *)
THEOREM ImplementsPhaseEstimator ==
  ASSUME "other" \notin Topologies
  PROVE  Spec => ImplementsEstimator
<1>1. Init => Estimator!Init
  BY DEF Init, Settled, Estimator!Init
<1>2. TypeOK /\ LockInv /\ ArchiveIsFaithful /\ [Next]_vars => [Estimator!Next]_(Estimator!vars)
  <2> SUFFICES ASSUME TypeOK, LockInv, ArchiveIsFaithful, [Next]_vars
               PROVE  [Estimator!Next]_(Estimator!vars)
    OBVIOUS
  <2>0. /\ i \in Nat /\ n \in Nat /\ j \in Nat /\ n <= i /\ j <= n
        /\ topology # "other" /\ NumPhases \in Nat
    BY ConstantTypes DEF TypeOK
  <2>1. CASE AddColumn \/ Differ \/ ArchiveExhausted
    <3>1. UNCHANGED <<i, latency, stats, final_real>> /\ ~ Settled(i) /\ ~ Settled(i)'
      BY <2>0, <2>1 DEF AddColumn, Differ, ArchiveExhausted, Settled, data, scan
    <3> QED BY <3>1 DEF Estimator!vars
  <2>2. CASE Reuse
    <3>1. i \in Phases /\ j \in Phases /\ j \in 0 .. n - 1
      BY <2>2, ConstantTypes DEF Reuse, TypeOK, Phases
    <3>2. archive[j].latency \in Nat
      BY <3>1 DEF TypeOK, Row
    <3> DEFINE q == archive[j].stats
    <3>3. q \in 0 .. i - 1 /\ stats[q] = q /\ archive[j].latency = latency[q]
      BY <3>1 DEF ArchiveIsFaithful
    <3>4. ~ Settled(i) /\ i' = i /\ Settled(i)'
      BY <2>0, <2>2 DEF Reuse, Settled
    <3>5. Estimator!Settle(latency[q], q)
      BY <2>2, <3>1, <3>2, <3>3, <3>4, SettlesPhase DEF Reuse
    <3>6. q \in Phases /\ q < i
      BY <2>0, <3>1, <3>3 DEF Phases
    <3> HIDE DEF q
    <3> QED BY <3>3, <3>4, <3>5, <3>6 DEF Estimator!Next, Estimator!Reuse
  <2>3. CASE Simulate
    <3>1. i \in Phases
      BY <2>3, ConstantTypes DEF Simulate, Undecided, TypeOK, Phases
    <3>2. PICK lat \in Outcomes(demand[i]) : Record(lat, i, i)
      BY <2>3 DEF Simulate
    <3>3. lat \in Nat /\ lat \in Latencies \cup {0}
      BY <3>1, <3>2, OutcomesAreNat DEF TypeOK, Outcomes
    <3>4. ~ Settled(i) /\ i' = i + 1 /\ ~ Settled(i)'
      BY <2>0, <2>3 DEF Simulate, Undecided, Advance, Settled, LockInv
    <3>5. Estimator!Settle(lat, i)
      BY <3>1, <3>2, <3>3, <3>4, SettlesPhase
    <3> QED BY <3>3, <3>4, <3>5 DEF Estimator!Next, Estimator!Simulate
  <2>4. CASE SimulateNothing
    BY <2>0, <2>4 DEF SimulateNothing
  <2>5. CASE HostsMissing
    <3>1. UNCHANGED <<i, latency, stats, final_real>> /\ ~ Settled(i) /\ ~ Settled(i)'
      BY <2>0, <2>5 DEF HostsMissing, Undecided, LockInv, Settled, data
    <3> QED BY <3>1 DEF Estimator!vars
  <2>6. CASE AlreadyDecided
    <3>1. Settled(i) /\ i' = i + 1 /\ ~ Settled(i)'
      BY <2>0, <2>6 DEF AlreadyDecided, Undecided, Advance, LockInv, Settled
    <3>2. UNCHANGED <<latency, stats, final_real>>
      BY <2>6 DEF AlreadyDecided
    <3> QED BY <3>1, <3>2 DEF Estimator!vars
  <2>7. CASE UNCHANGED vars
    BY <2>7 DEF vars, data, scan, Settled, Estimator!vars
  <2> QED BY <2>1, <2>2, <2>3, <2>4, <2>5, <2>6, <2>7 DEF Next
<1> QED
  BY <1>1, <1>2, TypeCorrect, LockCorrect, ArchiveFaithful, PTL
     DEF Spec, ImplementsEstimator, Estimator!Spec

-----------------------------------------------------------------------------
(* Steps the loop can still take: what is left of the comparison with       *)
(* archived phases and of the decision, and as much as a phase can need for *)
(* each phase after that.                                                   *)
PhaseSteps == NumPhases * (NumFlows + 1) + 3

ComparisonSteps == IF j < n THEN (n - j) * (NumFlows + 1) + 1 - col ELSE 0

StepsLeft ==
  (NumPhases - i) * PhaseSteps
    + CASE pc = "compare" -> ComparisonSteps + 2
        [] pc = "decide"  -> 1
        [] OTHER          -> 0

(* A column more, or an archived phase more, is a step less.                *)
LEMMA ComparisonBounds ==
  TypeOK => /\ ComparisonSteps \in 0 .. NumPhases * (NumFlows + 1)
            /\ PhaseSteps \in Nat /\ (NumPhases - i) * PhaseSteps \in Nat
<1> SUFFICES ASSUME TypeOK
             PROVE  /\ ComparisonSteps \in 0 .. NumPhases * (NumFlows + 1)
                    /\ PhaseSteps \in Nat /\ (NumPhases - i) * PhaseSteps \in Nat
  OBVIOUS
<1> DEFINE c == NumFlows + 1
<1>1. /\ c \in Nat \ {0, 1} /\ NumPhases \in Nat /\ n \in 0 .. NumPhases
      /\ j \in 0 .. NumPhases /\ col \in 1 .. c /\ i \in 0 .. NumPhases
  BY ConstantTypes DEF TypeOK
<1> HIDE DEF c
<1>2. NumPhases * c \in Nat
  BY <1>1
<1>3. CASE j < n
  <2>1. (n - j) * c >= c /\ (n - j) * c <= NumPhases * c
    <3>1. \A a, b \in Nat : a <= b => a * c <= b * c
      BY <1>1, TimesMonotone
    <3>2. n - j \in Nat /\ 1 <= n - j /\ n - j <= NumPhases
      BY <1>1, <1>3
    <3>3. 1 * c = c
      BY <1>1
    <3> QED BY <1>1, <3>1, <3>2, <3>3
  <2>2. (n - j) * c \in Int
    BY <1>1
  <2>3. ComparisonSteps = (n - j) * c + 1 - col
    BY <1>3 DEF ComparisonSteps, c
  <2>4. ComparisonSteps \in 0 .. NumPhases * c
    BY <1>1, <1>2, <2>1, <2>2, <2>3
  <2> QED BY <1>1, <1>2, <2>4 DEF c, PhaseSteps
<1>4. CASE ~ (j < n)
  BY <1>1, <1>2, <1>4 DEF ComparisonSteps, c, PhaseSteps
<1>5. NumPhases - i \in Nat /\ PhaseSteps \in Nat
  BY <1>1, <1>2 DEF PhaseSteps, c
<1>6. (NumPhases - i) * PhaseSteps \in Nat
  BY <1>5
<1> QED BY <1>3, <1>4, <1>5, <1>6 DEF c

(* And in the next state.                                                   *)
LEMMA ComparisonBoundsNext ==
  TypeOK' => (ComparisonSteps \in 0 .. NumPhases * (NumFlows + 1))'
<1>1. TypeOK => ComparisonSteps \in 0 .. NumPhases * (NumFlows + 1)
  BY ComparisonBounds
<1> QED BY <1>1, PTL

(* The step from one phase to the next pays for all that the next can need. *)
LEMMA NextPhasePaid ==
  ASSUME TypeOK, TypeOK', i < NumPhases, i' = i + 1, pc = "decide", pc' # "decide"
  PROVE  StepsLeft' < StepsLeft
<1>1. /\ ComparisonSteps' \in 0 .. NumPhases * (NumFlows + 1)
      /\ PhaseSteps \in Nat /\ PhaseSteps' = PhaseSteps
      /\ PhaseSteps = NumPhases * (NumFlows + 1) + 3
  BY ComparisonBounds, ComparisonBoundsNext DEF PhaseSteps
<1>2. i \in Nat /\ NumPhases \in Nat /\ NumPhases * (NumFlows + 1) \in Nat
  BY ConstantTypes DEF TypeOK
<1>3. (NumPhases - i) * PhaseSteps = (NumPhases - i') * PhaseSteps + PhaseSteps
  BY <1>1, <1>2
<1>4. (NumPhases - i') * PhaseSteps \in Int
  BY <1>1, <1>2
<1>5. StepsLeft = (NumPhases - i) * PhaseSteps + 1
  BY DEF StepsLeft
<1>6. \/ StepsLeft' = (NumPhases - i') * PhaseSteps + ComparisonSteps' + 2
      \/ StepsLeft' = (NumPhases - i') * PhaseSteps
  BY <1>1, <1>2, <1>4 DEF StepsLeft
<1> QED BY <1>1, <1>2, <1>3, <1>4, <1>5, <1>6

(* The loop ends: whatever the traffic and the outcomes, each step leaves   *)
(* fewer of a finite number of steps (main.cpp:366-505).                    *)
THEOREM LoopEnds == Spec => [](StepsLeft \in Nat) /\ [][StepsLeft' < StepsLeft]_vars
<1>1. TypeOK => StepsLeft \in Nat
  <2> SUFFICES ASSUME TypeOK PROVE StepsLeft \in Nat
    OBVIOUS
  <2>1. ComparisonSteps \in Nat /\ (NumPhases - i) * PhaseSteps \in Nat
    <3>1. NumPhases * (NumFlows + 1) \in Nat
      BY ConstantTypes
    <3> QED BY <3>1, ComparisonBounds
  <2>2. CASE pc = "compare"
    BY <2>1, <2>2 DEF StepsLeft
  <2>3. CASE pc = "decide"
    BY <2>1, <2>3 DEF StepsLeft
  <2>4. CASE pc \in {"done", "fault"}
    BY <2>1, <2>4 DEF StepsLeft
  <2> QED BY <2>2, <2>3, <2>4 DEF TypeOK
<1>2. TypeOK /\ TypeOK' /\ Next => StepsLeft' < StepsLeft
  <2> SUFFICES ASSUME TypeOK, TypeOK', Next PROVE StepsLeft' < StepsLeft
    OBVIOUS
  <2> DEFINE R == (NumPhases - i) * PhaseSteps
             c == NumFlows + 1
  <2>0. /\ ComparisonSteps \in Nat /\ R \in Nat
        /\ c \in Nat \ {0, 1} /\ n \in Nat /\ j \in Nat /\ col \in Nat /\ i \in Nat
        /\ NumPhases \in Nat /\ j <= n
    <3>1. NumPhases * (NumFlows + 1) \in Nat
      BY ConstantTypes
    <3>2. ComparisonSteps \in Nat /\ R \in Nat
      BY <3>1, ComparisonBounds
    <3>3. c \in Nat \ {0, 1}
      BY ConstantTypes
    <3> QED BY <3>2, <3>3, ConstantTypes DEF TypeOK
  <2>1. CASE AddColumn
    <3>1. /\ j < n /\ col' = col + 1 /\ pc = "compare"
          /\ UNCHANGED <<i, j, n, pc>>
      BY <2>1 DEF AddColumn, data
    <3>2. /\ ComparisonSteps = (n - j) * c + 1 - col
          /\ ComparisonSteps' = (n - j) * c + 1 - (col + 1)
      BY <3>1 DEF ComparisonSteps
    <3>3. (n - j) * c \in Int
      BY <2>0
    <3>4. StepsLeft = R + (ComparisonSteps + 2) /\ StepsLeft' = R + (ComparisonSteps' + 2)
      BY <3>1 DEF StepsLeft, PhaseSteps
    <3> HIDE DEF R, c
    <3> QED BY <2>0, <3>2, <3>3, <3>4
  <2>2. CASE Reuse \/ ArchiveExhausted
    <3>1. pc = "compare" /\ pc' = "decide" /\ i' = i
      BY <2>2 DEF Reuse, ArchiveExhausted
    <3>2. StepsLeft = R + (ComparisonSteps + 2) /\ StepsLeft' = R + 1
      BY <3>1 DEF StepsLeft, PhaseSteps
    <3> HIDE DEF R
    <3> QED BY <2>0, <3>2
  <2>3. CASE Differ
    <3>1. /\ j < n /\ col > NumFlows /\ j' = j + 1 /\ col' = 1 /\ pc = "compare"
          /\ UNCHANGED <<i, n, pc>>
      BY <2>3 DEF Differ, data
    <3>2. col = c
      BY <2>0, <3>1, ConstantTypes DEF TypeOK
    <3>3. (n - j) * c = (n - (j + 1)) * c + c /\ (n - (j + 1)) * c \in Int
      BY <2>0
    <3>4. n = j + 1 => (n - (j + 1)) * c = 0
      BY <2>0
    <3>5. ComparisonSteps = (n - (j + 1)) * c + 1
      BY <2>0, <3>1, <3>2, <3>3 DEF ComparisonSteps
    <3>6. ComparisonSteps' = (n - (j + 1)) * c
      <4>1. CASE j + 1 < n
        BY <2>0, <3>1, <3>3, <4>1 DEF ComparisonSteps
      <4>2. CASE j + 1 = n
        BY <2>0, <3>1, <3>4, <4>2 DEF ComparisonSteps
      <4> QED BY <2>0, <3>1, <4>1, <4>2
    <3>7. StepsLeft = R + (ComparisonSteps + 2) /\ StepsLeft' = R + (ComparisonSteps' + 2)
      BY <3>1 DEF StepsLeft, PhaseSteps
    <3> HIDE DEF R, c
    <3> QED BY <2>0, <3>3, <3>5, <3>6, <3>7
  <2>4. CASE HostsMissing
    <3>1. pc = "decide" /\ pc' = "fault" /\ i' = i
      BY <2>4 DEF HostsMissing, Undecided
    <3>2. StepsLeft = R + 1 /\ StepsLeft' = R + 0
      BY <3>1 DEF StepsLeft, PhaseSteps
    <3> HIDE DEF R
    <3> QED BY <2>0, <3>2
  <2>5. CASE Simulate \/ SimulateNothing \/ AlreadyDecided
    <3>1. i' = i + 1 /\ pc = "decide" /\ pc' # "decide"
      BY <2>5 DEF Simulate, SimulateNothing, AlreadyDecided, Undecided, Advance
    <3>2. i < NumPhases
      BY <3>1, ConstantTypes DEF TypeOK
    <3> QED BY <3>1, <3>2, NextPhasePaid
  <2> QED BY <2>1, <2>2, <2>3, <2>4, <2>5 DEF Next
<1>3. TypeOK /\ TypeOK' /\ [Next]_vars => [StepsLeft' < StepsLeft]_vars
  BY <1>2
<1> QED BY <1>1, <1>3, TypeCorrect, PTL DEF Spec

(* The phases decided so far have results.                                  *)
ResultsSoFar == topology # "other" => \A q \in Phases : Settled(q) => stats[q] # NoPhase

(* With a known topology no phase is left without results when the loop is  *)
(* done: what is taken over was simulated, and what was not taken over is   *)
(* simulated (main.cpp:411-503).                                            *)
THEOREM AllReported ==
  Spec => [](pc = "done" /\ topology # "other" => \A q \in Phases : stats[q] # NoPhase)
<1>1. Init => ResultsSoFar
  BY DEF Init, ResultsSoFar, Settled, Phases
<1>2. TypeOK /\ LockInv /\ ArchiveIsFaithful /\ ResultsSoFar /\ [Next]_vars => ResultsSoFar'
  <2> SUFFICES ASSUME TypeOK, LockInv, ArchiveIsFaithful, ResultsSoFar, [Next]_vars,
                      (topology # "other")', NEW q \in Phases, Settled(q)'
               PROVE  stats'[q] # NoPhase
    BY DEF ResultsSoFar
  <2>0. /\ topology' = topology /\ topology # "other" /\ i \in Nat /\ q \in Nat
        /\ n \in Nat /\ j \in Nat /\ j <= n /\ n <= i
    BY ConstantTypes DEF Next, AddColumn, Reuse, Differ, ArchiveExhausted, Simulate,
       SimulateNothing, HostsMissing, AlreadyDecided, vars, TypeOK, Phases
  <2>1. CASE AddColumn \/ Differ \/ ArchiveExhausted \/ HostsMissing
    <3>1. stats' = stats /\ i' = i
      BY <2>1 DEF AddColumn, Differ, ArchiveExhausted, HostsMissing, data
    <3>2. q < i
      <4>1. ~ (pc' = "decide" /\ j' < n')
        BY <2>0, <2>1 DEF AddColumn, Differ, ArchiveExhausted, HostsMissing, data, scan
      <4> QED BY <3>1, <4>1 DEF Settled
    <3> QED BY <2>0, <3>1, <3>2 DEF ResultsSoFar, Settled
  <2>2. CASE Reuse
    <3>1. /\ i' = i /\ i \in Phases /\ j \in 0 .. n - 1
          /\ Record(archive[j].latency, archive[j].stats, QueueFigures)
      BY <2>0, <2>2, ConstantTypes DEF Reuse, TypeOK, Phases
    <3>2. archive[j].latency \in Nat
      BY <2>0, <3>1, ConstantTypes DEF TypeOK, Row, Phases
    <3>3. archive[j].stats \in 0 .. i - 1
      BY <3>1 DEF ArchiveIsFaithful
    <3>4. stats'[i] = archive[j].stats /\ \A r \in Phases \ {i} : stats'[r] = stats[r]
      BY <3>1, <3>2, RecordWrites
    <3>5. q < i \/ q = i
      BY <3>1 DEF Settled
    <3> QED BY <2>0, <3>3, <3>4, <3>5 DEF ResultsSoFar, Settled, NoPhase
  <2>3. CASE Simulate
    <3>1. i \in Phases /\ i' = i + 1 /\ pc' # "decide"
      BY <2>3, ConstantTypes DEF Simulate, Undecided, Advance, TypeOK, Phases
    <3>2. PICK lat \in Outcomes(demand[i]) : Record(lat, i, i)
      BY <2>3 DEF Simulate
    <3>3. lat \in Nat
      BY <3>1, <3>2, OutcomesAreNat DEF TypeOK
    <3>4. stats'[i] = i /\ \A r \in Phases \ {i} : stats'[r] = stats[r]
      BY <3>1, <3>2, <3>3, RecordWrites
    <3>5. q < i \/ q = i
      BY <2>0, <3>1 DEF Settled
    <3> QED BY <2>0, <3>4, <3>5 DEF ResultsSoFar, Settled, NoPhase
  <2>4. CASE SimulateNothing
    BY <2>0, <2>4 DEF SimulateNothing
  <2>5. CASE AlreadyDecided
    <3>1. stats' = stats /\ i' = i + 1 /\ pc' # "decide" /\ Settled(i)
      BY <2>0, <2>5 DEF AlreadyDecided, Undecided, Advance, LockInv
    <3>2. Settled(q)
      BY <2>0, <3>1 DEF Settled
    <3> QED BY <2>0, <3>1, <3>2 DEF ResultsSoFar
  <2>6. CASE UNCHANGED vars
    BY <2>0, <2>6 DEF vars, data, scan, ResultsSoFar, Settled
  <2> QED BY <2>1, <2>2, <2>3, <2>4, <2>5, <2>6 DEF Next
<1>3. TypeOK /\ ResultsSoFar =>
        (pc = "done" /\ topology # "other" => \A q \in Phases : stats[q] # NoPhase)
  BY ConstantTypes DEF TypeOK, ResultsSoFar, Settled, Phases
<1> QED BY <1>1, <1>2, <1>3, TypeCorrect, LockCorrect, ArchiveFaithful, PTL DEF Spec

-----------------------------------------------------------------------------
(* Every phase before q was simulated for itself.                           *)
NoMatchBefore(q) == \A r \in 0 .. q - 1 : stats[r] = r

(* What QueueFiguresTraceable says, of the phases that are settled.  It is  *)
(* kept by a match because, as long as no phase was matched, the archive    *)
(* has a row for each phase, in the same order; and a matched phase is      *)
(* known by the origin of its results, which is an earlier one.             *)
QueueInv ==
  topology # "other" =>
    /\ \A q \in Phases : Settled(q) =>
         /\ window[q] \in 0 .. q /\ stats[window[q]] = window[q]
         /\ NoMatchBefore(q) => window[q] = stats[q]
    /\ NoMatchBefore(i) => n = i /\ \A a \in 0 .. n - 1 : archive[a].stats = a
    /\ Settled(i) => stats[i] < i

(* A step that decides nothing. *)
LEMMA QueuesStutter ==
  ASSUME TypeOK, QueueInv, UNCHANGED <<topology, i, n, stats, window, archive>>,
         Settled(i)' <=> Settled(i)
  PROVE  QueueInv'
<1>1. \A q \in Phases : Settled(q)' <=> Settled(q)
  BY SettledTypes DEF Settled
<1> QED BY <1>1 DEF QueueInv, NoMatchBefore

(* A match (main.cpp:436-461): row j is that of an earlier phase, and its   *)
(* figures are traceable.                                                   *)
LEMMA QueuesOfMatch ==
  ASSUME TypeOK, ArchiveIsFaithful, QueueInv, Reuse, topology # "other"
  PROVE  QueueInv'
<1>1. /\ i \in Phases /\ j \in 0 .. n - 1 /\ n \in Nat /\ n <= i /\ i \in Nat /\ j \in Phases
      /\ UNCHANGED <<topology, archive, i, j, n>> /\ pc = "compare" /\ pc' = "decide"
      /\ Record(archive[j].latency, archive[j].stats, QueueFigures)
  BY ConstantTypes DEF Reuse, TypeOK, Phases
<1>2. archive[j].latency \in Nat
  BY <1>1 DEF TypeOK, Row
<1>3. archive[j].stats \in 0 .. i - 1
  BY <1>1 DEF ArchiveIsFaithful
<1>4. /\ stats'[i] = archive[j].stats /\ window'[i] = window[j]
      /\ \A r \in Phases \ {i} : stats'[r] = stats[r] /\ window'[r] = window[r]
  BY <1>1, <1>2, RecordWrites DEF QueueFigures
<1>5. \A r \in 0 .. i - 1 : /\ r \in Phases /\ r # i /\ stats'[r] = stats[r]
                             /\ window'[r] = window[r] /\ Settled(r)
  BY <1>1, <1>4, ConstantTypes DEF Phases, Settled
<1>6. \A q \in 0 .. i : NoMatchBefore(q)' <=> NoMatchBefore(q)
  BY <1>1, <1>5 DEF NoMatchBefore
<1>7. ASSUME NEW q \in Phases, Settled(q)'
      PROVE  /\ window'[q] \in 0 .. q /\ stats'[window'[q]] = window'[q]
             /\ NoMatchBefore(q) => window'[q] = stats'[q]
  <2>1. CASE q = i
    <3>1. j \in 0 .. i - 1
      BY <1>1
    <3>2. /\ window[j] \in 0 .. j /\ stats[window[j]] = window[j]
          /\ NoMatchBefore(j) => window[j] = stats[j]
      BY <1>1, <1>5, <3>1 DEF QueueInv
    <3>3. window[j] \in 0 .. i - 1
      <4>1. 0 .. j \subseteq 0 .. i - 1
        BY <1>1, <3>1
      <4> QED BY <3>2, <4>1
    <3>4. NoMatchBefore(i) => NoMatchBefore(j) /\ stats[j] = j /\ archive[j].stats = j
      BY <1>1, <3>1 DEF NoMatchBefore, QueueInv
    <3> QED BY <1>1, <1>4, <1>5, <2>1, <3>2, <3>3, <3>4
  <2>2. CASE q # i
    <3>1. q \in 0 .. i - 1
      BY <1>1, <1>7, <2>2 DEF Settled, Phases
    <3>2. /\ window[q] \in 0 .. q /\ stats[window[q]] = window[q]
          /\ NoMatchBefore(q) => window[q] = stats[q]
      BY <1>5, <1>7, <3>1 DEF QueueInv
    <3>3. window[q] \in 0 .. i - 1
      BY <3>1, <3>2, <1>1
    <3> QED BY <1>5, <3>1, <3>2, <3>3
  <2> QED BY <2>1, <2>2
<1>8. \A q \in Phases : Settled(q)' => q \in 0 .. i
  BY <1>1 DEF Settled, Phases
<1>9. NoMatchBefore(i)' => n' = i' /\ \A a \in 0 .. n' - 1 : archive'[a].stats = a
  BY <1>1, <1>6 DEF QueueInv
<1>10. stats'[i] < i
  BY <1>1, <1>3, <1>4
<1>11. \A q \in Phases : NoMatchBefore(q)' /\ q \in 0 .. i => NoMatchBefore(q)
  BY <1>6
<1> QED BY <1>1, <1>7, <1>8, <1>9, <1>10, <1>11 DEF QueueInv

(* A simulation (main.cpp:774-867) writes both rows of its phase and, when  *)
(* no phase was matched before, the row of the archive with its number.     *)
LEMMA QueuesOfSimulation ==
  ASSUME TypeOK, LockInv, QueueInv, Simulate, topology # "other"
  PROVE  QueueInv'
<1>1. /\ i \in Phases /\ n \in Nat /\ n <= i /\ i \in Nat /\ n \in Phases
      /\ i' = i + 1 /\ pc = "decide" /\ pc' # "decide" /\ n' = n + 1
      /\ UNCHANGED topology
  BY ConstantTypes DEF Simulate, Undecided, Advance, TypeOK, Phases
<1>2. PICK lat \in Outcomes(demand[i]) :
        Record(lat, i, i) /\ archive' = [archive EXCEPT ![n] = ArchiveRow(lat)]
  BY DEF Simulate
<1>3. lat \in Nat
  BY <1>1, <1>2, OutcomesAreNat DEF TypeOK
<1>r. Record(lat, i, i) /\ i \in Phases
  BY <1>1, <1>2
<1>4. /\ stats'[i] = i /\ window'[i] = i
      /\ \A r \in Phases \ {i} : stats'[r] = stats[r] /\ window'[r] = window[r]
  BY <1>r DEF Record, TypeOK
<1>5. archive'[n].stats = i /\ \A a \in 0 .. n - 1 : archive'[a] = archive[a]
  BY <1>1, <1>2, ConstantTypes DEF TypeOK, ArchiveRow, Phases
<1>6. \A r \in 0 .. i - 1 : /\ r \in Phases /\ r # i /\ stats'[r] = stats[r]
                             /\ window'[r] = window[r] /\ Settled(r)
  BY <1>1, <1>4, ConstantTypes DEF Phases, Settled
<1>7. \A q \in 0 .. i : NoMatchBefore(q)' <=> NoMatchBefore(q)
  BY <1>1, <1>6 DEF NoMatchBefore
<1>8. \A q \in Phases : Settled(q)' => q \in 0 .. i
  BY <1>1 DEF Settled, Phases
<1>9. ASSUME NEW q \in Phases, Settled(q)'
      PROVE  /\ window'[q] \in 0 .. q /\ stats'[window'[q]] = window'[q]
             /\ NoMatchBefore(q)' => window'[q] = stats'[q]
  <2>1. CASE q = i
    BY <1>1, <1>4, <2>1
  <2>2. CASE q # i
    <3>1. q \in 0 .. i - 1
      BY <1>1, <1>8, <1>9, <2>2
    <3>2. /\ window[q] \in 0 .. q /\ stats[window[q]] = window[q]
          /\ NoMatchBefore(q) => window[q] = stats[q]
      BY <1>6, <1>9, <3>1 DEF QueueInv
    <3>3. window[q] \in 0 .. i - 1 /\ q \in 0 .. i
      BY <3>1, <3>2, <1>1
    <3> QED BY <1>6, <1>7, <3>1, <3>2, <3>3
  <2> QED BY <2>1, <2>2
<1>10. ASSUME NoMatchBefore(i)'
       PROVE  n' = i' /\ \A a \in 0 .. n' - 1 : archive'[a].stats = a
  <2>1. NoMatchBefore(i)
    BY <1>1, <1>6, <1>10 DEF NoMatchBefore
  <2>2. n = i /\ \A a \in 0 .. n - 1 : archive[a].stats = a
    BY <2>1 DEF QueueInv
  <2>3. \A a \in 0 .. n' - 1 : a = n \/ a \in 0 .. n - 1
    BY <1>1
  <2> QED BY <1>1, <1>5, <2>2, <2>3
<1>11. ~ Settled(i)'
  BY <1>1 DEF Settled
<1> QED BY <1>1, <1>9, <1>10, <1>11 DEF QueueInv

(* The loop moves on from a phase that was matched. *)
LEMMA QueuesAfterMatch ==
  ASSUME TypeOK, LockInv, QueueInv, AlreadyDecided, topology # "other"
  PROVE  QueueInv'
<1>1. /\ UNCHANGED <<topology, stats, window, archive, n>>
      /\ i' = i + 1 /\ pc' # "decide" /\ Settled(i) /\ i \in Nat
  BY DEF AlreadyDecided, Undecided, Advance, LockInv, TypeOK
<1>2. \A q \in Phases : Settled(q)' => Settled(q)
  BY <1>1 DEF Settled, Phases
<1>3. stats[i] < i
  BY <1>1 DEF QueueInv
<1>4. ~ NoMatchBefore(i)'
  <2>1. i \in 0 .. i' - 1 /\ stats'[i] # i
    BY <1>1, <1>3
  <2> QED BY <2>1 DEF NoMatchBefore
<1>5. \A q : NoMatchBefore(q)' <=> NoMatchBefore(q)
  BY <1>1 DEF NoMatchBefore
<1>6. ~ Settled(i)'
  BY <1>1 DEF Settled
<1> QED BY <1>1, <1>2, <1>4, <1>5, <1>6 DEF QueueInv

(* QueueFiguresTraceable (main.cpp:447-449 against 852-867): the queue      *)
(* figures of a phase are those of one simulation, of this phase or an      *)
(* earlier one; they can only be another one than that of its latency once  *)
(* a phase was matched before.                                              *)
THEOREM QueuesTraceable == Spec => []QueueFiguresTraceable
<1>1. Init => QueueInv
  BY ConstantTypes DEF Init, QueueInv, NoMatchBefore, Settled, Phases
<1>2. TypeOK /\ LockInv /\ ArchiveIsFaithful /\ QueueInv /\ [Next]_vars => QueueInv'
  <2> SUFFICES ASSUME TypeOK, LockInv, ArchiveIsFaithful, QueueInv, [Next]_vars,
                      topology # "other"
               PROVE  QueueInv'
    BY DEF QueueInv, Next, AddColumn, Reuse, Differ, ArchiveExhausted, Simulate,
           SimulateNothing, HostsMissing, AlreadyDecided, vars
  <2>1. CASE AddColumn \/ Differ \/ ArchiveExhausted \/ HostsMissing \/ UNCHANGED vars
    <3>1. UNCHANGED <<topology, i, n, stats, window, archive>>
      BY <2>1 DEF AddColumn, Differ, ArchiveExhausted, HostsMissing, data, vars
    <3>2. Settled(i)' <=> Settled(i)
      BY <2>1 DEF AddColumn, Differ, ArchiveExhausted, HostsMissing, data, scan, vars, Settled,
                  LockInv, Undecided, TypeOK
    <3> QED BY <3>1, <3>2, QueuesStutter
  <2>2. ~ SimulateNothing
    BY DEF SimulateNothing
  <2> QED BY <2>1, <2>2, QueuesOfMatch, QueuesOfSimulation, QueuesAfterMatch DEF Next
<1>3. TypeOK /\ QueueInv => QueueFiguresTraceable
  BY DEF QueueInv, QueueFiguresTraceable, NoMatchBefore, Settled
<1> QED BY <1>1, <1>2, <1>3, TypeCorrect, LockCorrect, ArchiveFaithful, PTL DEF Spec
=============================================================================
