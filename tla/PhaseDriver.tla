----------------------------- MODULE PhaseDriver -----------------------------
(***************************************************************************)
(* The second half of ns3_simulate (main.cpp): the phases of a trace are   *)
(* taken in order; a phase whose traffic resembles one that was simulated  *)
(* already takes over its results, any other one is simulated with ns-3    *)
(* (star, fat_tree or DD_tour) and its results are archived.               *)
(*                                                                         *)
(* Resemblance is judged by a cosine and a ratio of norms, both doubles in *)
(* the code.  Here they are integers in units of 1/Scale, a square root    *)
(* being rounded up and a quotient down.  As in the code, cos, w1 and w2   *)
(* are cleared once per phase, not once per archived phase, so that what   *)
(* is left of one comparison enters the next one.                          *)
(*                                                                         *)
(* What ns-3 computes for a phase is any outcome it may have.  A column or *)
(* a row of queue statistics is represented by its origin: the phase whose *)
(* simulation wrote it.                                                    *)
(***************************************************************************)
EXTENDS Integers

CONSTANTS
  NumPhases,    \* number_phase
  NumFlows,     \* entries of a traffic matrix, leaf_nodes * leaf_nodes
  LeafNodes,    \* leaf_nodes = 4
  Demands,      \* the sequences of traffic matrices the driver may be given
  Latencies,    \* the total latencies a simulation may report, in ns
  Topologies,   \* what argv[2] may select
  Scale,        \* fixed-point unit of cos, w1 and w2
  CosMin,       \* similarity thresholds (2.4, 0.5 and 1.5), times Scale
  CompareMin,
  CompareMax

Phases  == 0 .. NumPhases - 1
Flows   == 1 .. NumFlows
Matrix  == [Flows -> Nat]
NoPhase == -1   \* the origin of a row or column that is still all zero

ASSUME ConstantsAssumption ==
  /\ NumPhases \in Nat \ {0} /\ NumFlows \in Nat \ {0} /\ LeafNodes \in Nat
  /\ Demands \subseteq [Phases -> Matrix]
  /\ Latencies \subseteq Nat
  /\ Topologies \subseteq {"-s", "-f", "-d", "other"}
  /\ Scale \in Nat \ {0} /\ CosMin \in Nat
  /\ CompareMin \in Nat /\ CompareMax \in Nat

VARIABLES
  topology,    \* argv[2]
  demand,      \* columns 2 .. of ptr2_phase_data: the traffic matrices
  latency,     \* column leaf_nodes^2 + 2 of ptr2_phase_data
  stats,       \* origin of its columns leaf_nodes^2 + 3 .. + 7
  window,      \* origin of the rows of ptr2_window_info
  archive,     \* ptr2_phase_data_a: matrix, latency and origin of the stats
  n,           \* phase_data_a_number
  final_real, lock,
  i, j,        \* the phase, and the archived phase it is compared with
  col,         \* the next column of that comparison
  cos, w1, w2,
  pc,          \* "compare", "decide", "done", or "fault": crashed
  totals       \* history: final_real before each phase, and after the last

scan == <<cos, w1, w2, j, col>>
data == <<latency, stats, window, archive, n, final_real, totals>>
vars == <<topology, demand, data, lock, i, scan, pc>>

EmptyRow == [matrix |-> [f \in Flows |-> 0], latency |-> 0, stats |-> NoPhase]

Init ==
  /\ topology \in Topologies
  /\ demand \in Demands
  /\ latency = [q \in Phases |-> 0]
  /\ stats = [q \in Phases |-> NoPhase]
  /\ window = [q \in Phases |-> NoPhase]
  /\ archive = [q \in Phases |-> EmptyRow]
  /\ n = 0 /\ final_real = 0 /\ lock = TRUE
  /\ i = 0 /\ j = 0 /\ col = 1 /\ cos = 0 /\ w1 = 0 /\ w2 = 0
  /\ pc = "compare"
  /\ totals = [q \in 0 .. NumPhases |-> 0]

-----------------------------------------------------------------------------
(* Comparison with the archived phases.                                     *)

(* The least integer whose square is not below m. *)
Root(m) == CHOOSE r \in 0 .. m : r * r >= m /\ (r = 0 \/ (r - 1) * (r - 1) < m)

(* Seeded fault: the archived column goes into both norms.                  *)
AccumulateCrossed(a, b) ==
  /\ cos' = cos + Scale * a * b
  /\ w1'  = w1 + Scale * a * a
  /\ w2'  = w2 + Scale * a * a

Accumulate(a, b) ==
  /\ cos' = cos + Scale * a * b
  /\ w1'  = w1 + Scale * a * a
  /\ w2'  = w2 + Scale * b * b

AddColumn ==
  /\ pc = "compare" /\ j < n /\ col <= NumFlows
  /\ Accumulate(archive[j].matrix[col], demand[i][col])
  /\ col' = col + 1
  /\ UNCHANGED <<topology, demand, data, lock, i, j, pc>>

Norm1 == Root(Scale * w1)
Norm2 == Root(Scale * w2)

Cosine == IF Norm1 * Norm2 = 0 \/ cos = 0
            THEN 0
            ELSE (cos * Scale * Scale) \div (Norm1 * Norm2)

Compare == IF Norm1 = 0 \/ Norm2 = 0 THEN -1 ELSE (Scale * Norm1) \div Norm2

(* Seeded fault: matrices of a similar norm are taken to be similar.        *)
SimilarByNorm == Compare > CompareMin /\ Compare < CompareMax

Similar == Cosine > CosMin /\ Compare > CompareMin /\ Compare < CompareMax

(* Seeded fault: = in place of += for the total.                            *)
RaisedTotalOver(lat) == lat

RaisedTotal(lat) == final_real + lat

(* Seeded fault: lock stays as the comparisons before left it.              *)
RecordUnlocked(lat, origin, queues) ==
  /\ final_real' = RaisedTotal(lat)
  /\ latency' = [latency EXCEPT ![i] = lat]
  /\ stats' = [stats EXCEPT ![i] = origin]
  /\ window' = [window EXCEPT ![i] = queues]
  /\ totals' = [totals EXCEPT ![i + 1] = final_real']
  /\ lock' = lock

(* Seeded fault: results go to the archive's row n in place of row i.       *)
RecordInRowN(lat, origin, queues) ==
  /\ final_real' = RaisedTotal(lat)
  /\ latency' = [latency EXCEPT ![n] = lat]
  /\ stats' = [stats EXCEPT ![n] = origin]
  /\ window' = [window EXCEPT ![n] = queues]
  /\ totals' = [totals EXCEPT ![i + 1] = final_real']
  /\ lock' = TRUE

(* The results of phase i, simulated or taken over.                         *)
Record(lat, origin, queues) ==
  /\ final_real' = RaisedTotal(lat)
  /\ latency' = [latency EXCEPT ![i] = lat]
  /\ stats' = [stats EXCEPT ![i] = origin]
  /\ window' = [window EXCEPT ![i] = queues]
  /\ totals' = [totals EXCEPT ![i + 1] = final_real']
  /\ lock' = TRUE

(* Seeded fault: the queue figures are not copied, as those of the switches *)
(* are not.                                                                 *)
QueueFiguresKept == window[i]

(* Row j of ptr2_window_info, which is not the row of the phase that was    *)
(* archived as number j once an earlier phase was not simulated.            *)
QueueFigures == window[j]

(* The results of archived phase j become those of phase i. *)
Reuse ==
  /\ pc = "compare" /\ j < n /\ col > NumFlows /\ Similar
  /\ Record(archive[j].latency, archive[j].stats, QueueFigures)
  /\ cos' = Cosine /\ w1' = Norm1 /\ w2' = Norm2
  /\ pc' = "decide"
  /\ UNCHANGED <<topology, demand, archive, n, i, j, col>>

Differ ==
  /\ pc = "compare" /\ j < n /\ col > NumFlows /\ ~ Similar
  /\ lock' = FALSE
  /\ cos' = Cosine /\ w1' = Norm1 /\ w2' = Norm2
  /\ j' = j + 1 /\ col' = 1
  /\ UNCHANGED <<topology, demand, data, i, pc>>

ArchiveExhausted ==
  /\ pc = "compare" /\ j = n
  /\ pc' = "decide"
  /\ UNCHANGED <<topology, demand, data, lock, i, scan>>

-----------------------------------------------------------------------------
(* Simulation.                                                              *)

(* Seeded fault: the first phase is not simulated unconditionally.          *)
UndecidedNotFirst == pc = "decide" /\ lock = FALSE

Undecided == pc = "decide" /\ (lock = FALSE \/ i = 0)

(* Seeded fault: the loop does not end with the last phase.                 *)
AdvanceForever ==
  /\ i' = i + 1
  /\ pc' = "compare"
  /\ cos' = 0 /\ w1' = 0 /\ w2' = 0 /\ j' = 0 /\ col' = 1

Advance ==
  /\ i' = i + 1
  /\ pc' = IF i + 1 = NumPhases THEN "done" ELSE "compare"
  /\ cos' = 0 /\ w1' = 0 /\ w2' = 0 /\ j' = 0 /\ col' = 1

(* fat_tree attaches hosts four at a time, DD_tour eight at a time.         *)
HostsAttached ==
  CASE topology = "-s" -> LeafNodes
    [] topology = "-f" -> 4 * (LeafNodes \div 4)
    [] topology = "-d" -> 8 * (LeafNodes \div 8)
    [] OTHER           -> 0

Buildable == topology # "other" /\ HostsAttached = LeafNodes

(* A phase without traffic delivers nothing, so no sink has a last packet.  *)
Outcomes(matrix) ==
  IF \A f \in Flows : matrix[f] = 0 THEN {0} ELSE Latencies

(* Seeded fault: the row is archived before the latency is stored in it.    *)
ArchiveRowEarly(lat) ==
  [matrix |-> demand[i], latency |-> latency[i], stats |-> i]

ArchiveRow(lat) == [matrix |-> demand[i], latency |-> lat, stats |-> i]

Simulate ==
  /\ Undecided /\ Buildable
  /\ \E lat \in Outcomes(demand[i]) :
       /\ Record(lat, i, i)
       /\ archive' = [archive EXCEPT ![n] = ArchiveRow(lat)]
  /\ n' = n + 1
  /\ Advance
  /\ UNCHANGED <<topology, demand>>

(* No branch of the topology dispatch applies: the phase gets no results.   *)
SimulateNothing ==
  /\ Undecided /\ topology = "other"
  /\ totals' = [totals EXCEPT ![i + 1] = final_real]
  /\ Advance
  /\ UNCHANGED <<topology, demand, latency, stats, window, archive, n,
                 final_real, lock>>

(* The queue discs of a host that was not attached are looked up.           *)
HostsMissing ==
  /\ Undecided /\ topology # "other" /\ HostsAttached # LeafNodes
  /\ pc' = "fault"
  /\ UNCHANGED <<topology, demand, data, lock, i, scan>>

(* Either the phase was matched, or an unknown topology left lock set.      *)
AlreadyDecided ==
  /\ pc = "decide" /\ ~ Undecided
  /\ totals' = [totals EXCEPT ![i + 1] = final_real]
  /\ Advance
  /\ UNCHANGED <<topology, demand, latency, stats, window, archive, n,
                 final_real, lock>>

Next == \/ AddColumn \/ Reuse \/ Differ \/ ArchiveExhausted
        \/ Simulate \/ SimulateNothing \/ HostsMissing \/ AlreadyDecided

Spec == Init /\ [][Next]_vars

(* The loop is sequential code: it takes its next step as long as it has    *)
(* one.                                                                     *)
FairSpec == Spec /\ WF_vars(Next)

-----------------------------------------------------------------------------
(* Refinement of the abstract estimator.  A matched phase is settled before *)
(* the loop moves on to the next one.                                       *)

(* Phases whose results are settled. *)
Settled(q) == q < i \/ (q = i /\ pc = "decide" /\ j < n)

Estimator == INSTANCE PhaseEstimator WITH
               next <- IF Settled(i) THEN i + 1 ELSE i,
               estimate <- latency, source <- stats, total <- final_real

(* With a known topology the driver implements the estimator: it never      *)
(* skips a phase, counts one twice, or takes results that no simulation     *)
(* produced.                                                                *)
ImplementsEstimator == Estimator!Spec

-----------------------------------------------------------------------------
(* Properties.                                                              *)

Row == [matrix : Matrix, latency : Nat, stats : Phases \cup {NoPhase}]

TypeOK ==
  /\ topology \in Topologies /\ demand \in [Phases -> Matrix]
  /\ latency \in [Phases -> Nat]
  /\ stats \in [Phases -> Phases \cup {NoPhase}]
  /\ window \in [Phases -> Phases \cup {NoPhase}]
  /\ archive \in [Phases -> Row] /\ n \in 0 .. NumPhases
  /\ final_real \in Nat /\ totals \in [0 .. NumPhases -> Nat]
  /\ lock \in BOOLEAN
  /\ i \in 0 .. NumPhases /\ j \in 0 .. NumPhases /\ col \in 1 .. NumFlows + 1
  /\ cos \in Nat /\ w1 \in Nat /\ w2 \in Nat
  /\ pc \in {"compare", "decide", "done", "fault"}
  /\ n <= i /\ (pc = "done" <=> i = NumPhases) /\ j <= n

(* The total latency printed at the end is the sum of the latencies listed  *)
(* for the phases: each phase, simulated or matched, adds its own latency   *)
(* to final_real exactly once.                                              *)
TotalsAddUp ==
  /\ \A q \in Phases : Settled(q) => totals[q + 1] = totals[q] + latency[q]
  /\ totals[0] = 0
  /\ final_real = totals[IF Settled(i) THEN i + 1 ELSE i]

(* An archived row is what later phases are compared with and copied from:  *)
(* it holds the matrix and the results of one phase, which was simulated,   *)
(* and no phase is archived twice.                                          *)
ArchiveIsFaithful ==
  \A a \in 0 .. n - 1 :
    LET q == archive[a].stats
    IN  /\ q \in 0 .. i - 1 /\ stats[q] = q
        /\ archive[a].matrix = demand[q] /\ archive[a].latency = latency[q]
        /\ \A b \in 0 .. a - 1 : archive[b].stats < q

(* Although a match copies them from a row that is not that of the phase it *)
(* matched, the queue figures reported for a phase are those of a           *)
(* simulation, of this phase or an earlier one; and until a phase has been  *)
(* matched before it, of the simulation that produced its latency.          *)
QueueFiguresTraceable ==
  topology # "other" =>
    \A q \in Phases : q < i =>
      /\ window[q] \in 0 .. q /\ stats[window[q]] = window[q]
      /\ (\A r \in 0 .. q - 1 : stats[r] = r) => window[q] = stats[q]

(* What a match would need never happens with the thresholds of the code:   *)
(* whatever the traffic, every phase is simulated for itself.               *)
EveryPhaseSimulated ==
  /\ \A q \in Phases : q < i /\ topology # "other" => stats[q] = q
  /\ topology # "other" => n = i
  /\ ~ (pc = "decide" /\ j < n)

(* Cauchy-Schwarz survives the carry-over: the accumulated product never    *)
(* exceeds the accumulated norms, so a finished comparison yields a cos of  *)
(* at most 1.                                                               *)
CosineBounded ==
  /\ cos * cos <= w1 * w2
  /\ col = 1 => cos <= Scale

(* A comparison only looks at phases that came before, so a phase's results *)
(* never change once the loop has moved on.                                 *)
SettledIsFinal ==
  [][\A q \in Phases : q < i =>
       /\ latency'[q] = latency[q] /\ stats'[q] = stats[q]
       /\ window'[q] = window[q] /\ totals'[q + 1] = totals[q + 1]]_vars

(* The loop ends, and with a known topology no phase is left without        *)
(* results.                                                                 *)
EventuallyReported ==
  <>(\/ pc = "fault"
     \/ pc = "done" /\ (topology # "other" => \A q \in Phases : stats[q] # NoPhase))

(* What main.cpp:406, "compute the cos", says of a finished comparison:     *)
(* traffic matrices with no flow in common have a cosine of zero.           *)
Orthogonal(a, q) == \A f \in Flows : archive[a].matrix[f] * demand[q][f] = 0

CosIsOfThisPair ==
  pc = "compare" /\ col = 1 /\ j > 0 /\ Orthogonal(j - 1, i) => cos = 0
=============================================================================
