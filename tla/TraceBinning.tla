---------------------------- MODULE TraceBinning ----------------------------
(***************************************************************************)
(* The first half of ns3_simulate (main.cpp): statistics are allocated for *)
(* the windows of a captured trace, the trace is cut into phases, and every *)
(* packet is added to the traffic matrix of a phase.                       *)
(*                                                                         *)
(* ptr2_phase_data is one array of rows, a row per phase.  Columns 0 and 1 *)
(* hold the bounds of the phase in whole seconds, the next LeafNodes^2     *)
(* columns its traffic matrix (bytes from host s to host d), the rest the  *)
(* results of the simulation.  The column of a packet is computed from the *)
(* last octets of its addresses in unsigned arithmetic, so a packet of a   *)
(* machine outside the simulated cluster may hit any column of the row, or *)
(* memory that is not the row's.                                           *)
(*                                                                         *)
(* A timestamp counts ticks, Tick of them to a second: the bounds are      *)
(* whole seconds, the packets' timestamps are not.                         *)
(***************************************************************************)
EXTENDS Integers, Sequences, FiniteSetsExt

CONSTANTS
  PhaseSize,   \* length of a phase in seconds (phase_size = 400)
  LeafNodes,   \* simulated hosts (leaf_nodes = 4), numbered from 2
  Tick,        \* timestamp ticks per second
  MaxPhases,   \* rows allocated for ptr2_phase_data (1000)
  RowWidth,    \* doubles allocated for a row (50000)
  Word,        \* 2^32, the modulus of uint32_t
  WindowSizes, \* the window_size a configuration may give, 0 included
  MaxStatistics, \* PhaseStatistics elements memory has room for
  Traces,      \* the packet sequences the capture may hold
  Garbage      \* what an uninitialised min_wct or max_wct may convert to

AckLen    == 66   \* the frame length main.cpp takes for a pure ACK
HeaderLen == 42   \* what it takes off a frame to get the payload

PacketType == [src : Nat, dst : Nat, payload : Nat, ts : Nat]

ASSUME ConstantsAssumption ==
  /\ PhaseSize \in Nat \ {0} /\ Tick \in Nat \ {0} /\ MaxPhases \in Nat \ {0}
  /\ LeafNodes \in Nat \ {0} /\ RowWidth \in Nat /\ Word \in Nat
  /\ 2 + LeafNodes * LeafNodes + 6 <= RowWidth /\ RowWidth < Word
  /\ Garbage \subseteq 0 .. Word - 1 /\ WindowSizes \subseteq Nat

(* 400,000 elements of 40 bytes are 16 MB; the table next to them takes     *)
(* 1.2 GB.                                                                  *)
ASSUME StatisticsAssumption ==
  /\ MaxStatistics \in Nat /\ MaxPhases * PhaseSize <= MaxStatistics
  /\ MaxPhases * PhaseSize <= Word \div 2

(* A capture holds its seconds and the lengths of its frames as 32-bit      *)
(* numbers.                                                                 *)
ASSUME TracesAssumption ==
  /\ Traces \subseteq Seq(PacketType)
  /\ \A t \in Traces : \A q \in 1 .. Len(t) :
       t[q].ts \div Tick < Word /\ t[q].payload < Word

VARIABLES
  trace,         \* pcapfile.packets
  window_size,   \* parameter.window_size
  min,           \* where the next phase of the table starts
  max,           \* the last second of the trace
  number_phase,
  phase_data,    \* ptr2_phase_data
  p,             \* the next row of the table
  k,             \* the next packet
  mark,          \* the phase the current packet is taken to be in
  pc,            \* "init", "table", "bin", "done", or "fault": the program
                 \* has crashed
  placed         \* history: the row packet n was written to, or NoRow

given == <<trace, window_size, max, number_phase>>   \* read, never written
vars  == <<given, min, phase_data, p, k, mark, pc, placed>>

NoRow   == -1
Rows    == 0 .. MaxPhases - 1
Columns == 0 .. RowWidth - 1
Hosts   == 2 .. LeafNodes + 1
Phases  == 0 .. number_phase - 1

FirstSecond(t) == t[1].ts \div Tick
LastSecond(t)  == t[Len(t)].ts \div Tick

(* Seeded fault: the last phase, which may be a short one, is left out.     *)
PhaseCountRoundedDown(lo, hi) == Max({1, ((hi - lo) % Word) \div PhaseSize})

(* Seeded fault: one phase more than the trace has.                         *)
PhaseCountOneMore(lo, hi) == ((hi - lo) % Word) \div PhaseSize + 2

PhaseCount(lo, hi) == ((hi - lo) % Word) \div PhaseSize + 1

(* Seeded fault: the matrix starts at column 0, where the bounds are.       *)
ColumnWithoutBounds(s, d) == (LeafNodes * (s - 2) + (d - 2)) % Word

(* Index into a row for a packet from s to d, in uint32_t arithmetic. *)
Column(s, d) == (2 + LeafNodes * (s - 2) + (d - 2)) % Word

(* Bytes a frame adds to its flow. *)
NetBytes(payload) == (payload - HeaderLen) % Word

(* parse() leaves min_wct and max_wct unset when the capture has no packet. *)
Init ==
  /\ trace \in Traces /\ window_size \in WindowSizes
  /\ \/ trace # <<>> /\ min = FirstSecond(trace) /\ max = LastSecond(trace)
     \/ trace = <<>> /\ min \in Garbage /\ max \in Garbage
  /\ number_phase = PhaseCount(min, max)
  /\ phase_data = [r \in Rows |-> [c \in Columns |-> 0]]
  /\ p = 0 /\ k = 1 /\ mark = 0 /\ pc = "init" /\ placed = <<>>

-----------------------------------------------------------------------------
(* NetworkSimulation::init, which is called before the table is built.      *)

(* The least int, which a double is converted to when it is out of range    *)
(* or no number.                                                            *)
LeastInt == -(Word \div 2)

(* The quotient of two integers, converted to int: the fraction is dropped. *)
IntQuotient(a, b) ==
  LET q == IF a >= 0 THEN a \div b ELSE -((-a) \div b)
  IN  IF q \in LeastInt .. -LeastInt - 1 THEN q ELSE LeastInt

(* num_phases: any number when the times were never set, and a division by  *)
(* zero yields infinity or no number at all.                                *)
StatisticsCounts ==
  IF trace = <<>> THEN 0 .. Word - 1
  ELSE LET span == trace[Len(trace)].ts - trace[1].ts
           windows == IF window_size = 0 THEN LeastInt
                      ELSE IntQuotient(span, Tick * window_size)
       IN  {(windows + 1) % Word}

InitStatistics ==
  /\ pc = "init" /\ \E num \in StatisticsCounts : num <= MaxStatistics
  /\ pc' = "table"
  /\ UNCHANGED <<given, min, phase_data, p, k, mark, placed>>

(* make_unique throws, and nothing catches it. *)
StatisticsTooMany ==
  /\ pc = "init" /\ \E num \in StatisticsCounts : num > MaxStatistics
  /\ pc' = "fault"
  /\ UNCHANGED <<given, min, phase_data, p, k, mark, placed>>

-----------------------------------------------------------------------------
(* The table: phase p runs from min to the smaller of min + PhaseSize and   *)
(* max, and the next one starts a second later.                             *)
PhaseEnd(lo, hi) ==
  IF (lo + PhaseSize) % Word < hi THEN (lo + PhaseSize) % Word ELSE hi

(* Seeded fault: one row too many.                                          *)
MorePhasesInclusive == p <= number_phase

MorePhases == p < number_phase

AddPhase ==
  /\ pc = "table" /\ MorePhases /\ p < MaxPhases
  /\ LET end == PhaseEnd(min, max) IN
       /\ phase_data' = [phase_data EXCEPT ![p][0] = min, ![p][1] = end]
       /\ min' = (end + 1) % Word
  /\ p' = p + 1
  /\ UNCHANGED <<given, k, mark, pc, placed>>

(* There are MaxPhases rows, and nothing compares number_phase with that. *)
TableOverflow ==
  /\ pc = "table" /\ MorePhases /\ p = MaxPhases
  /\ pc' = "fault"
  /\ UNCHANGED <<given, min, phase_data, p, k, mark, placed>>

TableDone ==
  /\ pc = "table" /\ ~ MorePhases
  /\ pc' = "bin"
  /\ UNCHANGED <<given, min, phase_data, p, k, mark, placed>>

-----------------------------------------------------------------------------
Inside(row, ts) == row[0] * Tick <= ts /\ ts < row[1] * Tick

(* Seeded fault: the scan stops one phase early.                            *)
FindPhaseNotLast(ts) ==
  LET hits == {j \in Phases : j < number_phase - 1 /\ Inside(phase_data[j], ts)}
  IN  IF hits = {} THEN mark ELSE Min(hits)

(* Seeded fault: a packet of no phase goes to the last one.                 *)
FindPhaseOrLast(ts) ==
  LET hits == {j \in Phases : Inside(phase_data[j], ts)}
  IN  IF hits = {} THEN number_phase - 1 ELSE Min(hits)

(* The first phase whose bounds enclose the timestamp; mark is left as it   *)
(* was when there is none.                                                  *)
FindPhase(ts) ==
  LET hits == {j \in Phases : Inside(phase_data[j], ts)}
  IN  IF hits = {} THEN mark ELSE Min(hits)

(* An ACK moves mark and is not counted. *)
SkipAck ==
  /\ pc = "bin" /\ k <= Len(trace) /\ trace[k].payload = AckLen
  /\ mark' = FindPhase(trace[k].ts)
  /\ k' = k + 1
  /\ placed' = Append(placed, NoRow)
  /\ UNCHANGED <<given, min, phase_data, p, pc>>

(* Seeded fault: = in place of += for the cell of the matrix.               *)
PutBytes(row, col, bytes) ==
  phase_data' = [phase_data EXCEPT ![row][col] = bytes]

AddBytes(row, col, bytes) ==
  phase_data' = [phase_data EXCEPT ![row][col] = @ + bytes]

SavePayload ==
  /\ pc = "bin" /\ k <= Len(trace) /\ trace[k].payload # AckLen
  /\ LET pkt == trace[k]
         row == FindPhase(pkt.ts)
         col == Column(pkt.src, pkt.dst)
     IN  /\ col \in Columns
         /\ AddBytes(row, col, NetBytes(pkt.payload))
         /\ placed' = Append(placed, row)
  /\ mark' = 0
  /\ k' = k + 1
  /\ UNCHANGED <<given, min, p, pc>>

(* The index is not an element of the row: the write is outside of it. *)
SaveOutsideRow ==
  /\ pc = "bin" /\ k <= Len(trace) /\ trace[k].payload # AckLen
  /\ Column(trace[k].src, trace[k].dst) \notin Columns
  /\ pc' = "fault"
  /\ UNCHANGED <<given, min, phase_data, p, k, mark, placed>>

TraceDone ==
  /\ pc = "bin" /\ k > Len(trace)
  /\ pc' = "done"
  /\ UNCHANGED <<given, min, phase_data, p, k, mark, placed>>

Next == \/ InitStatistics \/ StatisticsTooMany
        \/ AddPhase \/ TableOverflow \/ TableDone
        \/ SkipAck \/ SavePayload \/ SaveOutsideRow \/ TraceDone

Spec == Init /\ [][Next]_vars

-----------------------------------------------------------------------------
(* Properties.                                                              *)

TypeOK ==
  /\ trace \in Seq(PacketType) /\ window_size \in WindowSizes
  /\ min \in 0 .. Word - 1 /\ max \in Nat /\ number_phase \in Nat \ {0}
  /\ phase_data \in [Rows -> [Columns -> Nat]]
  /\ p \in 0 .. MaxPhases /\ p <= number_phase
  /\ k \in 1 .. Len(trace) + 1 /\ mark \in Rows /\ mark < number_phase
  /\ pc \in {"init", "table", "bin", "done", "fault"}
  /\ placed \in Seq(Rows \cup {NoRow}) /\ Len(placed) = k - 1

(* A capture the program can digest: some packets, a clock that did not     *)
(* step back between the first and the last, no more phases than rows, and  *)
(* only traffic between simulated hosts; and a window_size to divide by.    *)
WellFormed ==
  /\ trace # <<>> /\ window_size > 0
  /\ FirstSecond(trace) <= LastSecond(trace)
  /\ LastSecond(trace) + PhaseSize + 1 < Word
  /\ LastSecond(trace) - FirstSecond(trace) < MaxPhases * PhaseSize
  /\ \A n \in 1 .. Len(trace) : trace[n].src \in Hosts /\ trace[n].dst \in Hosts
  /\ \A n \in 1 .. Len(trace) : trace[n].payload >= HeaderLen

InTimeOrder ==
  \A m, n \in 1 .. Len(trace) : m <= n => trace[m].ts <= trace[n].ts

Data(n) == trace[n].payload # AckLen

(* The only captures that can crash the pre-processing are those that are   *)
(* empty, run backwards, have too many phases or hold a foreign address, or *)
(* are cut with a window_size of zero.                                      *)
WellFormedNeverFaults == WellFormed => pc # "fault"

(* Once the table is built, two phases never overlap, and the only instants *)
(* of the trace that belong to no phase are the one-second gaps that follow *)
(* the end of a phase: in particular the last phase reaches max.            *)
TableTilesTheTrace ==
  WellFormed /\ pc \in {"bin", "done"} =>
    \A ts \in FirstSecond(trace) * Tick .. LastSecond(trace) * Tick - 1 :
      LET homes == {j \in Phases : Inside(phase_data[j], ts)}
      IN  /\ \A i, j \in homes : i = j
          /\ homes = {} <=>
               \E j \in Phases : phase_data[j][1] = ts \div Tick

(* A data packet whose time lies inside a phase is counted in that phase,   *)
(* whatever mark the packets before it left behind.                         *)
MatchedIsLocal ==
  WellFormed =>
    \A n \in 1 .. Len(placed) : \A j \in Phases :
      Data(n) /\ Inside(phase_data[j], trace[n].ts) => placed[n] = j

(* A packet that lies in no phase inherits a mark, but never one from the   *)
(* future: its bytes do not go to a phase that starts after it was sent.    *)
NeverBinnedAhead ==
  WellFormed /\ InTimeOrder =>
    \A n \in 1 .. Len(placed) :
      Data(n) => placed[n] = 0 \/ phase_data[placed[n]][0] * Tick <= trace[n].ts

(* Over all phases, each flow holds the bytes of exactly its own packets    *)
(* among those processed: none lost, counted twice or given to another.     *)
FlowTotals ==
  WellFormed =>
    \A s, d \in Hosts :
      LET mine == {n \in 1 .. k - 1 : /\ Data(n)
                                      /\ trace[n].src = s /\ trace[n].dst = d}
      IN  SumFunctionOnSet([r \in Rows |-> phase_data[r][Column(s, d)]], Rows)
            = SumFunctionOnSet([n \in mine |-> trace[n].payload - HeaderLen], mine)

(* The bounds of the phases, which decide where later packets go, share     *)
(* their rows with the traffic matrix; adding packets must not move them.   *)
BoundsFrozen ==
  [][WellFormed /\ pc \in {"bin", "done"} =>
       \A r \in Rows : /\ phase_data'[r][0] = phase_data[r][0]
                       /\ phase_data'[r][1] = phase_data[r][1]]_vars

(* What main.cpp:312 says of the loop, "find a the event's local phase": a  *)
(* data packet is counted in a phase that contains its time.                *)
BinnedInLocalPhase ==
  WellFormed /\ InTimeOrder =>
    \A n \in 1 .. Len(placed) :
      Data(n) => Inside(phase_data[placed[n]], trace[n].ts)

(* What README.adoc:39 promises for "the logged pcap file": a capture of    *)
(* the cluster's bridge is processed to its end.                            *)
CaptureIsProcessed == trace # <<>> /\ window_size > 0 => pc # "fault"
=============================================================================
