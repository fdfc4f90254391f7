# A TLA+ verification of clusim

clusim is a trace-driven simulator of computer clusters. Scripts start a cluster
of virtual machines or containers, run a parallel program on it and capture its
traffic. The program `clusim` (`main.cpp`, one thread) reads such a capture, cuts
it into phases, builds a traffic matrix per phase, and simulates each phase on a
network topology with ns-3, unless it resembles a phase that was simulated
before. It prints latencies, hops, queue lengths and congestion times.

This directory models the program's own logic in TLA+, checks the models with
TLC and proves the main properties with TLAPS.
Everything is translated from the source; line numbers in comments and in
`PROJECT.json` refer to it.

## 1. Inventory

| Part | Code | State | Operations |
|---|---|---|---|
| Start-up | `main`, `parse_config` (main.cpp:219-237, 1577-1664) | parameters, list of captures | read the configuration, take its captures, parse each, call `ns3_simulate` on the first |
| Capture parser | `PcapFile` (include/ppacket.hpp) | packets, `min_wct`, `max_wct` | open, read packet by packet, take the first and the last time |
| Pre-processing | `NetworkSimulation::init`, `ns3_simulate` (main.cpp:202-210, 240-364) | `ptr2_phase_data`: bounds and matrix of each phase; `mark` | allocate the statistics, build the phase table, find a packet's phase, add its bytes |
| Phase driver | `ns3_simulate` (main.cpp:366-505) | archive of simulated phases, `lock`, `final_real`, `cos`, `w1`, `w2` | compare with the archive, take over results, or simulate and archive |
| Simulation of a phase | `star`, `fat_tree`, `DD_tour`, `CheckQueueSize` (main.cpp:138-198, 472-483, 644-1575) | statistics of the queues, arrays the probes write to, ns-3's event list | reset, build, schedule probes and Stop, run, collect, destroy, delete |
| Packet sink | ns-3's `packet-sink.cc`, modified by clusim | flow table, `flow_id`, `m_lock` | `HandleRead`; `GetSimTime` and `GetIdNumber` for main.cpp |
| Topologies | the node, link and address code of `star`, `fat_tree`, `DD_tour` | links, addresses, queue discs | build |
| Final report | main.cpp:507-628 | sums over the phases | add up, average, print |
| Longest path | include/graph.hpp | adjacency lists | `topologicalSortUtil`, `longestPath`; nothing calls it |
| VM scripts | vmcluster/ | machines, networks, images | create, its edit_only, destroy, update-image; the session (start-vcluster.sh) |
| Container scripts | vcluster/ | containers, up or not | start, stop, restart |
| Sessions | the two start-vcluster.sh | background tcpdump, its file | begin the capture, log in, kill the captures |

How they interact: `main` calls the parts one after the other. The pre-processing
and the driver share `ptr2_phase_data`; the driver and a simulation share row `i`
of it, row `n` of the archive, row `i` of `ptr2_window_info`, `final_real` and
`lock`; simulations share the global statistics of the queues with the probes,
which ns-3 calls back every 0.001 s; the sinks are called back by ns-3 whenever a
socket has data, and are read by the simulation after `Simulator::Run`. The final
report reads the rows of the phases and the running totals of the probes. The
scripts run before all that, in any number of shells of one host; they share its
machines, networks, containers and tcpdump processes, and leave the capture file
that `clusim` is given.

What is hard in the program is not parallelism, of which it has none, but

* errors that are reported and then ignored (`parse_config`, `parse_from_file`),
* state that is carried over: `mark` from packet to packet, `cos`, `w1` and `w2`
  from comparison to comparison, `lock` from phase to phase, the global
  statistics from simulation to simulation, `m_lock` from packet to packet,
* pairs of indices that agree until something happens (`i` and `n`, `i` and `j`),
* unsigned arithmetic that decides which element of a row is written,
* the order of events due at the same simulated time, and callbacks that outlive
  the function that scheduled them,
* arrays of fixed size that nothing is compared with.

In the scripts it is that no result of a command is looked at, that scripts of
several users interleave and may be stopped half-way, that the host may reboot,
and that the capture runs beside the script which kills it by name.

The list with lines and properties is `hazards` in `PROJECT.json`.

What makes each part correct, in short: start-up simulates only what the
configuration names, with its parameters; each packet is counted once, in its
phase and its flow, and the phase bounds stay what they are; each phase is
settled once, in order, from a simulation, and the total is the sum; a network has
a sender for each non-zero cell, which reaches the sink of its receiver, and a
probe for each queue; a simulation
ends, is sampled once per interval and leaves no probe behind that could write
into deleted arrays; a sink has one up-to-date entry per connection; the report
describes the simulations that ran; a script that had its cluster to itself
delivers it whatever it found; and a session that nothing got into leaves a file
with its own traffic and nothing else.

## 2. Modules

| Module | Models | Runs | Proofs |
|---|---|---|---|
| `Startup` | start-up, from the command line to the call of `ns3_simulate` | `startup`, `startup_readme` | `StartupProofs` |
| `TraceBinning` (`MCTraceBinning`) | phase table and traffic matrices | `binning`, `binning_gap`, `binning_ssh` | `TraceBinningProofs` |
| `PhaseDriver` (`MCPhaseDriver`) | the loop over the phases | `driver`, `driver_tuned`, `driver_cos` | `PhaseDriverProofs` |
| `PhaseEstimator` | what that loop promises, abstractly | refined by `PhaseDriver` | `PhaseDriverProofs` |
| `Topology` | the networks that `star`, `fat_tree` and `DD_tour` build | `topology` | `TopologyProofs` |
| `SimulationRun` | life of the simulations, probes, ns-3's event list | in `simulation` | `SimulationRunProofs` |
| `FinalReport` | the report, composed with the simulations it reports on | `simulation` | `SimulationRunProofs` |
| `PacketSink` (`MCPacketSink`) | the sink's flow table and the latency read from it | `sink` | `PacketSinkProofs` |
| `HostShells` | the shells of a host and how a script goes on | in `session` | `ClusterProofs` |
| `VmCluster` | vmcluster, with libvirt as its environment | in `session` | `ClusterProofs` |
| `ContainerCluster` | start, stop and restart of containers, with Docker as their environment | in `session` | `ClusterProofs` |
| `ClusterSession` (`MCClusterSession`) | sessions and captures, composed with both kinds of cluster | `session` | `ClusterProofs` |

`ArithmeticFacts` has the lemmas that the proofs share: on quotients, remainders and
least elements, and on sums over finite sets.

The modules follow the program's sequence: what `Startup` hands on is the initial
state of `TraceBinning` (a capture, which may be empty and then has undefined
times); its matrices are the `demand` of `PhaseDriver`; `Simulate` there is one
round of `SimulationRun` (from `Setup` to `Free`), in whose `Setup` a network of
`Topology` is built from the non-zero cells of the matrix; the latency `lat` it is
given is what `Report` of `PacketSink` computes, summed over the sinks.

**Startup.** One action per step of `main` and `parse_config`; `pc` is the place
reached, and `exit`, `abort` (an exception nobody catches) and `fault` (a null
handle) are how it ends early. A configuration is what the program can tell of
it: readable or not, its settings (set, absent, or of another type, which is an
exception), the kinds of captures it lists. The settings are looked up one by one, and
those before one that fails stay stored.

**TraceBinning.** A packet has the last octets of its addresses, its length and
its time, in ticks. `NetworkSimulation::init` comes first: it divides the length of the
capture by `window_size`, converts the quotient to `int` and allocates as many statistics
(`InitStatistics`), which nothing reads later. A `window_size` of zero, a clock that
stepped back or times that were never set may ask for more than there is, and the
exception is caught nowhere (`StatisticsTooMany`). The table is built row by row
(`AddPhase`), then the packets are taken one at a time (`SkipAck`, `SavePayload`).
`TableOverflow` and `SaveOutsideRow` are the writes that leave the allocated memory:
what follows is undefined, so the model stops in `fault`. A write that hits another column of the
same row is modelled as just that.

**PhaseDriver.** `AddColumn`, `Reuse` or `Differ` are the comparison with one
archived phase, `ArchiveExhausted` the end of the comparisons, `Simulate`,
`SimulateNothing`, `HostsMissing` and `AlreadyDecided` the decision. `j < n` at
the decision tells that the comparison loop was left by its `break`. The doubles
`cos`, `w1`, `w2` are integers in units of `1/Scale`; a root is rounded up and a
quotient down, the direction in which `cos <= 1` holds exactly, as it does in the
code up to the rounding of doubles, which is far from the 2.4 it is compared with.
Which simulation a column came from is recorded instead of the figures (`stats`,
`window`). A match copies the queue figures from row `j` of `ptr2_window_info`
(`QueueFigures`), although `j` counts archived phases and rows count all of them: the
runs reach states in which, after an earlier match, a phase has the latency of one
simulation and the queue figures of another.

**Topology.** A loop that fills an array of links, applications or probes is one
action, and so is the check of what it indexes: `Attached` are the hosts that
exist, `fault` is where the code would ask for one that does not. `star` schedules
its probes after the applications, the other two before them. A cell of the matrix
is its index `leaf_nodes * s + d`, and `cells` are the ones that are not zero. A subnet
has three numbers of eight bits (`Octet`): ns-3 parses them into a `uint8_t`
(ipv4-address.cc:50-58). A row of `ptr2_phase_data` (50000 elements) has room for the
matrix of up to 223 hosts (`FitsRow`, an assumption on `Sizes`), so the third number, a
host's index, never needs a ninth.

**SimulationRun.** `m_events` is ns-3's event list, ordered by time and then by
the order of scheduling; each event is an action. `Setup` is all that comes before
`Simulator::Run`, `Collect` what is read after it. The probe of a host queue and
that of a switch queue (`CheckQueueSize` and `CheckQueueSize_s`) are the same code
on separate arrays; the queues of the model are the hosts', which have the
uninitialised element. What traffic does to a queue is any length at each probe,
and none before the applications start. What an uninitialised element holds is any of a set
of natural numbers (`Leftover`); a double may also be negative or no number there, which
is left out.

**PacketSink.** A socket is the set of peers it delivers data from. `KnownFlow`,
`NewFlow`, `TableOverrun` and `Unattributed` are the ways through the body of the
loop of `HandleRead`, `Report` the code of main.cpp:774-789 for one sink.

**FinalReport.** Goes on when the last simulation is done: `AddPhase` is one round of
the loop at main.cpp:507, `PrintResult` the averages after it. It reads `window`,
the figures of each phase, and `realQueuesize` and `realCheckTimes`, which the
probes kept; averages are integers in units of `1/Unit`, rounded down. One simulation
per phase is what `EveryPhaseSimulated` of the driver shows.

**HostShells, VmCluster, ContainerCluster, ClusterSession.** A shell has a script, its
number of machines, the step it is at, a loop index and a list of containers. Each
command line of a script that changes something is an action; results are not looked
at, so a step that has no effect is still a step. `StopScript` may come between any
two, `Reboot` at any time: machines, networks, scripts and captures are gone,
images and stopped containers stay. `alone` records the scripts that no other script
of their kind ran beside; what a command delivers is only asked of those.
libvirt, Docker, tcpdump and ssh are modelled from what the scripts use of them, and
that is stated in the head of each module. A capture exists from `StartCapture`, but
runs only from `OpenCapture`: until then its process is a child of the shell that
`pkill tcpdump` does not find by that name. It truncates its file, whose content is
whose traffic it holds; two captures on one bridge write over each other ("mixed").
`disturbed` records the sessions that something else got into.
The VM session is `login`: start-vcluster.sh passes the number of machines to
vmcluster without a command, so it creates none, although it prints
`./vmcluster create` (start-vcluster.sh:37-38).

Operators marked "Seeded fault" are not part of the model. Each states a
plausible mistake in the definition it precedes; `PROJECT.json` pairs it with a
property that then fails, so that every property is known to be able to.

## 3. What is checked

| Run | Shows |
|---|---|
| `startup` | for every command line and every configuration of up to two captures: what is simulated was asked for, with all of its parameters, and is the first complete entry |
| `startup_readme` | **finding**: the command of README.adoc:45 has no topology and ends with the usage message |
| `binning` | `WellFormedNeverFaults` names the captures that cannot exhaust the memory or leave the arrays; for those the phases tile the trace but for one-second gaps, a packet inside a phase is counted there, one in a gap never in a later phase, every flow has exactly its bytes, the bounds do not move |
| `binning_gap` | **finding**: in captures of eight seconds and more, a packet in a gap, such as one of second 3 between the phases [0,3) and [4,7), is counted in another phase |
| `binning_ssh` | **finding**: four hosts, and the login the README shows, from the bridge 172.17.0.1 to 172.17.0.2: its column is 2 + 4 * (1 - 2) + 0, which wraps, and the write is outside of the row |
| `driver` | with the code's thresholds, every topology argument and four phases: the loop ends, no phase is ever reused, and a known topology that can be built leaves no phase without results |
| `driver_tuned` | with a threshold that cosines do reach (0.8), so that phases are reused: `cos <= 1`, totals and archive are right, results are final, every figure comes from a simulation (`QueueFiguresTraceable`), and `PhaseEstimator` is implemented |
| `driver_cos` | **finding**: a comparison starts from what is left of the last one, so matrices with no flow in common get a cosine above 0 |
| `simulation` | two simulations, two queues, and the report: all ends; one probe per queue and interval; probes never outlive their arrays; the sinks are open to the end, because Stop was scheduled before their own; totals, averages and maxima agree with what the probes saw, and the report's figures with each other |
| `topology` | three networks for 4, 6, 8 and 64 hosts: which sizes can be built, and that a tree or torus of another size never passes for a smaller one; no subnet twice; cell `leaf_nodes * s + d` is a sender on host `s` to the sink on host `d`, and there is a path between them; every queue has one probe; the switches form the torus and the tree |
| `session` | two shells, both kinds of cluster, scripts stopped anywhere, a reboot: a create delivers its machines and a destroy clears the networks, a restart has all its containers; a session that nothing got into has a file of its own traffic; a capture outlives its session only for two reasons, and not the end of the next one |
| `sink` | four peers, three elements, connections or one datagram socket: one up-to-date entry per recorded peer; with connections no peer is missed and the latency is the sum over all of them |

Bounds. *startup*: entries of the list are independent of each other but for
their order, and two show a partial entry before a complete one and after it.
*binning*: two hosts, phases of three seconds, half-second ticks; ten seconds give
three phases and their gaps, and a last phase with inverted bounds (start after
end); three packets give a mark that is inherited from a packet that inherited
it, in either order of ACKs and data; arbitrary captures have two packets, a
stranger, a clock that steps back, and more phases than the four rows; `window_size` is
0 or 1, and there is memory for twice the statistics that four phases can ask for. The
captures of `binning_ssh` are of four hosts, as in the code. *driver*:
three phases are the fewest in which a comparison follows a comparison, the four of
`driver` and `driver_tuned` let `j` run over three rows, and a phase be matched with the
second archived one after an earlier match; two flows give zero, parallel, orthogonal
and oblique matrices: four of those in every order, and for `driver_tuned` also all of 0
to 2 units in which the first matrix comes back at the end. *simulation*: three intervals
are enough for first, middle and last probes and all events due at the end; two
simulations let state be carried over; `MaxUid` is larger than the number of
events and is never reached (`RunGoesOn` says how large it must be); two phases also let the report add a phase to another,
one in which a queue is used and one in which it is not. *topology*: 4 is the size of the code, 64 that of the
comment at main.cpp:249 and of the constants of the final report, 8 the smallest
the torus can be built for, 6 one that fits neither groups of four nor of eight;
traffic is none, all to all, one to all and all to one, so that a swap of sender
and receiver shows. *sink*: three elements and four peers fill the table
and overrun it; `MaxPackets` 6 lets peers be heard again after the others. *session*: two shells, since a third adds no step that a second one cannot take
between two steps of the first; three menus pair scripts that touch the same state:
two managers of machines with a login, two users of containers, and sessions on both
clusters at once. Three machines and a default of two, in place of four, let
a create be for fewer and for more machines than a later destroy; two containers
let one be there and one be missing; one reboot, since a second finds nothing a first
did not. In *sink* the peers are interchangeable, so symmetry over them is used (only invariants are
checked).

Fairness. The loop over the phases, and ns-3's `Run` with the report after it, are
sequential code that goes on as long as it has a next step, hence weak fairness of
the next-state relation (`FairSpec`, `ReportFairSpec`) and nothing
stronger: no action is preferred to another. The other modules are checked for
safety only: a user may stay logged in for ever.

Deadlock is not checked, since every model ends, as the program does.

## 4. What is proved

Of `PhaseDriver`, for all values of the constants that satisfy
`ConstantsAssumption`:

* `TypeCorrect`: `TypeOK` is inductive. `n <= i` gives every archived phase its
  row.
* `CosNeverAboveOne`: `CosInv` is inductive relative to `TypeOK`. It is
  `CosineBounded`, the inequality of Cauchy and Schwarz for the sums so far, with
  `NormOK(w1)` and `NormOK(w2)`: a norm is zero or at least one. Without the latter
  dividing by a small norm would raise `cos` above what remains in `w1` and `w2`
  for the next comparison. `CauchyStep` is a column, `CosineAtMostOne` the
  normalisation. `Root` is a CHOOSE; that there is something to choose follows
  from `LeastNatural`, which uses the well-foundedness of strict inclusion among
  finite sets, an induction that needs no operator parameter.
* `ResultsAreFinal`: an action property, from `TypeOK` alone.
* `ArchiveFaithful`: inductive relative to `TypeOK`.
* `TotalsCorrect`: `TotalsInv` adds that an unsettled phase has latency 0 and that
  a matched one has `lock` set. The first is needed because a phase that is passed
  over adds nothing, the second because a matched phase must not be simulated.
* `AllSimulated`, for `CosMin >= Scale` (the code has 2.4 and 1): no archived phase
  is ever reused. It combines `CosInv` with `LockInv` (lemma `LockCorrect`): with a
  known topology `lock` is false at the decision for every phase but the first
  that was not matched.
* `QueuesTraceable`, for every threshold: `QueueInv` adds that until a first match
  (`NoMatchBefore`) the archive has a row for each phase, in the same order, and that a
  phase which is matched, but not yet left, is known by the origin of its results.
* `ImplementsPhaseEstimator`, for topologies without "other": every step of the
  loop is a step of `PhaseEstimator` or leaves its variables alone. A matched phase
  counts as settled from its match on (`Settled`). It rests on `LockInv` (nothing is
  skipped) and on `ArchiveIsFaithful` (what is copied is an estimate of a simulated
  phase).
* `LoopEnds` and `AllReported`, for every topology and every known one: `StepsLeft` is
  a natural number that every step makes smaller, and when the loop is done every
  phase has results. `StepsLeft` counts the columns and archived phases still to be
  compared, the decision, and for every later phase as much as any phase can need
  (`PhaseSteps`), which pays for the step to the next one (`NextPhasePaid`).

Of `TraceBinning`:

* `TypeCorrect`: `TypeInv` adds to `TypeOK` that a completed table has no more
  phases than there are rows, so that a phase that is found is a row.
* `BoundsStay`: an action property. `HostColumn` shows that between simulated hosts
  the unsigned arithmetic does not wrap and gives a column of the matrix.
* `NeverFaults`: `StatisticsFit` is about the array of statistics, of which there are no
  more than seconds in the capture. `FaultInv` fixes the number of phases as that of the capture, which
  `PhaseCountBounds` compares with the rows.
* `TableTiles`: `TableInv` describes the rows that are already filled (`RowsInv`) and
  where the next phase starts (`NextStart`): `PhaseSize + 1` seconds further per
  phase, or at the end. `PhasesReachTheEnd` then says that the phases counted
  suffice, `OnePhase` that they do not overlap.
* `FlowsComplete`: `FlowInv`, the two sums of `FlowTotals`, is inductive relative to
  the earlier invariants. A data packet adds the same to one row and to its flow
  (`PacketCounted`), any other to neither (`NothingCounted`). `NetBytesExact` is why
  the 32-bit subtraction of the headers takes nothing else away: `TracesAssumption`
  has lengths below `Word`, and the code's `payload` is a `uint32_t`. `ColumnsDiffer`
  keeps the flows apart.
* `MatchedStayLocal` and `NoneAhead`: `PlacedInv` adds what `mark` is left at. A phase
  that had begun for the last packet has begun for the next one, in time order.

Of `SimulationRun`, from `RunInv` (lemma `RunInvariant`), the conjunction of

* `RunTypes`, the types, with the arrays allocated exactly while a simulation lasts;
* `EventsInv`, what the event list holds while it runs: Stop before the event that
  stops the applications, one probe per queue, due at the time that equals the
  samples taken, and the start of the applications after all first probes;
* `EndInv`, that each queue has all its samples once Stop has run;
* `CountInv`, that a queue is congested in fewer probes than were made;
* `Balanced`, that the samples of two queues differ by at most one.

From it follow `TypeCorrect`, `ProbesNeverDangle`, `SampledExactly`,
`SinksStayOpen` and `NeverFullyCongested`.
`ReportedFiguresWereSeen` needs `SeenInv` beside it, which follows sums and maxima of
the running simulation; `ReportRunsSimulations` is the step that makes all of these
hold under `FinalReport` (every step of it is one of `SimulationRun` or leaves its
variables alone).

`TotalsAgree` and `ReportsAgree` are about sums over phases and queues. `ArchiveInv`
is the conjunction of `RowsInv` (a row's total is the sum of its times, and rows
still to come are zero), `AverageInv` (what a simulation is about to report of a
queue is the quotient of its sums), `TotalsInv` (the running totals without the
simulation in progress are the sums over the rows) and `MeanInv`: whatever bounds the
averages of a queue in its phases bounds the quotient of its running totals. The
last quantifies over bounds, so that a new phase only has to be weighed against the
quotient so far (`MeanOfBoth`). `ReportInv` follows the loop of the report, which
sums the same rows in the other order.

`SimulationsEnd`, `RunGoesOn` and `ReportEnds` are about the end of it all, which rests
on a single event. An event has a `Weight`, the number of steps it and the events
it will schedule can take before Stop: `StopTime - at` for a probe, 2 for the start of
the nodes, none for the stop of the applications, which Stop pre-empts. `Work` is
the sum over the list, and a step that runs an event takes exactly one from it
(`WorkOfEvent`, for which `ListInv` keeps the events finite in number and their
numbers distinct). Hence `StepsLeft`, the work of the simulation in progress and
`NumQueues * StopTime + 8` steps for each that is still to come, becomes smaller with
every step. `RunGoesOn` adds that a running simulation is never without a next event
(`FirstExists`), and that `MaxUid`, the one bound in a guard of the model, holds up no
probe if it is large enough (`NumbersInv`): the 14 of the run is.

Of `PacketSink`: `DistinctEntries`, `UpToDateEntries`, `PeersRecorded`,
`OverrunsWhenFull` and `LatencyOfAllFlows`. `TableInv` adds to the first two that an
unused entry holds nobody; `RecordedInv` says, for sockets with one peer each, that
`m_lock` only ever hides a peer that has an entry. That the table is full when it is
overrun comes from an injection of its elements into the peers. `LatencyOfAllFlows`
has a sum over elements of the table on one side and one over connections on the
other; `EntriesArePeers` shows that one is a renaming of the other (`SumRename`).

Of `ClusterSession`, with any number of shells, machines, containers and reboots:

* `ClusterTypes`: `BaseInv`. A shell is at a place of its script (`Places`), its loop
  index below the number of rounds while it is in the loop and zero outside, and a
  shell in `alone` has no other of its kind beside it. `GotoMoves`, `LoopMoves` and
  `ListMoves` are the three ways a script goes on; every action uses one of them.
* `VmCommandsAlwaysDeliver`: `VmProgress` says for each place of vmcluster what has
  been achieved there: up to which machine nothing runs, which networks are gone,
  which machines are connected. It holds from the first step, without any assumption
  on what was there before, because the first round of the loop takes both networks
  away. That is also why a number of 0 is excluded.
* `ContainersAlwaysComplete`: `ContainerProgress`, likewise. At the second listing
  nothing runs any more, so everything that is listed can be removed.
* `CapturesAlwaysWhole`: `SessionInv`. An undisturbed session is alone on its bridge
  and owns the only capture there, and if the capture has begun, that capture is
  open and the file holds the session's traffic. `SessionEnds` treats the end of a
  script, regular or not.
* `CapturesAlwaysEnd`: inductive with the types of the captures alone.

Of `Startup`, for lists of captures of any length: `StartTypes` and
`ConfiguredOnly`. `StartInv` adds to the types where the captures come from
(`Provenance`: there are none unless the list was reached, with the parameters
set), that those taken are the complete ones among the entries looked at, in their
order (`ListInv`), and that the times of those parsed are set (`ParseInv`).

Of `Topology`, for every number of hosts whose matrix fits a row of `ptr2_phase_data`
(`FewHosts`: fewer than an octet has values): `OnlyFittingBuilt`, `MatrixBecomesFlows`,
`QueuesAllProbed`, `SubnetsDiffer` and `NetworksWired`. `TopoInv` says what each array holds once it
is filled, as a function of the command line, and the rest is arithmetic: quotient
and remainder take a cell apart into the two hosts it was made of (`CellSplits`),
half a probe's number is its link (`QueueEndsCover`), and groups of four or eight
are all hosts when they divide their number (`GroupsCover`). In a network that was
built at all, probes were found for every host, so that none is missing even of
the sizes that do not fit. Links are as many as their numbers because distinct
subnets make the functions to them injective (`ImageCardinality`).

`NetworksWired` counts links by a table: two switches of the torus are the ends of
an entry of `TorusEnds` exactly if their numbers differ in one binary digit, the
entry is unique (`OneLinkEach`), and its two links are the ones with its number
modulo 12 (`LinksJoin`). For the paths, the recursive function in `Within` is shown to
exist and to be five named rounds (`WithinRounds`), and each topology has a path
that a search follows: in the torus one dimension per round.

**Sums.** `SumFunctionOnSet` of the community modules is a recursive function chosen by
CHOOSE, and the library's theorems about it take operators as parameters, which no
installed prover can instantiate. `ArithmeticFacts` proves what is needed without
them. `SmallestSubset` is the induction: a property that fails of some subset of a
finite set fails of one with no smaller failing subset, because strict inclusion is
well-founded there. With it the function of partial sums is constructed as the least
relation closed under taking one element at a time (`PartialSumsExist`), so that the
CHOOSE has something to choose, and the laws are derived: a sum does not depend on
the order (`SumTake`), adding elements and functions (`SumAdd`, `SumPlus`), changing one
value (`SumBump`), renaming (`SumRename`).

Only model-checked: liveness (`EventuallyReported`, `EventuallyPrinted`), since
fairness is about ENABLED, which is out of the prover's reach. Its safety half is
proved: by `LoopEnds`, `SimulationsEnd` and `ReportEnds` no behaviour takes steps for
ever, by `RunGoesOn` a simulation does not get stuck before Stop, and by `AllReported`
the results are complete at the end. What stays with TLC is that some action can be
taken in every other state before the end. Every other property of a passing run is
stated by a theorem.

## 5. What is not modelled

The vendored ns-3 but for its event list and the start and stop of applications:
TCP, IP, routing and queue disciplines appear as any latency and any queue
length. Its Python bindings and tools, which are most of the repository's lines, are
generated or separate programs that clusim does not run. The header fields of
packets that nothing reads. Hop counts, rates and delays of links, NetAnim's
coordinates. Of the final report, the means over all queues, the hops and the
totals of the switches, which repeat the same sums on other arrays; their
constants (128, 144, 176) are those of 64 hosts. The longest path of graph.hpp,
which nothing calls. The scripts that build images (vm-create.sh, vm-run.sh,
remove-all-*.sh), single calls without state. Memory errors end the
model in `fault`; what a machine does after them is not described. Neither is a negative
number or a NaN in the elements `queuel[2L]` and `queuem[2L]`, which main.cpp does not
initialise.

Some properties have premises, and say nothing of what these leave out. `WellFormed`
excludes empty captures, clocks that step back, addresses that are not simulated hosts
and a `window_size` of zero: the models run on such captures too (`AnyTraces`), and the
crashes they lead to are what `WellFormedNeverFaults` names, but a packet that hits another
column of its row goes unnoticed. `Fits` excludes stars of other than four hosts, for
which the constants 4 and 16 of `star` are wrong, and trees and tori of sizes that leave
a remainder, of which `SizeDecides` only says that they are not built (`-d` with the four
hosts of the code is one). `EventuallyReported` counts a crash as an end.
`SimulatesAsConfigured` allows the capture that is simulated to be one without packets.
`EveryPeerRecorded` is about stream sockets, `CaptureIsWhole` about sessions that nothing
got into. Where such a case is a hazard, its entry in `PROJECT.json` says so.

## 6. Plan

Done, in this order: `TraceBinning`, `PhaseDriver` with `PhaseEstimator` and its
proofs, `SimulationRun`, `PacketSink`, `Startup`, `Topology`, the proofs about
`TraceBinning`, `SimulationRun` and `PacketSink`; then `FinalReport`, the cluster
scripts and sessions with `ClusterProofs`; `StartupProofs` and `TopologyProofs`.
Next:

1. The means over all queues and the totals of the switches in `FinalReport`, as
   soon as they depend on the number of hosts and not on constants.
2. `LongestPath`: the recursive algorithm against a definition by paths, for TLC,
   should something come to call it.
