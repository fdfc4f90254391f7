---------------------------- MODULE TopologyProofs ----------------------------
(***************************************************************************)
(* The networks, proved for every number of hosts whose matrix fits a row: *)
(* for the sizes a network is made for nothing is missing, each cell of    *)
(* the matrix becomes the sender it stands for, each queue has its probe,  *)
(* subnets differ, and the links make the torus or tree that the name      *)
(* says, with a path for each flow.                                        *)
(***************************************************************************)
EXTENDS Topology, ArithmeticFacts, FunctionTheorems

(* What the steps leave behind, as functions of the command line.           *)
SwitchLinks == CASE topology = "-s" -> <<>>
                 [] topology = "-f" -> [x \in 0 .. 7 |-> FatTreeLink(x)]
                 [] topology = "-d" -> [x \in 0 .. 23 |-> TorusLink(x)]

Senders == [q \in cells |-> [from |-> Host(Sender(q)),
                             Remote |-> <<host_links[Receiver(q)].subnet, HostEnd>>]]

Probed == \/ pc = "built"
          \/ topology # "-s" /\ pc \in {"sinks", "senders"}

Installed == pc = "built" \/ (topology = "-s" /\ pc = "probes")

(* What the inputs are, and how far the construction has come.              *)
Inputs ==
  /\ topology \in {"-s", "-f", "-d"} /\ leaf_nodes \in Nat \ {0} /\ leaf_nodes <= 256
  /\ cells \subseteq Flows

Progress ==
  /\ pc \in {"switches", "hosts", "sinks", "senders", "probes", "built", "fault"}
  /\ switch_links = IF pc = "switches" THEN <<>> ELSE SwitchLinks
  /\ host_links = IF pc \in {"switches", "hosts"}
                    THEN <<>> ELSE [x \in Attached |-> HostLink(x)]
  /\ Installed \/ pc = "senders" => sinks = Attached
  /\ Installed => SendersFit /\ spokeApps = Senders
  /\ Probed => /\ ProbesFit
               /\ queue = [x \in 0 .. 2 * leaf_nodes - 1 |-> QueueEnd(x)]
               /\ queue_s = [x \in SwitchQueues |-> QueueEnd(x)]
  /\ Fits => pc # "fault"

TopoInv == Inputs /\ Progress

-----------------------------------------------------------------------------
(* Quotient and remainder of n * s + d by n are s and d (main.cpp:722-724). *)
LEMMA CellSplits ==
  ASSUME NEW n \in Nat \ {0}, NEW s \in Nat, NEW d \in 0 .. n - 1
  PROVE  (n * s + d) \div n = s /\ (n * s + d) % n = d
  OBVIOUS

(* The product of two sides bounds a row and a column.                      *)
LEMMA CellBound ==
  ASSUME NEW n \in Nat \ {0}, NEW s \in 0 .. n - 1, NEW d \in 0 .. n - 1
  PROVE  n * s + d \in 0 .. n * n - 1
  OBVIOUS

(* Conversely, an index below n * n has its row and its column below n.     *)
LEMMA RowBound ==
  ASSUME NEW n \in Nat \ {0}, NEW q \in 0 .. n * n - 1
  PROVE  q \div n \in 0 .. n - 1 /\ q % n \in 0 .. n - 1
  OBVIOUS

(* Groups of four, or of eight, make up all hosts when they divide them.    *)
LEMMA GroupsCover ==
  ASSUME NEW n \in Nat
  PROVE  /\ 4 * (n \div 4) \in 0 .. n /\ 8 * (n \div 8) \in 0 .. n
         /\ n % 4 = 0 <=> 4 * (n \div 4) = n
         /\ n % 8 = 0 <=> 8 * (n \div 8) = n
<1>1. n \div 4 \in Nat /\ n % 4 \in 0 .. 3 /\ n = 4 * (n \div 4) + (n % 4)
  OBVIOUS
<1>2. n \div 8 \in Nat /\ n % 8 \in 0 .. 7 /\ n = 8 * (n \div 8) + (n % 8)
  OBVIOUS
<1>3. 4 * (n \div 4) \in 0 .. n /\ (n % 4 = 0 <=> 4 * (n \div 4) = n)
  BY <1>1
<1>4. 8 * (n \div 8) \in 0 .. n /\ (n % 8 = 0 <=> 8 * (n \div 8) = n)
  BY <1>2
<1> QED BY <1>3, <1>4

(* Two probes go to each host link, one to each end.                        *)
LEMMA HalfOf ==
  ASSUME NEW x \in Nat
  PROVE  /\ x \div 2 \in Nat /\ x % 2 \in {0, 1} /\ x = 2 * (x \div 2) + (x % 2)
  OBVIOUS
-----------------------------------------------------------------------------
(* No host is attached that does not exist, and for a fitting size, or in   *)
(* the star, all are.                                                       *)
LEMMA AttachedHosts ==
  ASSUME Inputs
  PROVE  /\ \E h \in 0 .. leaf_nodes : Attached = 0 .. h - 1
         /\ Attached \subseteq Hosts
         /\ Fits \/ topology = "-s" => Attached = Hosts
         /\ topology # "-s" /\ leaf_nodes - 1 \in Attached => Fits
<1>1. CASE topology = "-s"
  BY <1>1 DEF Inputs, Attached, Hosts
<1>2. CASE topology = "-f"
  <2>1. Attached = 0 .. 4 * (leaf_nodes \div 4) - 1
    BY <1>2 DEF Attached, HostLoops
  <2>2. Fits <=> leaf_nodes % 4 = 0
    BY <1>2 DEF Fits
  <2> QED BY <1>2, <2>1, <2>2, GroupsCover DEF Inputs, Hosts
<1>3. CASE topology = "-d"
  <2>1. Attached = 0 .. 8 * (leaf_nodes \div 8) - 1
    BY <1>3 DEF Attached, HostLoops
  <2>2. Fits <=> leaf_nodes % 8 = 0
    BY <1>3 DEF Fits
  <2> QED BY <1>3, <2>1, <2>2, GroupsCover DEF Inputs, Hosts
<1> QED BY <1>1, <1>2, <1>3 DEF Inputs

(* A fitting network has the queues its probes ask for.                     *)
LEMMA FittingProbes ==
  ASSUME Inputs, Fits, DOMAIN host_links = Attached
  PROVE  ProbesFit
<1>1. Attached = Hosts
  BY AttachedHosts
<1>2. \A x \in 0 .. 2 * leaf_nodes - 1 : x \div 2 \in Hosts
  BY HalfOf DEF Inputs, Hosts
<1> QED BY <1>1, <1>2 DEF ProbesFit, QueueEnd

(* And the nodes and links that its senders ask for.                        *)
LEMMA FittingSenders ==
  ASSUME Inputs, Fits, DOMAIN host_links = Attached
  PROVE  SendersFit
<1>1. Attached = Hosts
  BY AttachedHosts
<1>2. Stride = leaf_nodes
  BY DEF Stride, Fits, Inputs
<1>3. topology = "-s" => leaf_nodes = 4
  BY DEF Fits
<1>4. ASSUME NEW q \in Flows PROVE SenderFits(q)
  <2>1. q \in 0 .. leaf_nodes * leaf_nodes - 1 /\ leaf_nodes \in Nat \ {0}
    BY <1>4 DEF Flows, Inputs
  <2>2. q \div leaf_nodes \in 0 .. leaf_nodes - 1 /\ q % leaf_nodes \in 0 .. leaf_nodes - 1
    BY <2>1, RowBound
  <2>3. topology = "-s" => q < 16
    BY <1>3, <2>1
  <2> QED BY <1>1, <1>2, <2>2, <2>3 DEF SenderFits, Sender, Receiver, Hosts
<1> QED BY <1>4 DEF SendersFit, Inputs

-----------------------------------------------------------------------------
(* A matrix that fits a row has fewer hosts than an octet has values.       *)
LEMMA FewHosts ==
  ASSUME NEW n \in Nat, n * n + 8 <= 50000
  PROVE  n <= 256
<1> SUFFICES ASSUME n >= 257 PROVE FALSE
  OBVIOUS
<1>1. n * n >= 257 * n
  OBVIOUS
<1>2. n * n >= 257 * 257
  BY <1>1
<1> QED BY <1>2

LEMMA TopoInitially == Init => TopoInv
<1> SUFFICES ASSUME Init PROVE TopoInv
  OBVIOUS
<1>0. leaf_nodes \in Nat \ {0} /\ leaf_nodes * leaf_nodes + 8 <= 50000
  BY ConstantsAssumption DEF Init, FitsRow
<1>1. topology \in {"-s", "-f", "-d"} /\ leaf_nodes \in Nat \ {0} /\ leaf_nodes <= 256
  BY <1>0, FewHosts DEF Init
<1>2. ASSUME NEW s \in Hosts, NEW d \in Hosts PROVE Cell(s, d) \in Flows
  BY <1>1, <1>2, CellBound DEF Hosts, Flows, Cell
<1>3. cells \subseteq Flows
  BY <1>2 DEF Init
<1>4. pc = "switches" /\ switch_links = <<>> /\ host_links = <<>>
  BY DEF Init
<1> QED BY <1>1, <1>3, <1>4 DEF TopoInv, Inputs, Progress, Installed, Probed

LEMMA TopoStep == TopoInv /\ [Next]_vars => TopoInv'
<1> SUFFICES ASSUME TopoInv, [Next]_vars PROVE TopoInv'
  OBVIOUS
<1>0. Inputs /\ Progress
  BY DEF TopoInv
<1>a. UNCHANGED <<topology, leaf_nodes, cells>>
  BY DEF Next, LinkSwitches, AttachHosts, InstallSinks, InstallSenders, SenderMissing,
         ScheduleProbes, QueueMissing, vars
<1>b. Inputs' /\ SwitchLinks' = SwitchLinks /\ Attached' = Attached
  BY <1>0, <1>a DEF Inputs, Flows, SwitchLinks, Attached, HostLoops
<1>c. topology \in {"-s", "-f", "-d"}
  BY <1>0 DEF Inputs
<1>d. [x \in Attached |-> HostLink(x)]' = [x \in Attached |-> HostLink(x)]
  BY <1>a, <1>b DEF HostLink
<1>e. Fits' = Fits /\ SwitchQueues' = SwitchQueues
  BY <1>a DEF Fits, SwitchQueues
<1>1. CASE LinkSwitches
  <2>1. /\ pc = "switches" /\ pc' = "hosts" /\ switch_links' = SwitchLinks
        /\ UNCHANGED host_links
    BY <1>1 DEF LinkSwitches, SwitchLinks
  <2> QED BY <1>0, <1>b, <2>1 DEF TopoInv, Progress, Installed, Probed
<1>2. CASE AttachHosts
  <2>1. /\ pc = "hosts" /\ pc' = IF topology = "-s" THEN "sinks" ELSE "probes"
        /\ host_links' = [x \in Attached |-> HostLink(x)]
        /\ UNCHANGED switch_links
    BY <1>2 DEF AttachHosts
  <2> QED BY <1>0, <1>a, <1>b, <1>d, <2>1 DEF TopoInv, Progress, Installed, Probed
<1>f. ASSUME UNCHANGED host_links
      PROVE  ProbesFit' = ProbesFit /\ SendersFit' = SendersFit /\ Senders' = Senders
  BY <1>a, <1>f DEF ProbesFit, SendersFit, SenderFits, Sender, Receiver, Stride, Hosts,
         Flows, Senders, HostEnd
<1>3. CASE InstallSinks
  <2>1. /\ pc = "sinks" /\ pc' = "senders" /\ sinks' = Attached
        /\ UNCHANGED <<switch_links, host_links, queue, queue_s>>
    BY <1>3 DEF InstallSinks
  <2> QED BY <1>0, <1>a, <1>b, <1>d, <1>e, <1>f, <2>1
          DEF TopoInv, Progress, Installed, Probed
<1>4. CASE InstallSenders
  <2>1. /\ pc = "senders" /\ pc' = IF topology = "-s" THEN "probes" ELSE "built"
        /\ SendersFit /\ spokeApps' = Senders
        /\ UNCHANGED <<switch_links, host_links, sinks, queue, queue_s>>
    BY <1>4 DEF InstallSenders, Senders
  <2> QED BY <1>0, <1>a, <1>b, <1>d, <1>e, <1>f, <2>1
          DEF TopoInv, Progress, Installed, Probed
<1>5. CASE SenderMissing
  <2>1. /\ pc = "senders" /\ pc' = "fault" /\ ~ SendersFit
        /\ UNCHANGED <<switch_links, host_links>>
    BY <1>5 DEF SenderMissing
  <2>2. ~ Fits
    BY <1>0, <2>1, FittingSenders DEF Progress
  <2> QED BY <1>0, <1>b, <1>d, <1>e, <2>1, <2>2 DEF TopoInv, Progress, Installed, Probed
<1>6. CASE ScheduleProbes
  <2>1. /\ pc = "probes" /\ pc' = IF topology = "-s" THEN "built" ELSE "sinks"
        /\ ProbesFit /\ UNCHANGED <<switch_links, host_links, sinks, spokeApps>>
        /\ queue' = [x \in 0 .. 2 * leaf_nodes - 1 |-> QueueEnd(x)]
        /\ queue_s' = [x \in SwitchQueues |-> QueueEnd(x)]
    BY <1>6 DEF ScheduleProbes
  <2> QED BY <1>0, <1>a, <1>b, <1>d, <1>e, <1>f, <2>1
          DEF TopoInv, Progress, Installed, Probed
<1>7. CASE QueueMissing
  <2>1. /\ pc = "probes" /\ pc' = "fault" /\ ~ ProbesFit
        /\ UNCHANGED <<switch_links, host_links>>
    BY <1>7 DEF QueueMissing
  <2>2. ~ Fits
    BY <1>0, <2>1, FittingProbes DEF Progress
  <2> QED BY <1>0, <1>b, <1>d, <1>e, <2>1, <2>2 DEF TopoInv, Progress, Installed, Probed
<1>8. CASE UNCHANGED vars
  <2>1. UNCHANGED <<pc, switch_links, host_links, sinks, spokeApps, queue, queue_s>>
    BY <1>8 DEF vars
  <2> QED BY <1>0, <1>a, <1>b, <1>d, <1>e, <1>f, <2>1
          DEF TopoInv, Progress, Installed, Probed
<1> QED BY <1>1, <1>2, <1>3, <1>4, <1>5, <1>6, <1>7, <1>8 DEF Next

LEMMA TopoInvariant == Spec => []TopoInv
BY TopoInitially, TopoStep, PTL DEF Spec

(* What was built has all its queues, so its size is one of those that the *)
(* network is made for.                                                     *)
LEMMA BuiltFits ==
  ASSUME TopoInv, topology # "-s", pc = "built"
  PROVE  Fits
<1>1. Inputs /\ ProbesFit /\ DOMAIN host_links = Attached
  BY DEF TopoInv, Progress, Probed
<1>2. leaf_nodes \in Nat \ {0} /\ 2 * leaf_nodes - 1 \in 0 .. 2 * leaf_nodes - 1
  BY <1>1 DEF Inputs
<1>3. QueueEnd(2 * leaf_nodes - 1)[1] \in Attached
  BY <1>1, <1>2 DEF ProbesFit
<1>4. QueueEnd(2 * leaf_nodes - 1)[1] = leaf_nodes - 1
  BY <1>2 DEF QueueEnd
<1> QED BY <1>1, <1>3, <1>4, AttachedHosts

(* SizeDecides: for the sizes a network is made for, no traffic asks for a  *)
(* node, an interface or a queue that is not there, and for other sizes a   *)
(* tree or torus is never built.                                            *)
THEOREM OnlyFittingBuilt == Spec => []SizeDecides
<1>1. TopoInv => SizeDecides
  BY BuiltFits DEF TopoInv, Progress, SizeDecides
<1> QED BY <1>1, TopoInvariant, PTL

-----------------------------------------------------------------------------
(* FlowsFollowTheMatrix: the cell of hosts s and d becomes a sender on s    *)
(* that sends to d, where a sink listens, and no other cell becomes one.    *)
THEOREM MatrixBecomesFlows == Spec => []FlowsFollowTheMatrix
<1>1. TopoInv => FlowsFollowTheMatrix
  <2> SUFFICES ASSUME TopoInv, pc = "built", Fits, NEW s \in Hosts, NEW d \in Hosts
               PROVE  IF Cell(s, d) \in cells
                      THEN LET app == spokeApps[Cell(s, d)]
                           IN  /\ app.from = Host(s) /\ d \in sinks
                               /\ \E l \in Links : l.subnet = app.Remote[1]
                                                   /\ l.ends[app.Remote[2]] = Host(d)
                      ELSE Cell(s, d) \notin DOMAIN spokeApps
    BY DEF FlowsFollowTheMatrix
  <2>1. Inputs /\ spokeApps = Senders /\ sinks = Attached
        /\ host_links = [x \in Attached |-> HostLink(x)]
    BY DEF TopoInv, Progress, Installed
  <2>2. Attached = Hosts
    BY <2>1, AttachedHosts
  <2>3. Stride = leaf_nodes /\ leaf_nodes \in Nat \ {0}
    BY <2>1 DEF Stride, Fits, Inputs
  <2>4. Sender(Cell(s, d)) = s /\ Receiver(Cell(s, d)) = d
    BY <2>3, CellSplits DEF Sender, Receiver, Cell, Hosts
  <2>5. host_links[d] = HostLink(d) /\ HostLink(d) \in Links
    BY <2>1, <2>2 DEF Links
  <2>6. HostLink(d).ends[HostEnd] = Host(d)
    BY <2>1 DEF HostLink, Link, HostEnd, Inputs
  <2>7. CASE Cell(s, d) \in cells
    <3>1. spokeApps[Cell(s, d)] = [from |-> Host(s), Remote |-> <<HostLink(d).subnet, HostEnd>>]
      BY <2>1, <2>4, <2>5, <2>7 DEF Senders
    <3> QED BY <2>1, <2>2, <2>5, <2>6, <2>7, <3>1
  <2>8. CASE Cell(s, d) \notin cells
    BY <2>1, <2>8 DEF Senders
  <2> QED BY <2>7, <2>8
<1> QED BY <1>1, TopoInvariant, PTL

(* A probe's queue tells the probe: no two probes read the same end.        *)
LEMMA QueueEndsDistinct ==
  ASSUME NEW x \in Nat, NEW y \in Nat, QueueEnd(x) = QueueEnd(y)
  PROVE  x = y
<1>1. x \div 2 = y \div 2 /\ x % 2 = y % 2
  BY DEF QueueEnd
<1>2. x = 2 * (x \div 2) + (x % 2) /\ y = 2 * (y \div 2) + (y % 2)
  BY HalfOf
<1> QED BY <1>1, <1>2

(* 2 * m probes read both ends of m links.                                  *)
LEMMA QueueEndsCover ==
  ASSUME NEW m \in Nat
  PROVE  {QueueEnd(x) : x \in 0 .. 2 * m - 1} = (0 .. m - 1) \X {0, 1}
<1>1. ASSUME NEW x \in 0 .. 2 * m - 1 PROVE QueueEnd(x) \in (0 .. m - 1) \X {0, 1}
  <2>1. x \div 2 \in 0 .. m - 1 /\ x % 2 \in {0, 1}
    BY HalfOf
  <2> QED BY <2>1 DEF QueueEnd
<1>2. ASSUME NEW z \in 0 .. m - 1, NEW e \in {0, 1}
      PROVE  \E x \in 0 .. 2 * m - 1 : QueueEnd(x) = <<z, e>>
  <2>1. 2 * z + e \in 0 .. 2 * m - 1
    OBVIOUS
  <2>2. (2 * z + e) \div 2 = z /\ (2 * z + e) % 2 = e
    BY CellSplits
  <2> QED BY <2>1, <2>2 DEF QueueEnd
<1> QED BY <1>1, <1>2

(* EachQueueProbedOnce: figures are neither missing nor counted twice.      *)
THEOREM QueuesAllProbed == Spec => []EachQueueProbedOnce
<1>1. TopoInv => EachQueueProbedOnce
  <2> SUFFICES ASSUME TopoInv, pc = "built" PROVE EachQueueProbedOnce
    BY DEF EachQueueProbedOnce
  <2>1. /\ Inputs /\ ProbesFit
        /\ queue = [x \in 0 .. 2 * leaf_nodes - 1 |-> QueueEnd(x)]
        /\ queue_s = [x \in SwitchQueues |-> QueueEnd(x)]
        /\ DOMAIN host_links = Attached
        /\ switch_links = SwitchLinks
    BY DEF TopoInv, Progress, Probed
  <2>2. leaf_nodes \in Nat \ {0} /\ topology \in {"-s", "-f", "-d"}
    BY <2>1 DEF Inputs
  <2>3. Attached = 0 .. leaf_nodes - 1
    <3>1. PICK h \in 0 .. leaf_nodes : Attached = 0 .. h - 1
      BY <2>1, AttachedHosts
    <3>2. 2 * leaf_nodes - 1 \in 0 .. 2 * leaf_nodes - 1
      BY <2>2
    <3>3. QueueEnd(2 * leaf_nodes - 1)[1] \in Attached
      BY <2>1, <3>2 DEF ProbesFit
    <3>4. QueueEnd(2 * leaf_nodes - 1)[1] = leaf_nodes - 1
      BY <2>2 DEF QueueEnd
    <3> QED BY <2>2, <3>1, <3>3, <3>4
  <2>4. /\ SwitchQueues \subseteq Nat
        /\ {QueueEnd(x) : x \in SwitchQueues} = (DOMAIN switch_links) \X {0, 1}
    <3>1. CASE topology = "-s"
      <4>1. SwitchQueues = {} /\ DOMAIN switch_links = {}
        BY <2>1, <3>1 DEF SwitchQueues, SwitchLinks
      <4> QED BY <4>1
    <3>2. CASE topology = "-f"
      <4>1. SwitchQueues = 0 .. 2 * 8 - 1 /\ DOMAIN switch_links = 0 .. 8 - 1
        BY <2>1, <3>2 DEF SwitchQueues, SwitchLinks
      <4>2. {QueueEnd(x) : x \in 0 .. 2 * 8 - 1} = (0 .. 8 - 1) \X {0, 1}
        BY QueueEndsCover
      <4> QED BY <4>1, <4>2
    <3>3. CASE topology = "-d"
      <4>1. SwitchQueues = 0 .. 2 * 24 - 1 /\ DOMAIN switch_links = 0 .. 24 - 1
        BY <2>1, <3>3 DEF SwitchQueues, SwitchLinks
      <4>2. {QueueEnd(x) : x \in 0 .. 2 * 24 - 1} = (0 .. 24 - 1) \X {0, 1}
        BY QueueEndsCover
      <4> QED BY <4>1, <4>2
    <3> QED BY <2>2, <3>1, <3>2, <3>3
  <2>5. \A x, y \in DOMAIN queue : queue[x] = queue[y] => x = y
    BY <2>1, <2>2, QueueEndsDistinct
  <2>6. \A x, y \in DOMAIN queue_s : queue_s[x] = queue_s[y] => x = y
    BY <2>1, <2>4, QueueEndsDistinct
  <2>7. {queue[x] : x \in DOMAIN queue} = {QueueEnd(x) : x \in 0 .. 2 * leaf_nodes - 1}
    BY <2>1
  <2>8. {queue_s[x] : x \in DOMAIN queue_s} = {QueueEnd(x) : x \in SwitchQueues}
    BY <2>1
  <2>9. {QueueEnd(x) : x \in 0 .. 2 * leaf_nodes - 1} = Attached \X {0, 1}
    BY <2>2, <2>3, QueueEndsCover
  <2> QED BY <2>1, <2>4, <2>5, <2>6, <2>7, <2>8, <2>9 DEF EachQueueProbedOnce
<1> QED BY <1>1, TopoInvariant, PTL

-----------------------------------------------------------------------------
(* Distinct values of a function on a finite set are as many as its         *)
(* arguments.                                                               *)
LEMMA ImageCardinality ==
  ASSUME NEW f, NEW D, IsFiniteSet(D), \A x, y \in D : f[x] = f[y] => x = y
  PROVE  IsFiniteSet({f[x] : x \in D}) /\ Cardinality({f[x] : x \in D}) = Cardinality(D)
<1> DEFINE T == {f[x] : x \in D}
           g == [x \in D |-> f[x]]
<1>1. g \in [D -> T] /\ \A x, y \in D : g[x] = g[y] => x = y
  OBVIOUS
<1>2. \A t \in T : \E x \in D : g[x] = t
  OBVIOUS
<1> HIDE DEF T, g
<1>3. g \in Bijection(D, T)
  BY <1>1, <1>2, Fun_IsBij
<1>4. IsFiniteSet(T) /\ Cardinality(T) = Cardinality(D)
  BY <1>3, FS_Bijection DEF ExistsBijection
<1> QED BY <1>4 DEF T

(* Eight bits are enough for the numbers below 256.                         *)
LEMMA OctetKept ==
  ASSUME NEW x \in 0 .. 255
  PROVE  Octet(x) = x
BY DEF Octet

(* Links between switches differ in the third number of their subnets.      *)
LEMMA SwitchSubnets ==
  ASSUME Inputs, NEW x \in DOMAIN SwitchLinks, NEW y \in DOMAIN SwitchLinks
  PROVE  /\ SwitchLinks[x].subnet[2] = 1
         /\ SwitchLinks[x].subnet = SwitchLinks[y].subnet => x = y
<1>1. CASE topology = "-s"
  BY <1>1 DEF SwitchLinks
<1>2. CASE topology = "-f"
  <2>1. /\ x \in 0 .. 7 /\ y \in 0 .. 7
        /\ SwitchLinks[x] = FatTreeLink(x) /\ SwitchLinks[y] = FatTreeLink(y)
    BY <1>2 DEF SwitchLinks
  <2>2. \A z \in 0 .. 7 : FatTreeLink(z).subnet = <<10, 1, z>>
    BY OctetKept DEF FatTreeLink, Link
  <2> QED BY <2>1, <2>2
<1>3. CASE topology = "-d"
  <2>1. /\ x \in 0 .. 23 /\ y \in 0 .. 23
        /\ SwitchLinks[x] = TorusLink(x) /\ SwitchLinks[y] = TorusLink(y)
    BY <1>3 DEF SwitchLinks
  <2>2. TorusLink(x).subnet = <<10, 1, TorusOctet(x)>>
        /\ TorusLink(y).subnet = <<10, 1, TorusOctet(y)>>
    <3>1. \A z \in 0 .. 23 : TorusLink(z).subnet = <<10, 1, Octet(TorusOctet(z))>>
      BY OctetKept DEF TorusLink, Link
    <3>2. \A z \in 0 .. 23 : TorusOctet(z) \in 0 .. 255
      BY DEF TorusOctet
    <3>3. \A z \in 0 .. 23 : Octet(TorusOctet(z)) = TorusOctet(z)
      BY <3>2, OctetKept
    <3>4. \A z \in 0 .. 23 : TorusLink(z).subnet = <<10, 1, TorusOctet(z)>>
      BY <3>1, <3>3
    <3> QED BY <2>1, <3>4
  <2>3. TorusOctet(x) = TorusOctet(y) => x = y
    BY <2>1 DEF TorusOctet
  <2> QED BY <2>1, <2>2, <2>3
<1> QED BY <1>1, <1>2, <1>3 DEF Inputs

(* So do links to hosts, which differ from those in the second.             *)
LEMMA HostSubnets ==
  ASSUME Inputs, NEW x \in Hosts, NEW y \in Hosts
  PROVE  /\ HostLink(x).subnet[2] = 0
         /\ HostLink(x).subnet = HostLink(y).subnet => x = y
<1>1. \E a \in {0, 10} : HostLink(x).subnet = <<a, 0, x>> /\ HostLink(y).subnet = <<a, 0, y>>
  <2>1. x \in 0 .. 255 /\ y \in 0 .. 255
    BY DEF Inputs, Hosts
  <2>2. Octet(0) = 0 /\ Octet(10) = 10 /\ Octet(x) = x /\ Octet(y) = y
    BY <2>1, OctetKept
  <2> QED BY <2>2 DEF Inputs, HostLink, Link
<1> QED BY <1>1

(* SubnetsDistinct: no two links of a network share a subnet, although only *)
(* eight bits of each of their numbers are kept, so that the addresses of   *)
(* two interfaces never coincide.                                           *)
THEOREM SubnetsDiffer == Spec => []SubnetsDistinct
<1>1. TopoInv => SubnetsDistinct
  <2> SUFFICES ASSUME TopoInv PROVE SubnetsDistinct
    OBVIOUS
  <2> DEFINE S == {switch_links[x] : x \in DOMAIN switch_links}
             H == {host_links[x] : x \in DOMAIN host_links}
  <2>1. Inputs
    BY DEF TopoInv
  <2>2. \/ switch_links = <<>>
        \/ switch_links = SwitchLinks
    BY DEF TopoInv, Progress
  <2>3. /\ \A x \in DOMAIN switch_links : switch_links[x].subnet[2] = 1
        /\ \A x, y \in DOMAIN switch_links :
             switch_links[x].subnet = switch_links[y].subnet => x = y
    BY <2>1, <2>2, SwitchSubnets
  <2>4. host_links = <<>> \/ host_links = [x \in Attached |-> HostLink(x)]
    BY DEF TopoInv, Progress
  <2>5. /\ \A x \in DOMAIN host_links : host_links[x].subnet[2] = 0
        /\ \A x, y \in DOMAIN host_links :
             host_links[x].subnet = host_links[y].subnet => x = y
    <3>1. Attached \subseteq Hosts
      BY <2>1, AttachedHosts
    <3> QED BY <2>1, <2>4, <3>1, HostSubnets
  <2>6. \A l, m \in Links : l.subnet = m.subnet => l = m
    BY <2>3, <2>5 DEF Links
  <2>7. S \cap H = {}
    BY <2>3, <2>5
  <2>8. IsFiniteSet(DOMAIN switch_links) /\ IsFiniteSet(DOMAIN host_links)
    <3>1. DOMAIN switch_links = {} \/ \E a \in {7, 23} : DOMAIN switch_links = 0 .. a
      <4>1. CASE switch_links = <<>>
        BY <4>1
      <4>2. CASE switch_links = SwitchLinks /\ topology = "-s"
        BY <4>2 DEF SwitchLinks
      <4>3. CASE switch_links = SwitchLinks /\ topology = "-f"
        BY <4>3 DEF SwitchLinks
      <4>4. CASE switch_links = SwitchLinks /\ topology = "-d"
        BY <4>4 DEF SwitchLinks
      <4> QED BY <2>1, <2>2, <4>1, <4>2, <4>3, <4>4 DEF Inputs
    <3>2. DOMAIN host_links = {} \/ DOMAIN host_links = Attached
      BY <2>4
    <3>3. PICK h \in 0 .. leaf_nodes : Attached = 0 .. h - 1
      BY <2>1, AttachedHosts
    <3>4. h - 1 \in Int
      BY <2>1 DEF Inputs
    <3>5. IsFiniteSet({})
      BY FS_EmptySet
    <3>6. \A a, b \in Int : IsFiniteSet(a .. b)
      BY FS_Interval
    <3>7. \A a \in {7, 23} : IsFiniteSet(0 .. a)
      BY <3>6
    <3>8. IsFiniteSet(Attached)
      BY <3>3, <3>4, <3>6
    <3> QED BY <3>1, <3>2, <3>5, <3>7, <3>8
  <2>9. /\ IsFiniteSet(S) /\ Cardinality(S) = Cardinality(DOMAIN switch_links)
        /\ IsFiniteSet(H) /\ Cardinality(H) = Cardinality(DOMAIN host_links)
    BY <2>3, <2>5, <2>8, ImageCardinality
  <2>10. Links = S \cup H
    BY DEF Links
  <2> HIDE DEF S, H
  <2>11. Cardinality(Links) = Cardinality(S) + Cardinality(H)
    <3>1. Cardinality(S \cup H) = Cardinality(S) + Cardinality(H) - Cardinality({})
      BY <2>7, <2>9, FS_Union
    <3>2. Cardinality(S) \in Nat /\ Cardinality(H) \in Nat /\ Cardinality({}) = 0
      BY <2>9, FS_CardinalityType, FS_EmptySet
    <3> QED BY <2>10, <3>1, <3>2
  <2> QED BY <2>6, <2>9, <2>11 DEF SubnetsDistinct
<1> QED BY <1>1, TopoInvariant, PTL

-----------------------------------------------------------------------------
(* The switches that a loop of DD_tour joins, the lower number first.       *)
Joined(x, y) == \/ y = x + 4
                \/ y = x + 1 /\ x \in {0, 2, 4, 6}
                \/ y = x + 2 /\ x \in {0, 1, 4, 5}

(* And the first of the two links that join them.                           *)
JoinedBy(x, y) == IF y = x + 4 THEN x
                  ELSE IF y = x + 1 THEN 4 + (x \div 2)
                  ELSE IF x < 2 THEN x + 8 ELSE x + 6

(* The table of the torus, family by family (main.cpp:1256-1303).           *)
LEMMA EndsTable ==
  ASSUME NEW e \in 0 .. 11
  PROVE  /\ e \in 0 .. 3 => TorusEnds(e) = <<e, e + 4>>
         /\ e \in 4 .. 7 => TorusEnds(e) = <<2 * (e - 4), 2 * (e - 4) + 1>>
         /\ e \in 8 .. 9 => TorusEnds(e) = <<e - 8, e - 6>>
         /\ e \in 10 .. 11 => TorusEnds(e) = <<e - 6, e - 4>>
BY DEF TorusEnds

(* Each link goes from a switch to one with a higher number.                *)
LEMMA EndsInOrder ==
  ASSUME NEW e \in 0 .. 11
  PROVE  \E x, y \in 0 .. 7 : TorusEnds(e) = <<x, y>> /\ x < y
<1>1. CASE e \in 0 .. 3
  BY <1>1, EndsTable
<1>2. CASE e \in 4 .. 7
  <2>1. 2 * (e - 4) \in 0 .. 7 /\ 2 * (e - 4) + 1 \in 0 .. 7
    BY <1>2
  <2> QED BY <1>2, <2>1, EndsTable
<1>3. CASE e \in 8 .. 9
  BY <1>3, EndsTable
<1>4. CASE e \in 10 .. 11
  BY <1>4, EndsTable
<1> QED BY <1>1, <1>2, <1>3, <1>4

(* Two switches that are joined have one entry in the table, and others none.*)
LEMMA OneLinkEach ==
  ASSUME NEW x \in 0 .. 7, NEW y \in 0 .. 7, x < y, NEW e \in 0 .. 11
  PROVE  TorusEnds(e) = <<x, y>> <=> Joined(x, y) /\ e = JoinedBy(x, y)
<1>1. CASE e \in 0 .. 3
  BY <1>1, EndsTable DEF Joined, JoinedBy
<1>2. CASE e \in 4 .. 7
  BY <1>2, EndsTable DEF Joined, JoinedBy
<1>3. CASE e \in 8 .. 9
  BY <1>3, EndsTable DEF Joined, JoinedBy
<1>4. CASE e \in 10 .. 11
  BY <1>4, EndsTable DEF Joined, JoinedBy
<1> QED BY <1>1, <1>2, <1>3, <1>4

(* That entry is in the table.                                              *)
LEMMA JoinedByIs ==
  ASSUME NEW x \in 0 .. 7, NEW y \in 0 .. 7, Joined(x, y)
  PROVE  JoinedBy(x, y) \in 0 .. 11
BY DEF Joined, JoinedBy

(* Numbers of joined switches differ in one binary digit.                   *)
LEMMA Flips ==
  ASSUME NEW x \in 0 .. 7, NEW y \in 0 .. 7, x < y
  PROVE  Joined(x, y) <=>
           \/ x \div 4 # y \div 4 /\ (x \div 2) % 2 = (y \div 2) % 2 /\ x % 2 = y % 2
           \/ x \div 4 = y \div 4 /\ (x \div 2) % 2 # (y \div 2) % 2 /\ x % 2 = y % 2
           \/ x \div 4 = y \div 4 /\ (x \div 2) % 2 = (y \div 2) % 2 /\ x % 2 # y % 2
BY DEF Joined

(* So do those of neighbours in the cube, whose coordinates they are.       *)
LEMMA AdjacentIs ==
  ASSUME NEW x \in 0 .. 7, NEW y \in 0 .. 7
  PROVE  Adjacent(x, y) <=>
           \/ x \div 4 # y \div 4 /\ (x \div 2) % 2 = (y \div 2) % 2 /\ x % 2 = y % 2
           \/ x \div 4 = y \div 4 /\ (x \div 2) % 2 # (y \div 2) % 2 /\ x % 2 = y % 2
           \/ x \div 4 = y \div 4 /\ (x \div 2) % 2 = (y \div 2) % 2 /\ x % 2 # y % 2
<1> DEFINE D == {k \in 1 .. 3 : Coordinates(x)[k] # Coordinates(y)[k]}
<1>1. /\ 1 \in D <=> x \div 4 # y \div 4
      /\ 2 \in D <=> (x \div 2) % 2 # (y \div 2) % 2
      /\ 3 \in D <=> x % 2 # y % 2
  BY DEF Coordinates
<1>2. D \subseteq {1, 2, 3}
  OBVIOUS
<1>3. Adjacent(x, y) <=> Cardinality(D) = 1
  BY DEF Adjacent
<1> HIDE DEF D
<1>4. IsFiniteSet(D)
  <2>1. D \in SUBSET (1 .. 3)
    BY <1>2
  <2>2. \A a, b \in Int : IsFiniteSet(a .. b)
    BY FS_Interval
  <2>a. 1 \in Int /\ 3 \in Int
    OBVIOUS
  <2>3. IsFiniteSet(1 .. 3)
    BY <2>2, <2>a
  <2> QED BY <2>1, <2>3, FS_Subset
<1>5. Cardinality(D) = 1 <=> \E k : D = {k}
  BY <1>4, FS_Singleton
<1>6. ASSUME NEW k, D = {k} PROVE k \in {1, 2, 3}
  BY <1>2, <1>6
<1>7. ASSUME NEW k \in {1, 2, 3}, k \in D, \A j \in {1, 2, 3} : j # k => j \notin D
      PROVE  D = {k}
  BY <1>2, <1>7
<1>8. CASE Cardinality(D) = 1
  <2>1. PICK k \in {1, 2, 3} : D = {k}
    BY <1>5, <1>6, <1>8
  <2>2. \A j \in {1, 2, 3} : j \in D <=> j = k
    BY <2>1
  <2> QED BY <1>1, <1>3, <1>8, <2>2
<1>9. CASE \E k \in {1, 2, 3} : D = {k}
  BY <1>5, <1>8, <1>9
<1>10. CASE ~ \E k \in {1, 2, 3} : D = {k}
  <2>1. \A k \in {1, 2, 3} : ~ (k \in D /\ \A j \in {1, 2, 3} : j # k => j \notin D)
    BY <1>7, <1>10
  <2>2. Cardinality(D) # 1
    BY <1>5, <1>6, <1>10
  <2> QED BY <1>1, <1>3, <2>1, <2>2
<1> QED BY <1>9, <1>10

(* A link of the torus joins the switches of its entry.                     *)
LEMMA TorusLinkEnds ==
  ASSUME NEW z, NEW a, NEW b, TorusEnds(z % 12) = <<a, b>>
  PROVE  TorusLink(z).ends = <<Edge(a), Edge(b)>>
<1>1. TorusLink(z).ends = <<Edge(TorusEnds(z % 12)[1]), Edge(TorusEnds(z % 12)[2])>>
  BY DEF TorusLink, Link
<1>2. TorusEnds(z % 12)[1] = a /\ TorusEnds(z % 12)[2] = b
  OBVIOUS
<1> QED BY <1>1, <1>2

(* Every entry of the table is linked twice.                                *)
LEMMA LinksJoin ==
  ASSUME Inputs, topology = "-d", switch_links = SwitchLinks,
         NEW x \in 0 .. 7, NEW y \in 0 .. 7, x < y
  PROVE  LinksBetween(Edge(x), Edge(y)) =
           IF Joined(x, y) THEN {JoinedBy(x, y), JoinedBy(x, y) + 12} ELSE {}
<1>1. switch_links = [z \in 0 .. 23 |-> TorusLink(z)]
  BY DEF SwitchLinks
<1>2. ASSUME NEW z \in 0 .. 23
      PROVE  switch_links[z].ends \in {<<Edge(x), Edge(y)>>, <<Edge(y), Edge(x)>>}
               <=> Joined(x, y) /\ z % 12 = JoinedBy(x, y)
  <2>1. z % 12 \in 0 .. 11
    OBVIOUS
  <2>2. PICK a, b \in 0 .. 7 : TorusEnds(z % 12) = <<a, b>> /\ a < b
    BY <2>1, EndsInOrder
  <2>3. switch_links[z].ends = <<Edge(a), Edge(b)>>
    BY <1>1, <2>2, TorusLinkEnds
  <2>4. \A m, n \in 0 .. 7 : Edge(m) = Edge(n) => m = n
    BY DEF Edge
  <2>5. switch_links[z].ends = <<Edge(x), Edge(y)>> <=> a = x /\ b = y
    BY <2>3, <2>4
  <2>6. switch_links[z].ends # <<Edge(y), Edge(x)>>
    BY <2>2, <2>3, <2>4
  <2>7. TorusEnds(z % 12) = <<x, y>> <=> Joined(x, y) /\ z % 12 = JoinedBy(x, y)
    BY <2>1, OneLinkEach
  <2> QED BY <2>2, <2>5, <2>6, <2>7
<1>3. DOMAIN switch_links = 0 .. 23
  BY <1>1
<1>4. LinksBetween(Edge(x), Edge(y)) =
        {z \in 0 .. 23 : Joined(x, y) /\ z % 12 = JoinedBy(x, y)}
  BY <1>2, <1>3 DEF LinksBetween
<1>5. CASE Joined(x, y)
  <2>1. JoinedBy(x, y) \in 0 .. 11
    BY <1>5, JoinedByIs
  <2>2. \A e \in 0 .. 11 : {z \in 0 .. 23 : z % 12 = e} = {e, e + 12}
    OBVIOUS
  <2> QED BY <1>4, <1>5, <2>1, <2>2
<1>6. CASE ~ Joined(x, y)
  BY <1>4, <1>6
<1> QED BY <1>5, <1>6

(* A set of two.                                                            *)
LEMMA PairCardinality ==
  ASSUME NEW a, NEW b, a # b
  PROVE  Cardinality({a, b}) = 2
<1>1. IsFiniteSet({a}) /\ Cardinality({a}) = 1
  BY FS_Singleton
<1>2. Cardinality({a} \cup {b}) = Cardinality({a}) + 1
  BY <1>1, FS_AddElement
<1> QED BY <1>1, <1>2

(* Neighbours have two links between them, other switches none.             *)
LEMMA TorusRegular ==
  ASSUME Inputs, topology = "-d", switch_links = SwitchLinks,
         NEW x \in 0 .. 7, NEW y \in 0 .. 7
  PROVE  Cardinality(LinksBetween(Edge(x), Edge(y))) = IF Adjacent(x, y) THEN 2 ELSE 0
<1>0. Cardinality({}) = 0
  BY FS_EmptySet
<1>1. ASSUME NEW m \in 0 .. 7, NEW n \in 0 .. 7, m < n
      PROVE  Cardinality(LinksBetween(Edge(m), Edge(n))) = IF Adjacent(m, n) THEN 2 ELSE 0
  <2>1. Adjacent(m, n) <=> Joined(m, n)
    BY <1>1, AdjacentIs, Flips
  <2>2. CASE Joined(m, n)
    <3>1. LinksBetween(Edge(m), Edge(n)) = {JoinedBy(m, n), JoinedBy(m, n) + 12}
      BY <1>1, <2>2, LinksJoin
    <3>2. JoinedBy(m, n) # JoinedBy(m, n) + 12
      BY <2>2, JoinedByIs
    <3>3. Cardinality({JoinedBy(m, n), JoinedBy(m, n) + 12}) = 2
      BY <3>2, PairCardinality
    <3>4. Cardinality(LinksBetween(Edge(m), Edge(n))) = 2
      BY <3>1, <3>3
    <3> QED BY <2>1, <2>2, <3>4
  <2>3. CASE ~ Joined(m, n)
    BY <1>0, <1>1, <2>1, <2>3, LinksJoin
  <2> QED BY <2>2, <2>3
<1>2. CASE x < y
  BY <1>1, <1>2
<1>3. CASE y < x
  <2>1. LinksBetween(Edge(x), Edge(y)) = LinksBetween(Edge(y), Edge(x))
    BY DEF LinksBetween
  <2>2. Adjacent(x, y) <=> Adjacent(y, x)
    BY AdjacentIs
  <2> QED BY <1>1, <1>3, <2>1, <2>2
<1>4. CASE x = y
  <2>1. ~ Adjacent(x, y)
    BY <1>4, AdjacentIs
  <2>2. ASSUME NEW z \in LinksBetween(Edge(x), Edge(y)) PROVE FALSE
    <3>1. switch_links = [v \in 0 .. 23 |-> TorusLink(v)]
      BY DEF SwitchLinks
    <3>2. z \in 0 .. 23 /\ switch_links[z].ends = <<Edge(x), Edge(x)>>
      BY <1>4, <3>1 DEF LinksBetween
    <3>3. z % 12 \in 0 .. 11
      BY <3>2
    <3>4. PICK a, b \in 0 .. 7 : TorusEnds(z % 12) = <<a, b>> /\ a < b
      BY <3>3, EndsInOrder
    <3>5. switch_links[z].ends = <<Edge(a), Edge(b)>>
      BY <3>1, <3>2, <3>4, TorusLinkEnds
    <3>6. \A m, n \in 0 .. 7 : Edge(m) = Edge(n) => m = n
      BY DEF Edge
    <3> QED BY <3>2, <3>4, <3>5, <3>6
  <2>3. LinksBetween(Edge(x), Edge(y)) = {}
    BY <2>2
  <2> QED BY <1>0, <2>1, <2>3
<1> QED BY <1>2, <1>3, <1>4

(* An aggregation switch has one link to each edge switch.                  *)
LEMMA FatTreeRegular ==
  ASSUME Inputs, topology = "-f", switch_links = SwitchLinks,
         NEW x \in 0 .. 1, NEW y \in 0 .. 3
  PROVE  Cardinality(LinksBetween(Agg(x), Edge(y))) = 1
<1>1. switch_links = [z \in 0 .. 7 |-> FatTreeLink(z)]
  BY DEF SwitchLinks
<1>2. \A z \in 0 .. 7 : switch_links[z].ends = <<Agg(z \div 4), Edge(z % 4)>>
  BY <1>1 DEF FatTreeLink, Link
<1>3. \A a, b, c, d \in Nat : /\ <<Agg(a), Edge(b)>> = <<Agg(c), Edge(d)>> <=> a = c /\ b = d
                              /\ <<Agg(a), Edge(b)>> # <<Edge(d), Agg(c)>>
  BY DEF Agg, Edge
<1>4. ASSUME NEW z \in 0 .. 7
      PROVE  z \in LinksBetween(Agg(x), Edge(y)) <=> z = 4 * x + y
  <2>1. z \div 4 \in Nat /\ z % 4 \in Nat /\ x \in Nat /\ y \in Nat
    OBVIOUS
  <2>a. switch_links[z].ends = <<Agg(x), Edge(y)>> <=> z \div 4 = x /\ z % 4 = y
    <3>1. <<Agg(z \div 4), Edge(z % 4)>> = <<Agg(x), Edge(y)>>
            <=> z \div 4 = x /\ z % 4 = y
      BY <1>3, <2>1
    <3> QED BY <1>2, <3>1
  <2>b. switch_links[z].ends # <<Edge(y), Agg(x)>>
    BY <1>2, <1>3, <2>1
  <2>c. z \in DOMAIN switch_links
    BY <1>1
  <2>2. z \in LinksBetween(Agg(x), Edge(y)) <=> z \div 4 = x /\ z % 4 = y
    BY <2>a, <2>b, <2>c DEF LinksBetween
  <2>3. z \div 4 = x /\ z % 4 = y <=> z = 4 * x + y
    OBVIOUS
  <2> QED BY <2>2, <2>3
<1>5. LinksBetween(Agg(x), Edge(y)) \subseteq 0 .. 7
  BY <1>1 DEF LinksBetween
<1>6. 4 * x + y \in 0 .. 7
  OBVIOUS
<1>7. LinksBetween(Agg(x), Edge(y)) = {4 * x + y}
  BY <1>4, <1>5, <1>6
<1> QED BY <1>7, FS_Singleton

(* What the switches of a built network are like.                           *)
LEMMA Regular ==
  ASSUME TopoInv
  PROVE  SwitchesRegular
<1>1. pc = "built" => Inputs /\ switch_links = SwitchLinks
  BY DEF TopoInv, Progress
<1> QED BY <1>1, TorusRegular, FatTreeRegular DEF SwitchesRegular

-----------------------------------------------------------------------------
(* The rounds of Within, one by one.                                        *)
Round1(x) == Grown({x})
Round2(x) == Grown(Round1(x))
Round3(x) == Grown(Round2(x))
Round4(x) == Grown(Round3(x))
Round5(x) == Grown(Round4(x))
Rounds(k, x) == IF k = 0 THEN {x} ELSE IF k = 1 THEN Round1(x) ELSE IF k = 2 THEN Round2(x)
                ELSE IF k = 3 THEN Round3(x) ELSE IF k = 4 THEN Round4(x) ELSE Round5(x)

(* Each round grows what the one before has found.                          *)
LEMMA RoundsGrow ==
  ASSUME NEW k \in 0 .. 5, NEW x
  PROVE  Rounds(k, x) = IF k = 0 THEN {x} ELSE Grown(Rounds(k - 1, x))
<1>1. CASE k = 0
  BY <1>1 DEF Rounds
<1>2. CASE k = 1
  BY <1>2 DEF Rounds, Round1
<1>3. CASE k = 2
  BY <1>3 DEF Rounds, Round2
<1>4. CASE k = 3
  BY <1>4 DEF Rounds, Round3
<1>5. CASE k = 4
  BY <1>5 DEF Rounds, Round4
<1>6. CASE k = 5
  BY <1>6 DEF Rounds, Round5
<1> QED BY <1>1, <1>2, <1>3, <1>4, <1>5, <1>6

(* The recursive function of Within exists, and has these rounds as values. *)
LEMMA WithinRounds ==
  ASSUME NEW k \in 0 .. 5, NEW x
  PROVE  Within(k, x) = Rounds(k, x)
<1> DEFINE Following(f) == [m \in 0 .. k |-> IF m = 0 THEN {x} ELSE Grown(f[m - 1])]
           w == [m \in 0 .. k |-> Rounds(m, x)]
           near == CHOOSE f : f = Following(f)
<1>1. \A m \in 0 .. k : m # 0 => m - 1 \in 0 .. k
  OBVIOUS
<1>2. \A m \in 0 .. k : w[m] = IF m = 0 THEN {x} ELSE Grown(w[m - 1])
  BY <1>1, RoundsGrow
<1>3. w = Following(w)
  BY <1>2
<1>4. near = Following(near)
  BY <1>3
<1>5. Within(k, x) = near[k]
  BY DEF Within
<1>6. \A m \in 0 .. k : near[m] = IF m = 0 THEN {x} ELSE Grown(near[m - 1])
  BY <1>4
<1> HIDE DEF near, Following, w
<1>7. \A m \in 0 .. k : m # 0 /\ near[m - 1] = Rounds(m - 1, x) => near[m] = Rounds(m, x)
  BY <1>6, RoundsGrow
<1>8. near[0] = Rounds(0, x)
  BY <1>6 DEF Rounds
<1>9. 1 <= k => near[1] = Rounds(1, x)
  BY <1>7, <1>8
<1>10. 2 <= k => near[2] = Rounds(2, x)
  BY <1>7, <1>9
<1>11. 3 <= k => near[3] = Rounds(3, x)
  BY <1>7, <1>10
<1>12. 4 <= k => near[4] = Rounds(4, x)
  BY <1>7, <1>11
<1>13. 5 <= k => near[5] = Rounds(5, x)
  BY <1>7, <1>12
<1> QED BY <1>5, <1>8, <1>9, <1>10, <1>11, <1>12, <1>13

(* Two nodes at the ends of one link.                                       *)
Linked(x, y) == \E l \in Links : l.ends = <<x, y>> \/ l.ends = <<y, x>>

(* A search that has found a node finds its neighbours next.                *)
LEMMA GrownAlong ==
  ASSUME NEW S, NEW x \in S, NEW y, Linked(x, y)
  PROVE  y \in Grown(S)
<1>1. PICK l \in Links : l.ends = <<x, y>> \/ l.ends = <<y, x>>
  BY DEF Linked
<1>2. x \in {l.ends[1], l.ends[2]} /\ y \in {l.ends[1], l.ends[2]}
  BY <1>1
<1>3. y \in Neighbours(x)
  BY <1>2 DEF Neighbours
<1> QED BY <1>3 DEF Grown

(* It keeps what it has found.                                              *)
LEMMA GrownKeeps ==
  ASSUME NEW S
  PROVE  S \subseteq Grown(S)
BY DEF Grown

(* A built network whose size fits, and what its links are.                 *)
Built == TopoInv /\ pc = "built" /\ Fits

(* Every host is linked with the hub, or with the edge switch of its group. *)
LEMMA HostsLinked ==
  ASSUME Built, NEW x \in Hosts
  PROVE  /\ topology = "-s" => Linked(Host(x), Hub)
         /\ topology = "-f" => Linked(Edge(x % 4), Host(x))
         /\ topology = "-d" => Linked(Edge(x % 8), Host(x))
<1>1. Inputs /\ host_links = [y \in Attached |-> HostLink(y)]
  BY DEF Built, TopoInv, Progress
<1>2. Attached = Hosts
  BY <1>1, AttachedHosts DEF Built
<1>3. host_links[x] = HostLink(x) /\ HostLink(x) \in Links
  BY <1>1, <1>2 DEF Links
<1>4. /\ topology = "-s" => HostLink(x).ends = <<Host(x), Hub>>
      /\ topology = "-f" => HostLink(x).ends = <<Edge(x % 4), Host(x)>>
      /\ topology = "-d" => HostLink(x).ends = <<Edge(x % 8), Host(x)>>
  BY DEF HostLink, Link
<1> QED BY <1>3, <1>4 DEF Linked

(* Links go both ways.                                                      *)
LEMMA LinkedBack ==
  ASSUME NEW x, NEW y, Linked(x, y)
  PROVE  Linked(y, x)
BY DEF Linked

(* The first aggregation switch is linked with every edge switch.           *)
LEMMA LevelsLinked ==
  ASSUME Built, topology = "-f", NEW y \in 0 .. 3
  PROVE  Linked(Agg(0), Edge(y))
<1>1. switch_links = [z \in 0 .. 7 |-> FatTreeLink(z)]
  BY DEF Built, TopoInv, Progress, SwitchLinks
<1>2. y \in 0 .. 7 /\ y \div 4 = 0 /\ y % 4 = y
  OBVIOUS
<1>3. switch_links[y] \in Links /\ switch_links[y].ends = <<Agg(0), Edge(y)>>
  BY <1>1, <1>2 DEF Links, FatTreeLink, Link
<1> QED BY <1>3 DEF Linked

(* Switches that the table joins are linked.                                *)
LEMMA CornersLinked ==
  ASSUME Built, topology = "-d", NEW x \in 0 .. 7, NEW y \in 0 .. 7, Joined(x, y)
  PROVE  Linked(Edge(x), Edge(y))
<1> DEFINE e == JoinedBy(x, y)
<1>1. switch_links = [z \in 0 .. 23 |-> TorusLink(z)]
  BY DEF Built, TopoInv, Progress, SwitchLinks
<1>2. e \in 0 .. 11
  BY JoinedByIs
<1>3. x < y
  BY DEF Joined
<1>4. TorusEnds(e) = <<x, y>>
  BY <1>2, <1>3, OneLinkEach
<1> HIDE DEF e
<1>5. e \in 0 .. 23 /\ e % 12 = e
  BY <1>2
<1>6. switch_links[e] \in Links /\ switch_links[e] = TorusLink(e)
  BY <1>1, <1>5 DEF Links
<1>7. TorusLink(e).ends = <<Edge(x), Edge(y)>>
  BY <1>4, <1>5 DEF TorusLink, Link
<1> QED BY <1>6, <1>7 DEF Linked

(* A search that has found the corners in T finds those across too.         *)
LEMMA FlipsFound ==
  ASSUME Built, topology = "-d", NEW S, NEW T \in SUBSET (0 .. 7),
         \A x \in T : Edge(x) \in S,
         NEW y \in 0 .. 7, \/ y \in T
                           \/ \E x \in T : Joined(x, y) \/ Joined(y, x)
  PROVE  Edge(y) \in Grown(S)
<1>1. CASE y \in T
  BY <1>1, GrownKeeps
<1>2. CASE \E x \in T : Joined(x, y) \/ Joined(y, x)
  <2>1. PICK x \in T : Joined(x, y) \/ Joined(y, x)
    BY <1>2
  <2>2. Linked(Edge(x), Edge(y))
    BY <2>1, CornersLinked, LinkedBack
  <2> QED BY <2>1, <2>2, GrownAlong
<1> QED BY <1>1, <1>2

(* Host, hub, host.                                                         *)
LEMMA StarConnected ==
  ASSUME Built, topology = "-s", NEW s \in Hosts, NEW d \in Hosts
  PROVE  Host(d) \in Within(Diameter, Host(s))
<1>1. Hub \in Round1(Host(s))
  BY HostsLinked, GrownAlong DEF Round1
<1>2. Linked(Hub, Host(d))
  BY HostsLinked, LinkedBack
<1>3. Host(d) \in Round2(Host(s))
  BY <1>1, <1>2, GrownAlong DEF Round2
<1>4. Diameter = 2
  BY DEF Diameter
<1>5. Within(2, Host(s)) = Rounds(2, Host(s))
  BY WithinRounds
<1> QED BY <1>3, <1>4, <1>5 DEF Rounds

(* Host, edge switch, aggregation switch, edge switch, host.                *)
LEMMA FatTreeConnected ==
  ASSUME Built, topology = "-f", NEW s \in Hosts, NEW d \in Hosts
  PROVE  Host(d) \in Within(Diameter, Host(s))
<1>0. s % 4 \in 0 .. 3 /\ d % 4 \in 0 .. 3
  BY DEF Hosts
<1>1. Edge(s % 4) \in Round1(Host(s))
  <2>1. Linked(Host(s), Edge(s % 4))
    BY HostsLinked, LinkedBack
  <2> QED BY <2>1, GrownAlong DEF Round1
<1>2. Agg(0) \in Round2(Host(s))
  <2>1. Linked(Edge(s % 4), Agg(0))
    BY <1>0, LevelsLinked, LinkedBack
  <2> QED BY <1>1, <2>1, GrownAlong DEF Round2
<1>3. Edge(d % 4) \in Round3(Host(s))
  <2>1. Linked(Agg(0), Edge(d % 4))
    BY <1>0, LevelsLinked
  <2> QED BY <1>2, <2>1, GrownAlong DEF Round3
<1>4. Host(d) \in Round4(Host(s))
  <2>1. Linked(Edge(d % 4), Host(d))
    BY HostsLinked
  <2> QED BY <1>3, <2>1, GrownAlong DEF Round4
<1>5. Diameter = 4
  BY DEF Diameter
<1>6. Within(4, Host(s)) = Rounds(4, Host(s))
  BY WithinRounds
<1> QED BY <1>4, <1>5, <1>6 DEF Rounds

(* One dimension at a time: in three rounds a search that starts at a       *)
(* switch finds all eight.                                                  *)
LEMMA TorusConnected ==
  ASSUME Built, topology = "-d", NEW s \in Hosts, NEW d \in Hosts
  PROVE  Host(d) \in Within(Diameter, Host(s))
<1> DEFINE a == s % 8
           column == {x \in 0 .. 7 : x % 4 = a % 4}
           plane == {x \in 0 .. 7 : x % 2 = a % 2}
<1>0. a \in 0 .. 7 /\ d % 8 \in 0 .. 7
  BY DEF Hosts
<1>1. Edge(a) \in Round1(Host(s))
  <2>1. Linked(Host(s), Edge(a))
    BY HostsLinked, LinkedBack
  <2> QED BY <2>1, GrownAlong DEF Round1
<1> HIDE DEF a
<1>2. \A y \in column : Edge(y) \in Round2(Host(s))
  <2>1. ASSUME NEW y \in column
        PROVE  y \in {a} \/ \E x \in {a} : Joined(x, y) \/ Joined(y, x)
    BY <1>0 DEF Joined
  <2>2. {a} \in SUBSET (0 .. 7) /\ \A x \in {a} : Edge(x) \in Round1(Host(s))
    BY <1>0, <1>1
  <2> QED BY <2>1, <2>2, FlipsFound DEF Round2
<1>3. \A y \in plane : Edge(y) \in Round3(Host(s))
  <2>1. ASSUME NEW y \in plane
        PROVE  y \in column \/ \E x \in column : Joined(x, y) \/ Joined(y, x)
    <3>1. CASE y % 4 = a % 4
      BY <3>1
    <3>2. CASE y % 4 # a % 4 /\ y % 4 < 2
      <4>1. y + 2 \in column /\ Joined(y, y + 2)
        BY <1>0, <3>2 DEF Joined
      <4> QED BY <4>1
    <3>3. CASE y % 4 # a % 4 /\ y % 4 >= 2
      <4>1. y - 2 \in column /\ Joined(y - 2, y)
        BY <1>0, <3>3 DEF Joined
      <4> QED BY <4>1
    <3> QED BY <3>1, <3>2, <3>3
  <2>2. column \in SUBSET (0 .. 7)
    OBVIOUS
  <2> QED BY <1>2, <2>1, <2>2, FlipsFound DEF Round3
<1>4. \A y \in 0 .. 7 : Edge(y) \in Round4(Host(s))
  <2>1. ASSUME NEW y \in 0 .. 7
        PROVE  y \in plane \/ \E x \in plane : Joined(x, y) \/ Joined(y, x)
    <3>1. CASE y % 2 = a % 2
      BY <3>1
    <3>2. CASE y % 2 # a % 2 /\ y % 2 = 0
      <4>1. y + 1 \in plane /\ Joined(y, y + 1)
        BY <1>0, <3>2 DEF Joined
      <4> QED BY <4>1
    <3>3. CASE y % 2 # a % 2 /\ y % 2 = 1
      <4>1. y - 1 \in plane /\ Joined(y - 1, y)
        BY <1>0, <3>3 DEF Joined
      <4> QED BY <4>1
    <3> QED BY <3>1, <3>2, <3>3
  <2>2. plane \in SUBSET (0 .. 7)
    OBVIOUS
  <2> QED BY <1>3, <2>1, <2>2, FlipsFound DEF Round4
<1>5. Host(d) \in Round5(Host(s))
  <2>1. Linked(Edge(d % 8), Host(d))
    BY HostsLinked
  <2> QED BY <1>0, <1>4, <2>1, GrownAlong DEF Round5
<1>6. Diameter = 5
  BY DEF Diameter
<1>7. Within(5, Host(s)) = Rounds(5, Host(s))
  BY WithinRounds
<1> QED BY <1>5, <1>6, <1>7 DEF Rounds

(* Wired: the switches of a torus and of a fat tree are joined as the       *)
(* names promise, and every flow of the matrix has a path as short as that. *)
THEOREM NetworksWired == Spec => []Wired
<1>1. TopoInv => HostsConnected
  <2> SUFFICES ASSUME TopoInv, pc = "built", Fits, NEW s \in Hosts, NEW d \in Hosts
               PROVE  Host(d) \in Within(Diameter, Host(s))
    BY DEF HostsConnected
  <2>1. Built /\ topology \in {"-s", "-f", "-d"}
    BY DEF Built, TopoInv, Inputs
  <2> QED BY <2>1, StarConnected, FatTreeConnected, TorusConnected
<1>2. TopoInv => Wired
  BY <1>1, Regular DEF Wired
<1> QED BY <1>2, TopoInvariant, PTL
=============================================================================
