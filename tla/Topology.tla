------------------------------ MODULE Topology ------------------------------
(***************************************************************************)
(* The networks that are simulated: what star, fat_tree and DD_tour        *)
(* (main.cpp) put together before Simulator::Run.  The three are given the *)
(* same matrix and have to agree on what its cells mean; they differ in    *)
(* the switches, in the order of their steps, and in the arithmetic that   *)
(* tells a cell's sender and receiver and a probe's queue.                 *)
(*                                                                         *)
(* A link joins two nodes and has a subnet of its own; each end of it has  *)
(* an address and a queue.  A loop of the code that puts one thing after   *)
(* the other into an array is one action.                                  *)
(***************************************************************************)
EXTENDS Integers, FiniteSetsExt

CONSTANT Sizes  \* values of leaf_nodes: 4, and the 64 of the comment at line 249

(* A row of ptr2_phase_data has 50000 elements; the cells of all flows go    *)
(* into it, with two bounds before them and six results after.              *)
FitsRow(L) == L * L + 8 <= 50000

ASSUME ConstantsAssumption == Sizes \subseteq {L \in Nat \ {0} : FitsRow(L)}

VARIABLES
  topology, leaf_nodes,
  cells,         \* the cells of the matrix that are not zero
  switch_links,  \* agg_edge, or edge_edge followed by edge_edge_t
  host_links,    \* dev, or edge_host
  sinks,         \* hosts with a PacketSink
  spokeApps,     \* flow -> its sender and the address it sends to
  queue, queue_s,  \* the probed ends of the host links, and of the others
  pc

vars == <<topology, leaf_nodes, cells, switch_links, host_links, sinks,
          spokeApps, queue, queue_s, pc>>

Hub     == <<"hub", 0>>
Host(x) == <<"host", x>>
Edge(x) == <<"edge", x>>
Agg(x)  == <<"agg", x>>

Hosts == 0 .. leaf_nodes - 1
Flows == 0 .. leaf_nodes * leaf_nodes - 1

(* ns-3 keeps each number of an address in eight bits.                      *)
Octet(x) == x % 256

(* A link between x and y, with the subnet a.b.c.0.                         *)
Link(x, y, a, b, c) == [ends |-> <<x, y>>, subnet |-> <<Octet(a), Octet(b), Octet(c)>>]

(* Column of the traffic from host s to host d, after the two bounds.       *)
Cell(s, d) == leaf_nodes * s + d

(* Traffic is none, that of all hosts, from one to all, or from all to one. *)
Init ==
  /\ topology \in {"-s", "-f", "-d"} /\ leaf_nodes \in Sizes
  /\ \/ cells \in {{}, Flows}
     \/ \E s \in Hosts : cells = {Cell(s, d) : d \in Hosts}
     \/ \E d \in Hosts : cells = {Cell(s, d) : s \in Hosts}
  /\ switch_links = <<>> /\ host_links = <<>> /\ sinks = {}
  /\ spokeApps = <<>> /\ queue = <<>> /\ queue_s = <<>>
  /\ pc = "switches"

-----------------------------------------------------------------------------
(* Seeded fault: the edge switches are dealt out to the aggregation ones.   *)
FatTreeLinkSplit(x) == Link(Agg(x \div 4), Edge(x \div 2), 10, 1, x)

(* Each of two aggregation switches is linked with each edge switch.        *)
FatTreeLink(x) == Link(Agg(x \div 4), Edge(x % 4), 10, 1, x)

(* Three loops link neighbours along one dimension each; in the last, two   *)
(* links are made at a time.                                                *)
TorusEnds(x) ==
  CASE x \in 0 .. 3   -> <<x, x + 4>>
    [] x \in 4 .. 7   -> <<2 * (x - 4), 2 * (x - 4) + 1>>
    [] x \in 8 .. 9   -> <<x - 8, x - 6>>
    [] x \in 10 .. 11 -> <<x - 6, x - 4>>

(* Seeded fault: the second family is numbered on from the wrong place.     *)
TorusOctetOverlapping(x) == IF x < 12 THEN x ELSE x - 1

(* All are made twice, the second time with subnets from 13 on.             *)
TorusOctet(x) == IF x < 12 THEN x ELSE (x - 12) + 13

TorusLink(x) ==
  LET ends == TorusEnds(x % 12)
  IN  Link(Edge(ends[1]), Edge(ends[2]), 10, 1, TorusOctet(x))

LinkSwitches ==
  /\ pc = "switches"
  /\ switch_links' = CASE topology = "-s" -> <<>>
                       [] topology = "-f" -> [x \in 0 .. 7 |-> FatTreeLink(x)]
                       [] topology = "-d" -> [x \in 0 .. 23 |-> TorusLink(x)]
  /\ pc' = "hosts"
  /\ UNCHANGED <<topology, leaf_nodes, cells, host_links, sinks, spokeApps, queue, queue_s>>

(* Seeded fault: the last group of hosts is left out.                       *)
HostLoopsShort(x) == (leaf_nodes - 1) \div x

HostLoops(x) == leaf_nodes \div x

(* Hosts that are attached: all, or in groups of four, or of eight.         *)
Attached ==
  CASE topology = "-s" -> 0 .. leaf_nodes - 1
    [] topology = "-f" -> 0 .. 4 * HostLoops(4) - 1
    [] topology = "-d" -> 0 .. 8 * HostLoops(8) - 1

HostLink(x) ==
  CASE topology = "-s" -> Link(Host(x), Hub, 0, 0, x)
    [] topology = "-f" -> Link(Edge(x % 4), Host(x), 10, 0, x)
    [] topology = "-d" -> Link(Edge(x % 8), Host(x), 10, 0, x)

(* The star has its probes after its applications, the others before.       *)
AttachHosts ==
  /\ pc = "hosts"
  /\ host_links' = [x \in Attached |-> HostLink(x)]
  /\ pc' = IF topology = "-s" THEN "sinks" ELSE "probes"
  /\ UNCHANGED <<topology, leaf_nodes, cells, switch_links, sinks, spokeApps, queue, queue_s>>

-----------------------------------------------------------------------------
InstallSinks ==
  /\ pc = "sinks"
  /\ sinks' = Attached
  /\ pc' = "senders"
  /\ UNCHANGED <<topology, leaf_nodes, cells, switch_links, host_links, spokeApps, queue, queue_s>>

(* The star's own constant is 4 where the others have leaf_nodes.           *)
Stride == IF topology = "-s" THEN 4 ELSE leaf_nodes

(* A host is the first end of its link in the star, the second elsewhere.   *)
HostEnd == IF topology = "-s" THEN 1 ELSE 2

(* Seeded fault: sender and receiver are swapped.                           *)
SenderTransposed(q) == q % Stride

Sender(q) == q \div Stride

Receiver(q) == q % Stride

(* The star has an array for 16 senders, the others one for all flows.      *)
SenderFits(q) ==
  /\ topology = "-s" => q < 16
  /\ Sender(q) \in Hosts /\ Receiver(q) \in DOMAIN host_links

SendersFit == cells \subseteq {q \in Flows : SenderFits(q)}

InstallSenders ==
  /\ pc = "senders" /\ SendersFit
  /\ spokeApps' = [q \in cells |->
       [from |-> Host(Sender(q)),
        Remote |-> <<host_links[Receiver(q)].subnet, HostEnd>>]]
  /\ pc' = IF topology = "-s" THEN "probes" ELSE "built"
  /\ UNCHANGED <<topology, leaf_nodes, cells, switch_links, host_links, sinks, queue, queue_s>>

SenderMissing ==
  /\ pc = "senders" /\ ~ SendersFit
  /\ pc' = "fault"
  /\ UNCHANGED <<topology, leaf_nodes, cells, switch_links, host_links, sinks,
                 spokeApps, queue, queue_s>>

-----------------------------------------------------------------------------
(* Seeded fault: the second half of the torus probes the first links again. *)
QueueEndFolded(x) == <<(x % 24) \div 2, x % 2>>

(* The queue that a probe reads: a link, and an end of it.                  *)
QueueEnd(x) == <<x \div 2, x % 2>>

SwitchQueues == CASE topology = "-s" -> {}
                  [] topology = "-f" -> 0 .. 15
                  [] topology = "-d" -> 0 .. 47

ProbesFit == \A x \in 0 .. 2 * leaf_nodes - 1 : QueueEnd(x)[1] \in DOMAIN host_links

ScheduleProbes ==
  /\ pc = "probes" /\ ProbesFit
  /\ queue' = [x \in 0 .. 2 * leaf_nodes - 1 |-> QueueEnd(x)]
  /\ queue_s' = [x \in SwitchQueues |-> QueueEnd(x)]
  /\ pc' = IF topology = "-s" THEN "built" ELSE "sinks"
  /\ UNCHANGED <<topology, leaf_nodes, cells, switch_links, host_links, sinks, spokeApps>>

(* The queues of a host that was not attached do not exist.                 *)
QueueMissing ==
  /\ pc = "probes" /\ ~ ProbesFit
  /\ pc' = "fault"
  /\ UNCHANGED <<topology, leaf_nodes, cells, switch_links, host_links, sinks,
                 spokeApps, queue, queue_s>>

Next == \/ LinkSwitches \/ AttachHosts \/ InstallSinks \/ InstallSenders
        \/ SenderMissing \/ ScheduleProbes \/ QueueMissing

Spec == Init /\ [][Next]_vars

-----------------------------------------------------------------------------
(* Properties.                                                              *)

Nodes ==
  {Hub} \cup {Host(x) : x \in Hosts} \cup {Edge(x) : x \in 0 .. 7} \cup {Agg(x) : x \in 0 .. 1}

Links == {switch_links[x] : x \in DOMAIN switch_links}
           \cup {host_links[x] : x \in DOMAIN host_links}

(* Sizes a network can be built for: the star has constants for four hosts, *)
(* the other two attach theirs in groups.                                   *)
Fits == CASE topology = "-s" -> leaf_nodes = 4
          [] topology = "-f" -> leaf_nodes % 4 = 0
          [] topology = "-d" -> leaf_nodes % 8 = 0

(* For these sizes no array is left and no missing queue, interface or node *)
(* is asked for, whatever the traffic; and a size the loops over groups of  *)
(* hosts leave a remainder of never passes for a smaller network.           *)
SizeDecides ==
  /\ Fits => pc # "fault"
  /\ topology # "-s" /\ pc = "built" => Fits

(* No two links share a subnet, in the eight bits that are left of their    *)
(* numbers: addresses are unique, where ns-3 would end the program with     *)
(* "Address Collision", and routes to them unambiguous.                     *)
SubnetsDistinct ==
  /\ \A l, m \in Links : l.subnet = m.subnet => l = m
  /\ pc = "built" => Cardinality(Links) = Cardinality(DOMAIN switch_links)
                                           + Cardinality(DOMAIN host_links)

(* The cell of host s and host d becomes one sender on s with the address   *)
(* of d, where a sink listens; a cell that is zero becomes none.            *)
FlowsFollowTheMatrix ==
  pc = "built" /\ Fits =>
    \A s, d \in Hosts :
      IF Cell(s, d) \in cells
      THEN LET app == spokeApps[Cell(s, d)]
           IN  /\ app.from = Host(s) /\ d \in sinks
               /\ \E l \in Links : l.subnet = app.Remote[1]
                                   /\ l.ends[app.Remote[2]] = Host(d)
      ELSE Cell(s, d) \notin DOMAIN spokeApps

(* Each queue of the network is probed, and by one probe: figures are       *)
(* neither missing nor counted twice.                                       *)
EachQueueProbedOnce ==
  pc = "built" =>
    /\ \A x, y \in DOMAIN queue : queue[x] = queue[y] => x = y
    /\ \A x, y \in DOMAIN queue_s : queue_s[x] = queue_s[y] => x = y
    /\ {queue[x] : x \in DOMAIN queue} = (DOMAIN host_links) \X {0, 1}
    /\ {queue_s[x] : x \in DOMAIN queue_s} = (DOMAIN switch_links) \X {0, 1}

Neighbours(x) == UNION {{l.ends[1], l.ends[2]} : l \in {m \in Links : x \in {m.ends[1], m.ends[2]}}}

LinksBetween(x, y) ==
  {z \in DOMAIN switch_links : switch_links[z].ends \in {<<x, y>>, <<y, x>>}}

(* Edge switches are the corners of a cube: neighbours differ in one        *)
(* coordinate.                                                              *)
Coordinates(x) == <<x \div 4, (x \div 2) % 2, x % 2>>

Adjacent(x, y) ==
  Cardinality({k \in 1 .. 3 : Coordinates(x)[k] # Coordinates(y)[k]}) = 1

(* The three loops over the links of DD_tour make a torus of two switches   *)
(* per dimension: neighbours, and only they, are joined, once in each       *)
(* direction round.  Those of fat_tree join each pair of levels once.       *)
SwitchesRegular ==
  /\ pc = "built" /\ topology = "-d" =>
       \A x, y \in 0 .. 7 :
         Cardinality(LinksBetween(Edge(x), Edge(y))) = IF Adjacent(x, y) THEN 2 ELSE 0
  /\ pc = "built" /\ topology = "-f" =>
       \A x \in 0 .. 1, y \in 0 .. 3 : Cardinality(LinksBetween(Agg(x), Edge(y))) = 1

(* Links a packet takes at most.                                            *)
Diameter == CASE topology = "-s" -> 2 [] topology = "-f" -> 4 [] topology = "-d" -> 5

(* What a set of nodes has grown to, one link further.                      *)
Grown(S) == S \cup UNION {Neighbours(y) : y \in S}

(* Nodes that are at most k links from x.                                   *)
Within(k, x) ==
  LET near[m \in 0 .. k] == IF m = 0 THEN {x} ELSE Grown(near[m - 1])
  IN  near[k]

(* A sender and the host that it sends to are connected, within the         *)
(* diameter of the network.                                                 *)
HostsConnected ==
  pc = "built" /\ Fits =>
    \A s \in Hosts :
      LET near == Within(Diameter, Host(s))
      IN  \A d \in Hosts : Cell(s, d) \in cells => Host(d) \in near

(* The networks are the ones their names promise, and every flow of the     *)
(* matrix has a path through them.                                          *)
Wired == SwitchesRegular /\ HostsConnected
=============================================================================
