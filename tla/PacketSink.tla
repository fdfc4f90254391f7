------------------------------ MODULE PacketSink ------------------------------
(***************************************************************************)
(* The packet sink of a simulated host (the repository's version of ns-3's *)
(* packet-sink.cc) and the latencies main.cpp reads from it.               *)
(*                                                                         *)
(* The sink keeps a table of flows: arrays m_address, m_port and m_simtime *)
(* of Colo elements, of which the first flow_id are in use.  An entry      *)
(* holds a peer, identified by address and port, and the time of the last  *)
(* data read from it.                                                      *)
(*                                                                         *)
(* ns-3 runs HandleRead when a socket has something to read; it calls      *)
(* RecvFrom until nothing is left or the peer has closed.  A socket is     *)
(* represented by the set of peers whose data it delivers: one for the     *)
(* socket of an accepted connection, as many as there are for a datagram   *)
(* socket, the class's default protocol.  The simulations of main.cpp use  *)
(* connections.                                                            *)
(***************************************************************************)
EXTENDS Integers, FiniteSetsExt

CONSTANTS
  Peers,        \* senders
  None,         \* no peer: an unused entry
  Protocols,    \* the sets of sockets a sink may read from
  Colo,         \* elements of the arrays (500)
  MaxTime,      \* bound on the clock
  MaxPackets    \* bound on the packets received

ASSUME ConstantsAssumption ==
  /\ IsFiniteSet(Peers) /\ None \notin Peers
  /\ \A sockets \in Protocols : sockets \subseteq (SUBSET Peers) \ {{}}
  /\ Colo \in Nat \ {0} /\ MaxTime \in Nat /\ MaxPackets \in Nat

VARIABLES
  now,          \* Simulator::Now
  m_socketList, \* the sockets of this sink
  socket,       \* the socket HandleRead is busy with, or {}
  m_lock, flow_id, m_peer, m_simtime, m_totalRx,
  real, nocputime,   \* what main.cpp makes of the table
  pc,           \* "running", "reported", "fault": an element past the arrays
  last,         \* history: time of the last data of each peer, 0: none
  received      \* history: packets of each peer

table   == <<flow_id, m_peer, m_simtime>>
results == <<real, nocputime>>
history == <<m_totalRx, last, received>>
vars    == <<now, m_socketList, socket, m_lock, table, history, results, pc>>

Entries == 0 .. Colo - 1
InUse   == 0 .. flow_id - 1

Init ==
  /\ m_socketList \in Protocols
  /\ now = 0 /\ socket = {} /\ m_lock = TRUE
  /\ flow_id = 0 /\ m_totalRx = 0
  /\ m_peer = [e \in Entries |-> None] /\ m_simtime = [e \in Entries |-> 0]
  /\ real = 0 /\ nocputime = 0 /\ pc = "running"
  /\ last = [q \in Peers |-> 0] /\ received = [q \in Peers |-> 0]

-----------------------------------------------------------------------------
Idle == pc = "running" /\ socket = {}

(* Simulated time passes between events, never inside of one.               *)
Tick ==
  /\ Idle /\ now < MaxTime
  /\ now' = now + 1
  /\ UNCHANGED <<m_socketList, socket, m_lock, table, history, results, pc>>

(* Seeded fault: m_lock is set once, by the constructor.                    *)
SetLockOnce == m_lock' = m_lock

SetLock == m_lock' = TRUE

(* Data never arrives at time 0: packets take time on a link.               *)
HandleRead(s) ==
  /\ Idle /\ now > 0
  /\ socket' = s /\ SetLock
  /\ UNCHANGED <<now, m_socketList, table, history, results, pc>>

(* Seeded fault: the loop over the entries stops one short.                 *)
EntriesOfNotLast(q) == {e \in InUse : e < flow_id - 1 /\ m_peer[e] = q}

EntriesOf(q) == {e \in InUse : m_peer[e] = q}

(* Seeded fault: every packet is timed in the first entry.                  *)
StampFirst(e) == m_simtime' = [m_simtime EXCEPT ![0] = now]

Stamp(e) == m_simtime' = [m_simtime EXCEPT ![e] = now]

(* RecvFrom returns a packet from q, which is added to m_totalRx.           *)
Receive(q) ==
  /\ pc = "running" /\ q \in socket /\ m_totalRx < MaxPackets
  /\ m_totalRx' = m_totalRx + 1
  /\ last' = [last EXCEPT ![q] = now]
  /\ received' = [received EXCEPT ![q] = @ + 1]

KnownFlow(q) ==
  /\ EntriesOf(q) # {}
  /\ Receive(q)
  /\ Stamp(Min(EntriesOf(q)))
  /\ m_lock' = FALSE
  /\ UNCHANGED <<now, m_socketList, socket, flow_id, m_peer, results, pc>>

OneMore == flow_id + 1

(* The first flow clears m_lock, any later one leaves it set.               *)
NewFlow(q) ==
  /\ EntriesOf(q) = {} /\ (flow_id = 0 \/ m_lock) /\ flow_id < Colo
  /\ Receive(q)
  /\ Stamp(flow_id)
  /\ m_peer' = [m_peer EXCEPT ![flow_id] = q]
  /\ flow_id' = OneMore
  /\ m_lock' = IF flow_id = 0 THEN FALSE ELSE m_lock
  /\ UNCHANGED <<now, m_socketList, socket, results, pc>>

(* The arrays are full; flow_id is not compared with their size.            *)
TableOverrun(q) ==
  /\ EntriesOf(q) = {} /\ m_lock /\ flow_id = Colo
  /\ pc = "running" /\ q \in socket /\ m_totalRx < MaxPackets
  /\ pc' = "fault"
  /\ UNCHANGED <<now, m_socketList, socket, m_lock, table, history, results>>

(* m_lock was cleared by an earlier packet of this call: q gets no entry.   *)
Unattributed(q) ==
  /\ EntriesOf(q) = {} /\ flow_id # 0 /\ ~ m_lock
  /\ Receive(q)
  /\ UNCHANGED <<now, m_socketList, socket, m_lock, table, results, pc>>

(* Nothing is left to read, or the stream has ended.                        *)
ReadDone ==
  /\ pc = "running" /\ socket # {}
  /\ socket' = {}
  /\ UNCHANGED <<now, m_socketList, m_lock, table, history, results, pc>>

(* Seeded fault: the last entry is not looked at.                           *)
ReportedNotLast == 0 .. flow_id - 2

Reported == InUse

(* After Simulator::Run, main.cpp adds up the times of the entries and      *)
(* takes the largest.                                                       *)
Report ==
  /\ Idle
  /\ real' = SumFunctionOnSet(m_simtime, Reported)
  /\ nocputime' = Max({0} \cup {m_simtime[e] : e \in Reported})
  /\ pc' = "reported"
  /\ UNCHANGED <<now, m_socketList, socket, m_lock, table, history>>

Next ==
  \/ Tick \/ ReadDone \/ Report
  \/ \E s \in m_socketList : HandleRead(s)
  \/ \E q \in Peers : KnownFlow(q) \/ NewFlow(q) \/ TableOverrun(q) \/ Unattributed(q)

Spec == Init /\ [][Next]_vars

-----------------------------------------------------------------------------
(* Properties.                                                              *)

TypeOK ==
  /\ m_socketList \in Protocols /\ socket \in m_socketList \cup {{}}
  /\ now \in Nat /\ m_lock \in BOOLEAN /\ flow_id \in 0 .. Colo
  /\ m_peer \in [Entries -> Peers \cup {None}]
  /\ m_simtime \in [Entries -> Nat]
  /\ last \in [Peers -> Nat] /\ received \in [Peers -> Nat]

Heard == {q \in Peers : received[q] > 0}

Streams == \A s \in m_socketList : Cardinality(s) = 1

(* A peer never has two entries, so no flow is counted twice; the entries   *)
(* in use are the first flow_id ones, and hold peers that were heard.       *)
EntriesDistinct ==
  /\ \A e \in Entries : e \in InUse <=> m_peer[e] \in Heard
  /\ \A e, f \in InUse : m_peer[e] = m_peer[f] => e = f

(* An entry is never staler than its peer: the time it holds is the time of *)
(* the last data read from that peer, whatever was read from others since.  *)
EntriesUpToDate == \A e \in InUse : m_simtime[e] = last[m_peer[e]]

(* With a socket per connection m_lock never hides a peer: whoever was      *)
(* heard has an entry.                                                      *)
EveryPeerRecorded == Streams => \A q \in Heard : EntriesOf(q) # {}

(* The arrays are only overrun once as many peers as they have elements     *)
(* were heard, and another one is: reading again never wears them out.      *)
OverrunOnlyWhenFull ==
  pc = "fault" => Cardinality(Heard) >= Colo /\ \E q \in socket : EntriesOf(q) = {}

(* The latency main.cpp adds to final_real is the sum, over the connections *)
(* that carried data, of the time their last data arrived; the time without *)
(* processing is the latest of these.                                       *)
LatencyIsOfAllFlows ==
  Streams /\ pc = "reported" =>
    /\ real = SumFunctionOnSet(last, Heard)
    /\ nocputime = Max({0} \cup {last[q] : q \in Heard})
=============================================================================
