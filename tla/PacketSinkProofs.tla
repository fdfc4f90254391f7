--------------------------- MODULE PacketSinkProofs ---------------------------
(***************************************************************************)
(* The sink's flow table, proved for every set of peers, every order of    *)
(* reads and every number of elements: entries are distinct and up to      *)
(* date, and with a socket per connection no peer is missed, so that the   *)
(* latencies main.cpp adds up are those of all connections.                *)
(***************************************************************************)
EXTENDS PacketSink, ArithmeticFacts, TLAPS

(* EntriesDistinct and EntriesUpToDate are inductive with the types and the *)
(* fact that an unused entry holds nobody: a known peer is found in the one *)
(* entry it has, a new one is in none.                                      *)
TableInv ==
  /\ TypeOK /\ EntriesDistinct /\ EntriesUpToDate
  /\ \A e \in Entries \ InUse : m_peer[e] = None

(* What the assumption says of the constants: there are elements, the       *)
(* sockets deliver from peers, and each from at least one.                  *)
LEMMA SinkConstants ==
  /\ Colo \in Nat /\ Colo > 0 /\ None \notin Peers /\ IsFiniteSet(Peers)
  /\ \A sockets \in Protocols : \A s \in sockets : s \in SUBSET Peers /\ s # {}
BY ConstantsAssumption

(* A peer in the table has one entry, which is the one the scan finds.      *)
LEMMA EntryFound ==
  ASSUME TableInv, NEW q, EntriesOf(q) # {}
  PROVE  /\ Min(EntriesOf(q)) \in InUse
         /\ m_peer[Min(EntriesOf(q))] = q
<1>1. PICK e \in EntriesOf(q) : TRUE
  OBVIOUS
<1>2. e \in InUse /\ m_peer[e] = q
  BY <1>1 DEF EntriesOf
<1>3. \A f \in EntriesOf(q) : f = e
  BY <1>2 DEF EntriesOf, TableInv, EntriesDistinct
<1>4. EntriesOf(q) = {e}
  BY <1>1, <1>3
<1>5. e \in Nat
  BY <1>2, SinkConstants DEF InUse, TableInv, TypeOK
<1>6. Min({e}) = e
  BY <1>5 DEF Min
<1> QED BY <1>2, <1>4, <1>6

(* The flow table stays consistent through every way HandleRead's loop      *)
(* treats a packet (packet-sink.cc:231-285): a known peer's time is renewed *)
(* in the entry it has, an unknown one gets the next unused entry.          *)
LEMMA TableInductive == Spec => []TableInv
<1> USE SinkConstants
<1>1. Init => TableInv
  BY DEF Init, TableInv, TypeOK, EntriesDistinct, EntriesUpToDate, InUse, Entries, Heard
<1>2. TableInv /\ [Next]_vars => TableInv'
  <2> SUFFICES ASSUME TableInv, [Next]_vars PROVE TableInv'
    OBVIOUS
  <2>0. /\ flow_id \in Nat /\ now \in Nat
        /\ \A e \in InUse : e \in Entries /\ e \in Nat
        /\ \A s \in m_socketList : s \subseteq Peers
        /\ socket \subseteq Peers
    BY DEF TableInv, TypeOK, InUse, Entries
  <2>1. CASE Tick
    BY <2>1 DEF Entries, Tick, table, history, TableInv, TypeOK,
                EntriesDistinct, EntriesUpToDate, InUse, Heard
  <2>2. ASSUME NEW s \in m_socketList, HandleRead(s) PROVE TableInv'
    BY <2>2 DEF Entries, HandleRead, SetLock, table, history, TableInv, TypeOK,
                EntriesDistinct, EntriesUpToDate, InUse, Heard
  <2>3. CASE ReadDone
    BY <2>3 DEF Entries, ReadDone, table, history, TableInv, TypeOK,
                EntriesDistinct, EntriesUpToDate, InUse, Heard
  <2>4. CASE Report
    BY <2>4 DEF Entries, Report, table, history, TableInv, TypeOK,
                EntriesDistinct, EntriesUpToDate, InUse, Heard
  <2>5. CASE UNCHANGED vars
    BY <2>5 DEF Entries, vars, table, history, TableInv, TypeOK,
                EntriesDistinct, EntriesUpToDate, InUse, Heard
  <2>6. ASSUME NEW q \in Peers, TableOverrun(q) PROVE TableInv'
    BY <2>6 DEF Entries, TableOverrun, table, history, TableInv, TypeOK,
                EntriesDistinct, EntriesUpToDate, InUse, Heard
  <2>7. ASSUME NEW q \in Peers, KnownFlow(q) PROVE TableInv'
    <3> DEFINE f == Min(EntriesOf(q))
    <3>1. f \in InUse /\ f \in Entries /\ m_peer[f] = q
      BY <2>0, <2>7, EntryFound DEF KnownFlow
    <3> HIDE DEF f
    <3>2. /\ m_simtime' = [m_simtime EXCEPT ![f] = now]
          /\ last' = [last EXCEPT ![q] = now]
          /\ received' = [received EXCEPT ![q] = @ + 1]
          /\ m_lock' = FALSE
          /\ UNCHANGED <<now, m_socketList, socket, flow_id, m_peer>>
      BY <2>7 DEF KnownFlow, Receive, Stamp, f
    <3>3. Heard' = Heard
      <4>1. q \in Heard
        BY <3>1 DEF TableInv, EntriesDistinct
      <4>2. received'[q] > 0 /\ \A r \in Peers \ {q} : received'[r] = received[r]
        BY <3>2, <4>1 DEF TableInv, TypeOK, Heard
      <4> QED BY <4>1, <4>2 DEF Heard
    <3>4. TypeOK'
      <4>1. m_simtime' \in [Entries -> Nat]
        BY <2>0, <3>1, <3>2 DEF TableInv, TypeOK
      <4>2. last' \in [Peers -> Nat] /\ received' \in [Peers -> Nat]
        BY <2>0, <3>2 DEF TableInv, TypeOK
      <4>3. m_lock' \in BOOLEAN
        BY <3>2
      <4> QED BY <3>2, <4>1, <4>2, <4>3 DEF TableInv, TypeOK, Entries
    <3>5. EntriesDistinct'
      BY <3>2, <3>3 DEF TableInv, EntriesDistinct, InUse
    <3>6. EntriesUpToDate'
      <4>1. SUFFICES ASSUME NEW e \in InUse PROVE m_simtime'[e] = last'[m_peer[e]]
        BY <3>2 DEF EntriesUpToDate, InUse
      <4>2. e \in Entries /\ m_peer[e] \in Peers
        BY <2>0 DEF TableInv, EntriesDistinct, Heard
      <4>3. m_peer[e] = q <=> e = f
        BY <3>1 DEF TableInv, EntriesDistinct
      <4> QED BY <3>1, <3>2, <4>2, <4>3 DEF TableInv, TypeOK, EntriesUpToDate
    <3>7. \A e \in Entries \ InUse' : m_peer'[e] = None
      BY <3>2 DEF TableInv, InUse
    <3> QED BY <3>4, <3>5, <3>6, <3>7 DEF TableInv, Entries
  <2>8. ASSUME NEW q \in Peers, NewFlow(q) PROVE TableInv'
    <3>1. /\ m_simtime' = [m_simtime EXCEPT ![flow_id] = now]
          /\ m_peer' = [m_peer EXCEPT ![flow_id] = q]
          /\ flow_id' = flow_id + 1 /\ flow_id < Colo
          /\ last' = [last EXCEPT ![q] = now]
          /\ received' = [received EXCEPT ![q] = @ + 1]
          /\ UNCHANGED <<now, m_socketList, socket>> /\ m_lock' \in BOOLEAN
      BY <2>8 DEF NewFlow, Receive, Stamp, OneMore, TableInv, TypeOK
    <3>2. flow_id \in Entries /\ flow_id \notin InUse
          /\ \A e \in Entries : e \in InUse' <=> e \in InUse \/ e = flow_id
      BY <2>0, <3>1 DEF Entries, InUse
    <3>3. \A e \in InUse : m_peer[e] # q
      BY <2>8 DEF NewFlow, EntriesOf
    <3>4. \A r \in Peers : r \in Heard' <=> r \in Heard \/ r = q
      BY <3>1 DEF TableInv, TypeOK, Heard
    <3>5. TypeOK'
      BY <3>1, <3>2 DEF TableInv, TypeOK, Entries
    <3>6. EntriesDistinct'
      <4>1. ASSUME NEW e \in Entries PROVE e \in InUse' <=> m_peer'[e] \in Heard'
        <5>1. CASE e = flow_id
          BY <3>1, <3>2, <3>4, <5>1 DEF TableInv, TypeOK
        <5>2. CASE e # flow_id
          <6>1. m_peer'[e] = m_peer[e] /\ m_peer[e] \in Peers \cup {None}
            BY <3>1, <3>2, <5>2 DEF TableInv, TypeOK
          <6>2. e \in InUse <=> m_peer[e] \in Heard
            BY DEF TableInv, EntriesDistinct
          <6>3. m_peer[e] = q => e \in InUse
            BY DEF TableInv
          <6> QED BY <3>2, <3>3, <3>4, <5>2, <6>1, <6>2, <6>3 DEF Heard
        <5> QED BY <5>1, <5>2
      <4>2. ASSUME NEW e \in InUse', NEW f \in InUse', m_peer'[e] = m_peer'[f]
            PROVE  e = f
        <5>1. e \in Entries /\ f \in Entries
          BY <2>0, <3>1, <3>2 DEF InUse, Entries
        <5>2. \A g \in InUse : m_peer'[g] = m_peer[g]
          BY <2>0, <3>1, <3>2 DEF TableInv, TypeOK
        <5>3. m_peer'[flow_id] = q
          BY <3>1, <3>2 DEF TableInv, TypeOK
        <5> QED BY <3>2, <3>3, <4>2, <5>1, <5>2, <5>3 DEF TableInv, EntriesDistinct
      <4> QED BY <4>1, <4>2 DEF EntriesDistinct
    <3>7. EntriesUpToDate'
      <4>1. SUFFICES ASSUME NEW e \in InUse' PROVE m_simtime'[e] = last'[m_peer'[e]]
        BY DEF EntriesUpToDate
      <4>2. CASE e = flow_id
        BY <3>1, <3>2, <4>2 DEF TableInv, TypeOK
      <4>3. CASE e # flow_id
        <5>1. e \in InUse /\ e \in Entries
          BY <2>0, <3>1, <3>2, <4>3 DEF InUse, Entries
        <5>2. m_peer[e] # q /\ m_peer[e] \in Peers
          BY <3>3, <5>1 DEF TableInv, EntriesDistinct, Heard
        <5>3. m_peer'[e] = m_peer[e] /\ m_simtime'[e] = m_simtime[e]
          BY <3>1, <4>3, <5>1 DEF TableInv, TypeOK
        <5>4. last'[m_peer[e]] = last[m_peer[e]]
          BY <3>1, <5>2 DEF TableInv, TypeOK
        <5> QED BY <5>1, <5>3, <5>4 DEF TableInv, EntriesUpToDate
      <4> QED BY <4>2, <4>3
    <3>8. \A e \in Entries \ InUse' : m_peer'[e] = None
      BY <3>1, <3>2 DEF TableInv, TypeOK
    <3>9. Entries' = Entries
      BY DEF Entries
    <3> QED BY <3>5, <3>6, <3>7, <3>8, <3>9 DEF TableInv
  <2>9. ASSUME NEW q \in Peers, Unattributed(q) PROVE TableInv'
    <3>1. /\ last' = [last EXCEPT ![q] = now]
          /\ received' = [received EXCEPT ![q] = @ + 1]
          /\ UNCHANGED <<now, m_socketList, socket, m_lock, table>>
      BY <2>9 DEF Unattributed, Receive
    <3>2. \A e \in Entries : m_peer[e] # q
      BY <2>9 DEF Unattributed, EntriesOf, TableInv
    <3>3. TypeOK'
      BY <3>1 DEF TableInv, TypeOK, Entries, table
    <3>4. \A r \in Peers \ {q} : /\ r \in Heard' <=> r \in Heard
                                 /\ last'[r] = last[r]
      BY <3>1 DEF TableInv, TypeOK, Heard
    <3>5. \A e \in Entries : m_peer[e] \in Heard' <=> m_peer[e] \in Heard
      <4>1. \A e \in Entries : m_peer[e] \in Peers \ {q} \/ m_peer[e] = None
        BY <3>2 DEF TableInv, TypeOK
      <4>2. None \notin Heard /\ None \notin Heard'
        BY DEF Heard
      <4> QED BY <3>4, <4>1, <4>2
    <3>6. \A e \in InUse : m_peer[e] \in Peers \ {q}
      BY <2>0, <3>2 DEF TableInv, EntriesDistinct, Heard
    <3>7. EntriesDistinct'
      BY <3>1, <3>5 DEF TableInv, EntriesDistinct, InUse, Entries, table
    <3>8. EntriesUpToDate'
      BY <3>1, <3>4, <3>6 DEF TableInv, EntriesUpToDate, InUse, table
    <3> QED BY <3>1, <3>3, <3>7, <3>8 DEF TableInv, InUse, Entries, table
  <2> QED
    BY <2>1, <2>2, <2>3, <2>4, <2>5, <2>6, <2>7, <2>8, <2>9 DEF Next
<1> QED BY <1>1, <1>2, PTL DEF Spec

(* EntriesDistinct: no flow is counted twice (packet-sink.cc:239-260).      *)
THEOREM DistinctEntries == Spec => []EntriesDistinct
<1>1. TableInv => EntriesDistinct
  BY DEF TableInv
<1> QED BY <1>1, TableInductive, PTL

(* EntriesUpToDate: an entry has the time of the last data of its peer,     *)
(* whatever was read from others since (packet-sink.cc:245-253).            *)
THEOREM UpToDateEntries == Spec => []EntriesUpToDate
<1>1. TableInv => EntriesUpToDate
  BY DEF TableInv
<1> QED BY <1>1, TableInductive, PTL

-----------------------------------------------------------------------------
(* With a socket per connection m_lock only hides the peer whose packet     *)
(* cleared it, which has an entry.                                          *)
RecordedInv ==
  /\ EveryPeerRecorded
  /\ Streams /\ flow_id # 0 /\ ~ m_lock => \A q \in socket : EntriesOf(q) # {}

(* EveryPeerRecorded: although m_lock is set once per call of HandleRead    *)
(* (packet-sink.cc:230), no connection is left out of the latency.          *)
THEOREM PeersRecorded == Spec => []EveryPeerRecorded
<1> USE SinkConstants
<1>1. Init => RecordedInv
  BY DEF Init, RecordedInv, EveryPeerRecorded, Heard
<1>2. TableInv /\ TableInv' /\ RecordedInv /\ [Next]_vars => RecordedInv'
  <2> SUFFICES ASSUME TableInv, TableInv', RecordedInv, [Next]_vars, Streams'
               PROVE  /\ \A q \in Heard' : EntriesOf(q)' # {}
                      /\ flow_id' # 0 /\ ~ m_lock' => \A q \in socket' : EntriesOf(q)' # {}
    BY DEF RecordedInv, EveryPeerRecorded
  <2>0. m_socketList' = m_socketList /\ Streams
    BY DEF Streams, Next, vars, Tick, ReadDone, Report, HandleRead,
           KnownFlow, NewFlow, TableOverrun, Unattributed
  <2>1. /\ \A q \in Heard : EntriesOf(q) # {}
        /\ flow_id # 0 /\ ~ m_lock => \A q \in socket : EntriesOf(q) # {}
    BY <2>0 DEF RecordedInv, EveryPeerRecorded
  <2>2. \A q, r \in socket : q = r
    <3>1. \A s \in m_socketList : \A q, r \in s : q = r
      <4>1. SUFFICES ASSUME NEW s \in m_socketList, NEW q \in s, NEW r \in s PROVE q = r
        OBVIOUS
      <4>2. Cardinality(s) = 1
        BY <2>0 DEF Streams
      <4>3. s \subseteq Peers
        BY DEF TableInv, TypeOK
      <4>4. IsFiniteSet(s)
        BY <4>3, FS_Subset
      <4> QED BY <4>2, <4>4, FS_Singleton
    <3> QED BY <3>1 DEF TableInv, TypeOK
  <2>3. CASE Tick \/ ReadDone \/ Report \/ UNCHANGED vars \/ \E q \in Peers : TableOverrun(q)
    <3>1. /\ UNCHANGED <<received, table, m_lock>>
          /\ socket' = socket \/ socket' = {}
      BY <2>3 DEF Tick, ReadDone, Report, TableOverrun, vars, history
    <3> QED BY <2>1, <3>1 DEF Heard, EntriesOf, InUse, table
  <2>4. CASE \E s \in m_socketList : HandleRead(s)
    <3>1. UNCHANGED <<received, table>> /\ m_lock' = TRUE
      BY <2>4 DEF HandleRead, SetLock, history
    <3> QED BY <2>1, <3>1 DEF Heard, EntriesOf, InUse, table
  <2>5. ASSUME NEW q \in Peers, KnownFlow(q)
        PROVE  /\ \A r \in Heard' : EntriesOf(r)' # {}
               /\ \A r \in socket' : EntriesOf(r)' # {}
    <3>1. /\ received' = [received EXCEPT ![q] = @ + 1] /\ q \in socket
          /\ UNCHANGED <<socket, flow_id, m_peer>> /\ EntriesOf(q) # {}
      BY <2>5 DEF KnownFlow, Receive
    <3>2. \A r : EntriesOf(r)' = EntriesOf(r)
      BY <3>1 DEF EntriesOf, InUse
    <3>3. \A r \in Heard' : r \in Heard \/ r = q
      BY <3>1 DEF TableInv, TypeOK, Heard
    <3> QED BY <2>1, <2>2, <3>1, <3>2, <3>3
  <2>6. ASSUME NEW q \in Peers, NewFlow(q)
        PROVE  /\ \A r \in Heard' : EntriesOf(r)' # {}
               /\ \A r \in socket' : EntriesOf(r)' # {}
    <3>1. /\ m_peer' = [m_peer EXCEPT ![flow_id] = q] /\ flow_id < Colo
          /\ flow_id' = flow_id + 1 /\ flow_id \in Nat /\ q \in socket
          /\ received' = [received EXCEPT ![q] = @ + 1] /\ socket' = socket
      BY <2>6 DEF NewFlow, Receive, OneMore, TableInv, TypeOK
    <3>2. \A e \in InUse : e \in InUse' /\ m_peer'[e] = m_peer[e]
      BY <3>1 DEF InUse, Entries, TableInv, TypeOK
    <3>3. flow_id \in InUse' /\ m_peer'[flow_id] = q
      BY <3>1 DEF InUse, Entries, TableInv, TypeOK
    <3>4. \A r \in Heard' : r \in Heard \/ r = q
      BY <3>1 DEF TableInv, TypeOK, Heard
    <3>5. \A r : EntriesOf(r) # {} => EntriesOf(r)' # {}
      BY <3>2 DEF EntriesOf
    <3>6. EntriesOf(q)' # {}
      BY <3>3 DEF EntriesOf
    <3> QED BY <2>1, <2>2, <3>1, <3>4, <3>5, <3>6
  <2>7. ASSUME NEW q \in Peers PROVE ~ Unattributed(q)
    BY <2>1 DEF Unattributed, Receive
  <2> QED BY <2>3, <2>4, <2>5, <2>6, <2>7 DEF Next
<1>3. RecordedInv => EveryPeerRecorded
  BY DEF RecordedInv
<1> QED BY <1>1, <1>2, <1>3, TableInductive, PTL DEF Spec

-----------------------------------------------------------------------------
(* OverrunOnlyWhenFull: the arrays, whose size flow_id is never compared    *)
(* with (packet-sink.cc:256), are overrun only by a peer that is not among  *)
(* the Colo ones they hold.                                                 *)
THEOREM OverrunsWhenFull == Spec => []OverrunOnlyWhenFull
<1> USE SinkConstants
<1> DEFINE Full == pc = "fault" => flow_id = Colo /\ \E q \in socket : EntriesOf(q) = {}
<1>1. Init => Full
  BY DEF Init
<1>2. TableInv /\ Full /\ [Next]_vars => Full'
  BY DEF Next, vars, Tick, ReadDone, Report, HandleRead, Idle, KnownFlow, NewFlow, Receive,
         TableOverrun, Unattributed, EntriesOf, InUse, table
<1>3. TableInv /\ Full => OverrunOnlyWhenFull
  <2> SUFFICES ASSUME TableInv, flow_id = Colo PROVE Cardinality(Heard) >= Colo
    BY DEF OverrunOnlyWhenFull
  <2> DEFINE f == [e \in InUse |-> m_peer[e]]
  <2>1. f \in Injection(InUse, Heard)
    BY DEF TableInv, EntriesDistinct, InUse, Entries, Injection, IsInjective
  <2>2. IsFiniteSet(Heard)
    BY FS_Subset DEF Heard
  <2>3. Cardinality(InUse) = Colo
    BY FS_Interval DEF InUse
  <2>4. Cardinality(InUse) <= Cardinality(Heard)
    BY <2>1, <2>2, FS_Injection
  <2>5. Cardinality(Heard) \in Nat
    BY <2>2, FS_CardinalityType
  <2> QED BY <2>3, <2>4, <2>5
<1> QED BY <1>1, <1>2, <1>3, TableInductive, PTL DEF Spec

-----------------------------------------------------------------------------
(* What was reported is what the table holds, since nothing is read after   *)
(* the simulation (main.cpp:774-786).                                       *)
ReportedInv ==
  pc = "reported" =>
    /\ real = SumFunctionOnSet(m_simtime, InUse)
    /\ nocputime = Max({0} \cup {m_simtime[e] : e \in InUse})

(* With an entry for every peer that was heard, the entries in use are a    *)
(* renaming of these peers, and hold their times.                           *)
LEMMA EntriesArePeers ==
  ASSUME TableInv, EveryPeerRecorded, Streams
  PROVE  /\ SumFunctionOnSet(m_simtime, InUse) = SumFunctionOnSet(last, Heard)
         /\ {m_simtime[e] : e \in InUse} = {last[q] : q \in Heard}
<1> USE SinkConstants
<1>1. {m_peer[e] : e \in InUse} = Heard
  <2>1. \A e \in InUse : m_peer[e] \in Heard
    BY DEF TableInv, TypeOK, EntriesDistinct, InUse, Entries
  <2>2. \A q \in Heard : \E e \in InUse : m_peer[e] = q
    BY DEF EveryPeerRecorded, EntriesOf
  <2> QED BY <2>1, <2>2
<1>2. \A e \in InUse : last[m_peer[e]] = m_simtime[e]
  BY DEF TableInv, EntriesUpToDate
<1>3. \A e, f \in InUse : m_peer[e] = m_peer[f] => e = f
  BY DEF TableInv, EntriesDistinct
<1>4. IsFiniteSet(InUse) /\ \A e \in InUse : m_simtime[e] \in Int
  <2>1. flow_id \in 0 .. Colo /\ m_simtime \in [Entries -> Nat]
    BY DEF TableInv, TypeOK
  <2>2. IsFiniteSet(0 .. flow_id - 1)
    BY <2>1, FS_Interval
  <2>3. \A e \in InUse : e \in Entries
    BY <2>1 DEF InUse, Entries
  <2> QED BY <2>1, <2>2, <2>3 DEF InUse
<1>5. SumFunctionOnSet(last, {m_peer[e] : e \in InUse}) = SumFunctionOnSet(m_simtime, InUse)
  BY <1>2, <1>3, <1>4, SumRename
<1>6. {m_simtime[e] : e \in InUse} = {last[q] : q \in Heard}
  BY <1>1, <1>2
<1> QED BY <1>1, <1>5, <1>6

(* LatencyIsOfAllFlows: with a socket per connection, what main.cpp adds to *)
(* final_real is the sum of the last times of all connections that carried  *)
(* data, each once, and the time without processing is the latest of them   *)
(* (packet-sink.cc:231-285 and main.cpp:775-790).                           *)
THEOREM LatencyOfAllFlows == Spec => []LatencyIsOfAllFlows
<1>1. Init => ReportedInv
  BY DEF Init, ReportedInv
<1>2. ReportedInv /\ [Next]_vars => ReportedInv'
  <2> SUFFICES ASSUME ReportedInv, [Next]_vars, pc' = "reported" PROVE ReportedInv'
    BY DEF ReportedInv
  <2>1. CASE Report
    <3>1. UNCHANGED <<flow_id, m_simtime>> /\ Reported = InUse
      BY <2>1 DEF Report, table, Reported
    <3> QED BY <2>1, <3>1 DEF Report, ReportedInv, InUse
  <2>2. CASE ~ Report
    <3>1. /\ pc = "reported" /\ UNCHANGED <<flow_id, m_simtime, real, nocputime>>
      BY <2>2 DEF Next, vars, Tick, ReadDone, HandleRead, Idle, KnownFlow, NewFlow, Receive,
             TableOverrun, Unattributed, table, results
    <3> QED BY <3>1 DEF ReportedInv, InUse
  <2> QED BY <2>1, <2>2
<1>3. TableInv /\ EveryPeerRecorded /\ ReportedInv => LatencyIsOfAllFlows
  <2> SUFFICES ASSUME TableInv, EveryPeerRecorded, ReportedInv, Streams, pc = "reported"
               PROVE  /\ real = SumFunctionOnSet(last, Heard)
                      /\ nocputime = Max({0} \cup {last[q] : q \in Heard})
    BY DEF LatencyIsOfAllFlows
  <2> QED BY EntriesArePeers DEF ReportedInv
<1> QED BY <1>1, <1>2, <1>3, TableInductive, PeersRecorded, PTL DEF Spec
=============================================================================
