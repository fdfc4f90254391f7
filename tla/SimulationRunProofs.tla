------------------------- MODULE SimulationRunProofs -------------------------
(***************************************************************************)
(* The life of the simulations, proved for every number of phases, queues  *)
(* and intervals: what order events due at the same time run in, that the  *)
(* probes neither outlive their arrays nor miss an interval, that the      *)
(* sinks are open to the end, that the running totals and the final report *)
(* agree with the figures of the phases, and that the run of a simulation  *)
(* is never without a next event, and all of it bounded by a number that   *)
(* every step makes smaller.                                               *)
(***************************************************************************)
EXTENDS FinalReport, ArithmeticFacts, TLAPS

(* What the assumption says of the constants.                               *)
LEMMA RunConstants ==
  /\ NumPhases \in Nat \ {0} /\ NumQueues \in Nat \ {0} /\ StopTime \in Nat \ {0}
  /\ Unit \in Nat \ {0} /\ Lengths \subseteq Nat /\ Leftover \subseteq Nat
BY ConstantsAssumption

(* The longer of two lengths is a length.                                   *)
LEMMA LongerIsNat ==
  ASSUME NEW a \in Nat, NEW b \in Nat PROVE Max({a, b}) \in Nat
<1>1. \E x \in {a, b} : \A y \in {a, b} : x >= y
  <2>1. CASE a >= b
    BY <2>1
  <2>2. CASE b >= a
    BY <2>2
  <2> QED BY <2>1, <2>2
<1>2. Max({a, b}) \in {a, b}
  BY <1>1 DEF Max
<1> QED BY <1>2

StatsType == [checkTimes : Nat, max : Nat, tmp : Nat, avg : Nat]

(* A probe (main.cpp:146-156) counts at most once, and not at all when the  *)
(* queue is empty.                                                          *)
LEMMA SampledStats ==
  ASSUME NEW s \in StatsType, NEW len \in Nat
  PROVE  /\ Sampled(s, len) \in StatsType
         /\ len = 0 => Sampled(s, len).checkTimes = s.checkTimes
         /\ Sampled(s, len).checkTimes <= s.checkTimes + 1
<1>1. CASE len = 0
  BY <1>1 DEF Sampled, StatsType
<1>2. CASE len # 0
  <2>1. /\ s.checkTimes \in Nat /\ s.max \in Nat /\ s.tmp \in Nat
        /\ Max({s.max, len}) \in Nat
    BY LongerIsNat DEF StatsType
  <2>2. Unit * (s.tmp + len) \in Nat /\ s.checkTimes + 1 \in Nat \ {0}
    BY <2>1, RunConstants
  <2>3. (Unit * (s.tmp + len)) \div (s.checkTimes + 1) \in Nat
    BY <2>2, Quotient
  <2> QED BY <1>2, <2>1, <2>3 DEF Sampled, StatsType
<1> QED BY <1>1, <1>2

-----------------------------------------------------------------------------
(* Types, with the events of a simulation belonging to it and gone when it  *)
(* is over, and the arrays allocated exactly while it lasts.                *)
Allocated == [queuel : [0 .. NumQueues -> Nat], queuem : [0 .. NumQueues -> Nat]]

RunTypes ==
  /\ i \in 0 .. NumPhases /\ (pc # "done" => i \in Phases)
  /\ pc \in {"setup", "run", "collect", "destroy", "free", "done"}
  /\ m_events \subseteq EventType /\ m_uid \in Nat /\ m_currentTs \in 0 .. StopTime
  /\ \A e \in m_events : e.uid < m_uid /\ e.at >= m_currentTs /\ e.sim = i
  /\ \A e \in m_events : e.kind = "probe" => e.q \in Queues
  /\ m_stop \in BOOLEAN /\ traffic \in BOOLEAN
  /\ stats \in [Queues -> StatsType]
  /\ realCheckTimes \in [Queues -> Nat] /\ realQueuesize \in [Queues -> Nat]
  /\ IF pc \in {"setup", "done"} THEN heap = Freed ELSE heap \in Allocated
  /\ pc \in {"setup", "free", "done"} => m_events = {} /\ m_currentTs = 0
  /\ samples \in [Queues -> 0 .. StopTime] /\ peak \in [Queues -> Nat]

(* The event list while the simulation runs: Stop is in it, nothing that    *)
(* stops the applications comes before Stop, each queue has one probe, and  *)
(* the start of the applications comes after all first probes.              *)
StopEvent == Event(StopTime, NumQueues + 1, "stop", 0)

Starts(e) == e.kind = "init" \/ (e.kind = "application" /\ e.q = 0)

EventsInv ==
  pc = "run" /\ ~ m_stop =>
    /\ StopEvent \in m_events /\ m_uid >= NumQueues + 2
    /\ \A e \in m_events : e.kind = "stop" => e = StopEvent
    /\ \A e \in m_events : Starts(e) => e.at = 0
    /\ \A e \in m_events : e.kind = "application" =>
         e.uid >= NumQueues + 2 /\ (e.q = 0 \/ e.at = StopTime)
    /\ traffic \/ \E e \in m_events : Starts(e)
    /\ \A q \in Queues : \E e \in m_events : e.kind = "probe" /\ e.q = q
    /\ \A e \in m_events : e.kind = "probe" =>
         /\ e.at = samples[e.q]
         /\ IF e.at = 0 THEN e.uid <= NumQueues ELSE e.uid >= NumQueues + 2
    /\ \A e, f \in m_events : e.kind = "probe" /\ f.kind = "probe" /\ e.q = f.q => e = f
    /\ traffic => \A q \in Queues : samples[q] > 0

(* Once Stop has run, and until the next Setup.                             *)
EndInv ==
  pc \in {"collect", "destroy", "free"} \/ (pc = "run" /\ m_stop) =>
    traffic /\ \A q \in Queues : samples[q] = StopTime

(* The first probe of a queue finds it empty.                               *)
CountInv ==
  \A q \in Queues :
    IF samples[q] = 0 THEN stats[q].checkTimes = 0
                      ELSE stats[q].checkTimes < samples[q]

Balanced == \A q, r \in Queues : samples[q] - samples[r] \in -1 .. 1

RunInv == RunTypes /\ EventsInv /\ EndInv /\ CountInv /\ Balanced

(* At the start there is no simulation.                                     *)
LEMMA RunInit == Init => RunInv
<1> USE RunConstants
<1> SUFFICES ASSUME Init PROVE RunInv
  OBVIOUS
<1>1. RunTypes
  <2>1. i \in 0 .. NumPhases /\ i \in Phases /\ m_currentTs \in 0 .. StopTime
    BY DEF Init, Phases
  <2>2. /\ stats \in [Queues -> StatsType]
        /\ realCheckTimes \in [Queues -> Nat] /\ realQueuesize \in [Queues -> Nat]
        /\ samples \in [Queues -> 0 .. StopTime] /\ peak \in [Queues -> Nat]
    BY DEF Init, Cleared, StatsType
  <2> QED BY <2>1, <2>2 DEF Init, RunTypes
<1>2. EventsInv /\ EndInv
  BY DEF Init, EventsInv, EndInv
<1>3. CountInv /\ Balanced
  BY DEF Init, CountInv, Balanced, Cleared
<1> QED BY <1>1, <1>2, <1>3 DEF RunInv

(* Before Simulator::Run (main.cpp:656-772): the list holds the init event, *)
(* the first probes and Stop.                                               *)
LEMMA SetupKeeps == RunInv /\ Setup => RunInv'
<1> USE RunConstants
<1> SUFFICES ASSUME RunInv, Setup PROVE RunInv'
  OBVIOUS
<1>1. /\ pc = "setup" /\ pc' = "run" /\ i' = i /\ i \in Phases
      /\ m_currentTs = 0 /\ m_currentTs' = 0 /\ m_uid' = NumQueues + 2
      /\ m_stop' = FALSE /\ traffic' = FALSE
  BY DEF Setup, RunInv, RunTypes
<1>2. heap' \in Allocated
  BY DEF Setup, Allocated, Queues
<1>3. m_events' = {Event(0, 0, "init", 0), StopEvent}
                    \cup {Event(0, q + 1, "probe", q) : q \in Queues}
  BY DEF Setup, FirstEvents, SimulatorStop, StopEvent
<1>4. \A e \in m_events' :
        \/ e = Event(0, 0, "init", 0)
        \/ e = StopEvent
        \/ \E q \in Queues : e = Event(0, q + 1, "probe", q)
  BY <1>3
<1>5. RunTypes'
  <2>1. m_events' \subseteq EventType
    BY <1>1, <1>4 DEF Event, StopEvent, EventType, Queues
  <2>2. \A e \in m_events' : e.uid < m_uid' /\ e.at >= m_currentTs' /\ e.sim = i'
    BY <1>1, <1>4 DEF Event, StopEvent, Queues
  <2>3. \A e \in m_events' : e.kind = "probe" => e.q \in Queues
    BY <1>4 DEF Event, StopEvent
  <2>4. stats' \in [Queues -> StatsType]
    BY DEF Setup, ClearedStats, Cleared, StatsType
  <2>5. /\ UNCHANGED <<realCheckTimes, realQueuesize>>
        /\ samples' \in [Queues -> 0 .. StopTime] /\ peak' \in [Queues -> Nat]
    BY DEF Setup
  <2>6. /\ i' \in 0 .. NumPhases /\ i' \in Phases
        /\ m_uid' \in Nat /\ m_currentTs' \in 0 .. StopTime
        /\ m_stop' \in BOOLEAN /\ traffic' \in BOOLEAN
        /\ realCheckTimes' \in [Queues -> Nat] /\ realQueuesize' \in [Queues -> Nat]
    <3>1. i \in 0 .. NumPhases /\ realCheckTimes \in [Queues -> Nat]
          /\ realQueuesize \in [Queues -> Nat]
      BY DEF RunInv, RunTypes
    <3>2. NumQueues + 2 \in Nat /\ 0 \in 0 .. StopTime
      OBVIOUS
    <3> QED BY <1>1, <2>5, <3>1, <3>2
  <2> QED BY <1>1, <1>2, <2>1, <2>2, <2>3, <2>4, <2>5, <2>6 DEF RunTypes
<1>6. EventsInv'
  <2>0. StopEvent' = StopEvent
    BY <1>1 DEF StopEvent, Event
  <2>1. StopEvent \in m_events' /\ Event(0, 0, "init", 0) \in m_events'
        /\ \A q \in Queues : Event(0, q + 1, "probe", q) \in m_events'
    BY <1>3
  <2>2. samples' = [q \in Queues |-> 0]
    BY DEF Setup
  <2>3. \A e \in m_events' : e.kind = "stop" => e = StopEvent
    BY <1>4 DEF Event, StopEvent
  <2>4. \A e \in m_events' : Starts(e) => e.at = 0
    BY <1>4 DEF Event, StopEvent, Starts
  <2>5. \A e \in m_events' : e.kind # "application"
    BY <1>4 DEF Event, StopEvent
  <2>6. \E e \in m_events' : Starts(e)
    BY <2>1 DEF Event, Starts
  <2>7. \A q \in Queues : \E e \in m_events' : e.kind = "probe" /\ e.q = q
    BY <2>1 DEF Event
  <2>8. \A e \in m_events' : e.kind = "probe" =>
          e.at = 0 /\ e.q \in Queues /\ e = Event(0, e.q + 1, "probe", e.q)
    BY <1>4 DEF Event, StopEvent
  <2>9. \A q \in Queues : Event(0, q + 1, "probe", q).uid <= NumQueues
    BY DEF Event, Queues
  <2>10. \A e \in m_events' : e.kind = "probe" => e.uid <= NumQueues
    BY <2>8, <2>9
  <2>11. \A e, f \in m_events' : e.kind = "probe" /\ f.kind = "probe" /\ e.q = f.q => e = f
    BY <2>8
  <2> QED BY <1>1, <2>0, <2>1, <2>2, <2>3, <2>4, <2>5, <2>6, <2>7, <2>8, <2>10, <2>11
          DEF EventsInv, Starts
<1>7. EndInv' /\ CountInv' /\ Balanced'
  BY <1>1 DEF Setup, EndInv, CountInv, Balanced, ClearedStats, Cleared
<1> QED BY <1>5, <1>6, <1>7 DEF RunInv

-----------------------------------------------------------------------------
(* The event that runs is due before Stop, or it is Stop; nothing in the    *)
(* list is due earlier.                                                     *)
LEMMA RunsInOrder ==
  ASSUME RunInv, NEW e \in m_events, NextEvent(e)
  PROVE  /\ pc = "run" /\ m_stop = FALSE /\ m_currentTs' = e.at
         /\ e \in EventType /\ e.at \in 0 .. StopTime /\ e.uid < m_uid /\ e.sim = i
         /\ \A f \in m_events : f \in EventType /\ f.at >= e.at /\ (f = e \/ Before(e, f))
         /\ e = StopEvent \/ e.at < StopTime \/ (e.at = StopTime /\ e.uid < NumQueues + 1)
<1> USE RunConstants
<1>1. /\ pc = "run" /\ m_stop = FALSE /\ m_currentTs' = e.at
      /\ \A f \in m_events : f \in EventType /\ (f = e \/ Before(e, f))
      /\ e.uid < m_uid /\ e.sim = i
  BY DEF NextEvent, RunInv, RunTypes
<1>2. StopEvent \in m_events
  BY <1>1 DEF RunInv, EventsInv
<1>3. \A f \in m_events : f.at \in Nat /\ f.uid \in Nat
  BY <1>1 DEF EventType
<1>4. \A f \in m_events : f.at >= e.at
  BY <1>1, <1>3 DEF Before
<1>5. StopEvent.at = StopTime /\ StopEvent.uid = NumQueues + 1
  BY DEF StopEvent, Event
<1>6. e = StopEvent \/ Before(e, StopEvent)
  BY <1>1, <1>2
<1>7. e.at \in 0 .. StopTime
  BY <1>2, <1>3, <1>4, <1>5
<1> QED BY <1>1, <1>3, <1>4, <1>5, <1>6, <1>7 DEF Before

(* Running e replaces it by new events that carry later numbers and are not *)
(* due before e: the list stays one of this simulation.                     *)
LEMMA ListStays ==
  ASSUME RunInv, NEW e \in m_events, NextEvent(e),
         NEW N \in SUBSET EventType,
         m_events' = (m_events \ {e}) \cup N, i' = i,
         m_uid' \in Nat, m_uid' >= m_uid,
         \A f \in N : /\ f.uid < m_uid' /\ f.at >= e.at /\ f.sim = i
                      /\ f.kind = "probe" => f.q \in Queues
  PROVE  /\ m_events' \subseteq EventType /\ m_currentTs' \in 0 .. StopTime
         /\ \A f \in m_events' : f.uid < m_uid' /\ f.at >= m_currentTs' /\ f.sim = i'
         /\ \A f \in m_events' : f.kind = "probe" => f.q \in Queues
<1> USE RunConstants
<1>1. \A f \in m_events : f.uid \in Nat /\ f.uid < m_uid /\ f.sim = i
                          /\ (f.kind = "probe" => f.q \in Queues)
  BY DEF RunInv, RunTypes, EventType
<1>2. m_uid \in Nat /\ m_events \subseteq EventType
  BY DEF RunInv, RunTypes
<1>3. m_currentTs' = e.at /\ e.at \in 0 .. StopTime /\ \A f \in m_events : f.at >= e.at
  BY RunsInOrder
<1>4. \A f \in m_events' : f \in m_events \/ f \in N
  OBVIOUS
<1>5. \A f \in m_events : f.uid < m_uid'
  BY <1>1, <1>2
<1> QED BY <1>1, <1>2, <1>3, <1>4, <1>5

(* Node::Initialize schedules the start and the stop of the applications,   *)
(* with numbers after those of the first probes and of Stop.                *)
LEMMA InitializeKeeps == RunInv /\ InitializeNodes => RunInv'
<1> USE RunConstants
<1> SUFFICES ASSUME RunInv, InitializeNodes PROVE RunInv'
  OBVIOUS
<1>1. PICK e \in m_events :
        /\ NextEvent(e) /\ e.kind = "init"
        /\ m_events' = (m_events \ {e})
             \cup {Event(e.at, m_uid, "application", 0),
                   Event(StopTime, m_uid + 1, "application", 1)}
        /\ m_uid' = m_uid + 2 /\ traffic' = traffic
        /\ UNCHANGED <<i, pc, m_stop, figures, heap, window, seen>>
  BY DEF InitializeNodes, NoTrafficYet
<1> DEFINE a == Event(e.at, m_uid, "application", 0)
           b == Event(StopTime, m_uid + 1, "application", 1)
<1>2. /\ pc = "run" /\ m_stop = FALSE /\ m_uid \in Nat /\ i \in Phases
      /\ e.at \in 0 .. StopTime
  BY <1>1, RunsInOrder DEF RunInv, RunTypes
<1>3. a \in EventType /\ b \in EventType
  BY <1>2 DEF Event, EventType
<1>4. /\ a.at = e.at /\ a.uid = m_uid /\ a.kind = "application" /\ a.q = 0 /\ a.sim = i
      /\ b.at = StopTime /\ b.uid = m_uid + 1 /\ b.kind = "application" /\ b.q = 1
      /\ b.sim = i
  BY DEF Event
<1> HIDE DEF a, b
<1>5. RunTypes'
  <2>1. /\ m_events' \subseteq EventType /\ m_currentTs' \in 0 .. StopTime
        /\ \A f \in m_events' : f.uid < m_uid' /\ f.at >= m_currentTs' /\ f.sim = i'
        /\ \A f \in m_events' : f.kind = "probe" => f.q \in Queues
    <3> DEFINE N == {a, b}
    <3>1. N \in SUBSET EventType
      BY <1>3
    <3>2. m_events' = (m_events \ {e}) \cup N
      BY <1>1 DEF a, b
    <3>3. \A f \in N : /\ f.uid < m_uid' /\ f.at >= e.at /\ f.sim = i
                       /\ f.kind = "probe" => f.q \in Queues
      BY <1>1, <1>2, <1>4
    <3>4. m_uid' \in Nat /\ m_uid' >= m_uid /\ i' = i
      BY <1>1, <1>2
    <3> HIDE DEF N
    <3> QED BY <1>1, <3>1, <3>2, <3>3, <3>4, ListStays
  <2> QED BY <1>1, <1>2, <2>1 DEF figures, seen, RunInv, RunTypes
<1>6. EventsInv'
  <2>1. EventsInv /\ StopEvent' = StopEvent
    BY <1>1 DEF RunInv, StopEvent, Event
  <2>2. \A f \in m_events' : (f \in m_events /\ f # e) \/ f = a \/ f = b
    BY <1>1 DEF a, b
  <2>3. \A f \in m_events : f # e => f \in m_events'
    BY <1>1
  <2>4. a \in m_events'
    BY <1>1 DEF a
  <2>5. e # StopEvent /\ e.at = 0
    BY <1>1, <1>2, <2>1 DEF EventsInv, Starts, StopEvent, Event
  <2>6. samples' = samples
    BY <1>1 DEF seen
  <2>7. StopEvent \in m_events' /\ m_uid' >= NumQueues + 2
    BY <1>1, <1>2, <2>1, <2>3, <2>5 DEF EventsInv
  <2>8. \A f \in m_events' : f.kind = "stop" => f = StopEvent
    BY <1>2, <1>4, <2>1, <2>2 DEF EventsInv
  <2>9. \A f \in m_events' : Starts(f) => f.at = 0
    BY <1>2, <1>4, <2>1, <2>2, <2>5 DEF EventsInv, Starts
  <2>10. \A f \in m_events' : f.kind = "application" =>
           f.uid >= NumQueues + 2 /\ (f.q = 0 \/ f.at = StopTime)
    BY <1>2, <1>4, <2>1, <2>2 DEF EventsInv
  <2>11. \E f \in m_events' : Starts(f)
    BY <1>4, <2>4 DEF Starts
  <2>12. \A q \in Queues : \E f \in m_events' : f.kind = "probe" /\ f.q = q
    BY <1>1, <1>2, <2>1, <2>3 DEF EventsInv
  <2>13. \A f \in m_events' : f.kind = "probe" => f \in m_events
    BY <1>4, <2>2
  <2> QED BY <1>1, <1>2, <2>1, <2>6, <2>7, <2>8, <2>9, <2>10, <2>11, <2>12, <2>13
          DEF EventsInv, Starts
<1>7. EndInv' /\ CountInv' /\ Balanced'
  BY <1>1, <1>2 DEF RunInv, EndInv, CountInv, Balanced, figures, seen
<1> QED BY <1>5, <1>6, <1>7 DEF RunInv

(* An event that schedules no other.                                        *)
LEMMA ListShrinks ==
  ASSUME RunInv, NEW e \in m_events, NextEvent(e),
         m_events' = m_events \ {e}, i' = i, m_uid' = m_uid
  PROVE  /\ m_events' \subseteq EventType /\ m_currentTs' \in 0 .. StopTime
         /\ \A f \in m_events' : f.uid < m_uid' /\ f.at >= m_currentTs' /\ f.sim = i'
         /\ \A f \in m_events' : f.kind = "probe" => f.q \in Queues
<1>1. m_events' \subseteq m_events
  OBVIOUS
<1>2. m_currentTs' = e.at /\ e.at \in 0 .. StopTime /\ \A f \in m_events : f.at >= e.at
  BY RunsInOrder
<1> QED BY <1>1, <1>2 DEF RunInv, RunTypes

(* Before Stop only the start of the applications runs, not their stop.     *)
LEMMA StartKeeps == RunInv /\ StartOrStopApplications => RunInv'
<1> USE RunConstants
<1> SUFFICES ASSUME RunInv, StartOrStopApplications PROVE RunInv'
  OBVIOUS
<1>1. PICK e \in m_events :
        /\ NextEvent(e) /\ e.kind = "application"
        /\ m_events' = m_events \ {e} /\ traffic' = (e.q = 0)
        /\ UNCHANGED <<i, pc, m_uid, m_stop, figures, heap, window, seen>>
  BY DEF StartOrStopApplications
<1>2. /\ pc = "run" /\ m_stop = FALSE /\ m_uid \in Nat /\ e \in EventType
      /\ \A f \in m_events : f \in EventType /\ f.at >= e.at /\ (f = e \/ Before(e, f))
  BY <1>1, RunsInOrder DEF RunInv, RunTypes
<1>3. EventsInv /\ StopEvent' = StopEvent /\ e # StopEvent
  BY <1>1 DEF RunInv, StopEvent, Event
<1>4. e.uid >= NumQueues + 2 /\ e.uid \in Nat /\ e.at \in Nat
  BY <1>1, <1>2, <1>3 DEF EventsInv, EventType
<1>5. e.q = 0 /\ e.at = 0
  <2>1. e.at < StopTime \/ (e.at = StopTime /\ e.uid < NumQueues + 1)
    BY <1>1, <1>3, RunsInOrder
  <2>2. e.q = 0
    BY <1>1, <1>2, <1>3, <1>4, <2>1 DEF EventsInv
  <2> QED BY <1>1, <1>2, <1>3, <2>2 DEF EventsInv, Starts
<1>6. RunTypes'
  <2>1. /\ m_events' \subseteq EventType /\ m_currentTs' \in 0 .. StopTime
        /\ \A f \in m_events' : f.uid < m_uid' /\ f.at >= m_currentTs' /\ f.sim = i'
        /\ \A f \in m_events' : f.kind = "probe" => f.q \in Queues
    BY <1>1, ListShrinks
  <2>2. traffic' \in BOOLEAN
    BY <1>1
  <2> QED BY <1>1, <1>2, <2>1, <2>2 DEF figures, seen, RunInv, RunTypes
<1>7. EventsInv'
  <2>1. \A f \in m_events' : f \in m_events
    BY <1>1
  <2>2. StopEvent \in m_events'
    BY <1>1, <1>2, <1>3 DEF EventsInv
  <2>3. samples' = samples /\ traffic'
    BY <1>1, <1>5 DEF seen
  <2>4. \A q \in Queues : \E f \in m_events' : f.kind = "probe" /\ f.q = q
    BY <1>1, <1>2, <1>3 DEF EventsInv
  <2>5. \A q \in Queues : samples[q] > 0
    <3>1. SUFFICES ASSUME NEW q \in Queues PROVE samples[q] > 0
      OBVIOUS
    <3>2. PICK f \in m_events : f.kind = "probe" /\ f.q = q
      BY <1>2, <1>3 DEF EventsInv
    <3>3. /\ f.at = samples[q]
          /\ IF f.at = 0 THEN f.uid <= NumQueues ELSE f.uid >= NumQueues + 2
      BY <1>2, <1>3, <3>2 DEF EventsInv
    <3>4. f.at \in Nat /\ f.uid \in Nat /\ Before(e, f)
      BY <1>1, <1>2, <3>2 DEF EventType
    <3>5. f.at # 0
      BY <1>4, <1>5, <3>3, <3>4 DEF Before
    <3> QED BY <3>3, <3>4, <3>5
  <2> QED BY <1>1, <1>2, <1>3, <2>1, <2>2, <2>3, <2>4, <2>5 DEF EventsInv, Starts
<1>8. EndInv' /\ CountInv' /\ Balanced'
  BY <1>1, <1>2 DEF RunInv, EndInv, CountInv, Balanced, figures, seen
<1> QED BY <1>6, <1>7, <1>8 DEF RunInv

(* When Stop runs, everything due before it has run: the applications were  *)
(* started and each queue was probed in each interval.                      *)
LEMMA StopKeeps == RunInv /\ StopSimulator => RunInv'
<1> USE RunConstants
<1> SUFFICES ASSUME RunInv, StopSimulator PROVE RunInv'
  OBVIOUS
<1>1. PICK e \in m_events :
        /\ NextEvent(e) /\ e.kind = "stop"
        /\ m_events' = m_events \ {e} /\ m_stop' = TRUE
        /\ UNCHANGED <<i, pc, m_uid, traffic, figures, heap, window, seen>>
  BY DEF StopSimulator
<1>2. /\ pc = "run" /\ m_stop = FALSE /\ m_uid \in Nat
      /\ \A f \in m_events : f \in EventType /\ f.at >= e.at /\ (f = e \/ Before(e, f))
  BY <1>1, RunsInOrder DEF RunInv, RunTypes
<1>3. EventsInv
  BY DEF RunInv
<1>4. e.at = StopTime /\ e.uid = NumQueues + 1
  BY <1>1, <1>2, <1>3 DEF EventsInv, StopEvent, Event
<1>5. traffic
  <2>1. \A f \in m_events : ~ Starts(f)
    BY <1>2, <1>3, <1>4 DEF EventsInv
  <2> QED BY <1>2, <1>3, <2>1 DEF EventsInv
<1>6. \A q \in Queues : samples[q] = StopTime
  <2>1. SUFFICES ASSUME NEW q \in Queues PROVE samples[q] = StopTime
    OBVIOUS
  <2>2. PICK f \in m_events : f.kind = "probe" /\ f.q = q
    BY <1>2, <1>3 DEF EventsInv
  <2>3. f.at = samples[q]
    BY <1>2, <1>3, <2>2 DEF EventsInv
  <2>4. samples[q] \in 0 .. StopTime
    BY DEF RunInv, RunTypes
  <2> QED BY <1>2, <1>4, <2>2, <2>3, <2>4
<1>7. RunTypes'
  <2>1. /\ m_events' \subseteq EventType /\ m_currentTs' \in 0 .. StopTime
        /\ \A f \in m_events' : f.uid < m_uid' /\ f.at >= m_currentTs' /\ f.sim = i'
        /\ \A f \in m_events' : f.kind = "probe" => f.q \in Queues
    BY <1>1, ListShrinks
  <2> QED BY <1>1, <1>2, <2>1 DEF figures, seen, RunInv, RunTypes
<1>8. EventsInv' /\ EndInv'
  BY <1>1, <1>2, <1>5, <1>6 DEF EventsInv, EndInv, seen
<1>9. CountInv' /\ Balanced'
  BY <1>1 DEF RunInv, CountInv, Balanced, figures, seen
<1> QED BY <1>7, <1>8, <1>9 DEF RunInv

(* A probe that runs is due before Stop, so it is not one too many; no other *)
(* queue is an interval behind; and a first probe finds no traffic.         *)
LEMMA ProbeKeeps == RunInv /\ CheckQueueSize => RunInv'
<1> USE RunConstants
<1> SUFFICES ASSUME RunInv, CheckQueueSize PROVE RunInv'
  OBVIOUS
<1>1. PICK e \in m_events, len \in Lengths :
        /\ NextEvent(e) /\ e.kind = "probe"
        /\ traffic \/ len = 0
        /\ stats' = [stats EXCEPT ![e.q] = Sampled(@, len)]
        /\ realCheckTimes' = [realCheckTimes EXCEPT ![e.q] = @ + Counted(len)]
        /\ realQueuesize' = [realQueuesize EXCEPT ![e.q] = @ + len]
        /\ heap' = [heap EXCEPT !.queuel[e.q] = stats'[e.q].avg,
                                !.queuem[e.q] = stats'[e.q].max]
        /\ m_events' = (m_events \ {e}) \cup {Event(e.at + 1, m_uid, "probe", e.q)}
        /\ m_uid' = m_uid + 1
        /\ samples' = [samples EXCEPT ![e.q] = @ + 1]
        /\ peak' = [peak EXCEPT ![e.q] = Max({@, len})]
        /\ UNCHANGED <<i, pc, m_stop, traffic, window>>
  BY DEF CheckQueueSize, ProbeAgain
<1> DEFINE again == Event(e.at + 1, m_uid, "probe", e.q)
<1>2. /\ pc = "run" /\ m_stop = FALSE /\ m_uid \in Nat /\ i \in Phases
      /\ e \in EventType /\ e.at \in 0 .. StopTime /\ e.q \in Queues
      /\ \A f \in m_events : f \in EventType /\ f.at >= e.at /\ (f = e \/ Before(e, f))
  BY <1>1, RunsInOrder DEF RunInv, RunTypes
<1>3. EventsInv /\ StopEvent' = StopEvent /\ e # StopEvent
  BY <1>1 DEF RunInv, StopEvent, Event
<1>4. /\ e.at = samples[e.q]
      /\ IF e.at = 0 THEN e.uid <= NumQueues ELSE e.uid >= NumQueues + 2
      /\ m_uid >= NumQueues + 2
  BY <1>1, <1>2, <1>3 DEF EventsInv
<1>5. e.at < StopTime /\ e.uid \in Nat
  <2>1. e.at < StopTime \/ (e.at = StopTime /\ e.uid < NumQueues + 1)
    BY <1>1, <1>3, RunsInOrder
  <2> QED BY <1>2, <1>4, <2>1 DEF EventType
<1>6. again \in EventType
  BY <1>2 DEF Event, EventType, Queues
<1>7. /\ again.at = e.at + 1 /\ again.uid = m_uid /\ again.kind = "probe"
      /\ again.q = e.q /\ again.sim = i
  BY DEF Event
<1> HIDE DEF again
<1>8. /\ samples \in [Queues -> 0 .. StopTime] /\ stats \in [Queues -> StatsType]
      /\ heap \in Allocated /\ len \in Nat
      /\ realCheckTimes \in [Queues -> Nat] /\ realQueuesize \in [Queues -> Nat]
      /\ peak \in [Queues -> Nat]
  BY <1>1, <1>2 DEF RunInv, RunTypes
<1>9. samples[e.q] + 1 \in 0 .. StopTime /\ samples[e.q] \in Nat
  BY <1>2, <1>4, <1>5
<1>10. stats[e.q] \in StatsType /\ Sampled(stats[e.q], len) \in StatsType
  BY <1>2, <1>8, SampledStats
<1>11. RunTypes'
  <2>1. /\ m_events' \subseteq EventType /\ m_currentTs' \in 0 .. StopTime
        /\ \A f \in m_events' : f.uid < m_uid' /\ f.at >= m_currentTs' /\ f.sim = i'
        /\ \A f \in m_events' : f.kind = "probe" => f.q \in Queues
    <3> DEFINE N == {again}
    <3>1. N \in SUBSET EventType
      BY <1>6
    <3>2. m_events' = (m_events \ {e}) \cup N
      BY <1>1 DEF again
    <3>3. \A f \in N : /\ f.uid < m_uid' /\ f.at >= e.at /\ f.sim = i
                       /\ f.kind = "probe" => f.q \in Queues
      BY <1>1, <1>2, <1>7
    <3>4. m_uid' \in Nat /\ m_uid' >= m_uid /\ i' = i
      BY <1>1, <1>2
    <3> HIDE DEF N
    <3> QED BY <1>1, <3>1, <3>2, <3>3, <3>4, ListStays
  <2>2. stats' \in [Queues -> StatsType] /\ stats'[e.q] \in StatsType
    BY <1>1, <1>2, <1>8, <1>10
  <2>3. heap' \in Allocated
    <3>1. stats'[e.q].avg \in Nat /\ stats'[e.q].max \in Nat
      BY <2>2 DEF StatsType
    <3> QED BY <1>1, <1>8, <3>1 DEF Allocated
  <2>4. realCheckTimes' \in [Queues -> Nat] /\ realQueuesize' \in [Queues -> Nat]
    <3>1. realCheckTimes[e.q] + Counted(len) \in Nat /\ realQueuesize[e.q] + len \in Nat
      BY <1>2, <1>8 DEF Counted
    <3> QED BY <1>1, <1>8, <3>1
  <2>5. samples' \in [Queues -> 0 .. StopTime]
    BY <1>1, <1>8, <1>9
  <2>6. peak' \in [Queues -> Nat]
    <3>1. Max({peak[e.q], len}) \in Nat
      BY <1>2, <1>8, LongerIsNat
    <3> QED BY <1>1, <1>8, <3>1
  <2>7. m_uid' \in Nat
    BY <1>1, <1>2
  <2> QED BY <1>1, <1>2, <2>1, <2>2, <2>3, <2>4, <2>5, <2>6, <2>7 DEF RunInv, RunTypes
<1>12. EventsInv'
  <2>1. \A f \in m_events' : (f \in m_events /\ f # e) \/ f = again
    BY <1>1 DEF again
  <2>2. (\A f \in m_events : f # e => f \in m_events') /\ again \in m_events'
    BY <1>1 DEF again
  <2>3. \A f \in m_events' : f.kind # "probe" => f \in m_events
    BY <1>7, <2>1
  <2>4. StopEvent \in m_events' /\ m_uid' >= NumQueues + 2
    BY <1>1, <1>2, <1>3, <1>4, <2>2 DEF EventsInv
  <2>5. traffic \/ \E f \in m_events' : Starts(f)
    <3>1. traffic \/ \E f \in m_events : Starts(f)
      BY <1>2, <1>3 DEF EventsInv
    <3> QED BY <1>1, <2>2, <3>1 DEF Starts
  <2>6. \A q \in Queues : \E f \in m_events' : f.kind = "probe" /\ f.q = q
    <3>1. \A q \in Queues : \E f \in m_events : f.kind = "probe" /\ f.q = q
      BY <1>2, <1>3 DEF EventsInv
    <3> QED BY <1>7, <2>2, <3>1
  <2>7. \A f \in m_events : f # e /\ f.kind = "probe" =>
          f.q \in Queues /\ f.q # e.q /\ samples'[f.q] = samples[f.q]
    <3>1. \A f \in m_events : f # e /\ f.kind = "probe" => f.q \in Queues /\ f.q # e.q
      BY <1>1, <1>2, <1>3 DEF EventsInv, RunInv, RunTypes
    <3> QED BY <1>1, <1>8, <3>1
  <2>8. samples'[e.q] = e.at + 1
    BY <1>1, <1>2, <1>4, <1>8
  <2>9. \A f \in m_events' : f.kind = "probe" =>
          /\ f.at = samples'[f.q]
          /\ IF f.at = 0 THEN f.uid <= NumQueues ELSE f.uid >= NumQueues + 2
    <3>1. \A f \in m_events : f.kind = "probe" =>
            /\ f.at = samples[f.q]
            /\ IF f.at = 0 THEN f.uid <= NumQueues ELSE f.uid >= NumQueues + 2
      BY <1>2, <1>3 DEF EventsInv
    <3> QED BY <1>2, <1>4, <1>7, <2>1, <2>7, <2>8, <3>1
  <2>10. \A f, g \in m_events' :
           f.kind = "probe" /\ g.kind = "probe" /\ f.q = g.q => f = g
    <3>1. \A f, g \in m_events :
            f.kind = "probe" /\ g.kind = "probe" /\ f.q = g.q => f = g
      BY <1>2, <1>3 DEF EventsInv
    <3> QED BY <1>7, <2>1, <2>7, <3>1
  <2>11. traffic => \A q \in Queues : samples'[q] > 0
    <3>1. traffic => \A q \in Queues : samples[q] > 0
      BY <1>2, <1>3 DEF EventsInv
    <3> QED BY <1>1, <1>8, <3>1
  <2>12. /\ \A f \in m_events' : f.kind = "stop" => f = StopEvent
         /\ \A f \in m_events' : Starts(f) => f.at = 0
         /\ \A f \in m_events' : f.kind = "application" =>
              f.uid >= NumQueues + 2 /\ (f.q = 0 \/ f.at = StopTime)
    BY <1>2, <1>3, <2>3 DEF EventsInv, Starts
  <2> QED BY <1>1, <1>3, <2>4, <2>5, <2>6, <2>9, <2>10, <2>11, <2>12 DEF EventsInv, Starts
<1>13. CountInv'
  <2>1. SUFFICES ASSUME NEW q \in Queues
                 PROVE  IF samples'[q] = 0 THEN stats'[q].checkTimes = 0
                        ELSE stats'[q].checkTimes < samples'[q]
    BY DEF CountInv
  <2>2. CASE q # e.q
    BY <1>1, <1>8, <2>2 DEF RunInv, CountInv
  <2>3. CASE q = e.q
    <3>1. samples'[q] = samples[q] + 1 /\ stats'[q] = Sampled(stats[q], len)
      BY <1>1, <1>8, <2>3
    <3>2. IF samples[q] = 0 THEN stats[q].checkTimes = 0
          ELSE stats[q].checkTimes < samples[q]
      BY DEF RunInv, CountInv
    <3>3. /\ len = 0 => stats'[q].checkTimes = stats[q].checkTimes
          /\ stats'[q].checkTimes <= stats[q].checkTimes + 1
          /\ stats'[q].checkTimes \in Nat /\ stats[q].checkTimes \in Nat
      <4>1. /\ Sampled(stats[q], len) \in StatsType /\ stats[q] \in StatsType
            /\ len = 0 => Sampled(stats[q], len).checkTimes = stats[q].checkTimes
            /\ Sampled(stats[q], len).checkTimes <= stats[q].checkTimes + 1
        BY <1>8, <1>10, <2>3, SampledStats
      <4> QED BY <3>1, <4>1 DEF StatsType
    <3>4. samples[q] = 0 => len = 0
      BY <1>1, <1>2, <1>3 DEF EventsInv
    <3> HIDE DEF again
    <3> QED BY <1>9, <2>3, <3>1, <3>2, <3>3, <3>4
  <2> QED BY <2>2, <2>3
<1>14. Balanced'
  <2>1. \A r \in Queues : samples[r] >= samples[e.q]
    <3>1. \A r \in Queues : \E f \in m_events : f.kind = "probe" /\ f.q = r
      BY <1>2, <1>3 DEF EventsInv
    <3>2. \A f \in m_events : f.kind = "probe" => f.at = samples[f.q]
      BY <1>2, <1>3 DEF EventsInv
    <3> QED BY <1>2, <1>4, <3>1, <3>2
  <2>2. \A r \in Queues : samples[r] - samples[e.q] \in 0 .. 1
    BY <1>2, <1>8, <2>1 DEF RunInv, Balanced
  <2>3. \A r \in Queues : r # e.q => samples'[e.q] - samples'[r] \in 0 .. 1
    BY <1>1, <1>2, <1>8, <2>2
  <2>4. \A q, r \in Queues :
          q # e.q /\ r # e.q => samples'[q] - samples'[r] \in -1 .. 1
    BY <1>1, <1>8 DEF RunInv, Balanced
  <2>5. \A q \in Queues : samples'[q] \in Nat
    BY <1>1, <1>8
  <2> QED BY <1>2, <2>3, <2>4, <2>5 DEF Balanced
<1>15. EndInv'
  BY <1>1, <1>2 DEF EndInv
<1> QED BY <1>11, <1>12, <1>13, <1>14, <1>15 DEF RunInv

(* What happens around the event list (main.cpp:772-867): the results are   *)
(* read, the list is emptied, and then the arrays are deleted.              *)
LEMMA AroundKeeps == RunInv /\ (RunReturns \/ Collect \/ Destroy \/ Free) => RunInv'
<1> USE RunConstants
<1> SUFFICES ASSUME RunInv, RunReturns \/ Collect \/ Destroy \/ Free PROVE RunInv'
  OBVIOUS
<1>0. CountInv' /\ Balanced'
  BY DEF RunReturns, Collect, Destroy, Free, RunInv, CountInv, Balanced, figures, seen
<1>1. CASE RunReturns
  <2>1. m_stop
    BY <1>1 DEF RunReturns, RunInv, EventsInv
  <2>2. RunTypes'
    BY <1>1 DEF RunReturns, sim, figures, seen, RunInv, RunTypes
  <2> QED BY <1>0, <1>1, <2>1, <2>2 DEF RunReturns, sim, seen, RunInv, EventsInv, EndInv
<1>2. CASE Collect
  <2>1. RunTypes'
    BY <1>2 DEF Collect, sim, figures, seen, RunInv, RunTypes
  <2> QED BY <1>0, <1>2, <2>1 DEF Collect, sim, seen, RunInv, EventsInv, EndInv
<1>3. CASE Destroy
  <2>1. RunTypes'
    <3>1. /\ pc = "destroy" /\ pc' = "free" /\ m_events' = {}
          /\ m_uid' = 0 /\ m_currentTs' = 0 /\ m_stop' = FALSE
          /\ UNCHANGED <<i, traffic, figures, heap, seen>>
      BY <1>3 DEF Destroy, NoEvents
    <3>2. 0 \in 0 .. StopTime
      OBVIOUS
    <3> QED BY <3>1, <3>2 DEF figures, seen, RunInv, RunTypes
  <2> QED BY <1>0, <1>3, <2>1 DEF Destroy, seen, RunInv, EventsInv, EndInv
<1>4. CASE Free
  <2>1. i \in Phases /\ m_events = {} /\ m_currentTs = 0
    BY <1>4 DEF Free, RunInv, RunTypes
  <2>2. i' \in 0 .. NumPhases /\ (pc' # "done" => i' \in Phases)
        /\ pc' \in {"setup", "done"} /\ heap' = Freed
    BY <1>4, <2>1 DEF Free, Phases
  <2>3. RunTypes'
    BY <1>4, <2>1, <2>2 DEF Free, sim, figures, seen, RunInv, RunTypes
  <2> QED BY <1>0, <1>4, <2>2, <2>3 DEF RunInv, EventsInv, EndInv
<1> QED BY <1>1, <1>2, <1>3, <1>4

(* RunInv holds throughout.                                                 *)
LEMMA RunInvariant == Spec => []RunInv
<1>1. RunInv /\ [Next]_vars => RunInv'
  <2>1. RunInv /\ UNCHANGED vars => RunInv'
    <3> SUFFICES ASSUME RunInv, UNCHANGED vars PROVE RunInv'
      OBVIOUS
    <3>1. RunTypes'
      BY DEF vars, sim, figures, seen, RunInv, RunTypes
    <3>2. EventsInv'
      BY DEF vars, sim, seen, RunInv, EventsInv, StopEvent, Event, Starts
    <3>3. EndInv' /\ CountInv' /\ Balanced'
      BY DEF vars, sim, figures, seen, RunInv, EndInv, CountInv, Balanced
    <3> QED BY <3>1, <3>2, <3>3 DEF RunInv
  <2> QED BY <2>1, SetupKeeps, InitializeKeeps, StartKeeps, StopKeeps, ProbeKeeps,
             AroundKeeps DEF Next
<1> QED BY <1>1, RunInit, PTL DEF Spec

-----------------------------------------------------------------------------
(* An array that is allocated is not deleted.                               *)
LEMMA AllocatedIsLive == ASSUME NEW h \in Allocated PROVE h # Freed
<1>1. 0 \in DOMAIN h.queuel
  BY RunConstants DEF Allocated
<1>2. 0 \notin DOMAIN Freed.queuel
  BY DEF Freed
<1> QED BY <1>1, <1>2

(* TypeOK.                                                                  *)
THEOREM TypeCorrect == Spec => []TypeOK
<1>1. RunInv => TypeOK
  BY AllocatedIsLive DEF RunInv, RunTypes, TypeOK, StatsType
<1> QED BY <1>1, RunInvariant, PTL

(* ProbesPointToLiveArrays: the list is emptied by Simulator::Destroy       *)
(* before the arrays are deleted (main.cpp:857-861).                        *)
THEOREM ProbesNeverDangle == Spec => []ProbesPointToLiveArrays
<1>1. RunInv => ProbesPointToLiveArrays
  BY AllocatedIsLive DEF RunInv, RunTypes, ProbesPointToLiveArrays
<1> QED BY <1>1, RunInvariant, PTL

(* SampledEveryInterval: Stop (main.cpp:770) was scheduled before the last  *)
(* probes, which are due at the same time and therefore do not run.         *)
THEOREM SampledExactly == Spec => []SampledEveryInterval
<1>1. RunInv => SampledEveryInterval
  BY DEF RunInv, EndInv, Balanced, SampledEveryInterval
<1> QED BY <1>1, RunInvariant, PTL

(* SinksOpenUntilTheEnd: the same holds of the stop of the applications,    *)
(* which Node::Initialize schedules after main.cpp scheduled Stop.          *)
THEOREM SinksStayOpen == Spec => []SinksOpenUntilTheEnd
<1>1. RunInv => SinksOpenUntilTheEnd
  BY DEF RunInv, EndInv, SinksOpenUntilTheEnd
<1> QED BY <1>1, RunInvariant, PTL

(* CongestionIsPartial: no queue is reported as congested for the whole     *)
(* simulation, since its first probe precedes the start of the applications *)
(* (main.cpp:744-755).                                                      *)
THEOREM NeverFullyCongested == Spec => []CongestionIsPartial
<1> USE RunConstants
<1> DEFINE Reports == /\ DOMAIN window = Phases
                      /\ \A v \in Phases, q \in Queues : window[v].time[q] < StopTime
<1>1. Init => Reports
  BY DEF Init, NoWindow
<1>2. RunInv /\ Reports /\ [Next]_vars => Reports'
  <2> SUFFICES ASSUME RunInv, Reports, [Next]_vars PROVE Reports'
    OBVIOUS
  <2>1. CASE Collect
    <3>1. i \in Phases /\ \A q \in Queues : stats[q].checkTimes < StopTime
      BY <2>1 DEF Collect, RunInv, RunTypes, EndInv, CountInv
    <3> DEFINE row ==
          [avg   |-> [q \in Queues |-> heap.queuel[q]],
           time  |-> [q \in Queues |-> stats[q].checkTimes],
           max   |-> ReportedMax,
           mean  |-> IF SumOfAverages >= Unit THEN SumOfAverages \div NumQueues ELSE 0,
           total |-> SumFunctionOnSet([q \in Queues |-> stats[q].checkTimes], Queues)]
    <3>2. window' = [window EXCEPT ![i] = row]
      BY <2>1 DEF Collect
    <3>3. row.time = [q \in Queues |-> stats[q].checkTimes]
      OBVIOUS
    <3> HIDE DEF row
    <3> QED BY <3>1, <3>2, <3>3
  <2>2. CASE ~ Collect
    <3>1. window' = window
      BY <2>2 DEF Next, vars, Setup, InitializeNodes, StartOrStopApplications,
                  StopSimulator, CheckQueueSize, RunReturns, Destroy, Free
    <3> QED BY <3>1
  <2> QED BY <2>1, <2>2
<1>3. Reports => CongestionIsPartial
  BY DEF CongestionIsPartial
<1> HIDE DEF Reports
<1> QED BY <1>1, <1>2, <1>3, RunInvariant, PTL DEF Spec

-----------------------------------------------------------------------------
(* The longer of two lengths is the one or the other, and below neither.    *)
LEMMA LongerOfTwo ==
  ASSUME NEW a \in Nat, NEW b \in Nat
  PROVE  Max({a, b}) \in {a, b} /\ Max({a, b}) >= a /\ Max({a, b}) >= b
<1>1. \E x \in {a, b} : \A y \in {a, b} : x >= y
  <2>1. CASE a >= b
    BY <2>1
  <2>2. CASE b >= a
    BY <2>2
  <2> QED BY <2>1, <2>2
<1> QED BY <1>1 DEF Max

(* The statistics of a queue that has been seen with p packets and no more: *)
(* what was counted has a packet at least, and p at most.                   *)
SeenStats(s, p) ==
  /\ s \in StatsType /\ p \in Nat
  /\ s.max = p
  /\ s.checkTimes <= s.tmp /\ s.tmp <= s.checkTimes * p
  /\ s.avg <= Unit * p
  /\ s.checkTimes > 0 => s.avg >= Unit

(* A probe (main.cpp:146-156) keeps the statistics within what it has seen. *)
LEMMA SampledSeen ==
  ASSUME NEW s, NEW p, SeenStats(s, p), NEW len \in Nat
  PROVE  SeenStats(Sampled(s, len), Max({p, len}))
<1> USE RunConstants
<1> DEFINE m == Max({p, len})
           t == s.tmp + len
           c == s.checkTimes + 1
<1>1. /\ s \in StatsType /\ p \in Nat /\ s.max = p
      /\ s.checkTimes \in Nat /\ s.tmp \in Nat /\ s.avg \in Nat
      /\ s.checkTimes <= s.tmp /\ s.tmp <= s.checkTimes * p
  BY DEF SeenStats, StatsType
<1>2. m \in Nat /\ m >= p /\ m >= len /\ m \in {p, len}
  BY <1>1, LongerOfTwo
<1>3. Sampled(s, len) \in StatsType
  BY <1>1, SampledStats
<1> HIDE DEF m
<1>4. CASE len = 0
  <2>1. m = p
    BY <1>1, <1>2, <1>4
  <2> QED BY <1>4, <2>1 DEF Sampled, SeenStats, m
<1>5. CASE len # 0
  <2>1. t \in Nat /\ c \in Nat \ {0} /\ c <= t
    BY <1>1, <1>5
  <2>2. t <= c * m
    <3>1. p * s.checkTimes <= m * s.checkTimes
      BY <1>1, <1>2, TimesMonotone
    <3>2. /\ p * s.checkTimes = s.checkTimes * p /\ m * s.checkTimes = s.checkTimes * m
          /\ c * m = s.checkTimes * m + m
      BY <1>1, <1>2
    <3>3. p * s.checkTimes \in Nat /\ s.checkTimes * m \in Nat
      BY <1>1, <1>2
    <3> HIDE DEF c
    <3> QED BY <1>1, <1>2, <3>1, <3>2, <3>3
  <2> HIDE DEF t, c
  <2>3. Unit * t \in Nat /\ Unit * m \in Nat /\ Unit \in Nat
    BY <1>2, <2>1
  <2>4. c * Unit <= Unit * t /\ Unit * t <= c * (Unit * m)
    <3>1. c * Unit <= t * Unit /\ t * Unit <= (c * m) * Unit
      BY <1>2, <2>1, <2>2, TimesMonotone
    <3>2. t * Unit = Unit * t /\ (c * m) * Unit = c * (Unit * m)
      BY <1>2, <2>1
    <3> QED BY <3>1, <3>2
  <2>5. Unit <= (Unit * t) \div c /\ (Unit * t) \div c <= Unit * m
    BY <2>1, <2>3, <2>4, QuotientBetween
  <2>6. Sampled(s, len) = [checkTimes |-> c, max |-> m, tmp |-> t, avg |-> (Unit * t) \div c]
    BY <1>1, <1>5 DEF Sampled, t, c, m
  <2>7. SeenStats(Sampled(s, len), m)
    BY <1>2, <1>3, <2>1, <2>2, <2>5, <2>6 DEF SeenStats
  <2> QED BY <2>7 DEF m
<1> QED BY <1>4, <1>5

(* While the arrays are there they hold the statistics of the queues, which *)
(* are within what was seen; then the row of the phase holds them too.      *)
SeenInv ==
  pc \in {"run", "collect", "destroy", "free"} =>
    /\ \A q \in Queues :
         /\ SeenStats(stats[q], peak[q])
         /\ heap.queuel[q] = stats[q].avg /\ heap.queuem[q] = peak[q]
    /\ pc \in {"destroy", "free"} =>
         /\ \A q \in Queues :
              window[i].avg[q] = heap.queuel[q] /\ window[i].time[q] = stats[q].checkTimes
         /\ window[i].max = ReportedMax

(* SeenInv holds throughout.                                                *)
LEMMA SeenInvariant == Spec => []SeenInv
<1> USE RunConstants
<1> DEFINE Rows == DOMAIN window = Phases
<1>1. Init => Rows /\ SeenInv
  BY DEF Init, SeenInv
<1>2. RunInv /\ Rows /\ SeenInv /\ [Next]_vars => Rows' /\ SeenInv'
  <2> SUFFICES ASSUME RunInv, DOMAIN window = Phases, SeenInv, [Next]_vars
               PROVE  DOMAIN window' = Phases /\ SeenInv'
    OBVIOUS
  <2>1. CASE Setup
    <3>1. /\ pc' = "run" /\ window' = window
          /\ stats' = [q \in Queues |-> Cleared] /\ peak' = [q \in Queues |-> 0]
          /\ \A q \in Queues : heap'.queuel[q] = 0 /\ heap'.queuem[q] = 0
      BY <2>1 DEF Setup, ClearedStats, Queues
    <3>2. SeenStats(Cleared, 0)
      BY DEF SeenStats, Cleared, StatsType
    <3> QED BY <3>1, <3>2 DEF SeenInv, Cleared
  <2>2. CASE CheckQueueSize
    <3>1. PICK e \in m_events, len \in Lengths :
            /\ NextEvent(e) /\ e.kind = "probe"
            /\ stats' = [stats EXCEPT ![e.q] = Sampled(@, len)]
            /\ heap' = [heap EXCEPT !.queuel[e.q] = stats'[e.q].avg,
                                    !.queuem[e.q] = stats'[e.q].max]
            /\ peak' = [peak EXCEPT ![e.q] = Max({@, len})]
            /\ UNCHANGED <<pc, window>>
      BY <2>2 DEF CheckQueueSize
    <3>2. /\ pc = "run" /\ e.q \in Queues /\ len \in Nat /\ heap \in Allocated
          /\ stats \in [Queues -> StatsType] /\ peak \in [Queues -> Nat]
      BY <3>1 DEF NextEvent, RunInv, RunTypes
    <3>3. ASSUME NEW q \in Queues
          PROVE  /\ SeenStats(stats'[q], peak'[q])
                 /\ heap'.queuel[q] = stats'[q].avg /\ heap'.queuem[q] = peak'[q]
      <4>1. /\ SeenStats(stats[q], peak[q])
            /\ heap.queuel[q] = stats[q].avg /\ heap.queuem[q] = peak[q]
        BY <3>2 DEF SeenInv
      <4>2. CASE q = e.q
        <5>1. stats'[q] = Sampled(stats[q], len) /\ peak'[q] = Max({peak[q], len})
          BY <3>1, <3>2, <4>2
        <5>2. SeenStats(stats'[q], peak'[q])
          BY <3>2, <4>1, <5>1, SampledSeen
        <5>3. heap'.queuel[q] = stats'[q].avg /\ heap'.queuem[q] = stats'[q].max
          BY <3>1, <3>2, <4>2 DEF Allocated, Queues
        <5> QED BY <5>2, <5>3 DEF SeenStats
      <4>3. CASE q # e.q
        <5>1. stats'[q] = stats[q] /\ peak'[q] = peak[q]
          BY <3>1, <3>2, <4>3
        <5>2. heap'.queuel[q] = heap.queuel[q] /\ heap'.queuem[q] = heap.queuem[q]
          BY <3>1, <3>2, <4>3 DEF Allocated, Queues
        <5> QED BY <4>1, <5>1, <5>2
      <4> QED BY <4>2, <4>3
    <3> QED BY <3>1, <3>2, <3>3 DEF SeenInv
  <2>3. CASE Collect
    <3>1. /\ pc = "collect" /\ pc' = "destroy" /\ i' = i /\ i \in Phases
          /\ stats' = stats /\ heap' = heap /\ peak' = peak
      BY <2>3 DEF Collect, figures, seen, RunInv, RunTypes
    <3>2. /\ window'[i].avg = [q \in Queues |-> heap.queuel[q]]
          /\ window'[i].time = [q \in Queues |-> stats[q].checkTimes]
          /\ window'[i].max = ReportedMax
          /\ DOMAIN window' = Phases
      BY <2>3, <3>1 DEF Collect
    <3>3. ReportedMax' = ReportedMax
      BY <3>1 DEF ReportedMax, LongestQueue
    <3> QED BY <3>1, <3>2, <3>3 DEF SeenInv
  <2>4. CASE Free
    BY <2>4 DEF Free, SeenInv
  <2>5. CASE Destroy \/ UNCHANGED vars
    <3>1. /\ UNCHANGED <<i, stats, heap, peak, window>>
          /\ pc' \in {"destroy", "free"} => pc \in {"destroy", "free"}
          /\ pc' \in {"run", "collect", "destroy", "free"}
               => pc \in {"run", "collect", "destroy", "free"}
      BY <2>5 DEF Destroy, vars, figures, seen
    <3>2. ReportedMax' = ReportedMax
      BY <3>1 DEF ReportedMax, LongestQueue
    <3> QED BY <3>1, <3>2 DEF SeenInv
  <2>6. CASE InitializeNodes \/ StartOrStopApplications \/ StopSimulator \/ RunReturns
    <3>1. /\ UNCHANGED <<stats, heap, peak, window>> /\ pc = "run"
          /\ pc' \in {"run", "collect"}
      BY <2>6 DEF InitializeNodes, StartOrStopApplications, StopSimulator, RunReturns,
                  NextEvent, figures, seen
    <3> QED BY <3>1 DEF SeenInv
  <2> QED BY <2>1, <2>2, <2>3, <2>4, <2>5, <2>6 DEF Next
<1> HIDE DEF Rows
<1> QED BY <1>1, <1>2, RunInvariant, PTL DEF Spec

(* ReportedWasSeen: the average that is reported of a queue (main.cpp:156)  *)
(* lies between one packet and the longest length seen, and the uninitial-  *)
(* ised element (main.cpp:819) hides the longest queue or changes nothing.  *)
THEOREM ReportedFiguresWereSeen == Spec => []ReportedWasSeen
<1> USE RunConstants
<1>1. RunInv /\ SeenInv => ReportedWasSeen
  <2> SUFFICES ASSUME RunInv, SeenInv, pc \in {"destroy", "free"}
               PROVE  /\ \A q \in Queues :
                           /\ window[i].avg[q] <= Unit * peak[q]
                           /\ window[i].time[q] > 0 => window[i].avg[q] >= Unit
                      /\ \/ window[i].max = Max({peak[q] : q \in Queues})
                         \/ window[i].max = 0 /\ heap.queuem[NumQueues] > 0
    BY DEF ReportedWasSeen
  <2>1. \A q \in Queues :
          /\ window[i].avg[q] <= Unit * peak[q]
          /\ window[i].time[q] > 0 => window[i].avg[q] >= Unit
    BY DEF SeenInv, SeenStats
  <2> DEFINE P == {peak[q] : q \in Queues}
  <2>2. {heap.queuem[q] : q \in Queues} = P
    BY DEF SeenInv
  <2>3. LongestQueue = Max(P)
    BY <2>2 DEF LongestQueue
  <2>4. peak \in [Queues -> Nat] /\ heap.queuem[NumQueues] \in Nat
    BY DEF RunInv, RunTypes, Allocated
  <2>5. P \in SUBSET Nat /\ P # {} /\ IsFiniteSet(P)
    <3>1. P \in SUBSET Nat /\ peak[0] \in P
      BY <2>4 DEF Queues
    <3>2. peak \in Surjection(Queues, P)
      BY <2>4 DEF Surjection
    <3>3. IsFiniteSet(Queues)
      BY FS_Interval DEF Queues
    <3> HIDE DEF P
    <3> QED BY <3>1, <3>2, <3>3, FS_Surjection
  <2> HIDE DEF P
  <2>6. Max(P) \in Nat
    <3>1. \E x \in P : \A y \in P : x >= y
      BY <2>5, GreatestNatural
    <3>2. Max(P) \in P
      BY <3>1 DEF Max
    <3> QED BY <2>5, <3>2
  <2>7. window[i].max = IF Max(P) > heap.queuem[NumQueues] THEN Max(P) ELSE 0
    BY <2>3 DEF SeenInv, ReportedMax
  <2>8. \/ window[i].max = Max(P)
        \/ window[i].max = 0 /\ heap.queuem[NumQueues] > 0
    BY <2>4, <2>6, <2>7
  <2> QED BY <2>1, <2>8 DEF P
<1> QED BY <1>1, RunInvariant, SeenInvariant, PTL

-----------------------------------------------------------------------------
(* What the running totals hold of the phases that are over: all but what   *)
(* the simulation that runs has counted so far.                             *)
Current(q)       == IF pc \in {"run", "collect"} THEN stats[q] ELSE Cleared
ArchivedTimes(q) == realCheckTimes[q] - Current(q).checkTimes
ArchivedSizes(q) == realQueuesize[q] - Current(q).tmp
Times(q)         == [v \in Phases |-> window[v].time[q]]

(* The rows of the phases: reported, or still empty.                        *)
RowsInv ==
  /\ DOMAIN window = Phases
  /\ \A v \in Phases :
       /\ window[v].time \in [Queues -> Nat] /\ window[v].avg \in [Queues -> Nat]
       /\ window[v].total = SumFunctionOnSet(window[v].time, Queues)
       /\ v > i \/ (v = i /\ pc \in {"setup", "run", "collect"})
            => \A q \in Queues : window[v].time[q] = 0

(* What is about to be reported of a queue is its average.                  *)
AverageInv ==
  pc \in {"run", "collect"} => \A q \in Queues :
    /\ heap.queuel[q] = stats[q].avg
    /\ IF stats[q].checkTimes = 0 THEN stats[q].tmp = 0
       ELSE stats[q].avg = (Unit * stats[q].tmp) \div stats[q].checkTimes

(* The totals are those of the rows.                                        *)
TotalsInv ==
  \A q \in Queues :
    /\ ArchivedTimes(q) \in Nat /\ ArchivedSizes(q) \in Nat
    /\ ArchivedTimes(q) = SumFunctionOnSet(Times(q), Phases)
    /\ realCheckTimes[q] <= realQueuesize[q]

(* The mean length of a queue over its phases lies between any bounds that  *)
(* its averages in these phases lie between.                                *)
MeanInv ==
  \A q \in Queues, a \in Nat :
    /\ (\A v \in Used(q) : window[v].avg[q] >= a)
         => Unit * ArchivedSizes(q) >= a * ArchivedTimes(q)
    /\ (\A v \in Used(q) : window[v].avg[q] <= a)
         => Unit * ArchivedSizes(q) < (a + 1) * ArchivedTimes(q) \/ ArchivedSizes(q) = 0

ArchiveInv == RowsInv /\ AverageInv /\ TotalsInv /\ MeanInv

(* At the start nothing has been counted.                                   *)
LEMMA ArchiveInit == Init => ArchiveInv
<1> USE RunConstants
<1> SUFFICES ASSUME Init PROVE ArchiveInv
  OBVIOUS
<1>1. IsFiniteSet(Queues) /\ IsFiniteSet(Phases)
  BY FS_Interval DEF Queues, Phases
<1>2. RowsInv
  <2>1. SumFunctionOnSet([q \in Queues |-> 0], Queues) = 0
    BY <1>1, SumZero
  <2> QED BY <2>1 DEF Init, RowsInv, NoWindow
<1>3. AverageInv
  BY DEF Init, AverageInv
<1>4. \A q \in Queues : ArchivedTimes(q) = 0 /\ ArchivedSizes(q) = 0
  BY DEF Init, ArchivedTimes, ArchivedSizes, Current, Cleared
<1>5. TotalsInv
  <2>1. \A q \in Queues : SumFunctionOnSet(Times(q), Phases) = 0
    <3>1. \A q \in Queues : \A v \in Phases : Times(q)[v] = 0
      BY DEF Init, Times, NoWindow
    <3> QED BY <1>1, <3>1, SumZero
  <2> QED BY <1>4, <2>1 DEF Init, TotalsInv
<1>6. MeanInv
  BY <1>4 DEF MeanInv
<1> QED BY <1>2, <1>3, <1>5, <1>6 DEF ArchiveInv

(* A step that leaves the rows and what they are compared with alone leaves *)
(* the totals and the means in agreement.                                   *)
LEMMA SameArchive ==
  ASSUME TotalsInv, MeanInv, window' = window,
         \A q \in Queues : /\ ArchivedTimes(q)' = ArchivedTimes(q)
                           /\ ArchivedSizes(q)' = ArchivedSizes(q)
                           /\ realCheckTimes'[q] <= realQueuesize'[q]
  PROVE  TotalsInv' /\ MeanInv'
<1>1. \A q \in Queues : Times(q)' = Times(q) /\ Used(q)' = Used(q)
  BY DEF Times, Used
<1> QED BY <1>1 DEF TotalsInv, MeanInv

(* A probe (main.cpp:146-165) counts the same in the statistics and in the  *)
(* running totals.                                                          *)
LEMMA ProbeArchive ==
  ASSUME RunInv, ArchiveInv, CheckQueueSize
  PROVE  ArchiveInv'
<1> USE RunConstants
<1>1. PICK e \in m_events, len \in Lengths :
        /\ NextEvent(e) /\ e.kind = "probe"
        /\ stats' = [stats EXCEPT ![e.q] = Sampled(@, len)]
        /\ realCheckTimes' = [realCheckTimes EXCEPT ![e.q] = @ + Counted(len)]
        /\ realQueuesize' = [realQueuesize EXCEPT ![e.q] = @ + len]
        /\ heap' = [heap EXCEPT !.queuel[e.q] = stats'[e.q].avg,
                                !.queuem[e.q] = stats'[e.q].max]
        /\ UNCHANGED <<i, pc, window>>
  BY DEF CheckQueueSize
<1>2. e.q \in Queues /\ len \in Nat /\ pc = "run"
  BY <1>1 DEF NextEvent, RunInv, RunTypes
<1>3. /\ stats \in [Queues -> StatsType] /\ heap \in Allocated
      /\ realCheckTimes \in [Queues -> Nat] /\ realQueuesize \in [Queues -> Nat]
  BY <1>2 DEF RunInv, RunTypes
<1> DEFINE s == stats[e.q]
           z == Sampled(s, len)
<1>4. s \in StatsType /\ z \in StatsType
  BY <1>2, <1>3, SampledStats
<1>5. /\ z.checkTimes = s.checkTimes + Counted(len) /\ z.tmp = s.tmp + len
      /\ Counted(len) \in Nat /\ Counted(len) <= len
      /\ s.checkTimes \in Nat /\ s.tmp \in Nat
  BY <1>2, <1>4 DEF Sampled, Counted, StatsType
<1>6. /\ stats'[e.q] = z /\ \A q \in Queues : q # e.q => stats'[q] = stats[q]
      /\ realCheckTimes'[e.q] = realCheckTimes[e.q] + Counted(len)
      /\ realQueuesize'[e.q] = realQueuesize[e.q] + len
      /\ \A q \in Queues : q # e.q => /\ realCheckTimes'[q] = realCheckTimes[q]
                                      /\ realQueuesize'[q] = realQueuesize[q]
  BY <1>1, <1>2, <1>3
<1>7. RowsInv'
  BY <1>1 DEF ArchiveInv, RowsInv
<1>8. AverageInv'
  <2>1. /\ heap'.queuel[e.q] = z.avg
        /\ \A q \in Queues : q # e.q => heap'.queuel[q] = heap.queuel[q]
    <3>1. e.q \in 0 .. NumQueues /\ Queues \subseteq 0 .. NumQueues
      BY <1>2 DEF Queues
    <3> HIDE DEF z
    <3> QED BY <1>1, <1>3, <1>6, <3>1 DEF Allocated
  <2>2. IF z.checkTimes = 0 THEN z.tmp = 0 ELSE z.avg = (Unit * z.tmp) \div z.checkTimes
    <3>1. CASE len = 0
      BY <1>2, <3>1 DEF ArchiveInv, AverageInv, Sampled
    <3>2. CASE len # 0
      BY <1>4, <1>5, <3>2 DEF Sampled, Counted
    <3> QED BY <3>1, <3>2
  <2> HIDE DEF z, s
  <2>3. ASSUME NEW q \in Queues
        PROVE  /\ heap'.queuel[q] = stats'[q].avg
               /\ IF stats'[q].checkTimes = 0 THEN stats'[q].tmp = 0
                  ELSE stats'[q].avg = (Unit * stats'[q].tmp) \div stats'[q].checkTimes
    <3>1. CASE q = e.q
      BY <1>6, <2>1, <2>2, <3>1
    <3>2. CASE q # e.q
      BY <1>2, <1>6, <2>1, <3>2 DEF ArchiveInv, AverageInv
    <3> QED BY <3>1, <3>2
  <2> QED BY <2>3 DEF AverageInv
<1>9. ASSUME NEW q \in Queues
      PROVE  /\ ArchivedTimes(q)' = ArchivedTimes(q)
             /\ ArchivedSizes(q)' = ArchivedSizes(q)
             /\ realCheckTimes'[q] <= realQueuesize'[q]
  <2>1. realCheckTimes[q] \in Nat /\ realQueuesize[q] \in Nat
        /\ realCheckTimes[q] <= realQueuesize[q]
    BY <1>3 DEF ArchiveInv, TotalsInv
  <2>2. CASE q = e.q
    <3>1. /\ ArchivedTimes(q)' = realCheckTimes'[q] - z.checkTimes
          /\ ArchivedSizes(q)' = realQueuesize'[q] - z.tmp
          /\ ArchivedTimes(q) = realCheckTimes[q] - s.checkTimes
          /\ ArchivedSizes(q) = realQueuesize[q] - s.tmp
      BY <1>1, <1>2, <1>6, <2>2 DEF ArchivedTimes, ArchivedSizes, Current
    <3> HIDE DEF z, s
    <3> QED BY <1>2, <1>5, <1>6, <2>1, <2>2, <3>1
  <2>3. CASE q # e.q
    BY <1>1, <1>6, <2>1, <2>3 DEF ArchivedTimes, ArchivedSizes, Current
  <2> QED BY <2>2, <2>3
<1>10. TotalsInv' /\ MeanInv'
  BY <1>1, <1>9, SameArchive DEF ArchiveInv
<1> QED BY <1>7, <1>8, <1>10 DEF ArchiveInv

(* Clearing the statistics (main.cpp:472-483) takes nothing from the totals.*)
LEMMA SetupArchive ==
  ASSUME RunInv, ArchiveInv, Setup
  PROVE  ArchiveInv'
<1> USE RunConstants
<1>1. /\ pc = "setup" /\ pc' = "run" /\ UNCHANGED <<i, realCheckTimes, realQueuesize, window>>
      /\ stats' = [q \in Queues |-> Cleared]
      /\ \A q \in Queues : heap'.queuel[q] = 0
  BY DEF Setup, ClearedStats, Queues
<1>2. RowsInv'
  BY <1>1 DEF ArchiveInv, RowsInv
<1>3. AverageInv'
  BY <1>1 DEF AverageInv, Cleared
<1>4. \A q \in Queues : /\ ArchivedTimes(q)' = ArchivedTimes(q)
                        /\ ArchivedSizes(q)' = ArchivedSizes(q)
                        /\ realCheckTimes'[q] <= realQueuesize'[q]
  BY <1>1 DEF ArchivedTimes, ArchivedSizes, Current, ArchiveInv, TotalsInv
<1> QED BY <1>1, <1>2, <1>3, <1>4, SameArchive DEF ArchiveInv

(* Reporting a phase (main.cpp:814-834) moves what has been counted in it   *)
(* to its row.                                                              *)
LEMMA CollectArchive ==
  ASSUME RunInv, ArchiveInv, Collect
  PROVE  ArchiveInv'
<1> USE RunConstants
<1> DEFINE row ==
      [avg   |-> [q \in Queues |-> heap.queuel[q]],
       time  |-> [q \in Queues |-> stats[q].checkTimes],
       max   |-> ReportedMax,
       mean  |-> IF SumOfAverages >= Unit THEN SumOfAverages \div NumQueues ELSE 0,
       total |-> SumFunctionOnSet([q \in Queues |-> stats[q].checkTimes], Queues)]
<1>1. /\ pc = "collect" /\ pc' = "destroy" /\ window' = [window EXCEPT ![i] = row]
      /\ UNCHANGED <<i, stats, realCheckTimes, realQueuesize, heap>>
  BY DEF Collect, figures
<1>2. /\ row.avg = [q \in Queues |-> heap.queuel[q]]
      /\ row.time = [q \in Queues |-> stats[q].checkTimes]
      /\ row.total = SumFunctionOnSet(row.time, Queues)
  OBVIOUS
<1> HIDE DEF row
<1>3. /\ i \in Phases /\ heap \in Allocated /\ stats \in [Queues -> StatsType]
      /\ realCheckTimes \in [Queues -> Nat] /\ realQueuesize \in [Queues -> Nat]
  BY <1>1 DEF RunInv, RunTypes
<1>4. \A q \in Queues :
        /\ stats[q].checkTimes \in Nat /\ stats[q].tmp \in Nat /\ heap.queuel[q] \in Nat
  <2>1. Queues \subseteq 0 .. NumQueues
    BY DEF Queues
  <2>2. heap.queuel \in [0 .. NumQueues -> Nat]
    BY <1>3 DEF Allocated
  <2> QED BY <1>3, <2>1, <2>2 DEF StatsType
<1>5. /\ DOMAIN window = Phases /\ DOMAIN window' = Phases
      /\ window'[i] = row /\ \A v \in Phases : v # i => window'[v] = window[v]
  BY <1>1, <1>3 DEF ArchiveInv, RowsInv
<1>6. \A q \in Queues : /\ window[i].time[q] = 0
                        /\ row.time[q] = stats[q].checkTimes /\ row.avg[q] = heap.queuel[q]
  BY <1>1, <1>2, <1>3 DEF ArchiveInv, RowsInv
<1>7. RowsInv'
  <2>1. ASSUME NEW v \in Phases
        PROVE  /\ window'[v].time \in [Queues -> Nat] /\ window'[v].avg \in [Queues -> Nat]
               /\ window'[v].total = SumFunctionOnSet(window'[v].time, Queues)
               /\ v > i => \A q \in Queues : window'[v].time[q] = 0
    <3>1. CASE v = i
      <4>1. row.time \in [Queues -> Nat] /\ row.avg \in [Queues -> Nat]
        BY <1>2, <1>4
      <4>2. ~ (i > i)
        BY <1>3 DEF Phases
      <4> QED BY <1>2, <1>5, <3>1, <4>1, <4>2
    <3>2. CASE v # i
      BY <1>5, <3>2 DEF ArchiveInv, RowsInv
    <3> QED BY <3>1, <3>2
  <2> QED BY <1>1, <1>5, <2>1 DEF RowsInv
<1>8. AverageInv'
  BY <1>1 DEF AverageInv
<1>9. ASSUME NEW q \in Queues
      PROVE  /\ ArchivedTimes(q) \in Nat /\ ArchivedSizes(q) \in Nat
             /\ ArchivedTimes(q)' = ArchivedTimes(q) + stats[q].checkTimes
             /\ ArchivedSizes(q)' = ArchivedSizes(q) + stats[q].tmp
  <2>1. ArchivedTimes(q) \in Nat /\ ArchivedSizes(q) \in Nat
    BY DEF ArchiveInv, TotalsInv
  <2>2. /\ ArchivedTimes(q)' = realCheckTimes[q] - 0
        /\ ArchivedSizes(q)' = realQueuesize[q] - 0
        /\ ArchivedTimes(q) = realCheckTimes[q] - stats[q].checkTimes
        /\ ArchivedSizes(q) = realQueuesize[q] - stats[q].tmp
    BY <1>1 DEF ArchivedTimes, ArchivedSizes, Current, Cleared
  <2>3. realCheckTimes[q] \in Nat /\ realQueuesize[q] \in Nat
    BY <1>3
  <2> QED BY <1>4, <2>1, <2>2, <2>3
<1>10. TotalsInv'
  <2> SUFFICES ASSUME NEW q \in Queues
               PROVE  /\ ArchivedTimes(q)' \in Nat /\ ArchivedSizes(q)' \in Nat
                      /\ ArchivedTimes(q)' = SumFunctionOnSet(Times(q)', Phases)
                      /\ realCheckTimes'[q] <= realQueuesize'[q]
    BY DEF TotalsInv
  <2>1. SumFunctionOnSet(Times(q)', Phases)
          = SumFunctionOnSet(Times(q), Phases) + stats[q].checkTimes
    <3>1. \A v \in Phases : Times(q)[v] \in Int
      BY DEF Times, ArchiveInv, RowsInv
    <3>2. \A v \in Phases :
            Times(q)'[v] = IF v = i THEN Times(q)[v] + stats[q].checkTimes ELSE Times(q)[v]
      BY <1>4, <1>5, <1>6 DEF Times
    <3>3. IsFiniteSet(Phases)
      BY FS_Interval DEF Phases
    <3>4. stats[q].checkTimes \in Int
      BY <1>4
    <3> QED BY <1>3, <3>1, <3>2, <3>3, <3>4, SumBump
  <2>2. /\ ArchivedTimes(q) = SumFunctionOnSet(Times(q), Phases)
        /\ realCheckTimes[q] <= realQueuesize[q]
    BY DEF ArchiveInv, TotalsInv
  <2> QED BY <1>1, <1>4, <1>9, <2>1, <2>2
<1>11. MeanInv'
  <2> SUFFICES ASSUME NEW q \in Queues, NEW a \in Nat
               PROVE  /\ (\A v \in Used(q)' : window'[v].avg[q] >= a)
                           => Unit * ArchivedSizes(q)' >= a * ArchivedTimes(q)'
                      /\ (\A v \in Used(q)' : window'[v].avg[q] <= a)
                           => \/ Unit * ArchivedSizes(q)' < (a + 1) * ArchivedTimes(q)'
                              \/ ArchivedSizes(q)' = 0
    BY DEF MeanInv
  <2> DEFINE t == ArchivedTimes(q)
             s == ArchivedSizes(q)
             c == stats[q].checkTimes
             m == stats[q].tmp
  <2>1. /\ t \in Nat /\ s \in Nat /\ c \in Nat /\ m \in Nat
        /\ ArchivedTimes(q)' = t + c /\ ArchivedSizes(q)' = s + m
    BY <1>4, <1>9
  <2>2. /\ (\A v \in Used(q) : window[v].avg[q] >= a) => Unit * s >= a * t
        /\ (\A v \in Used(q) : window[v].avg[q] <= a) => Unit * s < (a + 1) * t \/ s = 0
    BY DEF ArchiveInv, MeanInv
  <2>3. IF c = 0 THEN m = 0 ELSE heap.queuel[q] = (Unit * m) \div c
    BY <1>1 DEF ArchiveInv, AverageInv
  <2>4. i \notin Used(q)
    BY <1>6 DEF Used
  <2>5. \A v \in Used(q) : v \in Used(q)' /\ window'[v].avg[q] = window[v].avg[q]
    BY <1>5, <2>4 DEF Used
  <2>6. c # 0 => i \in Used(q)' /\ window'[i].avg[q] = heap.queuel[q]
    BY <1>3, <1>5, <1>6, <2>1 DEF Used
  <2> HIDE DEF t, s, c, m
  <2>7. CASE c = 0
    <3>1. m = 0 /\ s + m = s /\ t + c = t
      BY <2>1, <2>3, <2>7
    <3> QED BY <2>1, <2>2, <2>5, <3>1
  <2>8. CASE c # 0
    <3>1. c \in Nat \ {0} /\ heap.queuel[q] = (Unit * m) \div c /\ Unit \in Nat
      BY <2>1, <2>3, <2>8
    <3>2. ASSUME \A v \in Used(q)' : window'[v].avg[q] >= a
          PROVE  Unit * (s + m) >= a * (t + c)
      <4>1. Unit * s >= a * t /\ (Unit * m) \div c >= a
        BY <2>2, <2>5, <2>6, <2>8, <3>1, <3>2
      <4> QED BY <2>1, <3>1, <4>1, MeanOfBoth
    <3>3. ASSUME \A v \in Used(q)' : window'[v].avg[q] <= a
          PROVE  Unit * (s + m) < (a + 1) * (t + c)
      <4>1. (Unit * s < (a + 1) * t \/ s = 0) /\ (Unit * m) \div c <= a
        BY <2>2, <2>5, <2>6, <2>8, <3>1, <3>3
      <4> QED BY <2>1, <3>1, <4>1, MeanOfBoth
    <3> QED BY <2>1, <3>2, <3>3
  <2> QED BY <2>7, <2>8
<1> QED BY <1>7, <1>8, <1>10, <1>11 DEF ArchiveInv

(* ArchiveInv holds throughout: the other steps touch neither the rows nor  *)
(* the figures.                                                             *)
LEMMA ArchiveInvariant == Spec => []ArchiveInv
<1> USE RunConstants
<1>1. RunInv /\ ArchiveInv /\ [Next]_vars => ArchiveInv'
  <2> SUFFICES ASSUME RunInv, ArchiveInv, [Next]_vars, ~ Setup, ~ CheckQueueSize, ~ Collect
               PROVE  ArchiveInv'
    BY SetupArchive, ProbeArchive, CollectArchive
  <2>1. /\ UNCHANGED <<window, stats, realCheckTimes, realQueuesize>>
        /\ pc' \in {"run", "collect"} <=> pc \in {"run", "collect"}
    BY DEF Next, vars, figures, InitializeNodes, StartOrStopApplications, StopSimulator,
           NextEvent, RunReturns, Destroy, Free
  <2>2. /\ i' = i \/ (i' = i + 1 /\ pc = "free" /\ i \in Nat)
        /\ pc' \in {"setup", "run", "collect"} =>
             pc \in {"setup", "run", "collect"} \/ i' = i + 1
    BY DEF Next, vars, InitializeNodes, StartOrStopApplications, StopSimulator,
           NextEvent, RunReturns, Destroy, Free, RunInv, RunTypes
  <2>3. RowsInv'
    <3>1. ASSUME NEW v \in Phases,
                 v > i' \/ (v = i' /\ pc' \in {"setup", "run", "collect"})
          PROVE  v > i \/ (v = i /\ pc \in {"setup", "run", "collect"})
      <4>1. v \in Nat /\ i \in Nat
        BY DEF Phases, RunInv, RunTypes
      <4> QED BY <2>2, <3>1, <4>1
    <3> QED BY <2>1, <3>1 DEF ArchiveInv, RowsInv
  <2>4. pc \in {"run", "collect"} => heap' = heap
    BY DEF Next, vars, InitializeNodes, StartOrStopApplications, StopSimulator,
           NextEvent, RunReturns, Destroy, Free
  <2>5. AverageInv'
    BY <2>1, <2>4 DEF ArchiveInv, AverageInv
  <2>6. \A q \in Queues : /\ ArchivedTimes(q)' = ArchivedTimes(q)
                          /\ ArchivedSizes(q)' = ArchivedSizes(q)
                          /\ realCheckTimes'[q] <= realQueuesize'[q]
    BY <2>1 DEF ArchivedTimes, ArchivedSizes, Current, ArchiveInv, TotalsInv
  <2>7. TotalsInv' /\ MeanInv'
    BY <2>1, <2>6, SameArchive DEF ArchiveInv
  <2> QED BY <2>3, <2>5, <2>7 DEF ArchiveInv
<1> QED BY <1>1, ArchiveInit, RunInvariant, PTL DEF Spec

(* RunningTotalsAgree: realCheckTimes, which no simulation clears, counts   *)
(* the probes reported for the phases and those of the simulation that runs *)
(* (main.cpp:146-165 against 814-834).                                      *)
THEOREM TotalsAgree == Spec => []RunningTotalsAgree
<1>1. RunInv /\ ArchiveInv => RunningTotalsAgree
  <2> SUFFICES ASSUME RunInv, ArchiveInv, NEW q \in Queues
               PROVE  /\ realCheckTimes[q] = SumFunctionOnSet(Times(q), Phases)
                           + IF pc \in {"run", "collect"} THEN stats[q].checkTimes ELSE 0
                      /\ realCheckTimes[q] <= realQueuesize[q]
    BY DEF RunningTotalsAgree, Times
  <2>1. /\ ArchivedTimes(q) \in Nat /\ ArchivedTimes(q) = SumFunctionOnSet(Times(q), Phases)
        /\ realCheckTimes[q] <= realQueuesize[q]
    BY DEF ArchiveInv, TotalsInv
  <2>2. realCheckTimes[q] \in Nat /\ stats[q].checkTimes \in Nat
    BY DEF RunInv, RunTypes, StatsType
  <2>3. ArchivedTimes(q) = realCheckTimes[q]
          - IF pc \in {"run", "collect"} THEN stats[q].checkTimes ELSE 0
    BY DEF ArchivedTimes, Current, Cleared
  <2> QED BY <2>1, <2>2, <2>3
<1> QED BY <1>1, RunInvariant, ArchiveInvariant, PTL

-----------------------------------------------------------------------------
(* Adding up and printing the results (main.cpp:507-628) begins when the    *)
(* last simulation has ended and touches nothing of the simulations: seen   *)
(* from them it is a stutter, and every theorem above holds of it.          *)
THEOREM ReportRunsSimulations == ReportSpec => Spec
<1>1. ReportInit => Init
  BY DEF ReportInit
<1>2. [ReportNext]_<<vars, reportVars>> => [Next]_vars
  BY DEF ReportNext, Simulate, AddPhase, PrintResult
<1> QED BY <1>1, <1>2, PTL DEF ReportSpec, Spec

(* The sums over the phases added so far, and what is printed.              *)
ReportInv ==
  /\ w \in 0 .. NumPhases
  /\ pc # "done" => w = 0
  /\ each_queue_congestion_time \in [Queues -> Nat]
  /\ \A q \in Queues :
       each_queue_congestion_time[q] = SumFunctionOnSet(Times(q), 0 .. w - 1)
  /\ congestion_time = SumFunctionOnSet(each_queue_congestion_time, Queues)
  /\ printed => /\ pc = "done" /\ w = NumPhases
                /\ real_avg = [q \in Queues |-> Average(q)]

(* At the start no phase has been added.                                    *)
LEMMA ReportStarts == ReportInit => ReportInv
<1> USE RunConstants
<1> SUFFICES ASSUME ReportInit PROVE ReportInv
  OBVIOUS
<1>1. IsFiniteSet(Queues)
  BY FS_Interval DEF Queues
<1>2. /\ w = 0 /\ congestion_time = 0 /\ ~ printed
      /\ each_queue_congestion_time = [q \in Queues |-> 0]
  BY DEF ReportInit
<1>3. \A q \in Queues : each_queue_congestion_time[q] = 0
  BY <1>2
<1>4. SumFunctionOnSet(each_queue_congestion_time, Queues) = 0
  BY <1>1, <1>3, SumZero
<1>5. 0 .. w - 1 = {}
  BY <1>2
<1>6. \A q \in Queues : SumFunctionOnSet(Times(q), 0 .. w - 1) = 0
  BY <1>5, SumEmpty
<1> QED BY <1>2, <1>3, <1>4, <1>6 DEF ReportInv

(* A simulation that still runs has not been added yet.                     *)
LEMMA SimulateReport ==
  ASSUME RunInv, ReportInv, [Next]_vars, UNCHANGED reportVars
  PROVE  ReportInv'
<1> USE RunConstants
<1>1. UNCHANGED <<w, congestion_time, each_queue_congestion_time, real_avg, printed>>
  BY DEF reportVars, sums
<1>2. CASE pc = "done"
  <2>1. UNCHANGED <<pc, window, realCheckTimes, realQueuesize>>
    <3>1. CASE Next
      BY <1>2, <3>1 DEF Next, Setup, InitializeNodes, StartOrStopApplications, StopSimulator,
                        CheckQueueSize, NextEvent, RunReturns, Collect, Destroy, Free
    <3>2. CASE UNCHANGED vars
      BY <3>2 DEF vars, figures
    <3> QED BY <3>1, <3>2
  <2>2. \A q \in Queues : Times(q)' = Times(q) /\ Average(q)' = Average(q)
    BY <2>1 DEF Times, Average
  <2> QED BY <1>1, <2>1, <2>2 DEF ReportInv
<1>3. CASE pc # "done"
  <2>1. w = 0 /\ ~ printed
    BY <1>3 DEF ReportInv
  <2>2. 0 .. w - 1 = {}
    BY <2>1
  <2>3. \A q \in Queues : SumFunctionOnSet(Times(q)', {}) = SumFunctionOnSet(Times(q), {})
    BY SumEmpty
  <2> QED BY <1>1, <2>1, <2>2, <2>3 DEF ReportInv
<1> QED BY <1>2, <1>3

(* The next phase is added (main.cpp:507-524): the times of its queues to   *)
(* those of the queues, and their total to the total.                       *)
LEMMA AddPhaseReport ==
  ASSUME RunInv, ArchiveInv, ReportInv, AddPhase
  PROVE  ReportInv'
<1> USE RunConstants
<1> DEFINE old == each_queue_congestion_time
           new == [q \in Queues |-> old[q] + window[w].time[q]]
<1>1. /\ pc = "done" /\ w \in Phases /\ w \in Nat /\ w + 1 \in 0 .. NumPhases /\ w' = w + 1
      /\ congestion_time' = congestion_time + window[w].total
      /\ each_queue_congestion_time' = new
      /\ UNCHANGED <<pc, window, printed>>
  BY DEF AddPhase, AddedTime, vars, ReportInv, Phases
<1>2. /\ window[w].time \in [Queues -> Nat]
      /\ window[w].total = SumFunctionOnSet(window[w].time, Queues)
  BY <1>1 DEF ArchiveInv, RowsInv
<1>3. old \in [Queues -> Nat] /\ congestion_time = SumFunctionOnSet(old, Queues)
  BY DEF ReportInv
<1>4. \A q \in Queues : /\ old[q] \in Int /\ window[w].time[q] \in Int
                        /\ new[q] = old[q] + window[w].time[q]
  BY <1>2, <1>3
<1>5. new \in [Queues -> Nat]
  BY <1>2, <1>3
<1> HIDE DEF new
<1>6. IsFiniteSet(Queues) /\ IsFiniteSet(Phases)
  BY FS_Interval DEF Queues, Phases
<1>7. SumFunctionOnSet(new, Queues)
        = SumFunctionOnSet(old, Queues) + SumFunctionOnSet(window[w].time, Queues)
  BY <1>4, <1>6, SumPlus
<1>8. ASSUME NEW q \in Queues PROVE new[q] = SumFunctionOnSet(Times(q)', 0 .. w' - 1)
  <2> DEFINE S == 0 .. w - 1
  <2>1. Times(q)' = Times(q)
    BY <1>1 DEF Times
  <2>2. 0 .. w' - 1 = S \cup {w} /\ w \notin S /\ S \subseteq Phases
    BY <1>1 DEF Phases
  <2>3. IsFiniteSet(S)
    BY <1>6, <2>2, FS_Subset
  <2>4. /\ \A v \in Phases : Times(q)[v] \in Int
        /\ Times(q)[w] = window[w].time[q]
    BY <1>1 DEF Times, ArchiveInv, RowsInv
  <2> HIDE DEF S
  <2>5. SumFunctionOnSet(Times(q), S \cup {w}) = Times(q)[w] + SumFunctionOnSet(Times(q), S)
    <3>1. \A v \in S : Times(q)[v] \in Int
      BY <2>2, <2>4
    <3>2. Times(q)[w] \in Int
      BY <1>1, <2>4
    <3> QED BY <2>2, <2>3, <3>1, <3>2, SumAdd
  <2>6. old[q] = SumFunctionOnSet(Times(q), S)
    BY DEF ReportInv, S
  <2>7. SumFunctionOnSet(Times(q)', 0 .. w' - 1) = SumFunctionOnSet(Times(q), S \cup {w})
    BY <2>1, <2>2
  <2>8. SumFunctionOnSet(Times(q), S \cup {w}) = window[w].time[q] + old[q]
    BY <2>4, <2>5, <2>6
  <2>9. new[q] = window[w].time[q] + old[q]
    BY <1>4
  <2> QED BY <2>7, <2>8, <2>9
<1>9. ~ printed
  BY <1>1 DEF AddPhase, ReportInv
<1> QED BY <1>1, <1>2, <1>3, <1>5, <1>7, <1>8, <1>9 DEF ReportInv

(* ReportInv holds throughout.                                              *)
LEMMA ReportInvariant == ReportSpec => []ReportInv
<1>1. RunInv /\ ArchiveInv /\ ReportInv /\ [ReportNext]_<<vars, reportVars>> => ReportInv'
  <2> SUFFICES ASSUME RunInv, ArchiveInv, ReportInv, [ReportNext]_<<vars, reportVars>>
               PROVE  ReportInv'
    OBVIOUS
  <2>1. CASE Simulate \/ UNCHANGED <<vars, reportVars>>
    BY <2>1, SimulateReport DEF Simulate
  <2>2. CASE PrintResult
    <3>1. /\ UNCHANGED <<w, congestion_time, each_queue_congestion_time, pc, window,
                         realCheckTimes, realQueuesize>>
          /\ pc = "done" /\ w = NumPhases /\ real_avg' = [q \in Queues |-> Average(q)]
      BY <2>2 DEF PrintResult, vars, figures
    <3>2. \A q \in Queues : Times(q)' = Times(q) /\ Average(q)' = Average(q)
      BY <3>1 DEF Times, Average
    <3> QED BY <3>1, <3>2 DEF ReportInv
  <2> QED BY <2>1, <2>2, AddPhaseReport DEF ReportNext
<1> QED BY <1>1, ReportStarts, ReportRunsSimulations, RunInvariant, ArchiveInvariant,
           PTL DEF ReportSpec

(* The real average of a queue (main.cpp:553-557) lies between two of its   *)
(* averages in the phases that used it.                                     *)
LEMMA AverageBetween ==
  ASSUME RunInv, ArchiveInv, pc = "done", NEW q \in Queues
  PROVE  IF Used(q) = {} THEN Average(q) = 0
         ELSE /\ \E v \in Used(q) : window[v].avg[q] <= Average(q)
              /\ \E v \in Used(q) : window[v].avg[q] >= Average(q)
<1> USE RunConstants
<1> DEFINE c == realCheckTimes[q]
           s == realQueuesize[q]
<1>1. c \in Nat /\ s \in Nat
  BY DEF RunInv, RunTypes
<1>2. ArchivedTimes(q) = c /\ ArchivedSizes(q) = s
  BY <1>1 DEF ArchivedTimes, ArchivedSizes, Current, Cleared
<1>3. c = SumFunctionOnSet(Times(q), Phases)
  BY <1>2 DEF ArchiveInv, TotalsInv
<1>4. \A v \in Phases : Times(q)[v] = window[v].time[q] /\ Times(q)[v] \in Nat
  BY DEF Times, ArchiveInv, RowsInv
<1>5. IsFiniteSet(Phases)
  BY FS_Interval DEF Phases
<1>6. CASE Used(q) = {}
  <2>1. \A v \in Phases : Times(q)[v] = 0
    BY <1>4, <1>6 DEF Used
  <2>2. c = 0
    BY <1>3, <1>5, <2>1, SumZero
  <2> QED BY <1>6, <2>2 DEF Average
<1>7. CASE Used(q) # {}
  <2> DEFINE A == {window[v].avg[q] : v \in Used(q)}
             r == (Unit * s) \div c
  <2>1. A # {} /\ A \in SUBSET Nat
    BY <1>7 DEF Used, ArchiveInv, RowsInv
  <2>2. IsFiniteSet(A)
    <3> DEFINE avgs == [v \in Used(q) |-> window[v].avg[q]]
    <3>1. IsFiniteSet(Used(q))
      BY <1>5, FS_Subset DEF Used
    <3>2. avgs \in Surjection(Used(q), A)
      BY DEF Surjection
    <3> HIDE DEF avgs, A
    <3> QED BY <3>1, <3>2, FS_Surjection
  <2>3. c > 0
    <3>1. PICK v \in Used(q) : TRUE
      BY <1>7
    <3>2. v \in Phases /\ Times(q)[v] > 0
      BY <1>4 DEF Used
    <3>3. Times(q)[v] <= c
      BY <1>3, <1>4, <1>5, <3>2, SumNat
    <3> QED BY <1>1, <1>4, <3>2, <3>3
  <2>4. Average(q) = r
    BY <1>1, <2>3 DEF Average
  <2>5. Unit * s \in Nat /\ c \in Nat \ {0}
    BY <1>1, <2>3
  <2>6. \A a \in Nat : /\ (\A v \in Used(q) : window[v].avg[q] >= a) => Unit * s >= a * c
                       /\ (\A v \in Used(q) : window[v].avg[q] <= a)
                            => Unit * s < (a + 1) * c \/ s = 0
    BY <1>2 DEF ArchiveInv, MeanInv
  <2>7. \E v \in Used(q) : window[v].avg[q] <= r
    <3>1. PICK a \in A : \A b \in A : a <= b
      BY <2>1, LeastNatural
    <3>2. a \in Nat /\ \A v \in Used(q) : window[v].avg[q] >= a
      BY <2>1, <3>1
    <3>3. Unit * s >= a * c
      BY <2>6, <3>2
    <3>4. a <= r
      <4>1. c * a <= Unit * s
        BY <2>5, <3>2, <3>3
      <4> QED BY <2>5, <3>2, <4>1, QuotientBetween
    <3> QED BY <3>1, <3>4
  <2>8. \E v \in Used(q) : window[v].avg[q] >= r
    <3>1. PICK a \in A : \A b \in A : a >= b
      BY <2>1, <2>2, GreatestNatural
    <3>2. a \in Nat /\ \A v \in Used(q) : window[v].avg[q] <= a
      BY <2>1, <3>1
    <3>3. Unit * s < (a + 1) * c \/ s = 0
      BY <2>6, <3>2
    <3>4. Unit * s < (a + 1) * c
      <4>1. (a + 1) * c > 0
        BY <2>5, <3>2
      <4>2. s = 0 => Unit * s = 0
        OBVIOUS
      <4> QED BY <3>3, <4>1, <4>2
    <3>5. r \in Nat /\ c * r <= Unit * s
      BY <2>5, Quotient
    <3> HIDE DEF r
    <3>6. ~ (r >= a + 1)
      <4>1. SUFFICES ASSUME r >= a + 1 PROVE FALSE
        OBVIOUS
      <4>2. (a + 1) * c <= r * c
        <5>1. a + 1 \in Int /\ r \in Int /\ a + 1 <= r /\ c \in Nat
          BY <1>1, <3>2, <3>5, <4>1
        <5> HIDE DEF c
        <5> QED BY <5>1, TimesMonotone
      <4>3. r * c = c * r /\ (a + 1) * c \in Nat /\ c * r \in Nat
        BY <1>1, <3>2, <3>5
      <4> QED BY <2>5, <3>4, <3>5, <4>2, <4>3
    <3>7. a >= r
      BY <3>2, <3>5, <3>6
    <3> QED BY <3>1, <3>7
  <2> HIDE DEF r
  <2> QED BY <1>7, <2>4, <2>7, <2>8
<1> QED BY <1>6, <1>7

(* ReportAgrees: the total congestion time, added up from the phases, is    *)
(* that of the queues and that of the running totals, and the real average  *)
(* of a queue is a mean of those reported for its phases (main.cpp:507-628).*)
THEOREM ReportsAgree == ReportSpec => []ReportAgrees
<1> USE RunConstants
<1>1. RunInv /\ ArchiveInv /\ ReportInv => ReportAgrees
  <2> SUFFICES ASSUME RunInv, ArchiveInv, ReportInv, printed
               PROVE  /\ congestion_time = SumFunctionOnSet(each_queue_congestion_time, Queues)
                      /\ congestion_time = SumFunctionOnSet(realCheckTimes, Queues)
                      /\ \A q \in Queues :
                           IF Used(q) = {} THEN real_avg[q] = 0
                           ELSE /\ \E v \in Used(q) : window[v].avg[q] <= real_avg[q]
                                /\ \E v \in Used(q) : window[v].avg[q] >= real_avg[q]
    BY DEF ReportAgrees
  <2>1. /\ pc = "done" /\ w = NumPhases /\ \A q \in Queues : real_avg[q] = Average(q)
        /\ congestion_time = SumFunctionOnSet(each_queue_congestion_time, Queues)
        /\ each_queue_congestion_time \in [Queues -> Nat]
    BY DEF ReportInv
  <2>2. \A q \in Queues : realCheckTimes[q] = each_queue_congestion_time[q]
    <3> SUFFICES ASSUME NEW q \in Queues
                 PROVE  realCheckTimes[q] = each_queue_congestion_time[q]
      OBVIOUS
    <3>1. each_queue_congestion_time[q] = SumFunctionOnSet(Times(q), Phases)
      BY <2>1 DEF ReportInv, Phases
    <3>2. ArchivedTimes(q) = SumFunctionOnSet(Times(q), Phases)
      BY DEF ArchiveInv, TotalsInv
    <3>3. ArchivedTimes(q) = realCheckTimes[q]
      BY <2>1 DEF ArchivedTimes, Current, Cleared, RunInv, RunTypes
    <3> QED BY <3>1, <3>2, <3>3
  <2>3. SumFunctionOnSet(realCheckTimes, Queues)
          = SumFunctionOnSet(each_queue_congestion_time, Queues)
    <3>1. IsFiniteSet(Queues)
      BY FS_Interval DEF Queues
    <3>2. \A q \in Queues : each_queue_congestion_time[q] \in Int
      BY <2>1
    <3> QED BY <2>2, <3>1, <3>2, SumEqual
  <2> QED BY <2>1, <2>3, AverageBetween
<1> QED BY <1>1, ReportRunsSimulations, RunInvariant, ArchiveInvariant, ReportInvariant, PTL

-----------------------------------------------------------------------------
(* Events are finitely many, told apart by their numbers, and the first is  *)
(* the only one that initialises.                                           *)
ListInv ==
  /\ IsFiniteSet(m_events)
  /\ \A e, f \in m_events : e.uid = f.uid => e = f
  /\ \A e \in m_events : e.kind = "init" => e.uid = 0

(* Steps that an event stands for: its own, and those of the events that it *)
(* schedules in turn before Stop.                                           *)
Weight(e) ==
  IF e.kind = "probe" THEN IF e.at < StopTime THEN StopTime - e.at ELSE 0
  ELSE IF e.kind = "init" THEN 2
  ELSE IF e.kind = "application" /\ e.q # 0 THEN 0
  ELSE 1

WeightOf == [e \in EventType |-> Weight(e)]
Work(S)  == SumFunctionOnSet(WeightOf, S)

LEMMA WeightIsNat ==
  ASSUME NEW e \in EventType
  PROVE  Weight(e) \in Nat /\ WeightOf[e] = Weight(e)
<1>1. e.at \in Nat
  BY DEF EventType
<1>2. Weight(e) \in Nat
  BY <1>1, RunConstants DEF Weight
<1> QED BY <1>2 DEF WeightOf

LEMMA WorkTaken ==
  ASSUME NEW S \in SUBSET EventType, IsFiniteSet(S), NEW e \in S
  PROVE  /\ IsFiniteSet(S \ {e}) /\ Work(S \ {e}) \in Nat /\ Work(S) \in Nat
         /\ Work(S) = Work(S \ {e}) + Weight(e)
<1>1. IsFiniteSet(S \ {e})
  BY FS_Subset
<1>2. \A x \in S : WeightOf[x] \in Nat /\ WeightOf[x] \in Int
  BY WeightIsNat
<1>3. SumFunctionOnSet(WeightOf, S \ {e}) \in Nat /\ SumFunctionOnSet(WeightOf, S) \in Nat
  BY <1>1, <1>2, SumNat
<1>4. SumFunctionOnSet(WeightOf, S) = WeightOf[e] + SumFunctionOnSet(WeightOf, S \ {e})
  BY <1>2, SumTake
<1>5. WeightOf[e] = Weight(e) /\ Weight(e) \in Nat
  BY WeightIsNat
<1> QED BY <1>1, <1>3, <1>4, <1>5 DEF Work

LEMMA WorkAdded ==
  ASSUME NEW S \in SUBSET EventType, IsFiniteSet(S), NEW a \in EventType, a \notin S
  PROVE  /\ IsFiniteSet(S \cup {a}) /\ Work(S \cup {a}) \in Nat /\ Work(S) \in Nat
         /\ Work(S \cup {a}) = Work(S) + Weight(a)
<1> DEFINE T == S \cup {a}
<1>1. T \in SUBSET EventType /\ a \in T /\ T \ {a} = S
  OBVIOUS
<1>2. IsFiniteSet(T)
  BY FS_AddElement
<1> HIDE DEF T
<1>3. /\ Work(T \ {a}) \in Nat /\ Work(T) \in Nat
      /\ Work(T) = Work(T \ {a}) + Weight(a)
  BY <1>1, <1>2, WorkTaken
<1> QED BY <1>1, <1>2, <1>3 DEF T

(* The first events stand for the steps of a whole simulation.              *)
LEMMA FirstWork ==
  ASSUME RunInv, i \in Phases
  PROVE  /\ IsFiniteSet(FirstEvents(StopTime)) /\ FirstEvents(StopTime) \subseteq EventType
         /\ Work(FirstEvents(StopTime)) = NumQueues * StopTime + 3
         /\ \A e, f \in FirstEvents(StopTime) : e.uid = f.uid => e = f
         /\ \A e \in FirstEvents(StopTime) : e.kind = "init" => e.uid = 0
<1> USE RunConstants
<1> DEFINE r == [q \in Queues |-> Event(0, q + 1, "probe", q)]
           P == {r[q] : q \in Queues}
           a == Event(0, 0, "init", 0)
           b == Event(StopTime, NumQueues + 1, "stop", 0)
           f == [q \in Queues |-> StopTime]
<1>1. IsFiniteSet(Queues) /\ Cardinality(Queues) = NumQueues
  <2>1. 0 \in Int /\ NumQueues - 1 \in Int
    OBVIOUS
  <2>2. Cardinality(0 .. NumQueues - 1) = NumQueues - 1 - 0 + 1
    BY <2>1, FS_Interval
  <2>3. IsFiniteSet(0 .. NumQueues - 1)
    BY <2>1, FS_Interval
  <2> QED BY <2>2, <2>3 DEF Queues
<1>2. \A q \in Queues : r[q] \in EventType /\ r[q].uid = q + 1 /\ r[q].kind = "probe"
                        /\ Weight(r[q]) = StopTime
  BY DEF Event, EventType, Queues, Weight
<1>3. a \in EventType /\ a.uid = 0 /\ a.kind = "init" /\ Weight(a) = 2
  BY DEF Event, EventType, Weight
<1>4. b \in EventType /\ b.uid = NumQueues + 1 /\ b.kind = "stop" /\ Weight(b) = 1
  BY DEF Event, EventType, Weight
<1>5. FirstEvents(StopTime) = (P \cup {a}) \cup {b}
  BY DEF FirstEvents
<1>6. \A x, y \in Queues : r[x] = r[y] => x = y
  <2>1. \A x \in Queues : x \in Nat
    BY DEF Queues
  <2> HIDE DEF r
  <2> QED BY <1>2, <2>1
<1>7. \A q \in Queues : f[q] = StopTime /\ StopTime \in Int
  OBVIOUS
<1> HIDE DEF r, a, b, f
<1>8. IsFiniteSet(P)
  <2> DEFINE g == [q \in Queues |-> r[q]]
  <2>1. g \in Surjection(Queues, P)
    BY DEF P, Surjection
  <2> HIDE DEF g, P
  <2> QED BY <1>1, <2>1, FS_Surjection
<1>9. P \in SUBSET EventType
  BY <1>2
<1>10. Work(P) = NumQueues * StopTime
  <2>1. \A q \in Queues : WeightOf[r[q]] = f[q]
    BY <1>2, <1>7, WeightIsNat
  <2>2. \A q \in Queues : f[q] \in Int
    BY <1>7
  <2>3. SumFunctionOnSet(WeightOf, P) = SumFunctionOnSet(f, Queues)
    BY <1>1, <1>6, <2>1, <2>2, SumRename
  <2>4. SumFunctionOnSet(f, Queues) = NumQueues * StopTime
    BY <1>1, <1>7, SumConstant
  <2> QED BY <2>3, <2>4 DEF Work
<1>11. a \notin P /\ b \notin P /\ a # b
  BY <1>2, <1>3, <1>4
<1>12. \A e \in P : e.uid \in 1 .. NumQueues /\ e.kind = "probe"
  BY <1>2 DEF Queues
<1>13. \A e, g \in P : e.uid = g.uid => e = g
  <2>1. \A x, y \in Queues : x + 1 = y + 1 => x = y
    BY DEF Queues
  <2> QED BY <1>2, <2>1
<1> HIDE DEF P
<1>14. IsFiniteSet(P \cup {a}) /\ Work(P \cup {a}) = NumQueues * StopTime + 2
  BY <1>3, <1>8, <1>9, <1>10, <1>11, WorkAdded
<1>15. P \cup {a} \in SUBSET EventType /\ b \notin P \cup {a}
  BY <1>3, <1>9, <1>11
<1>16. /\ IsFiniteSet((P \cup {a}) \cup {b})
       /\ Work((P \cup {a}) \cup {b}) = NumQueues * StopTime + 2 + 1
  BY <1>4, <1>14, <1>15, WorkAdded
<1>17. NumQueues * StopTime \in Nat
  OBVIOUS
<1> QED BY <1>3, <1>4, <1>5, <1>9, <1>12, <1>13, <1>16, <1>17

(* An event that runs leaves a list of the same kind.                       *)
LEMMA ListRuns ==
  ASSUME RunInv, ListInv, NEW e \in m_events,
         NEW N \in SUBSET EventType, IsFiniteSet(N),
         m_events' = (m_events \ {e}) \cup N,
         \A f \in N : f.uid >= m_uid /\ f.uid \in Nat /\ f.kind # "init",
         \A f, g \in N : f.uid = g.uid => f = g
  PROVE  ListInv'
<1>1. IsFiniteSet(m_events \ {e})
  BY FS_Subset DEF ListInv
<1>2. IsFiniteSet(m_events')
  BY <1>1, FS_Union
<1>3. \A f \in m_events, g \in N : f.uid # g.uid
  <2>1. \A f \in m_events : f.uid < m_uid /\ f.uid \in Nat
    BY DEF RunInv, RunTypes, EventType
  <2>2. m_uid \in Nat
    BY DEF RunInv, RunTypes
  <2> QED BY <2>1, <2>2
<1> QED BY <1>2, <1>3 DEF ListInv

(* The list is of this kind in every state.                                 *)
LEMMA ListInvariant == Spec => []ListInv
<1>1. Init => ListInv
  BY FS_EmptySet DEF Init, ListInv
<1>2. RunInv /\ ListInv /\ [Next]_vars => ListInv'
  <2> SUFFICES ASSUME RunInv, ListInv, [Next]_vars PROVE ListInv'
    OBVIOUS
  <2>0. m_uid \in Nat
    BY DEF RunInv, RunTypes
  <2>1. CASE Setup
    <3>1. i \in Phases /\ m_events' = FirstEvents(StopTime)
      BY <2>1 DEF Setup, SimulatorStop, RunInv, RunTypes
    <3> QED BY <3>1, FirstWork DEF ListInv
  <2>2. CASE InitializeNodes
    <3>1. PICK e \in m_events :
            /\ NextEvent(e)
            /\ m_events' = (m_events \ {e})
                 \cup {Event(e.at, m_uid, "application", 0),
                       Event(StopTime, m_uid + 1, "application", 1)}
      BY <2>2 DEF InitializeNodes
    <3> DEFINE a == Event(e.at, m_uid, "application", 0)
               b == Event(StopTime, m_uid + 1, "application", 1)
               N == {a, b}
    <3>2. e.at \in Nat /\ i \in Phases
      <4>1. e \in EventType /\ pc = "run"
        BY <3>1, RunsInOrder
      <4> QED BY <4>1 DEF EventType, RunInv, RunTypes
    <3>3. /\ a \in EventType /\ a.uid = m_uid /\ a.kind = "application"
          /\ b \in EventType /\ b.uid = m_uid + 1 /\ b.kind = "application"
      BY <2>0, <3>2, RunConstants DEF Event, EventType
    <3>4. m_events' = (m_events \ {e}) \cup N
      BY <3>1
    <3> HIDE DEF a, b
    <3>5. IsFiniteSet(N)
      <4>1. IsFiniteSet({a})
        BY FS_Singleton
      <4>2. IsFiniteSet({a} \cup {b})
        BY <4>1, FS_AddElement
      <4>3. N = {a} \cup {b}
        OBVIOUS
      <4> QED BY <4>2, <4>3
    <3>6. /\ N \in SUBSET EventType
          /\ \A f \in N : f.uid >= m_uid /\ f.uid \in Nat /\ f.kind # "init"
          /\ \A f, g \in N : f.uid = g.uid => f = g
      BY <2>0, <3>3
    <3> HIDE DEF N
    <3> QED BY <3>4, <3>5, <3>6, ListRuns
  <2>3. CASE StartOrStopApplications \/ StopSimulator
    <3>1. PICK e \in m_events : m_events' = m_events \ {e}
      BY <2>3 DEF StartOrStopApplications, StopSimulator
    <3>2. IsFiniteSet(m_events \ {e})
      BY FS_Subset DEF ListInv
    <3> QED BY <3>1, <3>2 DEF ListInv
  <2>4. CASE CheckQueueSize
    <3>1. PICK e \in m_events :
            /\ NextEvent(e) /\ e.kind = "probe"
            /\ m_events' = (m_events \ {e}) \cup {Event(e.at + 1, m_uid, "probe", e.q)}
      BY <2>4 DEF CheckQueueSize, ProbeAgain
    <3> DEFINE a == Event(e.at + 1, m_uid, "probe", e.q)
               N == {a}
    <3>2. e.at \in Nat /\ i \in Phases /\ e.q \in Nat
      BY <3>1, RunsInOrder DEF RunInv, RunTypes, NextEvent, EventType
    <3>3. a \in EventType /\ a.uid = m_uid /\ a.kind = "probe"
      BY <2>0, <3>2 DEF Event, EventType
    <3>4. m_events' = (m_events \ {e}) \cup N
      BY <3>1
    <3> HIDE DEF a
    <3>5. IsFiniteSet(N)
      BY FS_Singleton
    <3>6. /\ N \in SUBSET EventType
          /\ \A f \in N : f.uid >= m_uid /\ f.uid \in Nat /\ f.kind # "init"
          /\ \A f, g \in N : f.uid = g.uid => f = g
      BY <2>0, <3>3
    <3> HIDE DEF N
    <3> QED BY <3>4, <3>5, <3>6, ListRuns
  <2>5. CASE RunReturns \/ Collect \/ Free \/ UNCHANGED vars
    BY <2>5 DEF RunReturns, Collect, Free, vars, sim, ListInv
  <2>6. CASE Destroy
    BY <2>6, FS_EmptySet DEF Destroy, NoEvents, ListInv
  <2> QED BY <2>1, <2>2, <2>3, <2>4, <2>5, <2>6 DEF Next
<1> QED BY <1>1, <1>2, RunInvariant, PTL DEF Spec

-----------------------------------------------------------------------------
(* The steps that are left, at most: those of the phases that have not been *)
(* set up, eight around the probes of each (Setup, the start of the nodes   *)
(* and of the applications, Stop, and the four after it), and those of the  *)
(* one that has.                                                            *)
SimulationSteps == NumQueues * StopTime + 8

StepsOfThis ==
  IF pc = "run" THEN 4 + IF m_stop THEN 0 ELSE Work(m_events)
  ELSE IF pc = "collect" THEN 3
  ELSE IF pc = "destroy" THEN 2
  ELSE IF pc = "free" THEN 1
  ELSE 0

StepsLeft ==
  StepsOfThis
    + (NumPhases - i - (IF pc \in {"setup", "done"} THEN 0 ELSE 1)) * SimulationSteps

(* The steps that are left are a number.                                    *)
LEMMA StepsLeftIsNat ==
  ASSUME RunInv, ListInv
  PROVE  /\ StepsLeft \in Nat /\ StepsOfThis \in Nat /\ Work(m_events) \in Nat
         /\ SimulationSteps \in Nat
         /\ \A n \in Nat : n * SimulationSteps \in Nat
<1> USE RunConstants
<1>1. Work(m_events) \in Nat
  <2>1. \A x \in m_events : WeightOf[x] \in Nat
    BY WeightIsNat DEF RunInv, RunTypes
  <2> QED BY <2>1, SumNat DEF ListInv, Work
<1>2. StepsOfThis \in Nat
  BY <1>1 DEF StepsOfThis
<1>3. SimulationSteps \in Nat
  <2>1. NumQueues * StopTime \in Nat
    OBVIOUS
  <2> QED BY <2>1 DEF SimulationSteps
<1>4. \A n \in Nat : n * SimulationSteps \in Nat
  BY <1>3
<1>5. NumPhases - i - (IF pc \in {"setup", "done"} THEN 0 ELSE 1) \in Nat
  BY DEF RunInv, RunTypes, Phases
<1>6. (NumPhases - i - (IF pc \in {"setup", "done"} THEN 0 ELSE 1)) * SimulationSteps \in Nat
  BY <1>4, <1>5
<1> QED BY <1>1, <1>2, <1>3, <1>4, <1>6 DEF StepsLeft

(* An event that runs takes its own step away from the work that is left.   *)
LEMMA WorkOfEvent ==
  ASSUME RunInv, ListInv,
         InitializeNodes \/ StartOrStopApplications \/ StopSimulator \/ CheckQueueSize
  PROVE  /\ Work(m_events) \in Nat /\ Work(m_events') \in Nat
         /\ Work(m_events) = Work(m_events') + 1
<1> USE RunConstants
<1>0. m_uid \in Nat /\ m_events \in SUBSET EventType /\ IsFiniteSet(m_events)
      /\ \A f \in m_events : f.uid < m_uid
  BY DEF RunInv, RunTypes, ListInv
<1>1. CASE InitializeNodes
  <2>1. PICK e \in m_events :
          /\ NextEvent(e) /\ e.kind = "init"
          /\ m_events' = (m_events \ {e})
               \cup {Event(e.at, m_uid, "application", 0),
                     Event(StopTime, m_uid + 1, "application", 1)}
    BY <1>1 DEF InitializeNodes
  <2> DEFINE a == Event(e.at, m_uid, "application", 0)
             b == Event(StopTime, m_uid + 1, "application", 1)
             M == m_events \ {e}
             W == M \cup {a}
  <2>2. e.at \in Nat /\ i \in Phases
    <3>1. e \in EventType /\ pc = "run"
      BY <2>1, RunsInOrder
    <3> QED BY <3>1 DEF EventType, RunInv, RunTypes
  <2>3. /\ a \in EventType /\ a.uid = m_uid /\ Weight(a) = 1
        /\ b \in EventType /\ b.uid = m_uid + 1 /\ Weight(b) = 0
    BY <1>0, <2>2 DEF Event, EventType, Weight
  <2>4. Weight(e) = 2
    BY <2>1 DEF Weight
  <2>5. m_events' = W \cup {b}
    BY <2>1
  <2> HIDE DEF a, b
  <2>6. IsFiniteSet(M) /\ Work(M) \in Nat /\ Work(m_events) \in Nat
        /\ Work(m_events) = Work(M) + 2
    BY <1>0, <2>4, WorkTaken
  <2>7. M \in SUBSET EventType /\ a \notin M
    BY <1>0, <2>3
  <2>8. b \notin W /\ W \in SUBSET EventType
    <3>1. m_uid + 1 # m_uid /\ \A f \in M : f.uid < m_uid + 1 /\ f.uid # m_uid + 1
      BY <1>0 DEF EventType
    <3> QED BY <2>3, <2>7, <3>1
  <2> HIDE DEF M
  <2>9. IsFiniteSet(W) /\ Work(W) = Work(M) + 1 /\ Work(W) \in Nat
    BY <2>3, <2>6, <2>7, WorkAdded
  <2> HIDE DEF W
  <2>10. Work(W \cup {b}) = Work(W) + 0 /\ Work(W \cup {b}) \in Nat
    BY <2>3, <2>8, <2>9, WorkAdded
  <2> QED BY <2>5, <2>6, <2>9, <2>10
<1>2. CASE StartOrStopApplications \/ StopSimulator
  <2>1. PICK e \in m_events :
          /\ NextEvent(e) /\ e.kind \in {"application", "stop"}
          /\ m_events' = m_events \ {e}
    BY <1>2 DEF StartOrStopApplications, StopSimulator
  <2>2. Weight(e) = 1
    <3>1. CASE e.kind = "stop"
      BY <3>1 DEF Weight
    <3>2. CASE e.kind = "application"
      <4>1. /\ pc = "run" /\ m_stop = FALSE /\ e \in EventType
            /\ (e = StopEvent \/ e.at < StopTime \/ (e.at = StopTime /\ e.uid < NumQueues + 1))
        BY <2>1, RunsInOrder
      <4>2. e.uid >= NumQueues + 2 /\ (e.q = 0 \/ e.at = StopTime)
        BY <3>2, <4>1 DEF RunInv, EventsInv
      <4>3. e # StopEvent
        BY <3>2 DEF StopEvent, Event
      <4>4. e.uid \in Nat /\ e.at \in Nat
        BY <4>1 DEF EventType
      <4>5. e.q = 0
        BY <4>1, <4>2, <4>3, <4>4
      <4> QED BY <3>2, <4>5 DEF Weight
    <3> QED BY <2>1, <3>1, <3>2
  <2> QED BY <1>0, <2>1, <2>2, WorkTaken
<1>3. CASE CheckQueueSize
  <2>1. PICK e \in m_events :
          /\ NextEvent(e) /\ e.kind = "probe"
          /\ m_events' = (m_events \ {e}) \cup {Event(e.at + 1, m_uid, "probe", e.q)}
    BY <1>3 DEF CheckQueueSize, ProbeAgain
  <2> DEFINE a == Event(e.at + 1, m_uid, "probe", e.q)
             M == m_events \ {e}
  <2>2. e.at \in Nat /\ i \in Phases /\ e.q \in Nat /\ e.at < StopTime
    <3>1. /\ e \in EventType /\ pc = "run" /\ m_stop = FALSE
          /\ (e = StopEvent \/ e.at < StopTime \/ (e.at = StopTime /\ e.uid < NumQueues + 1))
      BY <2>1, RunsInOrder
    <3>2. e # StopEvent
      BY <2>1 DEF StopEvent, Event
    <3>3. IF e.at = 0 THEN e.uid <= NumQueues ELSE e.uid >= NumQueues + 2
      BY <2>1, <3>1 DEF RunInv, EventsInv
    <3>4. e.at \in Nat /\ e.uid \in Nat /\ e.q \in Nat
      BY <3>1 DEF EventType
    <3>5. e.at < StopTime
      BY <3>1, <3>2, <3>3, <3>4
    <3> QED BY <3>1, <3>4, <3>5 DEF RunInv, RunTypes
  <2>3. /\ a \in EventType /\ a.uid = m_uid
        /\ Weight(a) = StopTime - e.at - 1
    BY <1>0, <2>2 DEF Event, EventType, Weight
  <2>4. Weight(e) = StopTime - e.at
    BY <2>1, <2>2 DEF Weight
  <2>5. m_events' = M \cup {a}
    BY <2>1
  <2>6. IsFiniteSet(M) /\ Work(M) \in Nat /\ Work(m_events) \in Nat
        /\ Work(m_events) = Work(M) + Weight(e)
    BY <1>0, WorkTaken
  <2> HIDE DEF a
  <2>7. M \in SUBSET EventType /\ a \notin M
    BY <1>0, <2>3
  <2> HIDE DEF M
  <2>8. Work(M \cup {a}) = Work(M) + Weight(a) /\ Work(M \cup {a}) \in Nat
    BY <2>3, <2>6, <2>7, WorkAdded
  <2> QED BY <2>2, <2>3, <2>4, <2>5, <2>6, <2>8
<1> QED BY <1>1, <1>2, <1>3

(* Every step takes one away.                                               *)
LEMMA StepsGo ==
  RunInv /\ ListInv /\ RunInv' /\ ListInv' /\ Next => StepsLeft' < StepsLeft
<1> SUFFICES ASSUME RunInv, ListInv, RunInv', ListInv', Next PROVE StepsLeft' < StepsLeft
  OBVIOUS
<1> USE RunConstants
<1> DEFINE K == SimulationSteps
           rest == (NumPhases - i - 1) * K
<1>1. /\ Work(m_events) \in Nat /\ K \in Nat
      /\ \A n \in Nat : n * K \in Nat
  BY StepsLeftIsNat
<1>2. i \in 0 .. NumPhases /\ (pc # "done" => NumPhases - i - 1 \in Nat)
  BY DEF RunInv, RunTypes, Phases
<1>3. pc # "done" => rest \in Nat
  BY <1>1, <1>2
<1>4. K' = K
  BY DEF SimulationSteps
<1>5. CASE Setup
  <2>1. /\ pc = "setup" /\ pc' = "run" /\ m_stop' = FALSE /\ i' = i /\ i \in Phases
        /\ m_events' = FirstEvents(StopTime)
    BY <1>5 DEF Setup, SimulatorStop, RunInv, RunTypes
  <2>2. Work(m_events') = K - 5
    <3>1. Work(FirstEvents(StopTime)) = NumQueues * StopTime + 3
      BY <2>1, FirstWork
    <3>2. NumQueues * StopTime \in Nat
      OBVIOUS
    <3> QED BY <2>1, <3>1, <3>2 DEF SimulationSteps
  <2>3. StepsOfThis' = 4 + (K - 5)
    <3>1. StepsOfThis' = 4 + Work(m_events')
      BY <2>1 DEF StepsOfThis, Work, WeightOf, Weight
    <3> QED BY <2>2, <3>1
  <2>4. StepsLeft' = StepsOfThis' + rest
    BY <2>1 DEF StepsLeft, SimulationSteps
  <2>5. StepsLeft = (NumPhases - i) * K
    <3>1. NumPhases - i - 0 = NumPhases - i /\ (NumPhases - i) * K \in Nat
      BY <1>1, <1>2, <2>1
    <3> QED BY <2>1, <3>1 DEF StepsLeft, StepsOfThis
  <2>6. (NumPhases - i) * K = rest + K
    BY <1>1, <1>2, <2>1
  <2> QED BY <1>1, <1>3, <2>1, <2>3, <2>4, <2>5, <2>6
<1>6. CASE InitializeNodes \/ StartOrStopApplications \/ StopSimulator \/ CheckQueueSize
  <2>1. pc = "run" /\ pc' = "run" /\ i' = i /\ ~ m_stop
    BY <1>6 DEF InitializeNodes, StartOrStopApplications, StopSimulator, CheckQueueSize, NextEvent
  <2>2. /\ Work(m_events) \in Nat /\ Work(m_events') \in Nat
        /\ Work(m_events) = Work(m_events') + 1
    BY <1>6, WorkOfEvent
  <2>3. StepsOfThis = 4 + Work(m_events) /\ StepsLeft = StepsOfThis + rest
    BY <2>1 DEF StepsOfThis, StepsLeft
  <2>4. StepsLeft' = StepsOfThis' + rest
    BY <2>1 DEF StepsLeft, SimulationSteps
  <2>5. StepsOfThis' \in {4, 4 + Work(m_events')}
    BY <2>1 DEF StepsOfThis, Work, WeightOf, Weight
  <2> QED BY <1>3, <2>1, <2>2, <2>3, <2>4, <2>5
<1>7. CASE RunReturns \/ Collect \/ Destroy
  <2>1. /\ <<pc, pc'>> \in {<<"run", "collect">>, <<"collect", "destroy">>, <<"destroy", "free">>}
        /\ i' = i
    BY <1>7 DEF RunReturns, Collect, Destroy
  <2>2. StepsOfThis' < StepsOfThis /\ StepsOfThis \in Nat /\ StepsOfThis' \in Nat
    BY <1>1, <2>1 DEF StepsOfThis
  <2>3. StepsLeft = StepsOfThis + rest /\ StepsLeft' = StepsOfThis' + rest
    BY <2>1 DEF StepsLeft, SimulationSteps
  <2> QED BY <1>3, <2>1, <2>2, <2>3
<1>8. CASE Free
  <2>1. pc = "free" /\ pc' \in {"done", "setup"} /\ i' = i + 1
    BY <1>8 DEF Free
  <2>2. StepsLeft = 1 + rest
    BY <2>1 DEF StepsLeft, StepsOfThis
  <2>3. NumPhases - i' - 0 = NumPhases - i - 1
    BY <1>2, <2>1
  <2>4. StepsLeft' = 0 + rest
    BY <2>1, <2>3 DEF StepsLeft, StepsOfThis, SimulationSteps
  <2> QED BY <1>3, <2>1, <2>2, <2>4
<1> QED BY <1>5, <1>6, <1>7, <1>8 DEF Next

(* A probe reschedules itself for ever, and yet a run of the simulations is *)
(* never longer than its phases allow: every step takes one away from those *)
(* that are left.                                                           *)
THEOREM SimulationsEnd == Spec => [](StepsLeft \in Nat) /\ [][StepsLeft' < StepsLeft]_vars
<1>1. RunInv /\ ListInv => StepsLeft \in Nat
  BY StepsLeftIsNat
<1>2. RunInv /\ ListInv /\ RunInv' /\ ListInv' /\ [Next]_vars => [StepsLeft' < StepsLeft]_vars
  BY StepsGo
<1> QED BY <1>1, <1>2, RunInvariant, ListInvariant, PTL DEF Spec

(* Numbers are given out as events are run: a probe takes one, and the      *)
(* start of the nodes two.                                                  *)
Initialised == \A e \in m_events : e.kind # "init"

NumbersInv ==
  pc = "run" /\ ~ m_stop =>
    m_uid + Work(m_events)
      <= NumQueues * StopTime + NumQueues + 5 + (IF Initialised THEN 1 ELSE 0)

(* Events get no more numbers than they have steps to run.                  *)
LEMMA NumbersInvariant == Spec => []NumbersInv
<1> USE RunConstants
<1>1. Init => NumbersInv
  BY DEF Init, NumbersInv
<1>2. RunInv /\ ListInv /\ NumbersInv /\ [Next]_vars => NumbersInv'
  <2> SUFFICES ASSUME RunInv, ListInv, NumbersInv, [Next]_vars PROVE NumbersInv'
    OBVIOUS
  <2>0. NumQueues * StopTime \in Nat /\ m_uid \in Nat /\ Work(m_events) \in Nat
    <3>1. NumQueues * StopTime \in Nat
      OBVIOUS
    <3> QED BY <3>1, StepsLeftIsNat DEF RunInv, RunTypes
  <2>1. Work(m_events)' = Work(m_events')
    BY DEF Work, WeightOf, Weight
  <2>2. CASE Setup
    <3>1. i \in Phases /\ m_events' = FirstEvents(StopTime) /\ m_uid' = NumQueues + 2
      BY <2>2 DEF Setup, SimulatorStop, RunInv, RunTypes
    <3>2. Work(m_events') = NumQueues * StopTime + 3
      BY <3>1, FirstWork
    <3> QED BY <2>0, <2>1, <3>1, <3>2 DEF NumbersInv
  <2>3. CASE InitializeNodes
    <3>1. PICK e \in m_events :
            /\ NextEvent(e) /\ e.kind = "init"
            /\ m_events' = (m_events \ {e})
                 \cup {Event(e.at, m_uid, "application", 0),
                       Event(StopTime, m_uid + 1, "application", 1)}
            /\ m_uid' = m_uid + 2
      BY <2>3 DEF InitializeNodes
    <3>2. /\ Work(m_events') \in Nat /\ Work(m_events) = Work(m_events') + 1
      BY <2>3, WorkOfEvent
    <3>3. pc = "run" /\ ~ m_stop /\ ~ Initialised
      BY <3>1 DEF NextEvent, Initialised
    <3>4. Initialised'
      <4>1. \A f \in m_events : f.kind = "init" => f = e
        BY <3>1 DEF ListInv
      <4>2. \A f \in m_events' : f.kind # "init"
        BY <3>1, <4>1 DEF Event
      <4> QED BY <4>2 DEF Initialised
    <3> QED BY <2>0, <2>1, <3>1, <3>2, <3>3, <3>4 DEF NumbersInv
  <2>4. CASE StartOrStopApplications \/ StopSimulator
    <3>1. PICK e \in m_events :
            /\ NextEvent(e) /\ e.kind \in {"application", "stop"}
            /\ m_events' = m_events \ {e} /\ m_uid' = m_uid
      BY <2>4 DEF StartOrStopApplications, StopSimulator
    <3>2. /\ Work(m_events') \in Nat /\ Work(m_events) = Work(m_events') + 1
      BY <2>4, WorkOfEvent
    <3>3. pc = "run" /\ ~ m_stop /\ (Initialised => Initialised')
      BY <3>1 DEF NextEvent, Initialised
    <3> QED BY <2>0, <2>1, <3>1, <3>2, <3>3 DEF NumbersInv
  <2>5. CASE CheckQueueSize
    <3>1. PICK e \in m_events :
            /\ NextEvent(e) /\ e.kind = "probe"
            /\ m_events' = (m_events \ {e}) \cup {Event(e.at + 1, m_uid, "probe", e.q)}
            /\ m_uid' = m_uid + 1
      BY <2>5 DEF CheckQueueSize, ProbeAgain
    <3>2. /\ Work(m_events') \in Nat /\ Work(m_events) = Work(m_events') + 1
      BY <2>5, WorkOfEvent
    <3>3. pc = "run" /\ ~ m_stop /\ (Initialised => Initialised')
      BY <3>1 DEF NextEvent, Initialised, Event
    <3> QED BY <2>0, <2>1, <3>1, <3>2, <3>3 DEF NumbersInv
  <2>6. CASE RunReturns \/ Collect \/ Destroy \/ Free
    BY <2>6 DEF RunReturns, Collect, Destroy, Free, NumbersInv
  <2>7. CASE UNCHANGED vars
    BY <2>1, <2>7 DEF vars, sim, NumbersInv, Initialised
  <2> QED BY <2>2, <2>3, <2>4, <2>5, <2>6, <2>7 DEF Next
<1> QED BY <1>1, <1>2, RunInvariant, ListInvariant, PTL DEF Spec

(* There is one event that runs before all others.                          *)
LEMMA FirstExists ==
  ASSUME RunInv, ListInv, m_events # {}
  PROVE  \E e \in m_events : \A f \in m_events \ {e} : Before(e, f)
<1> DEFINE T == {e.at : e \in m_events}
<1>1. \A e \in m_events : e.at \in Nat /\ e.uid \in Nat
  BY DEF RunInv, RunTypes, EventType
<1>2. PICK t \in T : \A s \in T : t <= s
  <2>1. T \in SUBSET Nat /\ T # {}
    BY <1>1
  <2> HIDE DEF T
  <2> QED BY <2>1, LeastNatural
<1> DEFINE D == {e \in m_events : e.at = t}
           U == {e.uid : e \in D}
<1>3. PICK u \in U : \A v \in U : u <= v
  <2>1. U \in SUBSET Nat /\ U # {}
    BY <1>1, <1>2
  <2> HIDE DEF U
  <2> QED BY <2>1, LeastNatural
<1>4. PICK e \in D : e.uid = u
  OBVIOUS
<1>5. ASSUME NEW f \in m_events \ {e} PROVE Before(e, f)
  <2>1. f.at \in Nat /\ e.at \in Nat /\ f.uid \in Nat /\ e.uid \in Nat /\ e.at = t
    BY <1>1
  <2>2. t <= f.at
    BY <1>2
  <2>3. f.at = t => u <= f.uid
    BY <1>3
  <2>4. f.uid # e.uid
    BY DEF ListInv
  <2> QED BY <1>4, <2>1, <2>2, <2>3, <2>4 DEF Before
<1> QED BY <1>5

(* While a simulation runs, one event is next, and a probe has a number for *)
(* the event that it schedules.                                             *)
RunCanGoOn ==
  pc = "run" /\ ~ m_stop =>
    \E e \in m_events :
      /\ \A f \in m_events \ {e} : Before(e, f)
      /\ e.kind = "probe" => m_uid < MaxUid

(* Simulator::Run never finds its list empty before Stop, and the numbers   *)
(* of events, bounded in the model, are never used up: the bound cuts no    *)
(* simulation short.                                                        *)
THEOREM RunGoesOn ==
  ASSUME MaxUid >= NumQueues * StopTime + NumQueues + 5
  PROVE  Spec => []RunCanGoOn
<1> USE RunConstants
<1>1. RunInv /\ ListInv /\ NumbersInv => RunCanGoOn
  <2> SUFFICES ASSUME RunInv, ListInv, NumbersInv, pc = "run", ~ m_stop
               PROVE  \E e \in m_events :
                        /\ \A f \in m_events \ {e} : Before(e, f)
                        /\ e.kind = "probe" => m_uid < MaxUid
    BY DEF RunCanGoOn
  <2>1. StopEvent \in m_events
    BY DEF RunInv, EventsInv
  <2>2. PICK e \in m_events : \A f \in m_events \ {e} : Before(e, f)
    BY <2>1, FirstExists
  <2>3. ASSUME e.kind = "probe" PROVE m_uid < MaxUid
    <3> DEFINE M == m_events \ {e}
    <3>1. /\ IsFiniteSet(M) /\ Work(M) \in Nat /\ Work(m_events) \in Nat
          /\ Work(m_events) = Work(M) + Weight(e)
      BY WorkTaken DEF RunInv, RunTypes, ListInv
    <3>2. StopEvent \in M /\ M \in SUBSET EventType
      BY <2>1, <2>3 DEF StopEvent, Event, RunInv, RunTypes
    <3>3. Weight(StopEvent) = 1
      BY DEF Weight, StopEvent, Event
    <3>4. e \in EventType /\ Weight(e) >= 1
      <4>1. e \in EventType /\ e.at \in Nat /\ e.uid \in Nat
        BY DEF RunInv, RunTypes, EventType
      <4>2. Before(e, StopEvent)
        BY <3>2, <2>2
      <4>3. e.at < StopTime \/ (e.at = StopTime /\ e.uid < NumQueues + 1)
        BY <4>2 DEF Before, StopEvent, Event
      <4>4. IF e.at = 0 THEN e.uid <= NumQueues ELSE e.uid >= NumQueues + 2
        BY <2>3 DEF RunInv, EventsInv
      <4>5. e.at < StopTime
        BY <4>1, <4>3, <4>4
      <4> QED BY <2>3, <4>1, <4>5 DEF Weight
    <3> HIDE DEF M
    <3>5. Work(M) = Work(M \ {StopEvent}) + 1 /\ Work(M \ {StopEvent}) \in Nat
      BY <3>1, <3>2, <3>3, WorkTaken
    <3>6. Weight(e) \in Nat /\ m_uid \in Nat /\ NumQueues * StopTime \in Nat
          /\ MaxUid \in Nat
      <4>1. NumQueues * StopTime \in Nat
        OBVIOUS
      <4> QED BY <3>4, <4>1, WeightIsNat, ConstantsAssumption DEF RunInv, RunTypes
    <3>7. Work(m_events) >= 2
      BY <3>1, <3>4, <3>5, <3>6
    <3>8. m_uid + Work(m_events) <= NumQueues * StopTime + NumQueues + 6
      BY <3>1, <3>6 DEF NumbersInv
    <3> QED BY <3>1, <3>6, <3>7, <3>8
  <2> QED BY <2>2, <2>3
<1> QED BY <1>1, RunInvariant, ListInvariant, NumbersInvariant, PTL

-----------------------------------------------------------------------------
(* What the end of ns3_simulate adds to the steps that are left: a phase at *)
(* a time, and the printing.                                                *)
ReportStepsLeft == StepsLeft + (NumPhases - w) + IF printed THEN 0 ELSE 1

(* The report is printed after as many steps as there are phases, and then  *)
(* nothing is left to do.                                                   *)
THEOREM ReportEnds ==
  ReportSpec => /\ [](ReportStepsLeft \in Nat)
                /\ [][ReportStepsLeft' < ReportStepsLeft]_<<vars, reportVars>>
<1> USE RunConstants
<1>1. RunInv /\ ListInv /\ ReportInv => ReportStepsLeft \in Nat
  <2> SUFFICES ASSUME RunInv, ListInv, ReportInv PROVE ReportStepsLeft \in Nat
    OBVIOUS
  <2>1. StepsLeft \in Nat
    BY StepsLeftIsNat
  <2>2. NumPhases - w \in Nat
    BY DEF ReportInv
  <2> QED BY <2>1, <2>2 DEF ReportStepsLeft
<1>2. /\ RunInv /\ ListInv /\ ReportInv /\ RunInv' /\ ListInv' /\ (StepsLeft \in Nat)'
      /\ [ReportNext]_<<vars, reportVars>>
      => [ReportStepsLeft' < ReportStepsLeft]_<<vars, reportVars>>
  <2> SUFFICES ASSUME RunInv, ListInv, ReportInv, RunInv', ListInv', StepsLeft' \in Nat, ReportNext
               PROVE  ReportStepsLeft' < ReportStepsLeft
    OBVIOUS
  <2>1. StepsLeft \in Nat /\ NumPhases - w \in Nat
    BY StepsLeftIsNat DEF ReportInv
  <2>2. CASE Simulate
    <3>1. w' = w /\ printed' = printed
      BY <2>2 DEF Simulate, reportVars, sums
    <3>2. StepsLeft' < StepsLeft
      BY <2>2, StepsGo DEF Simulate
    <3> QED BY <2>1, <3>1, <3>2 DEF ReportStepsLeft
  <2>3. CASE AddPhase \/ PrintResult
    <3>1. UNCHANGED vars
      BY <2>3 DEF AddPhase, PrintResult
    <3>2. StepsLeft' = StepsLeft
      BY <3>1 DEF vars, sim, StepsLeft, StepsOfThis, Work, WeightOf, Weight, SimulationSteps
    <3>3. \/ NumPhases - w' = NumPhases - w - 1 /\ printed' = printed
          \/ NumPhases - w' = NumPhases - w /\ ~ printed /\ printed' = TRUE
      <4>1. \/ w' = w + 1 /\ printed' = printed
            \/ w' = w /\ ~ printed /\ printed' = TRUE
        BY <2>3 DEF AddPhase, PrintResult
      <4>2. w \in 0 .. NumPhases
        BY DEF ReportInv
      <4> QED BY <4>1, <4>2
    <3> QED BY <2>1, <3>2, <3>3 DEF ReportStepsLeft
  <2> QED BY <2>2, <2>3 DEF ReportNext
<1>3. ReportSpec => Spec
  BY ReportRunsSimulations
<1> QED BY <1>1, <1>2, <1>3, RunInvariant, ListInvariant, ReportInvariant, SimulationsEnd, PTL
        DEF ReportSpec
=============================================================================
