----------------------------- MODULE SimulationRun -----------------------------
(***************************************************************************)
(* The simulations of a run of clusim, one per phase (star, fat_tree and   *)
(* DD_tour in main.cpp): the probes that sample the queues (CheckQueueSize *)
(* and CheckQueueSize_s), ns-3's event list that runs them, and what       *)
(* becomes of the samples.                                                 *)
(*                                                                         *)
(* The statistics of a queue live in global arrays that outlast a          *)
(* simulation; a probe also holds pointers to two arrays of the function   *)
(* that scheduled it, which deletes them after Simulator::Destroy.  The    *)
(* element of these arrays after the last queue collects their total and   *)
(* maximum; it is never initialised for the queues of the hosts.           *)
(*                                                                         *)
(* Simulated time is counted in probe intervals (0.001 s).  What packets   *)
(* do to the queues between two probes is any change of their lengths.     *)
(* Averages, doubles in the code, are in units of 1/Unit.                  *)
(***************************************************************************)
EXTENDS Integers, FiniteSetsExt

CONSTANTS
  NumPhases,   \* phases, each of which is simulated
  NumQueues,   \* host queues, 2 * leaf_nodes
  StopTime,    \* end of a simulation (200 s, 200000 intervals)
  Lengths,     \* lengths a queue may have when it is probed
  Unit,        \* fixed-point unit of averages
  Leftover,    \* what the uninitialised elements may hold; of the doubles
               \* only natural numbers, neither negative ones nor NaN
  MaxUid       \* bound on the events of a simulation

ASSUME ConstantsAssumption ==
  /\ NumPhases \in Nat \ {0} /\ NumQueues \in Nat \ {0}
  /\ StopTime \in Nat \ {0} /\ Unit \in Nat \ {0}
  /\ Lengths \subseteq Nat /\ 0 \in Lengths /\ Leftover \subseteq Nat
  /\ MaxUid \in Nat

Phases == 0 .. NumPhases - 1
Queues == 0 .. NumQueues - 1

VARIABLES
  i,             \* the phase being simulated
  pc,            \* "setup", "run", "collect", "destroy", "free", "done"
  m_events, m_uid, m_currentTs, m_stop,   \* ns-3's simulator
  traffic,       \* the applications have been started
  stats,         \* checkTimes, maxQueueSize, tmpQueueSize, avgQueueSize
  realCheckTimes, realQueuesize,          \* running totals, never cleared
  heap,          \* queuel and queuem of this simulation, or Freed
  window,        \* the row of ptr2_window_info of each phase
  samples,       \* history: probes of each queue in this simulation
  peak           \* history: longest length seen by a probe of each queue

sim     == <<m_events, m_uid, m_currentTs, m_stop, traffic>>
figures == <<stats, realCheckTimes, realQueuesize>>
seen    == <<samples, peak>>
vars    == <<i, pc, sim, figures, heap, window, seen>>

Freed == [queuel |-> <<>>, queuem |-> <<>>]

(* queueTime is checkTimes, in probe intervals.                             *)
Cleared == [checkTimes |-> 0, max |-> 0, tmp |-> 0, avg |-> 0]

NoWindow == [avg |-> [q \in Queues |-> 0], time |-> [q \in Queues |-> 0],
             max |-> 0, mean |-> 0, total |-> 0]

Init ==
  /\ i = 0 /\ pc = "setup"
  /\ m_events = {} /\ m_uid = 0 /\ m_currentTs = 0 /\ m_stop = FALSE
  /\ traffic = FALSE
  /\ stats = [q \in Queues |-> Cleared]
  /\ realCheckTimes = [q \in Queues |-> 0]
  /\ realQueuesize = [q \in Queues |-> 0]
  /\ heap = Freed
  /\ window = [w \in Phases |-> NoWindow]
  /\ samples = [q \in Queues |-> 0] /\ peak = [q \in Queues |-> 0]

-----------------------------------------------------------------------------
(* ns-3's event list.  Events of the same time run in the order in which    *)
(* they were scheduled.                                                     *)
Event(at, uid, kind, q) == [at |-> at, uid |-> uid, kind |-> kind, q |-> q, sim |-> i]

Before(e, f) == e.at < f.at \/ (e.at = f.at /\ e.uid < f.uid)

(* RemoveNext: e is the event ProcessOneEvent runs. *)
NextEvent(e) ==
  /\ pc = "run" /\ ~ m_stop
  /\ e \in m_events /\ \A f \in m_events \ {e} : Before(e, f)
  /\ m_currentTs' = e.at

(* The nodes' initialisation is scheduled when they are created, the first  *)
(* probes when the queues exist, and Stop last.                             *)
FirstEvents(stop) ==
  {Event(0, 0, "init", 0), Event(stop, NumQueues + 1, "stop", 0)}
    \cup {Event(0, q + 1, "probe", q) : q \in Queues}

(* Seeded fault: the sums of the phase before are kept.                     *)
ClearedKeepingTmp(s) == [Cleared EXCEPT !.tmp = s.tmp]

ClearedStats(s) == Cleared

(* Seeded fault: the simulator is stopped after the applications.           *)
SimulatorStopLate == StopTime + 1

SimulatorStop == StopTime

Setup ==
  /\ pc = "setup"
  /\ stats' = [q \in Queues |-> ClearedStats(stats[q])]
  /\ samples' = [q \in Queues |-> 0] /\ peak' = [q \in Queues |-> 0]
  /\ \E lostL, lostM \in Leftover :
       heap' = [queuel |-> [q \in 0 .. NumQueues |-> IF q \in Queues THEN 0 ELSE lostL],
                queuem |-> [q \in 0 .. NumQueues |-> IF q \in Queues THEN 0 ELSE lostM]]
  /\ m_events' = FirstEvents(SimulatorStop) /\ m_uid' = NumQueues + 2
  /\ m_stop' = FALSE /\ traffic' = FALSE
  /\ pc' = "run"
  /\ UNCHANGED <<i, m_currentTs, realCheckTimes, realQueuesize, window>>

-----------------------------------------------------------------------------
(* Seeded fault: initialising a node starts its applications.               *)
InitialTraffic == TRUE

NoTrafficYet == traffic

(* Node::Initialize schedules the start and the stop of the applications.   *)
InitializeNodes ==
  \E e \in m_events :
    /\ NextEvent(e) /\ e.kind = "init"
    /\ m_events' = (m_events \ {e})
         \cup {Event(e.at, m_uid, "application", 0),
               Event(StopTime, m_uid + 1, "application", 1)}
    /\ m_uid' = m_uid + 2
    /\ traffic' = NoTrafficYet
    /\ UNCHANGED <<i, pc, m_stop, figures, heap, window, seen>>

StartOrStopApplications ==
  \E e \in m_events :
    /\ NextEvent(e) /\ e.kind = "application"
    /\ m_events' = m_events \ {e}
    /\ traffic' = (e.q = 0)
    /\ UNCHANGED <<i, pc, m_uid, m_stop, figures, heap, window, seen>>

StopSimulator ==
  \E e \in m_events :
    /\ NextEvent(e) /\ e.kind = "stop"
    /\ m_events' = m_events \ {e}
    /\ m_stop' = TRUE
    /\ UNCHANGED <<i, pc, m_uid, traffic, figures, heap, window, seen>>

(* What a probe makes of the statistics of a queue of length len.           *)
Sampled(s, len) ==
  IF len = 0 THEN s
  ELSE [checkTimes |-> s.checkTimes + 1,
        max |-> Max({s.max, len}),
        tmp |-> s.tmp + len,
        avg |-> (Unit * (s.tmp + len)) \div (s.checkTimes + 1)]

(* Seeded fault: a probe of an empty queue is counted as well.              *)
CountedAlways(len) == 1

Counted(len) == IF len = 0 THEN 0 ELSE 1

(* Seeded fault: the delay is lost when it is converted.                    *)
ProbeAgainNow(e) == e.at

ProbeAgain(e) == e.at + 1

CheckQueueSize ==
  \E e \in m_events, len \in Lengths :
    /\ NextEvent(e) /\ e.kind = "probe" /\ m_uid < MaxUid
    /\ traffic \/ len = 0
    /\ stats' = [stats EXCEPT ![e.q] = Sampled(@, len)]
    /\ realCheckTimes' = [realCheckTimes EXCEPT ![e.q] = @ + Counted(len)]
    /\ realQueuesize' = [realQueuesize EXCEPT ![e.q] = @ + len]
    /\ heap' = [heap EXCEPT !.queuel[e.q] = stats'[e.q].avg,
                            !.queuem[e.q] = stats'[e.q].max]
    /\ m_events' = (m_events \ {e})
                     \cup {Event(ProbeAgain(e), m_uid, "probe", e.q)}
    /\ m_uid' = m_uid + 1
    /\ samples' = [samples EXCEPT ![e.q] = @ + 1]
    /\ peak' = [peak EXCEPT ![e.q] = Max({@, len})]
    /\ UNCHANGED <<i, pc, m_stop, traffic, window>>

RunReturns ==
  /\ pc = "run" /\ (m_stop \/ m_events = {})
  /\ pc' = "collect"
  /\ UNCHANGED <<i, sim, figures, heap, window, seen>>

-----------------------------------------------------------------------------
(* The results: the extra elements of queuel and queuem start from what     *)
(* they happen to hold, and window_info keeps its zero unless some queue    *)
(* exceeds that.                                                            *)
LongestQueue == Max({heap.queuem[q] : q \in Queues})

ReportedMax ==
  IF LongestQueue > heap.queuem[NumQueues] THEN LongestQueue ELSE 0

SumOfAverages == SumFunctionOnSet(heap.queuel, 0 .. NumQueues)

Collect ==
  /\ pc = "collect"
  /\ window' = [window EXCEPT ![i] =
       [avg   |-> [q \in Queues |-> heap.queuel[q]],
        time  |-> [q \in Queues |-> stats[q].checkTimes],
        max   |-> ReportedMax,
        mean  |-> IF SumOfAverages >= Unit THEN SumOfAverages \div NumQueues ELSE 0,
        total |-> SumFunctionOnSet([q \in Queues |-> stats[q].checkTimes], Queues)]]
  /\ pc' = "destroy"
  /\ UNCHANGED <<i, sim, figures, heap, seen>>

(* Seeded fault: the events that were not run stay in the list.             *)
KeptEvents == m_events

NoEvents == {}

(* Simulator::Destroy: the next use of the simulator creates a new one.     *)
Destroy ==
  /\ pc = "destroy"
  /\ m_events' = NoEvents /\ m_uid' = 0 /\ m_currentTs' = 0 /\ m_stop' = FALSE
  /\ pc' = "free"
  /\ UNCHANGED <<i, traffic, figures, heap, window, seen>>

Free ==
  /\ pc = "free"
  /\ heap' = Freed
  /\ i' = i + 1
  /\ pc' = IF i + 1 = NumPhases THEN "done" ELSE "setup"
  /\ UNCHANGED <<sim, figures, window, seen>>

Next == \/ Setup \/ InitializeNodes \/ StartOrStopApplications \/ StopSimulator
        \/ CheckQueueSize \/ RunReturns \/ Collect \/ Destroy \/ Free

Spec == Init /\ [][Next]_vars

-----------------------------------------------------------------------------
(* Properties.                                                              *)

EventType == [at : Nat, uid : Nat, q : Nat, sim : Phases,
              kind : {"init", "application", "probe", "stop"}]

TypeOK ==
  /\ i \in 0 .. NumPhases
  /\ pc \in {"setup", "run", "collect", "destroy", "free", "done"}
  /\ m_events \subseteq EventType /\ m_uid \in Nat /\ m_currentTs \in 0 .. StopTime
  /\ \A e \in m_events : e.uid < m_uid /\ e.at >= m_currentTs
  /\ m_stop \in BOOLEAN /\ traffic \in BOOLEAN
  /\ stats \in [Queues -> [checkTimes : Nat, max : Nat, tmp : Nat, avg : Nat]]
  /\ realCheckTimes \in [Queues -> Nat] /\ realQueuesize \in [Queues -> Nat]
  /\ heap = Freed <=> pc \in {"setup", "done"}
  /\ samples \in [Queues -> 0 .. StopTime] /\ peak \in [Queues -> Nat]

(* A probe that is still to run belongs to this simulation, whose arrays    *)
(* are there: no probe ever writes through a pointer to deleted memory.     *)
ProbesPointToLiveArrays ==
  \A e \in m_events : e.kind = "probe" => e.sim = i /\ heap # Freed

(* Every queue is probed once per interval: at the end of a simulation of   *)
(* StopTime intervals each has been probed exactly StopTime times, and at   *)
(* no time has one been probed twice more often than another.               *)
SampledEveryInterval ==
  /\ pc \in {"collect", "destroy", "free"} => \A q \in Queues : samples[q] = StopTime
  /\ \A q, r \in Queues : samples[q] - samples[r] \in -1 .. 1

(* The applications are still running when the simulation ends, although    *)
(* their own stop is set to the same time: no sink was closed before its    *)
(* last packet.                                                             *)
SinksOpenUntilTheEnd == pc = "collect" => traffic

(* The running totals that outlast a simulation, and the times reported for *)
(* the phases that do not, count the same probes.                           *)
RunningTotalsAgree ==
  \A q \in Queues :
    /\ realCheckTimes[q] =
         SumFunctionOnSet([v \in Phases |-> window[v].time[q]], Phases)
           + IF pc \in {"run", "collect"} THEN stats[q].checkTimes ELSE 0
    /\ realCheckTimes[q] <= realQueuesize[q]

(* The first probes run before the applications start, so no queue can be   *)
(* reported as congested for the whole simulation.                          *)
CongestionIsPartial ==
  \A w \in Phases, q \in Queues : window[w].time[q] < StopTime

(* What is reported for a phase was seen in it.  The average of a queue is  *)
(* no less than one packet if it was ever in use and no more than the       *)
(* longest length a probe has seen; the longest queue is one that a probe   *)
(* saw, or missing (zero) because of what the uninitialised element held.   *)
ReportedWasSeen ==
  pc \in {"destroy", "free"} =>
    /\ \A q \in Queues :
         /\ window[i].avg[q] <= Unit * peak[q]
         /\ window[i].time[q] > 0 => window[i].avg[q] >= Unit
    /\ \/ window[i].max = Max({peak[q] : q \in Queues})
       \/ window[i].max = 0 /\ heap.queuem[NumQueues] > 0
=============================================================================
