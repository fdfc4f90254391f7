----------------------------- MODULE FinalReport -----------------------------
(***************************************************************************)
(* The end of ns3_simulate (main.cpp:507-628), composed with the           *)
(* simulations it reports on: the figures of the phases are added up, one  *)
(* phase after the other, and averages are taken from the running totals,  *)
(* which the probes kept beside the figures of the phases.                 *)
(*                                                                         *)
(* Every phase is simulated for itself (EveryPhaseSimulated of the phase   *)
(* driver), so that there is one simulation per phase to report on.  The   *)
(* means over all queues, hops and the totals of the switches are left out.*)
(***************************************************************************)
EXTENDS SimulationRun

VARIABLES
  w,                             \* the next phase to add
  congestion_time,               \* of all queues, in probe intervals
  each_queue_avg_queue_length,
  each_queue_congestion_time,
  real_avg,                      \* realQueuesize, after its division
  printed

sums       == <<w, congestion_time, each_queue_avg_queue_length,
                each_queue_congestion_time>>
reportVars == <<sums, real_avg, printed>>

ReportInit ==
  /\ Init
  /\ w = 0 /\ congestion_time = 0
  /\ each_queue_avg_queue_length = [q \in Queues |-> 0]
  /\ each_queue_congestion_time = [q \in Queues |-> 0]
  /\ real_avg = [q \in Queues |-> 0]
  /\ printed = FALSE

Simulate == Next /\ UNCHANGED reportVars

(* Seeded fault: = in place of += for the times of the queues.              *)
LastTime(sum, time) == time

AddedTime(sum, time) == sum + time

AddPhase ==
  /\ pc = "done" /\ w < NumPhases
  /\ congestion_time' = congestion_time + window[w].total
  /\ each_queue_avg_queue_length' =
       [q \in Queues |-> each_queue_avg_queue_length[q] + window[w].avg[q]]
  /\ each_queue_congestion_time' =
       [q \in Queues |-> AddedTime(each_queue_congestion_time[q], window[w].time[q])]
  /\ w' = w + 1
  /\ UNCHANGED <<vars, real_avg, printed>>

(* A queue that was never in use has no average to divide.                  *)
Average(q) ==
  IF realCheckTimes[q] # 0 THEN (Unit * realQueuesize[q]) \div realCheckTimes[q] ELSE 0

PrintResult ==
  /\ pc = "done" /\ w = NumPhases /\ ~ printed
  /\ each_queue_avg_queue_length' =
       [q \in Queues |-> each_queue_avg_queue_length[q] \div NumPhases]
  /\ real_avg' = [q \in Queues |-> Average(q)]
  /\ printed' = TRUE
  /\ UNCHANGED <<vars, w, congestion_time, each_queue_congestion_time>>

ReportNext == Simulate \/ AddPhase \/ PrintResult

ReportSpec == ReportInit /\ [][ReportNext]_<<vars, reportVars>>

(* One thread runs the events and the code around them.                     *)
ReportFairSpec == ReportSpec /\ WF_<<vars, reportVars>>(ReportNext)

-----------------------------------------------------------------------------
(* Properties.                                                              *)

Used(q) == {v \in Phases : window[v].time[q] > 0}

(* The figures that are printed describe the same simulations, although     *)
(* they come from three places: the total congestion time is that of the    *)
(* queues together and that of the running totals, and the real average of  *)
(* a queue is a mean of its averages in the phases it was used in, neither  *)
(* below the least of them nor above the greatest.                          *)
ReportAgrees ==
  printed =>
    /\ congestion_time = SumFunctionOnSet(each_queue_congestion_time, Queues)
    /\ congestion_time = SumFunctionOnSet(realCheckTimes, Queues)
    /\ \A q \in Queues :
         IF Used(q) = {} THEN real_avg[q] = 0
         ELSE /\ \E v \in Used(q) : window[v].avg[q] <= real_avg[q]
              /\ \E v \in Used(q) : window[v].avg[q] >= real_avg[q]

(* Probes reschedule themselves for ever, and yet every simulation ends and *)
(* the results are printed.                                                 *)
EventuallyPrinted == <>printed
=============================================================================
