---------------------------- MODULE PhaseEstimator ----------------------------
(***************************************************************************)
(* What the phase loop of ns3_simulate promises, without its comparisons   *)
(* and its archive: each phase in turn is given an estimate, by simulating *)
(* it or by taking the estimate of an earlier phase that was simulated,    *)
(* and the total is the sum of the estimates.                              *)
(***************************************************************************)
EXTENDS Integers

CONSTANTS Phases, Latencies, NoPhase

VARIABLES
  next,       \* the first phase without an estimate
  estimate,   \* its latency, for every phase
  source,     \* the phase whose simulation produced it
  total

vars == <<next, estimate, source, total>>

Init ==
  /\ next = 0 /\ total = 0
  /\ estimate = [q \in Phases |-> 0]
  /\ source = [q \in Phases |-> NoPhase]

Settle(lat, src) ==
  /\ next \in Phases
  /\ estimate' = [estimate EXCEPT ![next] = lat]
  /\ source' = [source EXCEPT ![next] = src]
  /\ total' = total + lat
  /\ next' = next + 1

Simulate == \E lat \in Latencies \cup {0} : Settle(lat, next)

Reuse == \E q \in Phases :
           q < next /\ source[q] = q /\ Settle(estimate[q], q)

Next == Simulate \/ Reuse

Spec == Init /\ [][Next]_vars
=============================================================================
