------------------------------ MODULE HostShells ------------------------------
(***************************************************************************)
(* The shells of the host on which clusters are started, stopped and       *)
(* captured.  A shell runs one script at a time, step by step, ignores the *)
(* result of each step as the scripts do, and may be stopped between any   *)
(* two steps.                                                              *)
(***************************************************************************)
EXTENDS Integers

CONSTANTS
  Shells,
  MaxVms, MaxNodes   \* bounds on the machines and containers of a cluster

ASSUME SizesAssumption == MaxVms \in Nat /\ MaxNodes \in Nat

VARIABLES
  sh,     \* what each shell runs and where it has got to
  alone   \* history: the shells whose script had its cluster to itself

(* cmd: the script; n: its number of machines; at: the next step; i: the    *)
(* loop's index; list: the containers listed and not treated yet.           *)
Idle == [cmd |-> "none", n |-> 0, at |-> "idle", i |-> 0, list |-> {}]

VmCommands        == {"create", "edit", "destroy", "update-image"}
ContainerCommands == {"start", "stop", "restart"}
Commands          == VmCommands \cup ContainerCommands \cup {"login"}

(* What a script changes: machines, containers, or only the capture.        *)
Kind(cmd) == CASE cmd \in VmCommands        -> "vm"
               [] cmd \in ContainerCommands -> "containers"
               [] OTHER                     -> cmd

At(s, place) == sh[s].at = place

Goto(s, place) == sh' = [sh EXCEPT ![s].at = place]

(* The end of a loop's body: back to the place that begins it, or on.       *)
Loop(s, place, after) ==
  sh' = [sh EXCEPT ![s].i = IF @ + 1 < sh[s].n THEN @ + 1 ELSE 0,
                   ![s].at = IF sh[s].i + 1 < sh[s].n THEN place ELSE after]

(* A loop of n rounds, which may be none.                                   *)
LoopOver(n, place, after) == IF n = 0 THEN after ELSE place
=============================================================================
