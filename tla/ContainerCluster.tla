--------------------------- MODULE ContainerCluster ---------------------------
(***************************************************************************)
(* The scripts of vcluster: start-slaves.sh runs the containers node0,     *)
(* node1, ..., stop-vcluster.sh stops and removes every container there    *)
(* is, and restart-vcluster.sh does one after the other.                   *)
(*                                                                         *)
(* Docker is external: a name that is taken is not run again, even if its  *)
(* container has stopped, and a running container is not removed.          *)
(***************************************************************************)
EXTENDS HostShells

Nodes == 0 .. MaxNodes - 1

VARIABLES
  containers,   \* all there are (docker ps -aq)
  up            \* those that run

containerVars == <<containers, up>>

ContainerInit == containers = {} /\ up = {}

ContainerFirst(cmd, n) ==
  IF cmd = "start" THEN LoopOver(n, "run", "capture") ELSE "look"

RunContainer(s) ==
  /\ At(s, "run")
  /\ containers' = containers \cup {sh[s].i}
  /\ up' = IF sh[s].i \in containers THEN up ELSE up \cup {sh[s].i}
  /\ Loop(s, "run", "capture")
  /\ UNCHANGED alone

(* After stop-vcluster.sh, restart-vcluster.sh goes on.                     *)
AfterStop(s) ==
  IF sh[s].cmd = "restart" THEN LoopOver(sh[s].n, "run", "capture") ELSE "finished"

LookForContainers(s) ==
  /\ At(s, "look")
  /\ Goto(s, IF containers = {} THEN AfterStop(s) ELSE "list to stop")
  /\ UNCHANGED <<containers, up, alone>>

ListToStop(s) ==
  /\ At(s, "list to stop")
  /\ sh' = [sh EXCEPT ![s].at = "stop", ![s].list = containers]
  /\ UNCHANGED <<containers, up, alone>>

StopContainer(s) ==
  /\ At(s, "stop")
  /\ \E c \in sh[s].list :
       /\ up' = up \ {c}
       /\ sh' = [sh EXCEPT ![s].list = @ \ {c}]
  /\ UNCHANGED <<containers, alone>>

(* Seeded fault: the containers to remove are listed with docker ps -q,     *)
(* which only lists those that run.                                         *)
RunningOnly == up

ListedToRemove == containers

(* The containers are listed again, to be removed.                          *)
ListToRemove(s) ==
  /\ At(s, "stop") /\ sh[s].list = {}
  /\ sh' = [sh EXCEPT ![s].at = "remove", ![s].list = ListedToRemove]
  /\ UNCHANGED <<containers, up, alone>>

RemoveContainer(s) ==
  /\ At(s, "remove")
  /\ \E c \in sh[s].list :
       /\ containers' = IF c \in up THEN containers ELSE containers \ {c}
       /\ sh' = [sh EXCEPT ![s].list = @ \ {c}]
  /\ UNCHANGED <<up, alone>>

RemoveDone(s) ==
  /\ At(s, "remove") /\ sh[s].list = {}
  /\ Goto(s, AfterStop(s))
  /\ UNCHANGED <<containers, up, alone>>

ContainerStep(s) ==
  \/ RunContainer(s) \/ LookForContainers(s) \/ ListToStop(s) \/ StopContainer(s)
  \/ ListToRemove(s) \/ RemoveContainer(s) \/ RemoveDone(s)

(* After a reboot of the host the containers are there, but do not run.     *)
ContainerReboot == up' = {} /\ UNCHANGED containers

-----------------------------------------------------------------------------
(* Properties.                                                              *)

Cluster(s) == {c \in Nodes : c < sh[s].n}

(* When the capture begins, the cluster that was asked for is there.  After *)
(* a restart it is complete, and nothing else is left of the containers     *)
(* before it, whether they ran, had stopped in a reboot, or were started    *)
(* and stopped in part by a script that did not finish.  A start alone may  *)
(* find names taken: a node that is down is one it found stopped.  And a    *)
(* stop leaves no container at all.                                         *)
ContainersDeliver(foundStopped) ==
  \A s \in alone :
    /\ At(s, "capture") /\ sh[s].cmd = "restart" =>
         containers = Cluster(s) /\ up = Cluster(s)
    /\ At(s, "capture") /\ sh[s].cmd = "start" =>
         /\ Cluster(s) \subseteq containers
         /\ Cluster(s) \ up = Cluster(s) \cap foundStopped[s]
    /\ At(s, "finished") /\ sh[s].cmd = "stop" => containers = {}
=============================================================================
