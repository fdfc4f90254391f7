------------------------------ MODULE VmCluster ------------------------------
(***************************************************************************)
(* vmcluster: the virtual machines clusim0, clusim1, ... and the networks  *)
(* "default", whose bridge is captured, and "isolated".                    *)
(*                                                                         *)
(* libvirt is external: machines and networks are transient, a machine is  *)
(* created only if its name is free, its image is there and both networks  *)
(* are active, and loses its connection for good with the network it was   *)
(* connected to.  net-start comes after each net-create and finds the      *)
(* network active; detach-interface finds its machine gone.  Neither has   *)
(* an effect.                                                              *)
(***************************************************************************)
EXTENDS HostShells

CONSTANT DefaultVms   \* num_vm without --num_vm, 4 in the code

ASSUME DefaultVmsAssumption == DefaultVms \in 0 .. MaxVms

Vms  == 0 .. MaxVms - 1
Nets == {"default", "isolated"}

VARIABLES
  active,    \* networks
  linked,    \* machines connected to each network as it is now
  running,   \* machines
  images     \* machines that have an image of their own

vmVars == <<active, linked, running, images>>

VmInit ==
  /\ active = {} /\ linked = [net \in Nets |-> {}]
  /\ running = {} /\ images = {}

(* The first step of a command for n machines.                              *)
VmFirst(cmd, n) ==
  CASE cmd \in {"create", "edit"} -> LoopOver(n, "machine", "make default")
    [] cmd = "destroy"            -> LoopOver(n, "machine", "finished")
    [] cmd = "update-image"       -> LoopOver(n, "image", "finished")

-----------------------------------------------------------------------------
(* vmcluster_destroy.                                                       *)
DestroyMachine(s) ==
  /\ At(s, "machine")
  /\ running' = running \ {sh[s].i}
  /\ linked' = [net \in Nets |-> linked[net] \ {sh[s].i}]
  /\ Goto(s, "drop default")
  /\ UNCHANGED <<active, images, alone>>

(* Seeded fault: a network with machines on it is not destroyed.            *)
NetDestroyedIfUnused(net) ==
  IF linked[net] = {} THEN active' = active \ {net} /\ UNCHANGED linked
                      ELSE UNCHANGED <<active, linked>>

NetDestroyed(net) ==
  /\ active' = active \ {net}
  /\ linked' = [linked EXCEPT ![net] = {}]

DropDefault(s) ==
  /\ At(s, "drop default")
  /\ NetDestroyed("default")
  /\ Goto(s, "drop isolated")
  /\ UNCHANGED <<running, images, alone>>

DropIsolated(s) ==
  /\ At(s, "drop isolated")
  /\ NetDestroyed("isolated")
  /\ Loop(s, "machine", IF sh[s].cmd = "destroy" THEN "finished" ELSE "make default")
  /\ UNCHANGED <<running, images, alone>>

-----------------------------------------------------------------------------
(* create: the networks, and then the machines.                             *)
MakeDefault(s) ==
  /\ At(s, "make default")
  /\ active' = active \cup {"default"}
  /\ Goto(s, "make isolated")
  /\ UNCHANGED <<linked, running, images, alone>>

MakeIsolated(s) ==
  /\ At(s, "make isolated")
  /\ active' = active \cup {"isolated"}
  /\ Goto(s, LoopOver(sh[s].n, "boot", "finished"))
  /\ UNCHANGED <<linked, running, images, alone>>

(* edit_only starts the first machine only, on the base image itself.       *)
Bootable(s) ==
  /\ sh[s].i \notin running /\ active = Nets
  /\ sh[s].cmd = "edit" \/ sh[s].i \in images

BootMachine(s) ==
  /\ At(s, "boot")
  /\ IF Bootable(s)
       THEN /\ running' = running \cup {sh[s].i}
            /\ linked' = [net \in Nets |-> linked[net] \cup {sh[s].i}]
       ELSE UNCHANGED <<running, linked>>
  /\ IF sh[s].cmd = "edit" THEN Goto(s, "finished") ELSE Loop(s, "boot", "finished")
  /\ UNCHANGED <<active, images, alone>>

(* update-image.                                                            *)
CopyImage(s) ==
  /\ At(s, "image")
  /\ images' = images \cup {sh[s].i}
  /\ Loop(s, "image", "finished")
  /\ UNCHANGED <<active, linked, running, alone>>

VmStep(s) ==
  \/ DestroyMachine(s) \/ DropDefault(s) \/ DropIsolated(s)
  \/ MakeDefault(s) \/ MakeIsolated(s) \/ BootMachine(s) \/ CopyImage(s)

(* A reboot of the host: only the images are on disk.                       *)
VmReboot ==
  /\ active' = {} /\ linked' = [net \in Nets |-> {}] /\ running' = {}
  /\ UNCHANGED images

-----------------------------------------------------------------------------
(* Properties.                                                              *)

(* The machines a finished command is to have started: all of them, those   *)
(* without an image excepted.                                               *)
Ordered(s) ==
  IF sh[s].cmd = "edit" THEN {0}
  ELSE {v \in Vms : v < sh[s].n /\ v \in images}

(* A create that had the machines to itself leaves the machines it was      *)
(* asked for, and no others, on the networks, whatever was left of the      *)
(* commands before it: stopped half-way, for more machines, or lost in a    *)
(* reboot.  A destroy with too small a number leaves machines running, but  *)
(* none of them is connected any more.  Neither holds for no machines,      *)
(* whose loop destroys nothing.                                             *)
VmCommandsDeliver ==
  \A s \in Shells :
    At(s, "finished") /\ s \in alone /\ sh[s].n > 0 =>
      /\ sh[s].cmd \in {"create", "edit"} =>
           /\ active = Nets
           /\ Ordered(s) \subseteq running
           /\ \A net \in Nets : linked[net] = Ordered(s)
      /\ sh[s].cmd = "destroy" =>
           /\ active = {} /\ running \cap 0 .. sh[s].n - 1 = {}
           /\ \A net \in Nets : linked[net] = {}
=============================================================================
