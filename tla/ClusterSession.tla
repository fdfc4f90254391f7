---------------------------- MODULE ClusterSession ----------------------------
(***************************************************************************)
(* Sessions on a cluster, from which the captures come that clusim         *)
(* simulates.  The two start-vcluster.sh start tcpdump in the background,  *)
(* log in to the cluster, and when the user has left kill tcpdump, by name:*)
(* every one on the host.  The machines and the containers are those of    *)
(* VmCluster and ContainerCluster, which other shells may be working on.   *)
(*                                                                         *)
(* A script may be stopped between any two steps, and the host may reboot. *)
(* What tcpdump, ssh and docker exec do is external.                       *)
(***************************************************************************)
EXTENDS VmCluster, ContainerCluster, FiniteSets

CONSTANTS
  Menus,        \* what each shell may be asked to run: [cmd, n] pairs
  MaxReboots    \* bound on the reboots

ASSUME MenusAssumption ==
  /\ Menus \subseteq
       [Shells -> SUBSET ([cmd : VmCommands \cup {"login"}, n : 0 .. MaxVms]
                            \cup [cmd : ContainerCommands, n : 0 .. MaxNodes])]
  /\ MaxReboots \in Nat
  /\ {"nobody", "old", "mixed"} \cap Shells = {}

VARIABLES
  menu,          \* the choice among Menus
  reboots,
  captures,      \* tcpdump processes: whose, on which bridge, running yet
  file,          \* whose traffic each capture file holds
  opened,        \* history: sessions whose capture has begun
  sent,          \* history: sessions with traffic since then
  disturbed,     \* history: sessions that something from outside got into
  excused,       \* history: a capture was left behind for a reason
  foundStopped   \* history: stopped containers each script found

sessionVars == <<captures, file, opened, sent, disturbed, excused>>
vars == <<sh, alone, vmVars, containerVars, sessionVars, menu, reboots, foundStopped>>

Bridges == {"virbr0", "docker0"}

Bridge(cmd) == IF cmd = "login" THEN "virbr0" ELSE "docker0"

(* Seeded fault: both scripts write to one file.                            *)
OneFile(bridge) == "docker0"

(* vcluster.pcap in the directory of the script, named for its bridge.      *)
File(bridge) == bridge

Init ==
  /\ menu \in Menus /\ reboots = 0
  /\ sh = [s \in Shells |-> Idle] /\ alone = {}
  /\ VmInit /\ ContainerInit
  /\ captures = {} /\ file = [b \in Bridges |-> {}]
  /\ opened = {} /\ sent = {} /\ disturbed = {} /\ excused = FALSE
  /\ foundStopped = [s \in Shells |-> {}]

InSession(s) == sh[s].at \in {"ready", "in", "out"}

-----------------------------------------------------------------------------
(* The VM script hands vmcluster the number of machines, but no command:    *)
(* nothing is created.                                                      *)
First(cmd, n) ==
  CASE Kind(cmd) = "vm"         -> VmFirst(cmd, n)
    [] Kind(cmd) = "containers" -> ContainerFirst(cmd, n)
    [] cmd = "login"            -> "capture"

Begin(s) ==
  /\ At(s, "idle")
  /\ \E order \in menu[s] :
       LET rivals == {t \in Shells \ {s} : Kind(sh[t].cmd) = Kind(order.cmd)}
       IN  /\ sh' = [sh EXCEPT ![s] = [Idle EXCEPT !.cmd = order.cmd, !.n = order.n,
                                                   !.at = First(order.cmd, order.n)]]
           /\ alone' = IF rivals = {} THEN alone \cup {s} ELSE alone \ rivals
  /\ foundStopped' = [foundStopped EXCEPT ![s] = containers \ up]
  /\ UNCHANGED <<vmVars, containerVars, sessionVars, menu, reboots>>

Finish(s) ==
  /\ At(s, "finished")
  /\ sh' = [sh EXCEPT ![s] = Idle] /\ alone' = alone \ {s}
  /\ foundStopped' = [foundStopped EXCEPT ![s] = {}]
  /\ UNCHANGED <<vmVars, containerVars, sessionVars, menu, reboots>>

(* tcpdump ends when its interface goes away.                               *)
VmClusterStep(s) ==
  /\ VmStep(s)
  /\ IF "default" \in active \ active'
       THEN /\ captures' = {c \in captures : c.on # "virbr0" \/ ~ c.open}
            /\ disturbed' = disturbed \cup {t \in Shells : sh[t].cmd = "login"}
       ELSE UNCHANGED <<captures, disturbed>>
  /\ UNCHANGED <<containerVars, menu, reboots, foundStopped, file, opened, sent, excused>>

ContainerClusterStep(s) ==
  /\ ContainerStep(s)
  /\ UNCHANGED <<vmVars, sessionVars, menu, reboots, foundStopped>>

-----------------------------------------------------------------------------
(* The session.                                                             *)

(* tcpdump is started in the background: it may begin later than the login. *)
StartCapture(s) ==
  /\ At(s, "capture")
  /\ LET here  == Bridge(sh[s].cmd)
         peers == {t \in Shells \ {s} : InSession(t) /\ Bridge(sh[t].cmd) = here}
         stray == \E c \in captures : c.own = "nobody" /\ c.on = here
     IN  /\ captures' = captures \cup {[own |-> s, on |-> here, open |-> FALSE]}
         /\ disturbed' = (disturbed \ {s}) \cup peers
                           \cup IF peers # {} \/ stray THEN {s} ELSE {}
  /\ opened' = opened \ {s} /\ sent' = sent \ {s}
  /\ Goto(s, "ready")
  /\ UNCHANGED <<vmVars, containerVars, alone, file, excused, menu, reboots, foundStopped>>

(* It truncates its file, or ends if there is no such bridge.               *)
OpenCapture ==
  /\ \E c \in captures :
       /\ ~ c.open
       /\ IF c.on = "virbr0" /\ "default" \notin active
            THEN /\ captures' = captures \ {c}
                 /\ UNCHANGED <<file, opened>>
            ELSE /\ captures' = (captures \ {c}) \cup {[c EXCEPT !.open = TRUE]}
                 /\ file' = [file EXCEPT ![File(c.on)] = {}]
                 /\ opened' = opened \cup ({c.own} \cap Shells)
  /\ UNCHANGED <<vmVars, containerVars, sh, alone, sent, disturbed, excused, menu,
                 reboots, foundStopped>>

(* ssh needs a machine on the network, docker exec a node that runs.        *)
Reachable(s) ==
  IF sh[s].cmd = "login" THEN linked["default"] # {} ELSE up # {}

LogIn(s) ==
  /\ At(s, "ready") /\ Reachable(s)
  /\ Goto(s, "in")
  /\ UNCHANGED <<vmVars, containerVars, sessionVars, alone, menu, reboots, foundStopped>>

(* Nothing is there, it is not the node that was named, or not up yet.      *)
LogInFails(s) ==
  /\ At(s, "ready")
  /\ Goto(s, "out")
  /\ UNCHANGED <<vmVars, containerVars, sessionVars, alone, menu, reboots, foundStopped>>

(* The nodes of the cluster talk to each other.                             *)
Communicate(s) ==
  /\ At(s, "in") /\ Reachable(s)
  /\ LET here    == Bridge(sh[s].cmd)
         writers == {c \in captures : c.open /\ c.on = here}
     IN  file' = [file EXCEPT ![File(here)] =
                    CASE Cardinality(writers) = 0 -> @
                      [] Cardinality(writers) = 1 -> @ \cup {s}
                      [] OTHER                    -> @ \cup {s, "mixed"}]
  /\ sent' = sent \cup ({s} \cap opened)
  /\ UNCHANGED <<vmVars, containerVars, sh, alone, captures, opened, disturbed, excused,
                 menu, reboots, foundStopped>>

LogOut(s) ==
  /\ At(s, "in")
  /\ Goto(s, "out")
  /\ UNCHANGED <<vmVars, containerVars, sessionVars, alone, menu, reboots, foundStopped>>

(* What shell s leaves behind when its session is over.                     *)
Disown(s, set) == {IF c.own = s THEN [c EXCEPT !.own = "nobody"] ELSE c : c \in set}

Archived(s) == [b \in Bridges |-> {IF t = s THEN "old" ELSE t : t \in file[b]}]

(* Seeded fault: kill %1, the script's own background job.                  *)
KilledOwn(s, c) == c.own = s

(* pkill tcpdump: by name, whoever started it.  A child that has not become *)
(* tcpdump yet has another name.                                            *)
Killed(s, c) == c.open

KillCaptures(s) ==
  /\ At(s, "out")
  /\ captures' = Disown(s, {c \in captures : ~ Killed(s, c)})
  /\ excused' = (\E c \in captures : ~ c.open /\ c.own \in {s, "nobody"})
  /\ disturbed' = (disturbed \ {s}) \cup {t \in Shells \ {s} : InSession(t)}
  /\ file' = Archived(s)
  /\ opened' = opened \ {s} /\ sent' = sent \ {s}
  /\ sh' = [sh EXCEPT ![s] = Idle] /\ alone' = alone \ {s}
  /\ foundStopped' = [foundStopped EXCEPT ![s] = {}]
  /\ UNCHANGED <<vmVars, containerVars, menu, reboots>>

-----------------------------------------------------------------------------
(* The script is killed.  Its capture may die with it or go on.             *)
StopScript(s) ==
  /\ ~ At(s, "idle")
  /\ \E survivors \in SUBSET {c \in captures : c.own = s} :
       /\ captures' = Disown(s, {c \in captures : c.own # s} \cup survivors)
       /\ excused' = (excused \/ survivors # {})
  /\ file' = Archived(s)
  /\ opened' = opened \ {s} /\ sent' = sent \ {s} /\ disturbed' = disturbed \ {s}
  /\ sh' = [sh EXCEPT ![s] = Idle] /\ alone' = alone \ {s}
  /\ foundStopped' = [foundStopped EXCEPT ![s] = {}]
  /\ UNCHANGED <<vmVars, containerVars, menu, reboots>>

Reboot ==
  /\ reboots < MaxReboots
  /\ reboots' = reboots + 1
  /\ VmReboot /\ ContainerReboot
  /\ sh' = [s \in Shells |-> Idle] /\ alone' = {}
  /\ captures' = {} /\ excused' = FALSE
  /\ file' = [b \in Bridges |-> IF file[b] = {} THEN {} ELSE {"old"}]
  /\ opened' = {} /\ sent' = {} /\ disturbed' = {}
  /\ foundStopped' = [s \in Shells |-> {}]
  /\ UNCHANGED menu

Next ==
  \/ \E s \in Shells :
       \/ Begin(s) \/ Finish(s) \/ VmClusterStep(s) \/ ContainerClusterStep(s)
       \/ StartCapture(s) \/ LogIn(s) \/ LogInFails(s) \/ Communicate(s) \/ LogOut(s)
       \/ KillCaptures(s) \/ StopScript(s)
  \/ OpenCapture \/ Reboot

Spec == Init /\ [][Next]_vars

-----------------------------------------------------------------------------
(* Properties.                                                              *)

ContainersComplete == ContainersDeliver(foundStopped)

(* A session whose capture had begun, and that nothing got into - no other  *)
(* session of its kind, no other session's pkill, no capture left behind,   *)
(* no network taken away - leaves a file with all its traffic from then on, *)
(* and nothing else, however many sessions of the other kind run beside it. *)
CaptureIsWhole ==
  \A s \in opened \ disturbed :
    At(s, "out") => file[File(Bridge(sh[s].cmd))] = {s} \cap sent

(* A capture outlives its session only if its script was killed, or if the  *)
(* session was over before tcpdump ran; and the end of any session, of      *)
(* either kind, clears away what was left behind.                           *)
CapturesEndWithSessions ==
  (\E c \in captures : c.own = "nobody") => excused
=============================================================================
