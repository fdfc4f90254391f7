----------------------------- MODULE ClusterProofs -----------------------------
(***************************************************************************)
(* Sessions on clusters, proved for every number of shells, machines and   *)
(* containers, every order in which the scripts' steps interleave, and     *)
(* every step at which a script is stopped or the host reboots.            *)
(***************************************************************************)
EXTENDS ClusterSession, FiniteSetTheorems, TLAPS

(* What the assumptions say of the constants.                               *)
LEMMA ClusterConstants ==
  /\ MaxVms \in Nat /\ MaxNodes \in Nat
  /\ \A m \in Menus, s \in Shells : \A order \in m[s] :
       \/ order.cmd \in VmCommands \cup {"login"} /\ order.n \in 0 .. MaxVms
       \/ order.cmd \in ContainerCommands /\ order.n \in 0 .. MaxNodes
  /\ \A s \in Shells : s # "nobody" /\ s # "old" /\ s # "mixed"
<1>1. \A m \in Menus, s \in Shells :
        m[s] \in SUBSET ([cmd : VmCommands \cup {"login"}, n : 0 .. MaxVms]
                            \cup [cmd : ContainerCommands, n : 0 .. MaxNodes])
  BY MenusAssumption
<1>2. \A m \in Menus, s \in Shells : \A order \in m[s] :
        order \in [cmd : VmCommands \cup {"login"}, n : 0 .. MaxVms]
                    \cup [cmd : ContainerCommands, n : 0 .. MaxNodes]
  BY <1>1
<1> QED BY <1>2, SizesAssumption, MenusAssumption

-----------------------------------------------------------------------------
(* The shells: where each script can be, and the index of its loops.        *)

Places(cmd) ==
  CASE cmd = "none"             -> {"idle"}
    [] cmd \in {"create", "edit"} ->
         {"machine", "drop default", "drop isolated", "make default", "make isolated",
          "boot", "finished"}
    [] cmd = "destroy"          -> {"machine", "drop default", "drop isolated", "finished"}
    [] cmd = "update-image"     -> {"image", "finished"}
    [] cmd = "start"            -> {"run", "capture", "ready", "in", "out"}
    [] cmd = "stop"             -> {"look", "list to stop", "stop", "remove", "finished"}
    [] cmd = "restart"          -> {"look", "list to stop", "stop", "remove", "run",
                                    "capture", "ready", "in", "out"}
    [] cmd = "login"            -> {"capture", "ready", "in", "out"}

LoopPlaces == {"machine", "drop default", "drop isolated", "boot", "image", "run"}

AllPlaces == UNION {Places(cmd) : cmd \in Commands \cup {"none"}}

ShellType ==
  [cmd : Commands \cup {"none"}, n : Nat, at : AllPlaces, i : Nat, list : SUBSET Nat]

(* A shell is where its script can be, its loop has not passed its end, and *)
(* the number it was given is within the bounds.                            *)
WellPlaced(r) ==
  /\ r \in ShellType
  /\ r.at \in Places(r.cmd)
  /\ IF r.at \in LoopPlaces THEN r.i < r.n ELSE r.i = 0
  /\ r.at = "boot" /\ r.cmd = "edit" => r.i = 0
  /\ r.n <= IF r.cmd \in ContainerCommands THEN MaxNodes ELSE MaxVms

ShellInv == sh \in [Shells -> ShellType] /\ \A s \in Shells : WellPlaced(sh[s])

(* A shell that has its cluster to itself runs something, and no other one  *)
(* runs anything of its kind.                                               *)
AloneInv ==
  \A s \in alone : /\ s \in Shells /\ sh[s].cmd # "none"
                   /\ \A t \in Shells \ {s} : Kind(sh[t].cmd) # Kind(sh[s].cmd)

ScriptInv == ShellInv /\ AloneInv /\ menu \in Menus

(* A shell that does not do anything.                                       *)
LEMMA IdlePlaced == WellPlaced(Idle)
<1>1. "idle" \in AllPlaces
  BY DEF AllPlaces, Places
<1> QED BY <1>1, ClusterConstants
        DEF WellPlaced, Idle, ShellType, Places, LoopPlaces, ContainerCommands

(* What each step does to the shell that takes it and to its list: it stays *)
(* with its command, at a place of it.                                      *)
Moves(s) ==
  /\ sh' = [sh EXCEPT ![s] = sh'[s]]
  /\ WellPlaced(sh'[s])
  /\ sh'[s].cmd = sh[s].cmd

(* A place of the script, with the loop's index as it is.                   *)
CanBe(s, place) ==
  /\ place \in Places(sh[s].cmd)
  /\ IF place \in LoopPlaces THEN sh[s].i < sh[s].n ELSE sh[s].i = 0
  /\ place = "boot" /\ sh[s].cmd = "edit" => sh[s].i = 0

(* Goto changes the place and nothing else.                                 *)
LEMMA GotoMoves ==
  ASSUME ShellInv, NEW s \in Shells, NEW place, Goto(s, place), CanBe(s, place)
  PROVE  /\ Moves(s)
         /\ sh'[s].n = sh[s].n /\ sh'[s].at = place
         /\ sh'[s].i = sh[s].i /\ sh'[s].list = sh[s].list
<1>1. sh[s] \in ShellType /\ WellPlaced(sh[s])
  BY DEF ShellInv
<1>2. sh'[s] = [sh[s] EXCEPT !.at = place]
  BY DEF Goto, ShellInv
<1>3. sh' = [sh EXCEPT ![s] = sh'[s]]
  BY <1>2 DEF Goto, ShellInv
<1>4. /\ sh'[s].cmd = sh[s].cmd /\ sh'[s].n = sh[s].n /\ sh'[s].at = place
      /\ sh'[s].i = sh[s].i /\ sh'[s].list = sh[s].list
  BY <1>1, <1>2 DEF ShellType
<1>5. sh'[s] \in ShellType
  <2>1. sh[s].cmd \in Commands \cup {"none"}
    BY <1>1 DEF ShellType
  <2>2. place \in AllPlaces
    BY <2>1 DEF CanBe, AllPlaces
  <2> QED BY <1>1, <1>2, <2>2 DEF ShellType
<1> QED BY <1>1, <1>3, <1>4, <1>5 DEF Moves, WellPlaced, CanBe

(* Loop goes round, or on with the index back at 0.                         *)
LEMMA LoopMoves ==
  ASSUME ShellInv, NEW s \in Shells, NEW place, NEW after, Loop(s, place, after),
         sh[s].at \in LoopPlaces,
         place \in Places(sh[s].cmd) \cap LoopPlaces,
         after \in Places(sh[s].cmd) \ LoopPlaces,
         place = "boot" => sh[s].cmd # "edit"
  PROVE  /\ Moves(s)
         /\ sh'[s].n = sh[s].n /\ sh'[s].list = sh[s].list
         /\ IF sh[s].i + 1 < sh[s].n
              THEN sh'[s].at = place /\ sh'[s].i = sh[s].i + 1
              ELSE sh'[s].at = after /\ sh'[s].i = 0 /\ sh[s].i + 1 = sh[s].n
<1>1. sh[s] \in ShellType /\ WellPlaced(sh[s])
  BY DEF ShellInv
<1> DEFINE again == sh[s].i + 1 < sh[s].n
<1>2. sh'[s] = [sh[s] EXCEPT !.i  = IF again THEN sh[s].i + 1 ELSE 0,
                             !.at = IF again THEN place ELSE after]
  BY DEF Loop, ShellInv
<1>3. sh' = [sh EXCEPT ![s] = sh'[s]]
  BY <1>2 DEF Loop, ShellInv
<1>4. /\ sh'[s].cmd = sh[s].cmd /\ sh'[s].n = sh[s].n /\ sh'[s].list = sh[s].list
      /\ sh'[s].at = IF again THEN place ELSE after
      /\ sh'[s].i = IF again THEN sh[s].i + 1 ELSE 0
  BY <1>1, <1>2 DEF ShellType
<1>5. sh[s].i \in Nat /\ sh[s].n \in Nat /\ sh[s].i < sh[s].n
  BY <1>1 DEF WellPlaced, ShellType
<1>6. sh'[s] \in ShellType
  <2>1. sh[s].cmd \in Commands \cup {"none"}
    BY <1>1 DEF ShellType
  <2>2. place \in AllPlaces /\ after \in AllPlaces
    BY <2>1 DEF AllPlaces
  <2> DEFINE k == IF again THEN sh[s].i + 1 ELSE 0
             p == IF again THEN place ELSE after
  <2>3. k \in Nat /\ p \in AllPlaces
    BY <1>5, <2>2
  <2>4. sh'[s] = [sh[s] EXCEPT !.i = k, !.at = p]
    BY <1>2
  <2> HIDE DEF k, p
  <2> QED BY <1>1, <2>3, <2>4 DEF ShellType
<1>7. WellPlaced(sh'[s])
  <2>1. CASE again
    BY <1>1, <1>4, <1>5, <1>6, <2>1 DEF WellPlaced
  <2>2. CASE ~ again
    BY <1>1, <1>4, <1>5, <1>6, <2>2 DEF WellPlaced, LoopPlaces
  <2> QED BY <2>1, <2>2
<1> QED BY <1>3, <1>4, <1>5, <1>7 DEF Moves

(* The place a script has got to tells which script it is.                  *)
LEMMA ScriptAt ==
  ASSUME NEW r, WellPlaced(r)
  PROVE  /\ r.at \in {"machine", "drop default", "drop isolated"} =>
              r.cmd \in {"create", "edit", "destroy"}
         /\ r.at \in {"make default", "make isolated", "boot"} => r.cmd \in {"create", "edit"}
         /\ r.at = "image" => r.cmd = "update-image"
         /\ r.at = "run" => r.cmd \in {"start", "restart"}
         /\ r.at \in {"look", "list to stop", "stop", "remove"} => r.cmd \in {"stop", "restart"}
         /\ r.at \in {"capture", "ready", "in", "out"} => r.cmd \in {"start", "restart", "login"}
         /\ r.at = "finished" => r.cmd \in VmCommands \cup {"stop"}
         /\ r.at = "idle" <=> r.cmd = "none"
BY DEF WellPlaced, ShellType, Places, Commands, VmCommands, ContainerCommands

(* The kinds of the scripts differ.                                         *)
LEMMA Kinds ==
  /\ \A cmd \in VmCommands : Kind(cmd) = "vm"
  /\ \A cmd \in ContainerCommands : Kind(cmd) = "containers"
  /\ Kind("login") = "login" /\ Kind("none") = "none"
BY DEF Kind, VmCommands, ContainerCommands

(* What the steps of a script are built from.                               *)
LEMMA StepTypes ==
  ASSUME ShellInv, NEW s \in Shells
  PROVE  /\ sh[s] \in ShellType /\ WellPlaced(sh[s])
         /\ sh[s].i \in Nat /\ sh[s].n \in Nat /\ sh[s].list \in SUBSET Nat
BY DEF ShellInv, ShellType

(* A step of one script leaves the others where they are.                   *)
LEMMA MovesKeep ==
  ASSUME ScriptInv, NEW s \in Shells, Moves(s), alone' = alone, menu' = menu
  PROVE  ScriptInv'
<1>1. /\ sh' \in [Shells -> ShellType]
      /\ \A t \in Shells : t # s => sh'[t] = sh[t]
  BY DEF Moves, ScriptInv, ShellInv, WellPlaced
<1>2. \A t \in Shells : sh'[t].cmd = sh[t].cmd /\ WellPlaced(sh'[t])
  BY <1>1 DEF Moves, ScriptInv, ShellInv
<1> QED BY <1>1, <1>2 DEF ScriptInv, ShellInv, AloneInv

(* A shell that stops its script is idle, and has nothing to itself.        *)
LEMMA IdleKeeps ==
  ASSUME ScriptInv, NEW s \in Shells, sh' = [sh EXCEPT ![s] = Idle],
         alone' = alone \ {s}, menu' = menu
  PROVE  ScriptInv'
<1>1. /\ sh' \in [Shells -> ShellType]
      /\ \A t \in Shells : t # s => sh'[t] = sh[t]
      /\ sh'[s] = Idle
  BY IdlePlaced DEF ScriptInv, ShellInv, WellPlaced
<1>2. \A t \in Shells : WellPlaced(sh'[t])
  BY <1>1, IdlePlaced DEF ScriptInv, ShellInv
<1>3. AloneInv'
  <2>1. SUFFICES ASSUME NEW u \in alone', NEW t \in Shells \ {u}
                 PROVE  /\ u \in Shells /\ sh'[u].cmd # "none"
                        /\ Kind(sh'[t].cmd) # Kind(sh'[u].cmd)
    BY <1>1, <1>2 DEF AloneInv, ScriptInv
  <2>2. u \in alone /\ u \in Shells /\ u # s /\ sh'[u] = sh[u] /\ sh[u].cmd # "none"
    BY <1>1 DEF ScriptInv, AloneInv
  <2>3. CASE t = s
    <3>1. sh'[t].cmd = "none" /\ Kind("none") = "none"
      BY <1>1, <2>3, Kinds DEF Idle
    <3>2. Kind(sh[u].cmd) \in {"vm", "containers", "login"}
      <4>1. sh[u].cmd \in Commands
        BY <2>2 DEF ScriptInv, ShellInv, ShellType
      <4> QED BY <4>1, Kinds DEF Commands
    <3> QED BY <2>2, <3>1, <3>2
  <2>4. CASE t # s
    BY <1>1, <2>2, <2>4 DEF ScriptInv, AloneInv
  <2> QED BY <2>2, <2>3, <2>4
<1> QED BY <1>1, <1>2, <1>3 DEF ScriptInv, ShellInv

-----------------------------------------------------------------------------
(* Every step of vmcluster (vmcluster:14-19, 87-145) leads to a place of    *)
(* its command.                                                             *)
LEMMA VmMoves ==
  ASSUME ShellInv, NEW s \in Shells, VmStep(s)
  PROVE  Moves(s) /\ alone' = alone /\ sh'[s].n = sh[s].n
         /\ sh[s].cmd \in VmCommands
<1>0. /\ sh[s] \in ShellType /\ WellPlaced(sh[s])
      /\ sh[s].i \in Nat /\ sh[s].n \in Nat
  BY StepTypes
<1>1. CASE DestroyMachine(s)
  <2>1. sh[s].at = "machine" /\ sh[s].cmd \in {"create", "edit", "destroy"}
    BY <1>0, <1>1, ScriptAt DEF DestroyMachine, At
  <2>2. CanBe(s, "drop default")
    BY <1>0, <2>1 DEF CanBe, Places, LoopPlaces, WellPlaced
  <2> QED BY <1>1, <2>1, <2>2, GotoMoves DEF DestroyMachine, VmCommands
<1>2. CASE DropDefault(s)
  <2>1. sh[s].at = "drop default" /\ sh[s].cmd \in {"create", "edit", "destroy"}
    BY <1>0, <1>2, ScriptAt DEF DropDefault, At
  <2>2. CanBe(s, "drop isolated")
    BY <1>0, <2>1 DEF CanBe, Places, LoopPlaces, WellPlaced
  <2> QED BY <1>2, <2>1, <2>2, GotoMoves DEF DropDefault, VmCommands
<1>3. CASE DropIsolated(s)
  <2>1. sh[s].at = "drop isolated" /\ sh[s].cmd \in {"create", "edit", "destroy"}
    BY <1>0, <1>3, ScriptAt DEF DropIsolated, At
  <2> DEFINE after == IF sh[s].cmd = "destroy" THEN "finished" ELSE "make default"
  <2>2. Loop(s, "machine", after)
    BY <1>3 DEF DropIsolated
  <2>3. /\ "machine" \in Places(sh[s].cmd) \cap LoopPlaces
        /\ after \in Places(sh[s].cmd) \ LoopPlaces
        /\ sh[s].at \in LoopPlaces
    BY <2>1 DEF Places, LoopPlaces
  <2> HIDE DEF after
  <2> QED BY <1>3, <2>1, <2>2, <2>3, LoopMoves DEF DropIsolated, VmCommands
<1>4. CASE MakeDefault(s)
  <2>1. sh[s].at = "make default" /\ sh[s].cmd \in {"create", "edit"} /\ sh[s].i = 0
    BY <1>0, <1>4, ScriptAt DEF MakeDefault, At, WellPlaced, LoopPlaces
  <2>2. CanBe(s, "make isolated")
    BY <2>1 DEF CanBe, Places, LoopPlaces
  <2> QED BY <1>4, <2>1, <2>2, GotoMoves DEF MakeDefault, VmCommands
<1>5. CASE MakeIsolated(s)
  <2>1. sh[s].at = "make isolated" /\ sh[s].cmd \in {"create", "edit"} /\ sh[s].i = 0
    BY <1>0, <1>5, ScriptAt DEF MakeIsolated, At, WellPlaced, LoopPlaces
  <2>2. CASE sh[s].n = 0
    <3>1. Goto(s, LoopOver(sh[s].n, "boot", "finished"))
          /\ LoopOver(sh[s].n, "boot", "finished") = "finished"
      BY <1>5, <2>2 DEF MakeIsolated, LoopOver
    <3>2. CanBe(s, "finished")
      BY <2>1 DEF CanBe, Places, LoopPlaces
    <3> QED BY <1>5, <2>1, <3>1, <3>2, GotoMoves DEF MakeIsolated, VmCommands
  <2>3. CASE sh[s].n # 0
    <3>0. LoopOver(sh[s].n, "boot", "finished") = "boot" /\ 0 < sh[s].n
      <4>1. sh[s].n \in Nat
        BY <1>0
      <4> QED BY <2>3, <4>1 DEF LoopOver
    <3>1. Goto(s, LoopOver(sh[s].n, "boot", "finished")) /\ 0 < sh[s].n
          /\ LoopOver(sh[s].n, "boot", "finished") = "boot"
      BY <1>5, <3>0 DEF MakeIsolated
    <3>2. CanBe(s, "boot")
      BY <2>1, <3>0 DEF CanBe, Places, LoopPlaces
    <3> QED BY <1>5, <2>1, <3>1, <3>2, GotoMoves DEF MakeIsolated, VmCommands
  <2> QED BY <2>2, <2>3
<1>6. CASE BootMachine(s)
  <2>1. sh[s].at = "boot" /\ sh[s].cmd \in {"create", "edit"}
    BY <1>0, <1>6, ScriptAt DEF BootMachine, At
  <2>2. CASE sh[s].cmd = "edit"
    <3>1. Goto(s, "finished") /\ sh[s].i = 0
      BY <1>0, <1>6, <2>1, <2>2 DEF BootMachine, WellPlaced
    <3>2. CanBe(s, "finished")
      BY <2>1, <3>1 DEF CanBe, Places, LoopPlaces
    <3> QED BY <1>6, <2>1, <3>1, <3>2, GotoMoves DEF BootMachine, VmCommands
  <2>3. CASE sh[s].cmd # "edit"
    <3>1. Loop(s, "boot", "finished")
      BY <1>6, <2>3 DEF BootMachine
    <3>2. /\ "boot" \in Places(sh[s].cmd) \cap LoopPlaces
          /\ "finished" \in Places(sh[s].cmd) \ LoopPlaces
          /\ sh[s].at \in LoopPlaces
      BY <2>1 DEF Places, LoopPlaces
    <3> QED BY <1>6, <2>1, <2>3, <3>1, <3>2, LoopMoves DEF BootMachine, VmCommands
  <2> QED BY <2>2, <2>3
<1>7. CASE CopyImage(s)
  <2>1. sh[s].at = "image" /\ sh[s].cmd = "update-image"
    BY <1>0, <1>7, ScriptAt DEF CopyImage, At
  <2>2. /\ "image" \in Places(sh[s].cmd) \cap LoopPlaces
        /\ "finished" \in Places(sh[s].cmd) \ LoopPlaces
        /\ sh[s].at \in LoopPlaces
    BY <2>1 DEF Places, LoopPlaces
  <2> QED BY <1>7, <2>1, <2>2, LoopMoves DEF CopyImage, VmCommands
<1> QED BY <1>1, <1>2, <1>3, <1>4, <1>5, <1>6, <1>7 DEF VmStep

(* A shell with another list at another place is a shell.                   *)
LEMMA ListTyped ==
  ASSUME NEW r \in ShellType, NEW place \in AllPlaces, NEW l \in SUBSET Nat
  PROVE  [r EXCEPT !.at = place, !.list = l] \in ShellType
BY DEF ShellType

(* A step that also writes the list of containers.                          *)
Lists(s, place, l) == sh' = [sh EXCEPT ![s].at = place, ![s].list = l]

LEMMA ListMoves ==
  ASSUME ShellInv, NEW s \in Shells, NEW place, NEW l \in SUBSET Nat, CanBe(s, place),
         Lists(s, place, l)
  PROVE  /\ Moves(s)
         /\ sh'[s].n = sh[s].n /\ sh'[s].at = place
         /\ sh'[s].i = sh[s].i /\ sh'[s].list = l
<1>1. sh[s] \in ShellType /\ WellPlaced(sh[s])
  BY StepTypes
<1>2. sh'[s] = [sh[s] EXCEPT !.at = place, !.list = l]
  BY DEF ShellInv, Lists
<1>3. sh' = [sh EXCEPT ![s] = sh'[s]]
  BY <1>2 DEF ShellInv, Lists
<1>4. /\ sh'[s].cmd = sh[s].cmd /\ sh'[s].n = sh[s].n /\ sh'[s].at = place
      /\ sh'[s].i = sh[s].i /\ sh'[s].list = l
  BY <1>1, <1>2 DEF ShellType
<1>5. sh'[s] \in ShellType
  <2>1. sh[s].cmd \in Commands \cup {"none"}
    BY <1>1 DEF ShellType
  <2>2. place \in AllPlaces
    BY <2>1 DEF CanBe, AllPlaces
  <2>3. [sh[s] EXCEPT !.at = place, !.list = l] \in ShellType
    BY <1>1, <2>2, ListTyped
  <2> QED BY <1>2, <2>3
<1> QED BY <1>1, <1>3, <1>4, <1>5 DEF Moves, WellPlaced, CanBe

(* The list alone.                                                          *)
LEMMA ListShortens ==
  ASSUME ShellInv, NEW s \in Shells, NEW c, sh' = [sh EXCEPT ![s].list = @ \ {c}]
  PROVE  /\ Moves(s)
         /\ sh'[s].n = sh[s].n /\ sh'[s].at = sh[s].at
         /\ sh'[s].i = sh[s].i /\ sh'[s].list = sh[s].list \ {c}
<1>1. sh[s] \in ShellType /\ WellPlaced(sh[s])
  BY StepTypes
<1>2. sh'[s] = [sh[s] EXCEPT !.list = sh[s].list \ {c}]
  BY DEF ShellInv
<1>3. sh' = [sh EXCEPT ![s] = sh'[s]]
  BY <1>2 DEF ShellInv
<1>4. /\ sh'[s].cmd = sh[s].cmd /\ sh'[s].n = sh[s].n /\ sh'[s].at = sh[s].at
      /\ sh'[s].i = sh[s].i /\ sh'[s].list = sh[s].list \ {c}
  BY <1>1, <1>2 DEF ShellType
<1>5. sh'[s] \in ShellType
  BY <1>1, <1>2 DEF ShellType
<1> QED BY <1>1, <1>3, <1>4, <1>5 DEF Moves, WellPlaced

(* A restart goes on with a start, whose loop may have no rounds.           *)
LEMMA AfterStopPlaced ==
  ASSUME ShellInv, NEW s \in Shells, sh[s].cmd \in {"stop", "restart"}, sh[s].i = 0
  PROVE  /\ CanBe(s, AfterStop(s))
         /\ sh[s].cmd = "stop" => AfterStop(s) = "finished"
         /\ sh[s].cmd = "restart" =>
              AfterStop(s) = IF sh[s].n = 0 THEN "capture" ELSE "run"
<1>1. sh[s].n \in Nat
  BY StepTypes
<1>2. CASE sh[s].cmd = "stop"
  BY <1>2 DEF AfterStop, CanBe, Places, LoopPlaces
<1>3. CASE sh[s].cmd = "restart" /\ sh[s].n = 0
  <2>1. AfterStop(s) = "capture"
    BY <1>3 DEF AfterStop, LoopOver
  <2> QED BY <1>3, <2>1 DEF CanBe, Places, LoopPlaces
<1>4. CASE sh[s].cmd = "restart" /\ sh[s].n # 0
  <2>1. AfterStop(s) = "run" /\ 0 < sh[s].n
    BY <1>1, <1>4 DEF AfterStop, LoopOver
  <2> QED BY <1>4, <2>1 DEF CanBe, Places, LoopPlaces
<1> QED BY <1>2, <1>3, <1>4

(* Every step of the container scripts leads to a place of its script.      *)
LEMMA ContainerMoves ==
  ASSUME ShellInv, containers \in SUBSET Nat, NEW s \in Shells, ContainerStep(s)
  PROVE  Moves(s) /\ alone' = alone /\ sh'[s].n = sh[s].n
         /\ sh[s].cmd \in ContainerCommands
         /\ sh[s].at \notin {"ready", "in", "out"} /\ sh'[s].at \notin {"ready", "in", "out"}
<1>0. /\ sh[s] \in ShellType /\ WellPlaced(sh[s])
      /\ sh[s].i \in Nat /\ sh[s].n \in Nat
  BY StepTypes
<1>1. CASE RunContainer(s)
  <2>1. sh[s].at = "run" /\ sh[s].cmd \in {"start", "restart"}
    BY <1>0, <1>1, ScriptAt DEF RunContainer, At
  <2>2. /\ "run" \in Places(sh[s].cmd) \cap LoopPlaces
        /\ "capture" \in Places(sh[s].cmd) \ LoopPlaces
        /\ sh[s].at \in LoopPlaces
    BY <2>1 DEF Places, LoopPlaces
  <2> QED BY <1>1, <2>1, <2>2, LoopMoves DEF RunContainer, ContainerCommands
<1>2. ASSUME sh[s].at \in {"look", "list to stop", "stop", "remove"}
      PROVE  /\ sh[s].cmd \in {"stop", "restart"} /\ sh[s].i = 0
             /\ sh[s].cmd \in ContainerCommands
             /\ \A place \in {"list to stop", "stop", "remove"} : CanBe(s, place)
  <2>1. sh[s].cmd \in {"stop", "restart"} /\ sh[s].i = 0
    BY <1>0, <1>2, ScriptAt DEF WellPlaced, LoopPlaces
  <2> QED BY <2>1 DEF CanBe, Places, LoopPlaces, ContainerCommands
<1>3. CASE LookForContainers(s)
  <2>1. sh[s].at = "look"
    BY <1>3 DEF LookForContainers, At
  <2>2. CASE containers = {}
    <3>1. Goto(s, AfterStop(s))
      BY <1>3, <2>2 DEF LookForContainers
    <3> QED BY <1>2, <1>3, <2>1, <3>1, AfterStopPlaced, GotoMoves DEF LookForContainers
  <2>3. CASE containers # {}
    <3>1. Goto(s, "list to stop")
      BY <1>3, <2>3 DEF LookForContainers
    <3>2. CanBe(s, "list to stop")
      BY <1>2, <2>1
    <3>3. Moves(s) /\ sh'[s].n = sh[s].n /\ sh'[s].at = "list to stop"
      BY <3>1, <3>2, GotoMoves
    <3> QED BY <1>2, <1>3, <2>1, <3>3 DEF LookForContainers
  <2> QED BY <2>2, <2>3
<1>4. CASE ListToStop(s)
  BY <1>2, <1>4, ListMoves DEF ListToStop, Lists, At
<1>5. CASE ListToRemove(s)
  BY <1>2, <1>5, ListMoves DEF ListToRemove, ListedToRemove, Lists, At
<1>6. CASE StopContainer(s) \/ RemoveContainer(s)
  <2>1. sh[s].at \in {"stop", "remove"} /\ alone' = alone
    BY <1>6 DEF StopContainer, RemoveContainer, At
  <2>2. PICK c : sh' = [sh EXCEPT ![s].list = @ \ {c}]
    BY <1>6 DEF StopContainer, RemoveContainer
  <2>3. Moves(s) /\ sh'[s].at = sh[s].at /\ sh'[s].n = sh[s].n
    BY <2>2, ListShortens
  <2> QED BY <1>2, <2>1, <2>3
<1>7. CASE RemoveDone(s)
  <2>1. sh[s].at = "remove" /\ Goto(s, AfterStop(s))
    BY <1>7 DEF RemoveDone, At
  <2> QED BY <1>2, <1>7, <2>1, AfterStopPlaced, GotoMoves DEF RemoveDone
<1> QED BY <1>1, <1>3, <1>4, <1>5, <1>6, <1>7 DEF ContainerStep

(* The steps of a session around the login.                                 *)
LEMMA LoginMoves ==
  ASSUME ShellInv, NEW s \in Shells,
         StartCapture(s) \/ LogIn(s) \/ LogInFails(s) \/ LogOut(s)
  PROVE  /\ Moves(s) /\ alone' = alone /\ sh'[s].n = sh[s].n
         /\ sh[s].cmd \in {"start", "restart", "login"}
         /\ sh[s].at \in {"capture", "ready", "in"}
         /\ sh'[s].at \in {"ready", "in", "out"}
<1>1. sh[s] \in ShellType /\ WellPlaced(sh[s])
  BY StepTypes
<1>2. sh[s].at \in {"capture", "ready", "in"} /\ alone' = alone
  BY DEF StartCapture, LogIn, LogInFails, LogOut, At
<1>3. sh[s].cmd \in {"start", "restart", "login"} /\ sh[s].i = 0
  BY <1>1, <1>2, ScriptAt DEF WellPlaced, LoopPlaces
<1>4. \A place \in {"ready", "in", "out"} : CanBe(s, place)
  BY <1>3 DEF CanBe, Places, LoopPlaces
<1>5. PICK place \in {"ready", "in", "out"} : Goto(s, place)
  BY DEF StartCapture, LogIn, LogInFails, LogOut
<1> QED BY <1>2, <1>3, <1>4, <1>5, GotoMoves

-----------------------------------------------------------------------------
(* The shell that a new script begins with.                                 *)
Fresh(cmd, n, place) == [Idle EXCEPT !.cmd = cmd, !.n = n, !.at = place]

LEMMA FreshFields ==
  ASSUME NEW cmd, NEW n, NEW place
  PROVE  Fresh(cmd, n, place) = [cmd |-> cmd, n |-> n, at |-> place, i |-> 0, list |-> {}]
<1> DEFINE r == [cmd |-> "none", n |-> 0, at |-> "idle", i |-> 0, list |-> {}]
<1>1. Fresh(cmd, n, place) = [r EXCEPT !.cmd = cmd, !.n = n, !.at = place]
  BY DEF Fresh, Idle
<1>3. [r EXCEPT !.cmd = cmd, !.n = n, !.at = place]
        = [[[r EXCEPT !.cmd = cmd] EXCEPT !.n = n] EXCEPT !.at = place]
  OBVIOUS
<1>4. [r EXCEPT !.cmd = cmd] = [cmd |-> cmd, n |-> 0, at |-> "idle", i |-> 0, list |-> {}]
  OBVIOUS
<1> QED BY <1>1, <1>3, <1>4

LEMMA FreshTyped ==
  ASSUME NEW cmd \in Commands, NEW n \in Nat, NEW place \in AllPlaces
  PROVE  [cmd |-> cmd, n |-> n, at |-> place, i |-> 0, list |-> {}] \in ShellType
BY DEF ShellType

(* The place at which a script begins; a loop that has no rounds is left    *)
(* out.                                                                     *)
LEMMA FirstPlaced ==
  ASSUME NEW cmd \in Commands, NEW n \in Nat,
         n <= IF cmd \in ContainerCommands THEN MaxNodes ELSE MaxVms
  PROVE  WellPlaced(Fresh(cmd, n, First(cmd, n)))
<1> DEFINE first == First(cmd, n)
<1>1. /\ cmd \in {"create", "edit"} => first = IF n = 0 THEN "make default" ELSE "machine"
      /\ cmd = "destroy" => first = IF n = 0 THEN "finished" ELSE "machine"
      /\ cmd = "update-image" => first = IF n = 0 THEN "finished" ELSE "image"
  BY Kinds DEF First, VmFirst, LoopOver, VmCommands
<1>2. /\ cmd = "start" => first = IF n = 0 THEN "capture" ELSE "run"
      /\ cmd \in {"stop", "restart"} => first = "look"
      /\ cmd = "login" => first = "capture"
  BY Kinds DEF First, ContainerFirst, LoopOver, ContainerCommands
<1> HIDE DEF first
<1>3. cmd \in {"create", "edit", "destroy", "update-image", "start", "stop", "restart", "login"}
  BY DEF Commands, VmCommands, ContainerCommands
<1>4. /\ first \in Places(cmd)
      /\ IF first \in LoopPlaces THEN 0 < n ELSE TRUE
      /\ first # "boot"
  <2>1. n = 0 \/ 0 < n
    OBVIOUS
  <2>2. CASE cmd \in {"create", "edit"}
    BY <1>1, <2>1, <2>2 DEF Places, LoopPlaces
  <2>3. CASE cmd = "destroy"
    BY <1>1, <2>1, <2>3 DEF Places, LoopPlaces
  <2>4. CASE cmd = "update-image"
    BY <1>1, <2>1, <2>4 DEF Places, LoopPlaces
  <2>5. CASE cmd = "start"
    BY <1>2, <2>1, <2>5 DEF Places, LoopPlaces
  <2>6. CASE cmd \in {"stop", "restart"}
    BY <1>2, <2>6 DEF Places, LoopPlaces
  <2>7. CASE cmd = "login"
    BY <1>2, <2>7 DEF Places, LoopPlaces
  <2> QED BY <1>3, <2>2, <2>3, <2>4, <2>5, <2>6, <2>7
<1>5. first \in AllPlaces
  BY <1>4 DEF AllPlaces
<1> DEFINE r == [cmd |-> cmd, n |-> n, at |-> first, i |-> 0, list |-> {}]
<1>6. /\ r \in ShellType
      /\ r.cmd = cmd /\ r.n = n /\ r.at = first /\ r.i = 0
  BY <1>5, FreshTyped
<1>7. r = Fresh(cmd, n, first)
  BY FreshFields
<1> HIDE DEF r
<1>8. WellPlaced(r)
  BY <1>4, <1>6 DEF WellPlaced
<1> QED BY <1>7, <1>8 DEF first

(* What Begin does: an idle shell gets an order of its menu.                *)
LEMMA BeginFacts ==
  ASSUME ScriptInv, NEW s \in Shells, Begin(s)
  PROVE  /\ sh[s].at = "idle" /\ sh[s].cmd = "none"
         /\ sh' = [sh EXCEPT ![s] = sh'[s]] /\ WellPlaced(sh'[s])
         /\ sh'[s].cmd \in Commands /\ sh'[s].n \in Nat /\ sh'[s].list = {} /\ sh'[s].i = 0
         /\ sh'[s].at = First(sh'[s].cmd, sh'[s].n)
         /\ LET rivals == {t \in Shells \ {s} : Kind(sh[t].cmd) = Kind(sh'[s].cmd)}
            IN  alone' = IF rivals = {} THEN alone \cup {s} ELSE alone \ rivals
<1>1. sh[s].at = "idle" /\ sh[s].cmd = "none"
  BY ScriptAt, StepTypes DEF Begin, At, ScriptInv
<1>2. PICK order \in menu[s] :
        /\ sh' = [sh EXCEPT ![s] = [Idle EXCEPT !.cmd = order.cmd, !.n = order.n,
                                                !.at = First(order.cmd, order.n)]]
        /\ LET rivals == {t \in Shells \ {s} : Kind(sh[t].cmd) = Kind(order.cmd)}
           IN  alone' = IF rivals = {} THEN alone \cup {s} ELSE alone \ rivals
  BY DEF Begin
<1>3. /\ order.cmd \in Commands /\ order.n \in Nat
      /\ order.n <= IF order.cmd \in ContainerCommands THEN MaxNodes ELSE MaxVms
  <2>1. menu \in Menus
    BY DEF ScriptInv
  <2>2. \/ order.cmd \in VmCommands \cup {"login"} /\ order.n \in 0 .. MaxVms
        \/ order.cmd \in ContainerCommands /\ order.n \in 0 .. MaxNodes
    BY <2>1, ClusterConstants
  <2> QED BY <2>2, ClusterConstants DEF Commands, VmCommands, ContainerCommands
<1> DEFINE r == Fresh(order.cmd, order.n, First(order.cmd, order.n))
<1>4. WellPlaced(r)
  BY <1>3, FirstPlaced
<1>5. /\ r.cmd = order.cmd /\ r.n = order.n /\ r.at = First(order.cmd, order.n)
      /\ r.i = 0 /\ r.list = {}
  BY FreshFields
<1>6. sh' = [sh EXCEPT ![s] = r] /\ sh \in [Shells -> ShellType]
  BY <1>2 DEF Fresh, ScriptInv, ShellInv
<1> HIDE DEF r
<1>7. sh'[s] = r
  BY <1>6
<1>8. sh'[s].cmd = order.cmd /\ sh'[s].n = order.n
  BY <1>5, <1>7
<1>9. LET rivals == {t \in Shells \ {s} : Kind(sh[t].cmd) = Kind(sh'[s].cmd)}
      IN  alone' = IF rivals = {} THEN alone \cup {s} ELSE alone \ rivals
  BY <1>2, <1>8
<1>10. sh'[s].at = First(sh'[s].cmd, sh'[s].n)
  BY <1>5, <1>7, <1>8
<1> QED BY <1>1, <1>3, <1>4, <1>5, <1>6, <1>7, <1>8, <1>9, <1>10

LEMMA BeginKeeps ==
  ASSUME ScriptInv, NEW s \in Shells, Begin(s)
  PROVE  ScriptInv'
<1> DEFINE rivals == {t \in Shells \ {s} : Kind(sh[t].cmd) = Kind(sh'[s].cmd)}
<1>1. /\ sh[s].cmd = "none" /\ WellPlaced(sh'[s]) /\ sh'[s].cmd \in Commands
      /\ sh' = [sh EXCEPT ![s] = sh'[s]] /\ menu' = menu
      /\ alone' = IF rivals = {} THEN alone \cup {s} ELSE alone \ rivals
  BY BeginFacts DEF Begin
<1> HIDE DEF rivals
<1>2. /\ sh' \in [Shells -> ShellType]
      /\ \A t \in Shells : t # s => sh'[t] = sh[t]
  BY <1>1 DEF ScriptInv, ShellInv, WellPlaced
<1>3. \A t \in Shells : WellPlaced(sh'[t])
  BY <1>1, <1>2 DEF ScriptInv, ShellInv
<1>4. s \notin alone
  BY <1>1 DEF ScriptInv, AloneInv
<1>5. sh'[s].cmd # "none"
  BY <1>1 DEF Commands, VmCommands, ContainerCommands
<1>6. AloneInv'
  <2> SUFFICES ASSUME NEW u \in alone', NEW t \in Shells \ {u}
               PROVE  /\ u \in Shells /\ sh'[u].cmd # "none"
                      /\ Kind(sh'[t].cmd) # Kind(sh'[u].cmd)
    <3>1. \A u \in alone' : u \in Shells /\ sh'[u].cmd # "none"
      BY <1>1, <1>2, <1>5 DEF ScriptInv, AloneInv
    <3> QED BY <3>1 DEF AloneInv
  <2>1. u \in Shells /\ sh'[u].cmd # "none"
    BY <1>1, <1>2, <1>5 DEF ScriptInv, AloneInv
  <2>2. CASE u = s
    <3>1. rivals = {}
      BY <1>1, <1>4, <2>2
    <3> QED BY <1>2, <2>1, <2>2, <3>1 DEF rivals
  <2>3. CASE u # s /\ t = s
    <3>1. u \in alone /\ u \notin rivals
      BY <1>1, <2>3
    <3> QED BY <1>2, <2>1, <2>3, <3>1 DEF rivals
  <2>4. CASE u # s /\ t # s
    <3>1. u \in alone
      BY <1>1, <2>4
    <3> QED BY <1>2, <2>1, <2>4, <3>1 DEF ScriptInv, AloneInv
  <2> QED BY <2>2, <2>3, <2>4
<1> QED BY <1>1, <1>2, <1>3, <1>6 DEF ScriptInv, ShellInv

-----------------------------------------------------------------------------
(* What there is on the host: machines and networks, containers.            *)
VmType ==
  /\ active \in SUBSET Nets /\ linked \in [Nets -> SUBSET Vms]
  /\ running \in SUBSET Vms /\ images \in SUBSET Vms

ContainerType == containers \in SUBSET Nodes /\ up \in SUBSET containers

BaseInv == ScriptInv /\ VmType /\ ContainerType

(* The number of the machine, or of the container, at hand.                 *)
LEMMA IndexBound ==
  ASSUME ShellInv, NEW s \in Shells, sh[s].at \in LoopPlaces
  PROVE  /\ sh[s].cmd \in VmCommands => sh[s].i \in Vms
         /\ sh[s].cmd \in ContainerCommands => sh[s].i \in Nodes
<1>1. /\ WellPlaced(sh[s]) /\ sh[s].i \in Nat /\ sh[s].n \in Nat
  BY StepTypes
<1>2. sh[s].i < sh[s].n
  BY <1>1 DEF WellPlaced
<1>3. /\ sh[s].cmd \in VmCommands => sh[s].n <= MaxVms
      /\ sh[s].cmd \in ContainerCommands => sh[s].n <= MaxNodes
  BY <1>1 DEF WellPlaced, VmCommands, ContainerCommands
<1> QED BY <1>1, <1>2, <1>3, ClusterConstants DEF Vms, Nodes

LEMMA VmStepTyped ==
  ASSUME ShellInv, VmType, NEW s \in Shells, VmStep(s)
  PROVE  VmType'
<1>1. sh[s].at \in LoopPlaces => sh[s].i \in Vms
  BY VmMoves, IndexBound
<1>2. CASE DestroyMachine(s)
  BY <1>2 DEF DestroyMachine, VmType
<1>3. CASE DropDefault(s) \/ DropIsolated(s)
  BY <1>3 DEF DropDefault, DropIsolated, NetDestroyed, VmType
<1>4. CASE MakeDefault(s) \/ MakeIsolated(s)
  BY <1>4 DEF MakeDefault, MakeIsolated, VmType, Nets
<1>5. CASE BootMachine(s)
  <2>1. sh[s].i \in Vms
    BY <1>1, <1>5 DEF BootMachine, At, LoopPlaces
  <2> QED BY <1>5, <2>1 DEF BootMachine, VmType
<1>6. CASE CopyImage(s)
  <2>1. sh[s].i \in Vms
    BY <1>1, <1>6 DEF CopyImage, At, LoopPlaces
  <2> QED BY <1>6, <2>1 DEF CopyImage, VmType
<1> QED BY <1>2, <1>3, <1>4, <1>5, <1>6 DEF VmStep

LEMMA NodesNatural == ContainerType => containers \in SUBSET Nat
BY ClusterConstants DEF ContainerType, Nodes

LEMMA ContainerStepTyped ==
  ASSUME ShellInv, ContainerType, NEW s \in Shells, ContainerStep(s)
  PROVE  ContainerType'
<1>1. sh[s].at \in LoopPlaces => sh[s].i \in Nodes
  BY ContainerMoves, NodesNatural, IndexBound
<1>2. CASE RunContainer(s)
  <2>1. sh[s].i \in Nodes
    BY <1>1, <1>2 DEF RunContainer, At, LoopPlaces
  <2>2. containers' = containers \cup {sh[s].i} /\ up' \in SUBSET (up \cup {sh[s].i})
    BY <1>2 DEF RunContainer
  <2> QED BY <2>1, <2>2 DEF ContainerType
<1>3. CASE StopContainer(s)
  <2>1. containers' = containers /\ up' \in SUBSET up
    BY <1>3 DEF StopContainer
  <2> QED BY <2>1 DEF ContainerType
<1>4. CASE RemoveContainer(s)
  <2>1. PICK c \in sh[s].list :
          containers' = (IF c \in up THEN containers ELSE containers \ {c}) /\ up' = up
    BY <1>4 DEF RemoveContainer
  <2> QED BY <2>1 DEF ContainerType
<1>5. CASE LookForContainers(s) \/ ListToStop(s) \/ ListToRemove(s) \/ RemoveDone(s)
  <2>1. containers' = containers /\ up' = up
    BY <1>5 DEF LookForContainers, ListToStop, ListToRemove, RemoveDone
  <2> QED BY <2>1 DEF ContainerType
<1> QED BY <1>2, <1>3, <1>4, <1>5 DEF ContainerStep

LEMMA SameWorld == UNCHANGED <<active, linked, running, images>> => (VmType => VmType')
BY DEF VmType

LEMMA SameContainers == UNCHANGED <<containers, up>> => (ContainerType => ContainerType')
BY DEF ContainerType

(* The steps that neither change machines or containers nor move a script.  *)
LEMMA StillScripts ==
  ScriptInv /\ UNCHANGED <<sh, alone, menu>> => ScriptInv'
BY DEF ScriptInv, ShellInv, AloneInv

LEMMA BaseInitial == Init => BaseInv
<1> SUFFICES ASSUME Init PROVE BaseInv
  OBVIOUS
<1>1. \A s \in Shells : sh[s] = Idle
  BY DEF Init
<1>2. Idle \in ShellType
  BY IdlePlaced DEF WellPlaced
<1>3. sh \in [Shells -> ShellType]
  BY <1>2 DEF Init
<1>4. VmType /\ ContainerType
  BY DEF Init, VmInit, ContainerInit, VmType, ContainerType
<1> QED BY <1>1, <1>3, <1>4, IdlePlaced DEF Init, BaseInv, ScriptInv, ShellInv, AloneInv

LEMMA BaseStep == BaseInv /\ [Next]_vars => BaseInv'
<1> SUFFICES ASSUME BaseInv, [Next]_vars PROVE BaseInv'
  OBVIOUS
<1>0. ScriptInv /\ ShellInv /\ VmType /\ ContainerType
  BY DEF BaseInv, ScriptInv
<1>1. ASSUME NEW s \in Shells, Begin(s) PROVE BaseInv'
  BY <1>0, <1>1, BeginKeeps, SameWorld, SameContainers
     DEF Begin, BaseInv, vmVars, containerVars
<1>2. ASSUME NEW s \in Shells, Finish(s) PROVE BaseInv'
  BY <1>0, <1>2, IdleKeeps, SameWorld, SameContainers
     DEF Finish, BaseInv, vmVars, containerVars
<1>3. ASSUME NEW s \in Shells, VmClusterStep(s) PROVE BaseInv'
  <2>1. VmStep(s) /\ menu' = menu /\ UNCHANGED <<containers, up>>
    BY <1>3 DEF VmClusterStep, containerVars
  <2> QED BY <1>0, <2>1, VmMoves, MovesKeep, VmStepTyped, SameContainers DEF BaseInv
<1>4. ASSUME NEW s \in Shells, ContainerClusterStep(s) PROVE BaseInv'
  <2>1. ContainerStep(s) /\ menu' = menu /\ UNCHANGED <<active, linked, running, images>>
    BY <1>4 DEF ContainerClusterStep, vmVars
  <2> QED BY <1>0, <2>1, ContainerMoves, NodesNatural, MovesKeep, ContainerStepTyped,
             SameWorld DEF BaseInv
<1>5. ASSUME NEW s \in Shells, StartCapture(s) \/ LogIn(s) \/ LogInFails(s) \/ LogOut(s)
      PROVE  BaseInv'
  <2>1. menu' = menu /\ UNCHANGED <<active, linked, running, images, containers, up>>
    BY <1>5 DEF StartCapture, LogIn, LogInFails, LogOut, vmVars, containerVars
  <2> QED BY <1>0, <1>5, <2>1, LoginMoves, MovesKeep, SameWorld, SameContainers DEF BaseInv
<1>6. ASSUME NEW s \in Shells, KillCaptures(s) \/ StopScript(s) PROVE BaseInv'
  <2>1. /\ menu' = menu /\ UNCHANGED <<active, linked, running, images, containers, up>>
        /\ sh' = [sh EXCEPT ![s] = Idle] /\ alone' = alone \ {s}
    BY <1>6 DEF KillCaptures, StopScript, vmVars, containerVars
  <2> QED BY <1>0, <2>1, IdleKeeps, SameWorld, SameContainers DEF BaseInv
<1>7. ASSUME NEW s \in Shells, Communicate(s) PROVE BaseInv'
  BY <1>0, <1>7, StillScripts, SameWorld, SameContainers
     DEF Communicate, BaseInv, vmVars, containerVars
<1>8. CASE OpenCapture
  BY <1>0, <1>8, StillScripts, SameWorld, SameContainers
     DEF OpenCapture, BaseInv, vmVars, containerVars
<1>9. CASE Reboot
  <2>1. ScriptInv'
    <3>1. sh' = [s \in Shells |-> Idle] /\ alone' = {} /\ menu' = menu
      BY <1>9 DEF Reboot
    <3>2. Idle \in ShellType
      BY IdlePlaced DEF WellPlaced
    <3> QED BY <1>0, <3>1, <3>2, IdlePlaced DEF ScriptInv, ShellInv, AloneInv
  <2>2. VmType' /\ ContainerType'
    BY <1>0, <1>9 DEF Reboot, VmReboot, ContainerReboot, VmType, ContainerType
  <2> QED BY <2>1, <2>2 DEF BaseInv
<1>10. CASE UNCHANGED vars
  BY <1>0, <1>10, StillScripts, SameWorld, SameContainers
     DEF vars, BaseInv, vmVars, containerVars
<1> QED BY <1>1, <1>2, <1>3, <1>4, <1>5, <1>6, <1>7, <1>8, <1>9, <1>10 DEF Next

(* Every script is somewhere in its steps, its loop within its bound; a     *)
(* shell that is recorded as alone is; machines and containers are within   *)
(* their bounds, and what runs is there.                                    *)
THEOREM ClusterTypes == Spec => []BaseInv
<1> QED BY BaseInitial, BaseStep, PTL DEF Spec

-----------------------------------------------------------------------------
(* vmcluster.                                                               *)

Unlinked == \A net \in Nets : linked[net] = {}

(* What a command has achieved when it has the machines to itself.          *)
VmProgress(s) ==
  /\ At(s, "machine") => \A v \in running : sh[s].i <= v
  /\ At(s, "drop default") => \A v \in running : sh[s].i < v
  /\ At(s, "drop isolated") =>
       /\ \A v \in running : sh[s].i < v
       /\ "default" \notin active /\ linked["default"] = {}
  /\ At(s, "make default") =>
       active = {} /\ Unlinked /\ \A v \in running : sh[s].n <= v
  /\ At(s, "make isolated") =>
       active = {"default"} /\ Unlinked /\ \A v \in running : sh[s].n <= v
  /\ At(s, "boot") =>
       /\ active = Nets /\ \A v \in running : v < sh[s].i \/ sh[s].n <= v
       /\ {v \in Ordered(s) : v < sh[s].i} \subseteq running
       /\ \A net \in Nets : linked[net] = {v \in Ordered(s) : v < sh[s].i}
  /\ At(s, "finished") /\ sh[s].cmd \in {"create", "edit"} =>
       /\ active = Nets /\ Ordered(s) \subseteq running
       /\ \A net \in Nets : linked[net] = Ordered(s)
  /\ At(s, "finished") /\ sh[s].cmd = "destroy" =>
       active = {} /\ Unlinked /\ \A v \in running : sh[s].n <= v

VmInv ==
  \A s \in alone : sh[s].n > 0 /\ sh[s].cmd \in VmCommands => VmProgress(s)

(* One step of a command, vmcluster:14-19 and 87-145.                       *)
LEMMA VmStepProgress ==
  ASSUME BaseInv, NEW s \in Shells, VmStep(s), sh[s].n > 0, VmProgress(s)
  PROVE  VmProgress(s)'
<1>0. /\ sh[s] \in ShellType /\ WellPlaced(sh[s]) /\ sh[s].i \in Nat /\ sh[s].n \in Nat
      /\ sh[s].at \in LoopPlaces => sh[s].i < sh[s].n /\ sh[s].i \in Vms
      /\ ShellInv /\ VmType
      /\ sh[s].cmd \in VmCommands /\ sh'[s].cmd = sh[s].cmd /\ sh'[s].n = sh[s].n
  <2>1. ShellInv /\ VmType
    BY DEF BaseInv, ScriptInv
  <2> QED BY <2>1, StepTypes, IndexBound, VmMoves DEF WellPlaced, Moves
<1>1. running \in SUBSET Nat /\ active \in SUBSET Nets /\ linked \in [Nets -> SUBSET Vms]
  BY <1>0, ClusterConstants DEF VmType, Vms
<1>2. CASE DestroyMachine(s)
  <2>1. sh[s].at = "machine" /\ sh[s].cmd \in {"create", "edit", "destroy"}
    BY <1>0, <1>2, ScriptAt DEF DestroyMachine, At
  <2>2. CanBe(s, "drop default")
    BY <1>0, <2>1 DEF CanBe, Places, LoopPlaces
  <2>3. sh'[s].at = "drop default" /\ sh'[s].i = sh[s].i
    BY <1>0, <1>2, <2>2, GotoMoves DEF DestroyMachine
  <2>4. \A v \in running' : sh[s].i < v
    <3>1. \A v \in running : sh[s].i <= v
      BY <2>1 DEF VmProgress, At
    <3>2. running' = running \ {sh[s].i}
      BY <1>2 DEF DestroyMachine
    <3>3. sh[s].i \in Nat
      BY <1>0
    <3> QED BY <1>1, <3>1, <3>2, <3>3
  <2> QED BY <2>3, <2>4 DEF VmProgress, At
<1>3. CASE DropDefault(s)
  <2>1. sh[s].at = "drop default" /\ sh[s].cmd \in {"create", "edit", "destroy"}
    BY <1>0, <1>3, ScriptAt DEF DropDefault, At
  <2>2. CanBe(s, "drop isolated")
    BY <1>0, <2>1 DEF CanBe, Places, LoopPlaces
  <2>3. sh'[s].at = "drop isolated" /\ sh'[s].i = sh[s].i
    BY <1>0, <1>3, <2>2, GotoMoves DEF DropDefault
  <2>4. \A v \in running' : sh[s].i < v
    BY <1>3, <2>1 DEF DropDefault, VmProgress, At
  <2>5. "default" \notin active' /\ linked'["default"] = {}
    BY <1>1, <1>3 DEF DropDefault, NetDestroyed, Nets
  <2> QED BY <2>3, <2>4, <2>5 DEF VmProgress, At
<1>4. CASE DropIsolated(s)
  <2>1. sh[s].at = "drop isolated" /\ sh[s].cmd \in {"create", "edit", "destroy"}
    BY <1>0, <1>4, ScriptAt DEF DropIsolated, At
  <2> DEFINE after == IF sh[s].cmd = "destroy" THEN "finished" ELSE "make default"
  <2>2. Loop(s, "machine", after)
    BY <1>4 DEF DropIsolated
  <2>3. /\ "machine" \in Places(sh[s].cmd) \cap LoopPlaces
        /\ after \in Places(sh[s].cmd) \ LoopPlaces
        /\ sh[s].at \in LoopPlaces
    BY <2>1 DEF Places, LoopPlaces
  <2>4. IF sh[s].i + 1 < sh[s].n
          THEN sh'[s].at = "machine" /\ sh'[s].i = sh[s].i + 1
          ELSE sh'[s].at = after /\ sh'[s].i = 0 /\ sh[s].i + 1 = sh[s].n
    <3> HIDE DEF after
    <3> QED BY <1>0, <2>2, <2>3, LoopMoves
  <2>5. \A v \in running' : sh[s].i + 1 <= v
    <3>1. \A v \in running : sh[s].i < v
      BY <2>1 DEF VmProgress, At
    <3>2. running' = running /\ sh[s].i \in Nat /\ \A v \in running : v \in Nat
      BY <1>0, <1>1, <1>4 DEF DropIsolated
    <3>3. \A k, v \in Nat : k < v => k + 1 <= v
      OBVIOUS
    <3> QED BY <3>1, <3>2, <3>3
  <2>6. active' = {}
    BY <1>1, <1>4, <2>1 DEF DropIsolated, NetDestroyed, Nets, VmProgress, At
  <2>7. Unlinked'
    <3>1. linked["default"] = {}
      BY <2>1 DEF VmProgress, At
    <3>2. linked' = [linked EXCEPT !["isolated"] = {}]
      BY <1>4 DEF DropIsolated, NetDestroyed
    <3> QED BY <1>1, <3>1, <3>2 DEF Unlinked, Nets
  <2>8. CASE sh[s].i + 1 < sh[s].n
    BY <2>4, <2>5, <2>8 DEF VmProgress, At
  <2>9. CASE ~ (sh[s].i + 1 < sh[s].n) /\ sh[s].cmd = "destroy"
    BY <1>0, <2>4, <2>5, <2>6, <2>7, <2>9 DEF VmProgress, At
  <2>10. CASE ~ (sh[s].i + 1 < sh[s].n) /\ sh[s].cmd # "destroy"
    BY <1>0, <2>4, <2>5, <2>6, <2>7, <2>10 DEF VmProgress, At
  <2> QED BY <2>8, <2>9, <2>10
<1>5. CASE MakeDefault(s)
  <2>1. sh[s].at = "make default" /\ sh[s].cmd \in {"create", "edit"} /\ sh[s].i = 0
    BY <1>0, <1>5, ScriptAt DEF MakeDefault, At, WellPlaced, LoopPlaces
  <2>2. CanBe(s, "make isolated")
    BY <2>1 DEF CanBe, Places, LoopPlaces
  <2>3. sh'[s].at = "make isolated"
    BY <1>0, <1>5, <2>2, GotoMoves DEF MakeDefault
  <2>4. active' = {"default"} /\ Unlinked' /\ \A v \in running' : sh[s].n <= v
    BY <1>5, <2>1 DEF MakeDefault, VmProgress, At, Unlinked
  <2> QED BY <1>0, <2>3, <2>4 DEF VmProgress, At
<1>6. CASE MakeIsolated(s)
  <2>1. sh[s].at = "make isolated" /\ sh[s].cmd \in {"create", "edit"} /\ sh[s].i = 0
    BY <1>0, <1>6, ScriptAt DEF MakeIsolated, At, WellPlaced, LoopPlaces
  <2>2. CanBe(s, "boot")
    BY <2>1 DEF CanBe, Places, LoopPlaces
  <2>3. Goto(s, "boot")
    <3>1. LoopOver(sh[s].n, "boot", "finished") = "boot"
      BY <1>0 DEF LoopOver
    <3> QED BY <1>6, <3>1 DEF MakeIsolated
  <2>4. sh'[s].at = "boot" /\ sh'[s].i = 0
    BY <1>0, <2>1, <2>2, <2>3, GotoMoves
  <2>5. active' = Nets /\ Unlinked' /\ \A v \in running' : sh[s].n <= v
    BY <1>6, <2>1 DEF MakeIsolated, VmProgress, At, Unlinked, Nets
  <2>6. {v \in Ordered(s)' : v < 0} = {}
    <3>1. Ordered(s)' \in SUBSET Nat
      BY ClusterConstants DEF Ordered, Vms
    <3> QED BY <3>1
  <2> QED BY <1>0, <2>4, <2>5, <2>6 DEF VmProgress, At, Unlinked
<1>7. CASE BootMachine(s)
  <2>1. sh[s].at = "boot" /\ sh[s].cmd \in {"create", "edit"}
    BY <1>0, <1>7, ScriptAt DEF BootMachine, At
  <2>2. /\ active = Nets /\ \A v \in running : v < sh[s].i \/ sh[s].n <= v
        /\ {v \in Ordered(s) : v < sh[s].i} \subseteq running
        /\ \A net \in Nets : linked[net] = {v \in Ordered(s) : v < sh[s].i}
    BY <2>1 DEF VmProgress, At
  <2>3. Ordered(s)' = Ordered(s) /\ Ordered(s) \in SUBSET Nat
    BY <1>0, <1>7, ClusterConstants DEF BootMachine, Ordered, Vms
  <2>4. sh[s].i < sh[s].n /\ sh[s].i \in Vms
    BY <1>0, <2>1 DEF LoopPlaces
  <2>5. sh[s].i \notin running
    BY <1>0, <2>2, <2>4
  <2>6. Bootable(s) <=> sh[s].i \in Ordered(s)
    <3>1. sh[s].cmd = "edit" => sh[s].i = 0
      BY <1>0, <2>1 DEF WellPlaced
    <3> QED BY <2>1, <2>2, <2>4, <2>5, <3>1 DEF Bootable, Ordered
  <2>7. /\ active' = Nets
        /\ {v \in Ordered(s) : v < sh[s].i + 1} \subseteq running'
        /\ \A v \in running' : v < sh[s].i + 1 \/ sh[s].n <= v
        /\ \A net \in Nets : linked'[net] = {v \in Ordered(s) : v < sh[s].i + 1}
    <3>1. CASE Bootable(s)
      <4>1. /\ active' = active /\ running' = running \cup {sh[s].i}
            /\ linked' = [net \in Nets |-> linked[net] \cup {sh[s].i}]
        BY <1>7, <3>1 DEF BootMachine
      <4>2. {v \in Ordered(s) : v < sh[s].i + 1} = {v \in Ordered(s) : v < sh[s].i} \cup {sh[s].i}
        BY <1>0, <2>3, <2>6, <3>1
      <4>3. \A v \in running' : v < sh[s].i + 1 \/ sh[s].n <= v
        <5>1. sh[s].i \in Nat /\ \A v \in running : v \in Nat
          BY <1>0, <1>1
        <5>2. \A v \in running : v < sh[s].i \/ sh[s].n <= v
          BY <2>2
        <5>3. \A v \in running' : v \in running \/ v = sh[s].i
          BY <4>1
        <5>4. ASSUME NEW v \in running' PROVE v < sh[s].i + 1 \/ sh[s].n <= v
          BY <5>1, <5>2, <5>3
        <5> QED BY <5>4
      <4> QED BY <2>2, <4>1, <4>2, <4>3
    <3>2. CASE ~ Bootable(s)
      <4>1. active' = active /\ running' = running /\ linked' = linked
        BY <1>7, <3>2 DEF BootMachine
      <4>2. {v \in Ordered(s) : v < sh[s].i + 1} = {v \in Ordered(s) : v < sh[s].i}
        BY <1>0, <2>3, <2>6, <3>2
      <4>3. \A v \in running' : v < sh[s].i + 1 \/ sh[s].n <= v
        <5>1. sh[s].i \in Nat /\ \A v \in running : v \in Nat
          BY <1>0, <1>1
        <5>2. \A v \in running : v < sh[s].i \/ sh[s].n <= v
          BY <2>2
        <5>3. \A v \in running' : v \in running \/ v = sh[s].i
          BY <4>1
        <5>4. ASSUME NEW v \in running' PROVE v < sh[s].i + 1 \/ sh[s].n <= v
          BY <5>1, <5>2, <5>3
        <5> QED BY <5>4
      <4> QED BY <2>2, <4>1, <4>2, <4>3
    <3> QED BY <3>1, <3>2
  <2>8. sh[s].i + 1 = sh[s].n \/ sh[s].cmd = "edit"
          => {v \in Ordered(s) : v < sh[s].i + 1} = Ordered(s)
    <3>1. CASE sh[s].cmd = "edit"
      <4>1. sh[s].i = 0 /\ Ordered(s) = {0}
        BY <1>0, <2>1, <3>1 DEF WellPlaced, Ordered
      <4> QED BY <4>1
    <3>2. CASE sh[s].cmd # "edit" /\ sh[s].i + 1 = sh[s].n
      BY <3>2 DEF Ordered
    <3> QED BY <3>1, <3>2
  <2>9. CASE sh[s].cmd = "edit"
    <3>1. CanBe(s, "finished")
      BY <1>0, <2>1, <2>9 DEF CanBe, Places, LoopPlaces, WellPlaced
    <3>2. sh'[s].at = "finished"
      BY <1>0, <1>7, <2>9, <3>1, GotoMoves DEF BootMachine
    <3> QED BY <1>0, <2>1, <2>3, <2>7, <2>8, <2>9, <3>2 DEF VmProgress, At
  <2>10. CASE sh[s].cmd # "edit"
    <3>1. /\ Loop(s, "boot", "finished")
          /\ "boot" \in Places(sh[s].cmd) \cap LoopPlaces
          /\ "finished" \in Places(sh[s].cmd) \ LoopPlaces
          /\ sh[s].at \in LoopPlaces
      BY <1>7, <2>1, <2>10 DEF BootMachine, Places, LoopPlaces
    <3>2. IF sh[s].i + 1 < sh[s].n
            THEN sh'[s].at = "boot" /\ sh'[s].i = sh[s].i + 1
            ELSE sh'[s].at = "finished" /\ sh'[s].i = 0 /\ sh[s].i + 1 = sh[s].n
      BY <1>0, <2>10, <3>1, LoopMoves
    <3>3. CASE sh[s].i + 1 < sh[s].n
      BY <1>0, <2>3, <2>7, <3>2, <3>3 DEF VmProgress, At
    <3>4. CASE ~ (sh[s].i + 1 < sh[s].n)
      BY <1>0, <2>1, <2>3, <2>7, <2>8, <3>2, <3>4 DEF VmProgress, At
    <3> QED BY <3>3, <3>4
  <2> QED BY <2>9, <2>10
<1>8. CASE CopyImage(s)
  <2>1. sh[s].at = "image" /\ sh[s].cmd = "update-image"
    BY <1>0, <1>8, ScriptAt DEF CopyImage, At
  <2>2. sh'[s].at \in {"image", "finished"}
    <3>1. /\ "image" \in Places(sh[s].cmd) \cap LoopPlaces
          /\ "finished" \in Places(sh[s].cmd) \ LoopPlaces
          /\ sh[s].at \in LoopPlaces
      BY <2>1 DEF Places, LoopPlaces
    <3> QED BY <1>0, <1>8, <2>1, <3>1, LoopMoves DEF CopyImage
  <2> QED BY <1>0, <2>1, <2>2 DEF VmProgress, At
<1> QED BY <1>2, <1>3, <1>4, <1>5, <1>6, <1>7, <1>8 DEF VmStep

(* A command that has the machines to itself is not disturbed by the steps  *)
(* of other scripts.                                                        *)
LEMMA VmUntouched ==
  ASSUME NEW s \in Shells, VmProgress(s), UNCHANGED <<active, linked, running, images>>,
         sh'[s] = sh[s]
  PROVE  VmProgress(s)'
BY DEF VmProgress, Ordered, Unlinked, At

(* Scripts of one kind do not run beside one that is alone.                 *)
LEMMA OnlyOneAlone ==
  ASSUME AloneInv, NEW u \in alone, NEW s \in Shells, Kind(sh[s].cmd) = Kind(sh[u].cmd)
  PROVE  u = s
BY DEF AloneInv

LEMMA VmBegins ==
  ASSUME NEW s \in Shells, NEW n \in Nat \ {0}, NEW cmd \in VmCommands,
         sh'[s].at = First(cmd, n), sh'[s].i = 0,
         \A v \in running' : 0 <= v
  PROVE  VmProgress(s)'
<1>1. sh'[s].at \in {"machine", "image"}
  BY Kinds DEF First, VmFirst, LoopOver, VmCommands
<1> QED BY <1>1 DEF VmProgress, At

LEMMA VmInvStep == BaseInv /\ BaseInv' /\ VmInv /\ [Next]_vars => VmInv'
<1> SUFFICES ASSUME BaseInv, BaseInv', VmInv, [Next]_vars,
                    NEW u \in alone', (sh[u].n > 0 /\ sh[u].cmd \in VmCommands)'
             PROVE  VmProgress(u)'
  BY DEF VmInv
<1>0. /\ ScriptInv /\ ShellInv /\ AloneInv /\ VmType /\ ContainerType
      /\ ScriptInv' /\ ShellInv' /\ VmType' /\ u \in Shells
      /\ (running \in SUBSET Nat)'
  BY ClusterConstants DEF BaseInv, ScriptInv, AloneInv, VmType, Vms
<1>1. ASSUME u \in alone, UNCHANGED <<active, linked, running, images>>, sh'[u] = sh[u]
      PROVE  VmProgress(u)'
  <2>1. VmProgress(u)
    BY <1>1 DEF VmInv
  <2> QED BY <1>0, <1>1, <2>1, VmUntouched
<1>2. ASSUME NEW s \in Shells, Begin(s) PROVE VmProgress(u)'
  <2>1. /\ sh' = [sh EXCEPT ![s] = sh'[s]] /\ UNCHANGED <<active, linked, running, images>>
        /\ alone' \subseteq alone \cup {s}
        /\ sh'[s].i = 0 /\ sh'[s].at = First(sh'[s].cmd, sh'[s].n)
    BY <1>0, <1>2, BeginFacts DEF Begin, vmVars
  <2>2. CASE u = s
    <3>1. sh'[s].n \in Nat \ {0} /\ sh'[s].cmd \in VmCommands
      <4>1. sh'[s].n \in Nat
        BY <1>0, <1>2, BeginFacts
      <4> QED BY <2>2, <4>1
    <3>2. \A v \in running' : 0 <= v
      BY <1>0
    <3> QED BY <2>1, <2>2, <3>1, <3>2, VmBegins
  <2>3. CASE u # s
    <3>1. u \in alone /\ sh'[u] = sh[u]
      BY <1>0, <2>1, <2>3 DEF ShellInv
    <3> QED BY <1>1, <2>1, <3>1
  <2> QED BY <2>2, <2>3
<1>3. ASSUME NEW s \in Shells, Finish(s) \/ KillCaptures(s) \/ StopScript(s)
      PROVE  VmProgress(u)'
  <2>1. /\ sh' = [sh EXCEPT ![s] = Idle] /\ alone' = alone \ {s}
        /\ UNCHANGED <<active, linked, running, images>>
    BY <1>3 DEF Finish, KillCaptures, StopScript, vmVars
  <2>2. u \in alone /\ sh'[u] = sh[u]
    BY <1>0, <2>1 DEF ShellInv
  <2> QED BY <1>1, <2>1, <2>2
<1>4. ASSUME NEW s \in Shells, VmClusterStep(s) PROVE VmProgress(u)'
  <2>1. VmStep(s)
    BY <1>4 DEF VmClusterStep
  <2>2. /\ Moves(s) /\ alone' = alone /\ sh'[s].n = sh[s].n /\ sh[s].cmd \in VmCommands
    BY <1>0, <2>1, VmMoves
  <2>3. sh'[u].cmd = sh[u].cmd
    BY <1>0, <2>2 DEF Moves, ShellInv
  <2>4. u = s
    BY <1>0, <2>2, <2>3, Kinds, OnlyOneAlone
  <2>5. VmProgress(s)
    BY <2>2, <2>3, <2>4 DEF VmInv
  <2>6. sh[s].n > 0
    BY <2>2, <2>4
  <2> QED BY <2>1, <2>4, <2>5, <2>6, VmStepProgress
<1>5. ASSUME NEW s \in Shells, Moves(s), sh[s].cmd \notin VmCommands, alone' = alone,
             UNCHANGED <<active, linked, running, images>>
      PROVE  VmProgress(u)'
  <2>1. u # s
    BY <1>5 DEF Moves
  <2>2. sh'[u] = sh[u]
    BY <1>0, <1>5, <2>1 DEF Moves, ShellInv
  <2> QED BY <1>1, <1>5, <2>2
<1>6. ASSUME NEW s \in Shells, ContainerClusterStep(s) PROVE VmProgress(u)'
  <2>1. /\ ContainerStep(s) /\ UNCHANGED <<active, linked, running, images>>
        /\ sh[s].cmd \in ContainerCommands => sh[s].cmd \notin VmCommands
    BY <1>6 DEF ContainerClusterStep, vmVars, ContainerCommands, VmCommands
  <2> QED BY <1>0, <1>5, <2>1, ContainerMoves, NodesNatural
<1>7. ASSUME NEW s \in Shells, StartCapture(s) \/ LogIn(s) \/ LogInFails(s) \/ LogOut(s)
      PROVE  VmProgress(u)'
  <2>1. UNCHANGED <<active, linked, running, images>>
    BY <1>7 DEF StartCapture, LogIn, LogInFails, LogOut, vmVars
  <2>2. Moves(s) /\ alone' = alone /\ sh[s].cmd \in {"start", "restart", "login"}
    BY <1>0, <1>7, LoginMoves
  <2> QED BY <1>5, <2>1, <2>2 DEF VmCommands
<1>8. CASE (\E s \in Shells : Communicate(s)) \/ OpenCapture \/ UNCHANGED vars
  BY <1>1, <1>8 DEF Communicate, OpenCapture, vars, vmVars
<1>9. CASE Reboot
  BY <1>9 DEF Reboot
<1> QED BY <1>2, <1>3, <1>4, <1>6, <1>7, <1>8, <1>9 DEF Next

(* A create that had the machines to itself leaves exactly the machines it  *)
(* was asked for on the networks, and a destroy leaves none there, for any  *)
(* number of machines and whatever earlier commands left (vmcluster:87-134).*)
THEOREM VmCommandsAlwaysDeliver == Spec => []VmCommandsDeliver
<1>1. Init => VmInv
  BY DEF Init, VmInv
<1>2. BaseInv /\ VmInv => VmCommandsDeliver
  <2> SUFFICES ASSUME BaseInv, VmInv, NEW s \in Shells,
                      At(s, "finished"), s \in alone, sh[s].n > 0
               PROVE  /\ sh[s].cmd \in {"create", "edit"} =>
                           /\ active = Nets
                           /\ Ordered(s) \subseteq running
                           /\ \A net \in Nets : linked[net] = Ordered(s)
                      /\ sh[s].cmd = "destroy" =>
                           /\ active = {} /\ running \cap 0 .. sh[s].n - 1 = {}
                           /\ \A net \in Nets : linked[net] = {}
    BY DEF VmCommandsDeliver
  <2>1. sh[s].cmd \in VmCommands => VmProgress(s)
    BY DEF VmInv
  <2>2. sh[s].n \in Nat /\ running \in SUBSET Nat
    BY StepTypes, ClusterConstants DEF BaseInv, ScriptInv, VmType, Vms
  <2>3. CASE sh[s].cmd \in {"create", "edit"}
    BY <2>1, <2>3 DEF VmProgress, VmCommands
  <2>4. CASE sh[s].cmd = "destroy"
    <3>1. active = {} /\ Unlinked /\ \A v \in running : sh[s].n <= v
      BY <2>1, <2>4 DEF VmProgress, VmCommands
    <3>2. running \cap 0 .. sh[s].n - 1 = {}
      BY <2>2, <3>1
    <3> QED BY <2>4, <3>1, <3>2 DEF Unlinked
  <2> QED BY <2>3, <2>4
<1> QED BY <1>1, <1>2, ClusterTypes, VmInvStep, PTL DEF Spec

-----------------------------------------------------------------------------
(* The container scripts.                                                   *)

FirstNodes(k) == {c \in Nodes : c < k}

(* What a script has achieved when it has the containers to itself.  At the *)
(* second listing nothing runs any more, so all that is listed can go.      *)
ContainerProgress(s) ==
  /\ At(s, "stop") => up \subseteq sh[s].list
  /\ At(s, "remove") => up = {} /\ containers \subseteq sh[s].list
  /\ At(s, "finished") => containers = {}
  /\ At(s, "run") /\ sh[s].cmd = "restart" =>
       containers = FirstNodes(sh[s].i) /\ up = FirstNodes(sh[s].i)
  /\ At(s, "capture") /\ sh[s].cmd = "restart" =>
       containers = FirstNodes(sh[s].n) /\ up = FirstNodes(sh[s].n)
  /\ At(s, "run") /\ sh[s].cmd = "start" =>
       FirstNodes(sh[s].i) \subseteq containers /\ containers \ up = foundStopped[s]
  /\ At(s, "capture") /\ sh[s].cmd = "start" =>
       FirstNodes(sh[s].n) \subseteq containers /\ containers \ up = foundStopped[s]

ContainerInv ==
  /\ foundStopped \in [Shells -> SUBSET Nodes]
  /\ \A s \in alone : sh[s].cmd \in ContainerCommands => ContainerProgress(s)

LEMMA FirstNodesGrow ==
  ASSUME NEW i \in Nodes
  PROVE  FirstNodes(i + 1) = FirstNodes(i) \cup {i}
BY ClusterConstants DEF FirstNodes, Nodes

LEMMA NoFirstNodes == FirstNodes(0) = {}
BY ClusterConstants DEF FirstNodes, Nodes

(* One step of a script, start-slaves.sh:38-41, stop-vcluster.sh:30-38,     *)
(* restart-vcluster.sh:37-42.                                               *)
LEMMA ContainerStepProgress ==
  ASSUME BaseInv, NEW s \in Shells, ContainerStep(s), ContainerProgress(s),
         foundStopped' = foundStopped
  PROVE  ContainerProgress(s)'
<1>0. /\ sh[s] \in ShellType /\ WellPlaced(sh[s]) /\ sh[s].i \in Nat /\ sh[s].n \in Nat
      /\ ShellInv /\ ContainerType /\ containers \in SUBSET Nat
      /\ sh[s].cmd \in ContainerCommands /\ sh'[s].cmd = sh[s].cmd /\ sh'[s].n = sh[s].n
      /\ Moves(s)
  <2>1. ShellInv /\ ContainerType
    BY DEF BaseInv, ScriptInv
  <2> QED BY <2>1, NodesNatural, StepTypes, ContainerMoves DEF WellPlaced, Moves
<1>1. up \subseteq containers
  BY <1>0 DEF ContainerType
<1>2. CASE RunContainer(s)
  <2>1. sh[s].at = "run" /\ sh[s].cmd \in {"start", "restart"}
    BY <1>0, <1>2, ScriptAt DEF RunContainer, At
  <2>2. sh[s].i \in Nodes
    BY <1>0, <2>1, IndexBound DEF LoopPlaces, ContainerCommands
  <2>3. IF sh[s].i + 1 < sh[s].n
          THEN sh'[s].at = "run" /\ sh'[s].i = sh[s].i + 1
          ELSE sh'[s].at = "capture" /\ sh'[s].i = 0 /\ sh[s].i + 1 = sh[s].n
    <3>1. /\ "run" \in Places(sh[s].cmd) \cap LoopPlaces
          /\ "capture" \in Places(sh[s].cmd) \ LoopPlaces
          /\ sh[s].at \in LoopPlaces
      BY <2>1 DEF Places, LoopPlaces
    <3> QED BY <1>0, <1>2, <2>1, <3>1, LoopMoves DEF RunContainer
  <2>4. /\ containers' = containers \cup {sh[s].i}
        /\ up' = IF sh[s].i \in containers THEN up ELSE up \cup {sh[s].i}
    BY <1>2 DEF RunContainer
  <2>5. FirstNodes(sh[s].i + 1) = FirstNodes(sh[s].i) \cup {sh[s].i}
        /\ sh[s].i \notin FirstNodes(sh[s].i)
    BY <1>0, <2>2, FirstNodesGrow DEF FirstNodes
  <2>6. sh[s].cmd = "restart" =>
          containers' = FirstNodes(sh[s].i + 1) /\ up' = FirstNodes(sh[s].i + 1)
    BY <2>1, <2>4, <2>5 DEF ContainerProgress, At
  <2>7. sh[s].cmd = "start" =>
          FirstNodes(sh[s].i + 1) \subseteq containers' /\ containers' \ up' = foundStopped'[s]
    BY <1>1, <2>1, <2>4, <2>5 DEF ContainerProgress, At
  <2>8. CASE sh[s].i + 1 < sh[s].n
    BY <1>0, <2>3, <2>6, <2>7, <2>8 DEF ContainerProgress, At
  <2>9. CASE ~ (sh[s].i + 1 < sh[s].n)
    BY <1>0, <2>3, <2>6, <2>7, <2>9 DEF ContainerProgress, At
  <2> QED BY <2>8, <2>9
<1>3. ASSUME sh[s].at \in {"look", "list to stop", "stop", "remove"}
      PROVE  /\ sh[s].cmd \in {"stop", "restart"} /\ sh[s].i = 0
             /\ \A place \in {"list to stop", "stop", "remove"} : CanBe(s, place)
  <2>1. sh[s].cmd \in {"stop", "restart"} /\ sh[s].i = 0
    BY <1>0, <1>3, ScriptAt DEF WellPlaced, LoopPlaces
  <2> QED BY <2>1 DEF CanBe, Places, LoopPlaces
<1>4. ASSUME sh[s].at \in {"look", "remove"}, Goto(s, AfterStop(s)),
             containers' = {}, up' = {}
      PROVE  ContainerProgress(s)'
  <2>1. sh[s].cmd \in {"stop", "restart"} /\ sh[s].i = 0
    BY <1>3, <1>4
  <2>2. sh'[s].at = AfterStop(s) /\ sh'[s].i = 0
    BY <1>0, <1>4, <2>1, AfterStopPlaced, GotoMoves
  <2>3. CASE sh[s].cmd = "stop"
    <3>1. sh'[s].at = "finished"
      BY <1>0, <2>1, <2>2, <2>3, AfterStopPlaced
    <3> QED BY <1>4, <3>1 DEF ContainerProgress, At
  <2>4. CASE sh[s].cmd = "restart"
    <3>1. sh'[s].at = IF sh[s].n = 0 THEN "capture" ELSE "run"
      BY <1>0, <2>1, <2>2, <2>4, AfterStopPlaced
    <3> QED BY <1>0, <1>4, <2>2, <2>4, <3>1, NoFirstNodes DEF ContainerProgress, At
  <2> QED BY <2>1, <2>3, <2>4
<1>5. CASE LookForContainers(s)
  <2>1. sh[s].at = "look" /\ containers' = containers /\ up' = up
    BY <1>5 DEF LookForContainers, At
  <2>2. CASE containers = {}
    <3>1. Goto(s, AfterStop(s)) /\ containers' = {} /\ up' = {}
      BY <1>1, <1>5, <2>1, <2>2 DEF LookForContainers
    <3> QED BY <1>4, <2>1, <3>1
  <2>3. CASE containers # {}
    <3>1. Goto(s, "list to stop")
      BY <1>5, <2>3 DEF LookForContainers
    <3>2. sh'[s].at = "list to stop"
      BY <1>0, <1>3, <2>1, <3>1, GotoMoves
    <3> QED BY <3>2 DEF ContainerProgress, At
  <2> QED BY <2>2, <2>3
<1>6. CASE ListToStop(s)
  <2>0. sh[s].at = "list to stop" /\ up' = up /\ Lists(s, "stop", containers)
    BY <1>6 DEF ListToStop, Lists, At
  <2>1. sh'[s].at = "stop" /\ sh'[s].list = containers /\ up' = up
    BY <1>0, <1>3, <2>0, ListMoves
  <2> QED BY <1>1, <2>1 DEF ContainerProgress, At
<1>7. CASE StopContainer(s)
  <2>1. sh[s].at = "stop"
    BY <1>7 DEF StopContainer, At
  <2>2. PICK c : up' = up \ {c} /\ sh' = [sh EXCEPT ![s].list = @ \ {c}]
    BY <1>7 DEF StopContainer
  <2>3. sh'[s].at = "stop" /\ sh'[s].list = sh[s].list \ {c}
    BY <1>0, <2>1, <2>2, ListShortens
  <2> QED BY <2>1, <2>2, <2>3 DEF ContainerProgress, At
<1>8. CASE ListToRemove(s)
  <2>1. sh[s].at = "stop" /\ sh[s].list = {} /\ up' = up /\ containers' = containers
    BY <1>8 DEF ListToRemove, At
  <2>2. sh'[s].at = "remove" /\ sh'[s].list = containers
    <3>1. Lists(s, "remove", containers)
      BY <1>8 DEF ListToRemove, ListedToRemove, Lists
    <3> QED BY <1>0, <1>3, <2>1, <3>1, ListMoves
  <2> QED BY <2>1, <2>2 DEF ContainerProgress, At
<1>9. CASE RemoveContainer(s)
  <2>1. sh[s].at = "remove"
    BY <1>9 DEF RemoveContainer, At
  <2>2. PICK c : /\ containers' = IF c \in up THEN containers ELSE containers \ {c}
                 /\ sh' = [sh EXCEPT ![s].list = @ \ {c}] /\ up' = up
    BY <1>9 DEF RemoveContainer
  <2>3. sh'[s].at = "remove" /\ sh'[s].list = sh[s].list \ {c}
    BY <1>0, <2>1, <2>2, ListShortens
  <2> QED BY <2>1, <2>2, <2>3 DEF ContainerProgress, At
<1>10. CASE RemoveDone(s)
  <2>1. sh[s].at = "remove" /\ sh[s].list = {} /\ Goto(s, AfterStop(s))
        /\ containers' = containers /\ up' = up
    BY <1>10 DEF RemoveDone, At
  <2>2. containers = {} /\ up = {}
    BY <2>1 DEF ContainerProgress, At
  <2> QED BY <1>4, <2>1, <2>2
<1> QED BY <1>2, <1>5, <1>6, <1>7, <1>8, <1>9, <1>10 DEF ContainerStep

LEMMA ContainersUntouched ==
  ASSUME NEW s \in Shells, ContainerProgress(s), UNCHANGED <<containers, up>>,
         sh'[s] = sh[s], foundStopped'[s] = foundStopped[s]
  PROVE  ContainerProgress(s)'
BY DEF ContainerProgress, At

LEMMA ContainersBegin ==
  ASSUME NEW s \in Shells, NEW n \in Nat, NEW cmd \in ContainerCommands,
         sh'[s].at = First(cmd, n), sh'[s].i = 0, sh'[s].n = n, sh'[s].cmd = cmd,
         foundStopped'[s] = containers' \ up'
  PROVE  ContainerProgress(s)'
<1>1. cmd \in {"stop", "restart"} => sh'[s].at = "look"
  BY Kinds DEF First, ContainerFirst, ContainerCommands
<1>2. cmd = "start" => sh'[s].at = IF n = 0 THEN "capture" ELSE "run"
  BY Kinds DEF First, ContainerFirst, LoopOver, ContainerCommands
<1>3. CASE cmd \in {"stop", "restart"}
  BY <1>1, <1>3 DEF ContainerProgress, At
<1>4. CASE cmd = "start"
  BY <1>2, <1>4, NoFirstNodes DEF ContainerProgress, At
<1> QED BY <1>3, <1>4 DEF ContainerCommands

(* After a step of a login: a capture script is beyond the capture.         *)
LEMMA SessionProgress ==
  ASSUME NEW s \in Shells, sh'[s].at \in {"ready", "in", "out"}
  PROVE  ContainerProgress(s)'
BY DEF ContainerProgress, At

LEMMA FoundStep ==
  ASSUME BaseInv, ContainerInv, [Next]_vars
  PROVE  foundStopped' \in [Shells -> SUBSET Nodes]
<1>1. foundStopped \in [Shells -> SUBSET Nodes] /\ containers \ up \in SUBSET Nodes
  BY DEF ContainerInv, BaseInv, ContainerType
<1>2. \/ foundStopped' = foundStopped
      \/ \E s \in Shells : foundStopped' = [foundStopped EXCEPT ![s] = containers \ up]
      \/ \E s \in Shells : foundStopped' = [foundStopped EXCEPT ![s] = {}]
      \/ foundStopped' = [s \in Shells |-> {}]
  BY DEF Next, vars, Begin, Finish, VmClusterStep, ContainerClusterStep, StartCapture,
         OpenCapture, LogIn, LogInFails, Communicate, LogOut, KillCaptures, StopScript, Reboot
<1> QED BY <1>1, <1>2

LEMMA ContainerInvStep == BaseInv /\ BaseInv' /\ ContainerInv /\ [Next]_vars => ContainerInv'
<1> SUFFICES ASSUME BaseInv, BaseInv', ContainerInv, [Next]_vars,
                    NEW u \in alone', (sh[u].cmd \in ContainerCommands)'
             PROVE  ContainerProgress(u)'
  BY FoundStep DEF ContainerInv
<1>0. /\ ScriptInv /\ ShellInv /\ AloneInv /\ VmType /\ ContainerType
      /\ ScriptInv' /\ ShellInv' /\ u \in Shells
      /\ foundStopped \in [Shells -> SUBSET Nodes]
  BY DEF BaseInv, ScriptInv, AloneInv, ContainerInv
<1>1. ASSUME u \in alone, UNCHANGED <<containers, up>>, sh'[u] = sh[u],
             foundStopped'[u] = foundStopped[u]
      PROVE  ContainerProgress(u)'
  <2>1. ContainerProgress(u)
    BY <1>1 DEF ContainerInv
  <2> QED BY <1>0, <1>1, <2>1, ContainersUntouched
<1>2. ASSUME NEW s \in Shells, Begin(s) PROVE ContainerProgress(u)'
  <2>1. /\ sh' = [sh EXCEPT ![s] = sh'[s]] /\ UNCHANGED <<containers, up>>
        /\ alone' \subseteq alone \cup {s}
        /\ sh'[s].i = 0 /\ sh'[s].n \in Nat /\ sh'[s].at = First(sh'[s].cmd, sh'[s].n)
        /\ foundStopped' = [foundStopped EXCEPT ![s] = containers \ up]
    BY <1>0, <1>2, BeginFacts DEF Begin, containerVars
  <2>2. CASE u = s
    <3>1. foundStopped'[s] = containers' \ up' /\ sh'[s].cmd \in ContainerCommands
      BY <1>0, <2>1, <2>2
    <3> QED BY <2>1, <2>2, <3>1, ContainersBegin
  <2>3. CASE u # s
    <3>1. u \in alone /\ sh'[u] = sh[u] /\ foundStopped'[u] = foundStopped[u]
      BY <1>0, <2>1, <2>3 DEF ShellInv
    <3> QED BY <1>1, <2>1, <3>1
  <2> QED BY <2>2, <2>3
<1>3. ASSUME NEW s \in Shells, Finish(s) \/ KillCaptures(s) \/ StopScript(s)
      PROVE  ContainerProgress(u)'
  <2>1. /\ sh' = [sh EXCEPT ![s] = Idle] /\ alone' = alone \ {s}
        /\ UNCHANGED <<containers, up>> /\ foundStopped' = [foundStopped EXCEPT ![s] = {}]
    BY <1>3 DEF Finish, KillCaptures, StopScript, containerVars
  <2>2. u \in alone /\ sh'[u] = sh[u] /\ foundStopped'[u] = foundStopped[u]
    BY <1>0, <2>1 DEF ShellInv
  <2> QED BY <1>1, <2>1, <2>2
<1>4. ASSUME NEW s \in Shells, ContainerClusterStep(s) PROVE ContainerProgress(u)'
  <2>1. ContainerStep(s) /\ foundStopped' = foundStopped
    BY <1>4 DEF ContainerClusterStep
  <2>2. /\ Moves(s) /\ alone' = alone /\ sh[s].cmd \in ContainerCommands
    BY <1>0, <2>1, ContainerMoves, NodesNatural
  <2>3. sh'[u].cmd = sh[u].cmd
    BY <1>0, <2>2 DEF Moves, ShellInv
  <2>4. u = s
    BY <1>0, <2>2, <2>3, Kinds, OnlyOneAlone
  <2>5. ContainerProgress(s)
    BY <2>2, <2>3, <2>4 DEF ContainerInv
  <2> QED BY <2>1, <2>4, <2>5, ContainerStepProgress
<1>5. ASSUME NEW s \in Shells, VmClusterStep(s) PROVE ContainerProgress(u)'
  <2>1. /\ VmStep(s) /\ UNCHANGED <<containers, up>> /\ foundStopped' = foundStopped
    BY <1>5 DEF VmClusterStep, containerVars
  <2>2. Moves(s) /\ alone' = alone /\ sh[s].cmd \in VmCommands
    BY <1>0, <2>1, VmMoves
  <2>3. u # s
    BY <2>2 DEF Moves, VmCommands, ContainerCommands
  <2>4. sh'[u] = sh[u]
    BY <1>0, <2>2, <2>3 DEF Moves, ShellInv
  <2> QED BY <1>1, <2>1, <2>2, <2>4
<1>6. ASSUME NEW s \in Shells, StartCapture(s) \/ LogIn(s) \/ LogInFails(s) \/ LogOut(s)
      PROVE  ContainerProgress(u)'
  <2>1. UNCHANGED <<containers, up, foundStopped>>
    BY <1>6 DEF StartCapture, LogIn, LogInFails, LogOut, containerVars
  <2>2. Moves(s) /\ alone' = alone /\ sh'[s].at \in {"ready", "in", "out"}
    BY <1>0, <1>6, LoginMoves
  <2>3. CASE u = s
    BY <2>2, <2>3, SessionProgress
  <2>4. CASE u # s
    <3>1. sh'[u] = sh[u]
      BY <1>0, <2>2, <2>4 DEF Moves, ShellInv
    <3> QED BY <1>1, <2>1, <2>2, <3>1
  <2> QED BY <2>3, <2>4
<1>7. CASE (\E s \in Shells : Communicate(s)) \/ OpenCapture \/ UNCHANGED vars
  BY <1>1, <1>7 DEF Communicate, OpenCapture, vars, containerVars
<1>8. CASE Reboot
  BY <1>8 DEF Reboot
<1> QED BY <1>2, <1>3, <1>4, <1>5, <1>6, <1>7, <1>8 DEF Next

(* When a capture begins, restart has every container it was asked for and  *)
(* no other, start has at least those that it did not find stopped, and a   *)
(* stop that had the containers to itself leaves none, for any number       *)
(* (start-slaves.sh:38-41, stop-vcluster.sh:30-38, restart-vcluster.sh).    *)
THEOREM ContainersAlwaysComplete == Spec => []ContainersComplete
<1>1. Init => ContainerInv
  BY DEF Init, ContainerInv
<1>2. BaseInv /\ ContainerInv => ContainersComplete
  <2> SUFFICES ASSUME BaseInv, ContainerInv, NEW s \in alone
               PROVE  /\ At(s, "capture") /\ sh[s].cmd = "restart" =>
                           containers = Cluster(s) /\ up = Cluster(s)
                      /\ At(s, "capture") /\ sh[s].cmd = "start" =>
                           /\ Cluster(s) \subseteq containers
                           /\ Cluster(s) \ up = Cluster(s) \cap foundStopped[s]
                      /\ At(s, "finished") /\ sh[s].cmd = "stop" => containers = {}
    BY DEF ContainersComplete, ContainersDeliver
  <2>1. sh[s].cmd \in ContainerCommands => ContainerProgress(s)
    BY DEF ContainerInv
  <2>2. Cluster(s) = FirstNodes(sh[s].n)
    BY DEF Cluster, FirstNodes
  <2> QED BY <2>1, <2>2 DEF ContainerProgress, ContainerCommands
<1> QED BY <1>1, <1>2, ClusterTypes, ContainerInvStep, PTL DEF Spec

-----------------------------------------------------------------------------
(* Captures.                                                                *)

Captures == [own : Shells \cup {"nobody"}, on : Bridges, open : BOOLEAN]

LEMMA CaptureOpened ==
  ASSUME NEW c \in Captures
  PROVE  LET d == [c EXCEPT !.open = TRUE]
         IN  d \in Captures /\ d.own = c.own /\ d.on = c.on /\ d.open = TRUE
BY DEF Captures

LEMMA CaptureDisowned ==
  ASSUME NEW c \in Captures
  PROVE  LET d == [c EXCEPT !.own = "nobody"]
         IN  d \in Captures /\ d.own = "nobody" /\ d.on = c.on /\ d.open = c.open
BY DEF Captures

LEMMA CaptureNew ==
  ASSUME NEW s \in Shells, NEW b \in Bridges, NEW o \in BOOLEAN
  PROVE  LET d == [own |-> s, on |-> b, open |-> o]
         IN  d \in Captures /\ d.own = s /\ d.on = b /\ d.open = o
BY DEF Captures

LEMMA CaptureIs ==
  ASSUME NEW c \in Captures
  PROVE  c = [own |-> c.own, on |-> c.on, open |-> c.open]
BY DEF Captures

(* What is left behind has no owner and is otherwise what it was.           *)
LEMMA DisownIs ==
  ASSUME NEW s \in Shells, NEW set \in SUBSET Captures
  PROVE  /\ Disown(s, set) \in SUBSET Captures
         /\ \A x \in Disown(s, set) :
              \E c \in set : /\ x.on = c.on /\ x.open = c.open
                             /\ IF c.own = s THEN x.own = "nobody" ELSE x = c
         /\ \A c \in set : c.own # s => c \in Disown(s, set)
<1>1. ASSUME NEW x \in Disown(s, set)
      PROVE  \E c \in set : /\ x.on = c.on /\ x.open = c.open /\ x \in Captures
                            /\ IF c.own = s THEN x.own = "nobody" ELSE x = c
  <2>1. PICK c \in set : x = IF c.own = s THEN [c EXCEPT !.own = "nobody"] ELSE c
    BY <1>1 DEF Disown
  <2>2. CASE c.own = s
    <3>1. x = [c EXCEPT !.own = "nobody"]
      BY <2>1, <2>2
    <3>2. x \in Captures /\ x.own = "nobody" /\ x.on = c.on /\ x.open = c.open
      BY <3>1, CaptureDisowned
    <3> QED BY <2>2, <3>2
  <2>3. CASE c.own # s
    BY <2>1, <2>3
  <2> QED BY <2>2, <2>3
<1>2. ASSUME NEW c \in set, c.own # s PROVE c \in Disown(s, set)
  BY <1>2 DEF Disown
<1> QED BY <1>1, <1>2

LEMMA BridgeTyped == \A cmd : Bridge(cmd) \in Bridges
BY DEF Bridge, Bridges

CaptureType == captures \in SUBSET Captures

LEMMA CaptureTypeStep == CaptureType /\ [Next]_vars => CaptureType'
<1> SUFFICES ASSUME CaptureType, [Next]_vars PROVE CaptureType'
  OBVIOUS
<1>1. ASSUME NEW s \in Shells, VmClusterStep(s) PROVE CaptureType'
  BY <1>1 DEF VmClusterStep, CaptureType
<1>2. ASSUME NEW s \in Shells, StartCapture(s) PROVE CaptureType'
  <2>1. PICK b \in Bridges : captures' = captures \cup {[own |-> s, on |-> b, open |-> FALSE]}
    BY <1>2, BridgeTyped DEF StartCapture
  <2>2. [own |-> s, on |-> b, open |-> FALSE] \in Captures
    BY CaptureNew
  <2> QED BY <2>1, <2>2 DEF CaptureType
<1>3. CASE OpenCapture
  <2>1. PICK c \in captures : \/ captures' = captures \ {c}
                              \/ captures' = (captures \ {c}) \cup {[c EXCEPT !.open = TRUE]}
    BY <1>3 DEF OpenCapture
  <2> QED BY <2>1, CaptureOpened DEF CaptureType
<1>4. ASSUME NEW s \in Shells, KillCaptures(s) \/ StopScript(s) PROVE CaptureType'
  <2>1. PICK set \in SUBSET captures : captures' = Disown(s, set)
    <3>1. CASE KillCaptures(s)
      BY <3>1 DEF KillCaptures
    <3>2. CASE StopScript(s)
      BY <3>2 DEF StopScript
    <3> QED BY <1>4, <3>1, <3>2
  <2> QED BY <2>1, DisownIs DEF CaptureType
<1>5. CASE Reboot
  BY <1>5 DEF Reboot, CaptureType
<1>6. ASSUME UNCHANGED captures PROVE CaptureType'
  BY <1>6 DEF CaptureType
<1>7. CASE UNCHANGED vars
  BY <1>6, <1>7 DEF vars, sessionVars
<1>8. ASSUME NEW s \in Shells, Begin(s) \/ Finish(s) \/ ContainerClusterStep(s) \/ LogIn(s)
                \/ LogInFails(s) \/ LogOut(s) \/ Communicate(s)
      PROVE  CaptureType'
  BY <1>6, <1>8 DEF Begin, Finish, ContainerClusterStep, LogIn, LogInFails, LogOut,
                    Communicate, sessionVars
<1> QED BY <1>1, <1>2, <1>3, <1>4, <1>5, <1>7, <1>8 DEF Next

(* A capture without an owner is left behind by a script that was killed or *)
(* by a session that ended before tcpdump ran, and the end of any session   *)
(* clears it away (start-vcluster.sh:41, 46), in any number of shells.      *)
THEOREM CapturesAlwaysEnd == Spec => []CapturesEndWithSessions
<1>1. Init => CaptureType /\ CapturesEndWithSessions
  BY DEF Init, CaptureType, CapturesEndWithSessions
<1>2. CaptureType /\ CapturesEndWithSessions /\ [Next]_vars => CapturesEndWithSessions'
  <2> SUFFICES ASSUME CaptureType, CapturesEndWithSessions, [Next]_vars,
                      NEW x \in captures', x.own = "nobody"
               PROVE  excused'
    BY DEF CapturesEndWithSessions
  <2>1. ASSUME NEW c \in captures, c.own = "nobody", excused' = excused PROVE excused'
    BY <2>1 DEF CapturesEndWithSessions
  <2>2. ASSUME NEW s \in Shells, VmClusterStep(s) PROVE excused'
    BY <2>1, <2>2 DEF VmClusterStep
  <2>3. ASSUME NEW s \in Shells, StartCapture(s) PROVE excused'
    <3>1. captures' = captures \cup {[own |-> s, on |-> Bridge(sh[s].cmd), open |-> FALSE]}
          /\ excused' = excused
      BY <2>3 DEF StartCapture
    <3>2. x # [own |-> s, on |-> Bridge(sh[s].cmd), open |-> FALSE]
      BY ClusterConstants
    <3> QED BY <2>1, <3>1, <3>2
  <2>4. CASE OpenCapture
    <3>1. PICK c \in captures :
            /\ \/ captures' = captures \ {c}
               \/ captures' = (captures \ {c}) \cup {[c EXCEPT !.open = TRUE]}
            /\ excused' = excused
      BY <2>4 DEF OpenCapture
    <3>2. x \in captures \/ x = [c EXCEPT !.open = TRUE]
      BY <3>1
    <3>3. CASE x = [c EXCEPT !.open = TRUE]
      <4>1. c.own = "nobody"
        BY <3>3, CaptureOpened DEF CaptureType
      <4> QED BY <2>1, <3>1, <4>1
    <3> QED BY <2>1, <3>1, <3>2, <3>3
  <2>5. ASSUME NEW s \in Shells, KillCaptures(s) PROVE excused'
    <3>1. /\ captures' = Disown(s, {c \in captures : ~ Killed(s, c)})
          /\ excused' = (\E c \in captures : ~ c.open /\ c.own \in {s, "nobody"})
      BY <2>5 DEF KillCaptures
    <3>2. PICK c \in {c \in captures : ~ Killed(s, c)} :
            IF c.own = s THEN x.own = "nobody" ELSE x = c
      <4>1. {c \in captures : ~ Killed(s, c)} \in SUBSET Captures
        BY DEF CaptureType
      <4> QED BY <3>1, <4>1, DisownIs
    <3>3. c \in captures /\ ~ c.open /\ c.own \in {s, "nobody"}
      BY <3>2 DEF Killed
    <3> QED BY <3>1, <3>3
  <2>6. ASSUME NEW s \in Shells, StopScript(s) PROVE excused'
    <3>1. PICK survivors \in SUBSET {c \in captures : c.own = s} :
            /\ captures' = Disown(s, {c \in captures : c.own # s} \cup survivors)
            /\ excused' = (excused \/ survivors # {})
      BY <2>6 DEF StopScript
    <3>2. PICK c \in {c \in captures : c.own # s} \cup survivors :
            IF c.own = s THEN x.own = "nobody" ELSE x = c
      <4>1. {c \in captures : c.own # s} \cup survivors \in SUBSET Captures
        BY DEF CaptureType
      <4> QED BY <3>1, <4>1, DisownIs
    <3>3. CASE c.own = s
      <4>1. c \in survivors
        BY <3>2, <3>3
      <4> QED BY <3>1, <4>1
    <3>4. CASE c.own # s
      <4>1. c \in captures /\ c.own = "nobody"
        BY <3>2, <3>4
      <4>2. excused
        BY <4>1 DEF CapturesEndWithSessions
      <4> QED BY <3>1, <4>2
    <3> QED BY <3>3, <3>4
  <2>7. CASE Reboot
    BY <2>7 DEF Reboot
  <2>8. CASE UNCHANGED vars
    BY <2>1, <2>8 DEF vars, sessionVars
  <2>9. ASSUME NEW s \in Shells, Begin(s) \/ Finish(s) \/ ContainerClusterStep(s) \/ LogIn(s)
                  \/ LogInFails(s) \/ LogOut(s) \/ Communicate(s)
        PROVE  excused'
    BY <2>1, <2>9 DEF Begin, Finish, ContainerClusterStep, LogIn, LogInFails, LogOut,
                      Communicate, sessionVars
  <2> QED BY <2>2, <2>3, <2>4, <2>5, <2>6, <2>7, <2>8, <2>9 DEF Next
<1> QED BY <1>1, <1>2, CaptureTypeStep, PTL DEF Spec

-----------------------------------------------------------------------------
(* Sessions.                                                                *)

(* Each owner is in its session, has one capture, and has it on the bridge  *)
(* of its own cluster; only sessions have begun captures and traffic.       *)
Owned ==
  /\ \A c \in captures :
       c.own \in Shells => InSession(c.own) /\ c.on = Bridge(sh[c.own].cmd)
  /\ \A c, d \in captures : c.own \in Shells /\ c.own = d.own => c = d
  /\ sent \subseteq opened /\ opened \subseteq {s \in Shells : InSession(s)}

FileType == file \in [Bridges -> SUBSET (Shells \cup {"old", "mixed"})]

OwnCapture(s) == [own |-> s, on |-> Bridge(sh[s].cmd), open |-> TRUE]

(* A session that nothing got into is the only one on its bridge and has    *)
(* the only capture there; its file holds its own traffic since the capture *)
(* began.                                                                   *)
Undisturbed(s) ==
  /\ \A t \in Shells \ {s} : InSession(t) => Bridge(sh[t].cmd) # Bridge(sh[s].cmd)
  /\ \A c \in captures : c.on = Bridge(sh[s].cmd) => c.own = s
  /\ s \in opened =>
       OwnCapture(s) \in captures /\ file[Bridge(sh[s].cmd)] = {s} \cap sent

SessionInv ==
  /\ CaptureType /\ FileType /\ Owned
  /\ \A s \in Shells \ disturbed : InSession(s) => Undisturbed(s)

(* The sessions are those they were, on the bridges they were on.           *)
SameSessions ==
  \A t \in Shells : /\ InSession(t)' <=> InSession(t)
                    /\ InSession(t) => sh'[t].cmd = sh[t].cmd

(* A step of one script that enters no session and leaves none.             *)
LEMMA NoSession ==
  ASSUME ShellInv, NEW s \in Shells, sh' = [sh EXCEPT ![s] = sh'[s]],
         ~ InSession(s), ~ InSession(s)'
  PROVE  SameSessions
BY DEF ShellInv, SameSessions, InSession

LEMMA StaysInSession ==
  ASSUME ShellInv, NEW s \in Shells, Moves(s), InSession(s), InSession(s)'
  PROVE  SameSessions
BY DEF ShellInv, SameSessions, InSession, Moves

LEMMA SessionsKept ==
  ASSUME SessionInv, SameSessions,
         UNCHANGED <<captures, file, opened, sent, disturbed>>
  PROVE  SessionInv'
<1>1. CaptureType' /\ FileType'
  BY DEF SessionInv, CaptureType, FileType
<1>2. Owned'
  BY DEF SessionInv, Owned, SameSessions
<1>3. ASSUME NEW s \in Shells \ disturbed, InSession(s)' PROVE Undisturbed(s)'
  <2>1. InSession(s) /\ sh'[s].cmd = sh[s].cmd /\ Undisturbed(s)
    BY <1>3 DEF SessionInv, SameSessions
  <2>2. \A t \in Shells \ {s} : InSession(t)' => Bridge(sh'[t].cmd) # Bridge(sh'[s].cmd)
    BY <2>1 DEF Undisturbed, SameSessions
  <2>3. OwnCapture(s)' = OwnCapture(s)
    BY <2>1 DEF OwnCapture
  <2> QED BY <2>1, <2>2, <2>3 DEF Undisturbed
<1> QED BY <1>1, <1>2, <1>3 DEF SessionInv

(* The network goes away, with the captures and the sessions on it.         *)
LEMMA SessionsLoseNetwork ==
  ASSUME SessionInv, SameSessions, UNCHANGED <<file, opened, sent>>,
         captures' = {c \in captures : c.on # "virbr0" \/ ~ c.open},
         disturbed' = disturbed \cup {t \in Shells : sh[t].cmd = "login"}
  PROVE  SessionInv'
<1>1. CaptureType' /\ FileType'
  BY DEF SessionInv, CaptureType, FileType
<1>2. Owned'
  BY DEF SessionInv, Owned, SameSessions
<1>3. ASSUME NEW s \in Shells \ disturbed', InSession(s)' PROVE Undisturbed(s)'
  <2>1. InSession(s) /\ sh'[s].cmd = sh[s].cmd /\ Undisturbed(s) /\ sh[s].cmd # "login"
    BY <1>3 DEF SessionInv, SameSessions
  <2>2. \A t \in Shells \ {s} : InSession(t)' => Bridge(sh'[t].cmd) # Bridge(sh'[s].cmd)
    BY <2>1 DEF Undisturbed, SameSessions
  <2>3. OwnCapture(s)' = OwnCapture(s)
    BY <2>1 DEF OwnCapture
  <2>4. OwnCapture(s).on # "virbr0"
    BY <2>1 DEF OwnCapture, Bridge
  <2> QED BY <2>1, <2>2, <2>3, <2>4 DEF Undisturbed
<1> QED BY <1>1, <1>2, <1>3 DEF SessionInv

LEMMA StartCaptureKeeps ==
  ASSUME BaseInv, SessionInv, NEW s \in Shells, StartCapture(s)
  PROVE  SessionInv'
<1> DEFINE here  == Bridge(sh[s].cmd)
           fresh == [own |-> s, on |-> here, open |-> FALSE]
           peers == {t \in Shells \ {s} : InSession(t) /\ Bridge(sh[t].cmd) = here}
           stray == \E c \in captures : c.own = "nobody" /\ c.on = here
<1>1. /\ captures' = captures \cup {fresh}
      /\ disturbed' = (disturbed \ {s}) \cup peers
                        \cup IF peers # {} \/ stray THEN {s} ELSE {}
      /\ opened' = opened \ {s} /\ sent' = sent \ {s} /\ file' = file
      /\ sh[s].at = "capture"
  BY DEF StartCapture, At
<1>2. /\ Moves(s) /\ sh'[s].at \in {"ready", "in", "out"} /\ ShellInv
      /\ \A t \in Shells \ {s} : sh'[t] = sh[t]
  <2>1. ShellInv
    BY DEF BaseInv, ScriptInv
  <2>2. Moves(s) /\ sh'[s].at \in {"ready", "in", "out"}
    BY <2>1, LoginMoves
  <2> QED BY <2>1, <2>2 DEF Moves, ShellInv
<1>3. /\ ~ InSession(s) /\ InSession(s)' /\ sh'[s].cmd = sh[s].cmd
      /\ \A t \in Shells \ {s} : InSession(t)' <=> InSession(t)
  BY <1>1, <1>2 DEF InSession, Moves
<1>4. fresh \in Captures /\ fresh.own = s /\ fresh.on = here
  BY CaptureNew, BridgeTyped
<1> HIDE DEF here, fresh
<1>5. \A c \in captures : c.own # s
  BY <1>3 DEF SessionInv, Owned
<1>6. CaptureType' /\ FileType'
  BY <1>1, <1>4 DEF SessionInv, CaptureType, FileType
<1>7. Owned'
  <2>1. \A c \in captures' : c.own \in Shells => InSession(c.own)' /\ c.on = Bridge(sh'[c.own].cmd)
    <3>1. ASSUME NEW c \in captures, c.own \in Shells
          PROVE  InSession(c.own)' /\ c.on = Bridge(sh'[c.own].cmd)
      BY <1>2, <1>3, <1>5, <3>1 DEF SessionInv, Owned
    <3> QED BY <1>1, <1>3, <1>4, <3>1 DEF here
  <2>2. \A c, d \in captures' : c.own \in Shells /\ c.own = d.own => c = d
    BY <1>1, <1>4, <1>5 DEF SessionInv, Owned
  <2>3. sent' \subseteq opened' /\ opened' \subseteq {t \in Shells : InSession(t)'}
    BY <1>1, <1>3 DEF SessionInv, Owned
  <2> QED BY <2>1, <2>2, <2>3 DEF Owned
<1>8. ASSUME NEW u \in Shells \ disturbed', InSession(u)' PROVE Undisturbed(u)'
  <2>1. CASE u = s
    <3>1. peers = {} /\ ~ stray
      BY <1>1, <1>8, <2>1
    <3>2. \A t \in Shells \ {s} : InSession(t)' => Bridge(sh'[t].cmd) # Bridge(sh'[s].cmd)
      BY <1>2, <1>3, <3>1 DEF here
    <3>3. \A c \in captures : c.on # here
      <4>1. SUFFICES ASSUME NEW c \in captures, c.on = here PROVE FALSE
        OBVIOUS
      <4>2. c.own \in Shells \cup {"nobody"}
        BY DEF SessionInv, CaptureType, Captures
      <4>3. c.own \in peers \/ c.own = "nobody"
        BY <1>5, <4>1, <4>2 DEF SessionInv, Owned
      <4> QED BY <3>1, <4>1, <4>3
    <3>4. \A c \in captures' : c.on = Bridge(sh'[s].cmd) => c.own = s
      BY <1>1, <1>3, <1>4, <3>3 DEF here
    <3> QED BY <1>1, <2>1, <3>2, <3>4 DEF Undisturbed
  <2>2. CASE u # s
    <3>1. InSession(u) /\ sh'[u] = sh[u] /\ u \notin disturbed /\ u \notin peers
      BY <1>1, <1>2, <1>3, <1>8, <2>2
    <3>2. Undisturbed(u) /\ Bridge(sh[u].cmd) # here
      BY <2>2, <3>1 DEF SessionInv
    <3>3. \A t \in Shells \ {u} : InSession(t)' => Bridge(sh'[t].cmd) # Bridge(sh'[u].cmd)
      BY <1>2, <1>3, <3>1, <3>2 DEF Undisturbed, here
    <3>4. \A c \in captures' : c.on = Bridge(sh'[u].cmd) => c.own = u
      BY <1>1, <1>4, <3>1, <3>2 DEF Undisturbed
    <3>5. OwnCapture(u)' = OwnCapture(u)
      BY <3>1 DEF OwnCapture
    <3>6. u \in opened' => OwnCapture(u)' \in captures'
            /\ file'[Bridge(sh'[u].cmd)] = {u} \cap sent'
      BY <1>1, <2>2, <3>1, <3>2, <3>5 DEF Undisturbed
    <3> QED BY <3>3, <3>4, <3>6 DEF Undisturbed
  <2> QED BY <2>1, <2>2
<1> QED BY <1>6, <1>7, <1>8 DEF SessionInv

LEMMA OpenCaptureKeeps ==
  ASSUME SessionInv, OpenCapture
  PROVE  SessionInv'
<1>1. PICK c \in captures :
        /\ ~ c.open
        /\ \/ captures' = captures \ {c} /\ UNCHANGED <<file, opened>>
           \/ /\ captures' = (captures \ {c}) \cup {[c EXCEPT !.open = TRUE]}
              /\ file' = [file EXCEPT ![c.on] = {}]
              /\ opened' = opened \cup ({c.own} \cap Shells)
  BY DEF OpenCapture, File
<1>2. UNCHANGED <<sh, sent, disturbed>>
  BY DEF OpenCapture
<1>3. c \in Captures /\ captures \in SUBSET Captures
  BY DEF SessionInv, CaptureType
<1> DEFINE d == [c EXCEPT !.open = TRUE]
<1>4. d \in Captures /\ d.own = c.own /\ d.on = c.on /\ d.open = TRUE
  BY <1>3, CaptureOpened
<1> HIDE DEF d
<1>5. \A s \in Shells : OwnCapture(s) \in captures => OwnCapture(s) # c
  BY <1>1 DEF OwnCapture
<1>6. \A s \in Shells : InSession(s)' <=> InSession(s)
  BY <1>2 DEF InSession
<1>7. CASE captures' = captures \ {c} /\ UNCHANGED <<file, opened>>
  <2>1. CaptureType' /\ FileType' /\ Owned'
    BY <1>2, <1>6, <1>7 DEF SessionInv, CaptureType, FileType, Owned
  <2>2. ASSUME NEW s \in Shells \ disturbed, InSession(s)' PROVE Undisturbed(s)'
    <3>1. Undisturbed(s) /\ OwnCapture(s)' = OwnCapture(s)
      BY <1>2, <1>6, <2>2 DEF SessionInv, OwnCapture
    <3> QED BY <1>2, <1>5, <1>6, <1>7, <3>1 DEF Undisturbed
  <2> QED BY <1>2, <2>1, <2>2 DEF SessionInv
<1>8. CASE /\ captures' = (captures \ {c}) \cup {d}
           /\ file' = [file EXCEPT ![c.on] = {}]
           /\ opened' = opened \cup ({c.own} \cap Shells)
  <2>1. CaptureType'
    BY <1>3, <1>4, <1>8 DEF CaptureType
  <2>2. FileType'
    BY <1>8 DEF SessionInv, FileType
  <2>3. Owned'
    <3>1. \A x \in captures' :
            x.own \in Shells => InSession(x.own)' /\ x.on = Bridge(sh'[x.own].cmd)
      BY <1>2, <1>4, <1>6, <1>8 DEF SessionInv, Owned
    <3>2. \A x \in captures \ {c} : c.own \in Shells => x.own # c.own
      BY DEF SessionInv, Owned
    <3>3. \A x, y \in captures' : x.own \in Shells /\ x.own = y.own => x = y
      BY <1>4, <1>8, <3>2 DEF SessionInv, Owned
    <3>4. sent' \subseteq opened' /\ opened' \subseteq {t \in Shells : InSession(t)'}
      BY <1>2, <1>6, <1>8 DEF SessionInv, Owned
    <3> QED BY <3>1, <3>3, <3>4 DEF Owned
  <2>4. ASSUME NEW s \in Shells \ disturbed, InSession(s)' PROVE Undisturbed(s)'
    <3>1. Undisturbed(s) /\ InSession(s) /\ OwnCapture(s)' = OwnCapture(s)
      BY <1>2, <1>6, <2>4 DEF SessionInv, OwnCapture
    <3>2. \A t \in Shells \ {s} : InSession(t)' => Bridge(sh'[t].cmd) # Bridge(sh'[s].cmd)
      BY <1>2, <1>6, <3>1 DEF Undisturbed
    <3>3. \A x \in captures' : x.on = Bridge(sh'[s].cmd) => x.own = s
      BY <1>2, <1>4, <1>8, <3>1 DEF Undisturbed
    <3>4. CASE c.on = Bridge(sh[s].cmd)
      <4>1. c.own = s
        BY <3>1, <3>4 DEF Undisturbed
      <4>2. s \notin opened
        <5>1. OwnCapture(s).own = s
          BY DEF OwnCapture
        <5>2. OwnCapture(s) \notin captures
          BY <1>5, <4>1, <5>1 DEF SessionInv, Owned
        <5> QED BY <3>1, <5>2 DEF Undisturbed
      <4>3. s \notin sent
        BY <4>2 DEF SessionInv, Owned
      <4>4. d = OwnCapture(s)
        BY <1>4, <3>4, <4>1, CaptureIs DEF OwnCapture
      <4>5. file'[Bridge(sh[s].cmd)] = {}
        BY <1>8, <3>4, BridgeTyped DEF SessionInv, FileType
      <4> QED BY <1>2, <1>8, <3>1, <3>2, <3>3, <4>3, <4>4, <4>5 DEF Undisturbed
    <3>5. CASE c.on # Bridge(sh[s].cmd)
      <4>1. c.own = s => FALSE
        BY <3>5 DEF SessionInv, Owned
      <4>2. s \in opened' => s \in opened
        BY <1>8, <4>1
      <4>3. file'[Bridge(sh[s].cmd)] = file[Bridge(sh[s].cmd)]
        BY <1>8, <3>5, BridgeTyped DEF SessionInv, FileType
      <4>4. OwnCapture(s) \in captures => OwnCapture(s) \in captures'
        BY <1>5, <1>8
      <4> QED BY <1>2, <3>1, <3>2, <3>3, <4>2, <4>3, <4>4 DEF Undisturbed
    <3> QED BY <3>4, <3>5
  <2> QED BY <1>2, <2>1, <2>2, <2>3, <2>4 DEF SessionInv
<1> QED BY <1>1, <1>7, <1>8 DEF d

(* The only tcpdump on a bridge writes what its own session sends.          *)
LEMMA CommunicateKeeps ==
  ASSUME SessionInv, NEW s \in Shells, Communicate(s)
  PROVE  SessionInv'
<1> DEFINE here    == Bridge(sh[s].cmd)
           writers == {c \in captures : c.open /\ c.on = here}
           written == CASE Cardinality(writers) = 0 -> file[here]
                        [] Cardinality(writers) = 1 -> file[here] \cup {s}
                        [] OTHER                    -> file[here] \cup {s, "mixed"}
<1>1. file' = [file EXCEPT ![here] = written] /\ sent' = sent \cup ({s} \cap opened)
  BY DEF Communicate, File
<1>2. UNCHANGED <<sh, captures, opened, disturbed>> /\ InSession(s)
  BY DEF Communicate, At, InSession
<1>3. FileType /\ here \in Bridges
  BY BridgeTyped DEF SessionInv
<1>4. written \in SUBSET (Shells \cup {"old", "mixed"})
  <2>1. file[here] \in SUBSET (Shells \cup {"old", "mixed"})
    BY <1>3 DEF FileType
  <2>2. written \in {file[here], file[here] \cup {s}, file[here] \cup {s, "mixed"}}
    OBVIOUS
  <2> HIDE DEF written
  <2> QED BY <2>1, <2>2
<1>5. \A t \in Shells : InSession(t)' <=> InSession(t)
  BY <1>2 DEF InSession
<1>6. ASSUME NEW u \in Shells \ disturbed, InSession(u)' PROVE Undisturbed(u)'
  <2>1. Undisturbed(u) /\ InSession(u) /\ OwnCapture(u)' = OwnCapture(u)
    BY <1>2, <1>5, <1>6 DEF SessionInv, OwnCapture
  <2>2. \A t \in Shells \ {u} : InSession(t)' => Bridge(sh'[t].cmd) # Bridge(sh'[u].cmd)
    BY <1>2, <1>5, <2>1 DEF Undisturbed
  <2>3. \A c \in captures' : c.on = Bridge(sh'[u].cmd) => c.own = u
    BY <1>2, <2>1 DEF Undisturbed
  <2>4. CASE u = s /\ u \in opened
    <3>1. OwnCapture(s) \in captures /\ file[here] = {s} \cap sent
      BY <2>1, <2>4 DEF Undisturbed
    <3>2. OwnCapture(s).on = here /\ OwnCapture(s).own = s /\ OwnCapture(s).open
      BY DEF OwnCapture
    <3>3. writers = {OwnCapture(s)}
      BY <2>1, <2>4, <3>1, <3>2 DEF SessionInv, Owned, Undisturbed
    <3>4. Cardinality(writers) = 1
      BY <3>3, FS_Singleton
    <3>5. written = file[here] \cup {s}
      BY <3>4
    <3> HIDE DEF written
    <3>6. file'[here] = file[here] \cup {s}
      BY <1>1, <1>3, <3>5 DEF FileType
    <3>7. file'[here] = {s} \cap sent'
      BY <1>1, <2>4, <3>1, <3>6
    <3> QED BY <1>2, <2>1, <2>2, <2>3, <2>4, <3>1, <3>7 DEF Undisturbed
  <2>5. CASE u # s /\ u \in opened
    <3> HIDE DEF written
    <3>1. Bridge(sh[u].cmd) # here
      BY <1>2, <2>1, <2>5 DEF Undisturbed
    <3>2. file'[Bridge(sh[u].cmd)] = file[Bridge(sh[u].cmd)] /\ {u} \cap sent' = {u} \cap sent
      BY <1>1, <1>3, <2>5, <3>1, BridgeTyped DEF FileType
    <3> QED BY <1>2, <2>1, <2>2, <2>3, <2>5, <3>2 DEF Undisturbed
  <2>6. CASE u \notin opened
    BY <1>2, <2>2, <2>3, <2>6 DEF Undisturbed
  <2> QED BY <2>4, <2>5, <2>6
<1> HIDE DEF written
<1>7. CaptureType' /\ FileType' /\ Owned'
  BY <1>1, <1>2, <1>3, <1>4, <1>5 DEF SessionInv, CaptureType, FileType, Owned
<1> QED BY <1>2, <1>6, <1>7 DEF SessionInv

(* What is left behind of a session.                                        *)
LEMMA ArchivedIs ==
  ASSUME FileType, NEW s \in Shells
  PROVE  /\ Archived(s) \in [Bridges -> SUBSET (Shells \cup {"old", "mixed"})]
         /\ \A b \in Bridges : s \notin file[b] => Archived(s)[b] = file[b]
<1>1. \A b \in Bridges : file[b] \in SUBSET (Shells \cup {"old", "mixed"})
  BY DEF FileType
<1>2. \A b \in Bridges :
        /\ Archived(s)[b] = {IF t = s THEN "old" ELSE t : t \in file[b]}
        /\ Archived(s)[b] \in SUBSET (Shells \cup {"old", "mixed"})
  BY <1>1 DEF Archived
<1>3. Archived(s) \in [Bridges -> SUBSET (Shells \cup {"old", "mixed"})]
  BY <1>2 DEF Archived
<1>4. ASSUME NEW b \in Bridges, s \notin file[b] PROVE Archived(s)[b] = file[b]
  BY <1>2, <1>4
<1> QED BY <1>3, <1>4

(* The end of a session, or of a script before it, takes the captures out   *)
(* of it and leaves those of the undisturbed sessions.                      *)
LEMMA SessionEnds ==
  ASSUME ShellInv, SessionInv, NEW s \in Shells, NEW left \in SUBSET captures,
         captures' = Disown(s, left), file' = Archived(s),
         opened' = opened \ {s}, sent' = sent \ {s}, sh' = [sh EXCEPT ![s] = Idle],
         \A u \in Shells \ disturbed' : u # s /\ InSession(u) =>
            /\ u \notin disturbed
            /\ \A c \in captures : c.own = u => c \in left
  PROVE  SessionInv'
<1>1. captures \in SUBSET Captures /\ left \in SUBSET Captures /\ FileType
  BY DEF SessionInv, CaptureType
<1>2. /\ ~ InSession(s)' /\ \A t \in Shells \ {s} : sh'[t] = sh[t]
      /\ \A t \in Shells \ {s} : InSession(t)' <=> InSession(t)
  BY DEF ShellInv, InSession, Idle
<1>3. /\ captures' \in SUBSET Captures
      /\ \A x \in captures' :
           \E c \in left : /\ x.on = c.on /\ x.open = c.open
                           /\ IF c.own = s THEN x.own = "nobody" ELSE x = c
      /\ \A c \in left : c.own # s => c \in captures'
  BY <1>1, DisownIs
<1>4. CaptureType' /\ FileType'
  BY <1>1, <1>3, ArchivedIs DEF CaptureType, FileType
<1>5. \A x \in captures' : x.own \in Shells => x.own # s /\ x \in captures
  BY <1>3, ClusterConstants
<1>6. Owned'
  <2>1. \A x \in captures' :
          x.own \in Shells => InSession(x.own)' /\ x.on = Bridge(sh'[x.own].cmd)
    BY <1>2, <1>5 DEF SessionInv, Owned
  <2>2. \A x, y \in captures' : x.own \in Shells /\ x.own = y.own => x = y
    BY <1>5 DEF SessionInv, Owned
  <2>3. sent' \subseteq opened' /\ opened' \subseteq {t \in Shells : InSession(t)'}
    BY <1>2 DEF SessionInv, Owned
  <2> QED BY <2>1, <2>2, <2>3 DEF Owned
<1>7. ASSUME NEW u \in Shells \ disturbed', InSession(u)' PROVE Undisturbed(u)'
  <2>1. u # s /\ InSession(u) /\ sh'[u] = sh[u]
    BY <1>2, <1>7
  <2>2. u \notin disturbed /\ \A c \in captures : c.own = u => c \in left
    BY <1>7, <2>1
  <2>3. Undisturbed(u)
    BY <2>1, <2>2 DEF SessionInv
  <2>4. \A t \in Shells \ {u} : InSession(t)' => Bridge(sh'[t].cmd) # Bridge(sh'[u].cmd)
    BY <1>2, <2>1, <2>3 DEF Undisturbed
  <2>5. \A x \in captures' : x.on = Bridge(sh'[u].cmd) => x.own = u
    <3>1. SUFFICES ASSUME NEW x \in captures', x.on = Bridge(sh[u].cmd) PROVE x.own = u
      BY <2>1
    <3>2. PICK c \in left : x.on = c.on /\ (IF c.own = s THEN x.own = "nobody" ELSE x = c)
      BY <1>3
    <3>3. c.own = u
      BY <2>3, <3>1, <3>2 DEF Undisturbed
    <3> QED BY <2>1, <3>2, <3>3
  <2>6. ASSUME u \in opened'
        PROVE  /\ OwnCapture(u)' \in captures'
               /\ file'[Bridge(sh'[u].cmd)] = {u} \cap sent'
    <3>1. OwnCapture(u) \in captures /\ file[Bridge(sh[u].cmd)] = {u} \cap sent
      BY <2>3, <2>6 DEF Undisturbed
    <3>2. OwnCapture(u).own = u /\ OwnCapture(u)' = OwnCapture(u)
      BY <2>1 DEF OwnCapture
    <3>3. OwnCapture(u) \in captures'
      BY <1>3, <2>1, <2>2, <3>1, <3>2
    <3>4. s \notin file[Bridge(sh[u].cmd)]
      BY <2>1, <3>1
    <3>5. file'[Bridge(sh[u].cmd)] = file[Bridge(sh[u].cmd)]
      BY <1>1, <3>4, BridgeTyped, ArchivedIs
    <3> QED BY <2>1, <3>1, <3>2, <3>3, <3>5
  <2> QED BY <2>4, <2>5, <2>6 DEF Undisturbed
<1> QED BY <1>4, <1>6, <1>7 DEF SessionInv

LEMMA KillCapturesKeeps ==
  ASSUME BaseInv, SessionInv, NEW s \in Shells, KillCaptures(s)
  PROVE  SessionInv'
<1> DEFINE left == {c \in captures : ~ Killed(s, c)}
<1>1. /\ captures' = Disown(s, left) /\ file' = Archived(s)
      /\ opened' = opened \ {s} /\ sent' = sent \ {s} /\ sh' = [sh EXCEPT ![s] = Idle]
      /\ disturbed' = (disturbed \ {s}) \cup {t \in Shells \ {s} : InSession(t)}
  BY DEF KillCaptures
<1>2. \A u \in Shells \ disturbed' : u # s /\ InSession(u) => FALSE
  BY <1>1
<1>3. ShellInv /\ left \in SUBSET captures
  BY DEF BaseInv, ScriptInv
<1> HIDE DEF left
<1> QED BY <1>1, <1>2, <1>3, SessionEnds

LEMMA StopScriptKeeps ==
  ASSUME BaseInv, SessionInv, NEW s \in Shells, StopScript(s)
  PROVE  SessionInv'
<1>1. PICK survivors \in SUBSET {c \in captures : c.own = s} :
        captures' = Disown(s, {c \in captures : c.own # s} \cup survivors)
  BY DEF StopScript
<1>2. /\ file' = Archived(s) /\ disturbed' = disturbed \ {s}
      /\ opened' = opened \ {s} /\ sent' = sent \ {s} /\ sh' = [sh EXCEPT ![s] = Idle]
  BY DEF StopScript
<1> DEFINE left == {c \in captures : c.own # s} \cup survivors
<1>3. captures' = Disown(s, left) /\ left \in SUBSET captures
  BY <1>1
<1>4. \A u \in Shells \ disturbed' : u # s =>
        u \notin disturbed /\ \A c \in captures : c.own = u => c \in left
  BY <1>2
<1>5. ShellInv
  BY DEF BaseInv, ScriptInv
<1> HIDE DEF left
<1> QED BY <1>2, <1>3, <1>4, <1>5, SessionEnds

LEMMA SessionInvStep == BaseInv /\ SessionInv /\ [Next]_vars => SessionInv'
<1> SUFFICES ASSUME BaseInv, SessionInv, [Next]_vars PROVE SessionInv'
  OBVIOUS
<1>0. ScriptInv /\ ShellInv /\ containers \in SUBSET Nat
  BY NodesNatural DEF BaseInv, ScriptInv
<1>1. ASSUME NEW s \in Shells, Begin(s) PROVE SessionInv'
  <2>1. /\ sh[s].at = "idle" /\ sh' = [sh EXCEPT ![s] = sh'[s]]
        /\ sh'[s].at = First(sh'[s].cmd, sh'[s].n) /\ sh'[s].cmd \in Commands
    BY <1>0, <1>1, BeginFacts
  <2>2. First(sh'[s].cmd, sh'[s].n) \notin {"ready", "in", "out"}
    BY <2>1, Kinds DEF First, VmFirst, ContainerFirst, LoopOver, Commands, VmCommands,
                       ContainerCommands
  <2>3. SameSessions
    BY <1>0, <2>1, <2>2, NoSession DEF InSession
  <2> QED BY <1>1, <2>3, SessionsKept DEF Begin, sessionVars
<1>2. ASSUME NEW s \in Shells, Finish(s) PROVE SessionInv'
  <2>1. sh[s].at = "finished" /\ sh' = [sh EXCEPT ![s] = Idle]
    BY <1>2 DEF Finish, At
  <2>2. sh'[s] = Idle
    BY <1>0, <2>1 DEF ShellInv
  <2>3. ~ InSession(s) /\ ~ InSession(s)'
    BY <2>1, <2>2 DEF InSession, Idle
  <2>4. SameSessions
    BY <1>0, <2>1, <2>2, <2>3, NoSession
  <2> QED BY <1>2, <2>4, SessionsKept DEF Finish, sessionVars
<1>3. ASSUME NEW s \in Shells, VmClusterStep(s) PROVE SessionInv'
  <2>1. Moves(s) /\ sh[s].cmd \in VmCommands /\ sh'[s].cmd \in VmCommands
    BY <1>0, <1>3, VmMoves DEF VmClusterStep, Moves
  <2>2. ~ InSession(s) /\ ~ InSession(s)'
    <3>1. WellPlaced(sh[s]) /\ WellPlaced(sh'[s])
      BY <1>0, <2>1 DEF ShellInv, Moves
    <3>2. \A cmd \in VmCommands : cmd \notin {"start", "restart", "login"}
      BY DEF VmCommands
    <3> QED BY <2>1, <3>1, <3>2, ScriptAt DEF InSession
  <2>3. SameSessions
    BY <1>0, <2>1, <2>2, NoSession DEF Moves
  <2>4. UNCHANGED <<file, opened, sent>>
    BY <1>3 DEF VmClusterStep
  <2>5. CASE "default" \in active \ active'
    BY <1>3, <2>3, <2>4, <2>5, SessionsLoseNetwork DEF VmClusterStep
  <2>6. CASE "default" \notin active \ active'
    BY <1>3, <2>3, <2>4, <2>6, SessionsKept DEF VmClusterStep
  <2> QED BY <2>5, <2>6
<1>4. ASSUME NEW s \in Shells, ContainerClusterStep(s) PROVE SessionInv'
  <2>1. /\ Moves(s) /\ sh[s].at \notin {"ready", "in", "out"}
        /\ sh'[s].at \notin {"ready", "in", "out"}
    BY <1>0, <1>4, ContainerMoves DEF ContainerClusterStep
  <2>2. SameSessions
    BY <1>0, <2>1, NoSession DEF Moves, InSession
  <2> QED BY <1>4, <2>2, SessionsKept DEF ContainerClusterStep, sessionVars
<1>5. ASSUME NEW s \in Shells, LogIn(s) \/ LogInFails(s) \/ LogOut(s) PROVE SessionInv'
  <2>1. Moves(s) /\ sh'[s].at \in {"ready", "in", "out"}
    BY <1>0, <1>5, LoginMoves
  <2>2. sh[s].at \in {"ready", "in"} /\ UNCHANGED <<captures, file, opened, sent, disturbed>>
    BY <1>5 DEF LogIn, LogInFails, LogOut, At, sessionVars
  <2>3. SameSessions
    BY <1>0, <2>1, <2>2, StaysInSession DEF InSession
  <2> QED BY <2>2, <2>3, SessionsKept
<1>6. ASSUME NEW s \in Shells,
             StartCapture(s) \/ Communicate(s) \/ KillCaptures(s) \/ StopScript(s)
      PROVE  SessionInv'
  BY <1>6, StartCaptureKeeps, CommunicateKeeps, KillCapturesKeeps, StopScriptKeeps
<1>7. CASE OpenCapture
  BY <1>7, OpenCaptureKeeps
<1>8. CASE Reboot
  <2>1. /\ sh' = [s \in Shells |-> Idle] /\ captures' = {} /\ opened' = {} /\ sent' = {}
        /\ file' = [b \in Bridges |-> IF file[b] = {} THEN {} ELSE {"old"}]
    BY <1>8 DEF Reboot
  <2>2. \A s \in Shells : ~ InSession(s)'
    BY <2>1 DEF InSession, Idle
  <2> QED BY <2>1, <2>2 DEF SessionInv, CaptureType, FileType, Owned
<1>9. CASE UNCHANGED vars
  <2>1. SameSessions /\ UNCHANGED <<captures, file, opened, sent, disturbed>>
    BY <1>9 DEF vars, sessionVars, SameSessions, InSession
  <2> QED BY <2>1, SessionsKept
<1> QED BY <1>1, <1>2, <1>3, <1>4, <1>5, <1>6, <1>7, <1>8, <1>9 DEF Next

(* A session whose capture began before anything got into it leaves a file  *)
(* with all its traffic from then on and nothing else, whatever other       *)
(* shells do (start-vcluster.sh:38-46 of vmcluster, 37-46 of vcluster).     *)
THEOREM CapturesAlwaysWhole == Spec => []CaptureIsWhole
<1>1. Init => SessionInv
  <2> SUFFICES ASSUME Init PROVE SessionInv
    OBVIOUS
  <2>1. \A s \in Shells : ~ InSession(s)
    BY DEF Init, InSession, Idle
  <2> QED BY <2>1 DEF Init, SessionInv, CaptureType, FileType, Owned
<1>2. SessionInv => CaptureIsWhole
  <2> SUFFICES ASSUME SessionInv, NEW s \in opened \ disturbed, At(s, "out")
               PROVE  file[Bridge(sh[s].cmd)] = {s} \cap sent
    BY DEF CaptureIsWhole, File
  <2>1. s \in Shells /\ InSession(s)
    BY DEF SessionInv, Owned
  <2> QED BY <2>1 DEF SessionInv, Undisturbed
<1> QED BY <1>1, <1>2, ClusterTypes, SessionInvStep, PTL DEF Spec
=============================================================================
