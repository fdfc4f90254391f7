------------------------------- MODULE Startup -------------------------------
(***************************************************************************)
(* From the command line to ns3_simulate: main and parse_config (main.cpp) *)
(* and PcapFile::parse_from_file (ppacket.hpp).                            *)
(*                                                                         *)
(* main ignores what parse_config and parse_from_file return, so each      *)
(* failure goes on to the next step with whatever was left undone.         *)
(*                                                                         *)
(* A configuration file is represented by what the program can tell of it: *)
(* whether it can be read and parsed, which settings it has, and of the    *)
(* right type, and the kinds of the captures it lists.                     *)
(***************************************************************************)
EXTENDS Integers, Sequences

CONSTANT MaxCaptures   \* bound on the entries of pcapfiles

ASSUME MaxCapturesAssumption == MaxCaptures \in Nat

Settings == {"name", "window_size", "num_nodes"}
Lookups  == <<"name", "window_size", "num_nodes">>   \* in the order of the code

SettingKinds == {"absent", "mistyped", "set"}

(* "partial": the entry lacks its path or its color; "missing": there is no *)
(* such file; "foreign": the file is no capture; "empty": it has no packet. *)
CaptureKinds == {"partial", "missing", "foreign", "empty", "filled"}

Configurations ==
  [readable : BOOLEAN, settings : [Settings -> SettingKinds], list : BOOLEAN,
   captures : UNION {[1 .. len -> CaptureKinds] : len \in 0 .. MaxCaptures}]

VARIABLES
  argc, config,
  parameter,     \* settings stored in parameter
  vec_pcapfile,  \* kinds of the captures taken from the list
  wct,           \* which of them have their min_wct and max_wct set
  k,             \* next entry of the list, or next capture to parse
  pc,            \* "args", "read", "settings", "list", "parse", "call", or
                 \* where it ends: "simulate", "exit", "abort", "fault"
  entries        \* history: which entry of the list each capture was

vars == <<argc, config, parameter, vec_pcapfile, wct, k, pc, entries>>

Init ==
  /\ argc \in 1 .. 4 /\ config \in Configurations
  /\ parameter = {} /\ vec_pcapfile = <<>> /\ wct = {}
  /\ k = 1 /\ pc = "args" /\ entries = <<>>

Goto(place) ==
  /\ pc' = place
  /\ UNCHANGED <<argc, config, parameter, vec_pcapfile, wct, entries>>

(* Without a topology there is nothing but a message.                       *)
CheckArguments ==
  /\ pc = "args"
  /\ Goto(IF argc < 3 THEN "exit" ELSE "read")
  /\ UNCHANGED k

(* The error is reported and returned, and main goes on to the captures.    *)
ReadFile ==
  /\ pc = "read"
  /\ Goto(IF config.readable THEN "settings" ELSE "parse")
  /\ UNCHANGED k

(* The settings up to the first one that is not as it should be are stored, *)
(* except the name.                                                         *)
StoredBefore(q) == {Lookups[r] : r \in 2 .. q - 1}

(* One that is not there ends it all, and so does one of another type: that *)
(* exception is caught nowhere.                                             *)
Lookup ==
  \/ /\ \A q \in 1 .. 3 : config.settings[Lookups[q]] = "set"
     /\ pc' = "list" /\ parameter' = StoredBefore(4)
  \/ \E q \in 1 .. 3 :
       /\ config.settings[Lookups[q]] # "set"
       /\ \A r \in 1 .. q - 1 : config.settings[Lookups[r]] = "set"
       /\ pc' = IF config.settings[Lookups[q]] = "absent" THEN "exit" ELSE "abort"
       /\ parameter' = StoredBefore(q)

LookupSettings ==
  /\ pc = "settings"
  /\ Lookup
  /\ UNCHANGED <<argc, config, vec_pcapfile, wct, k, entries>>

(* Seeded fault: the captures are parsed from where the list ended.         *)
FirstToParseStale == k

FirstToParse == 1

(* A configuration without pcapfiles is accepted.                           *)
ListDone ==
  /\ pc = "list" /\ (~ config.list \/ k > Len(config.captures))
  /\ k' = FirstToParse
  /\ Goto("parse")

Taken(kind) == kind # "partial"

ListCapture ==
  /\ pc = "list" /\ config.list /\ k <= Len(config.captures)
  /\ IF Taken(config.captures[k])
       THEN /\ vec_pcapfile' = Append(vec_pcapfile, config.captures[k])
            /\ entries' = Append(entries, k)
       ELSE UNCHANGED <<vec_pcapfile, entries>>
  /\ k' = k + 1
  /\ UNCHANGED <<argc, config, parameter, wct, pc>>

(* pcap_open_offline returns no handle for a file that is no capture, and   *)
(* the handle is not checked.                                               *)
ParseForeign ==
  /\ pc = "parse" /\ k <= Len(vec_pcapfile) /\ vec_pcapfile[k] = "foreign"
  /\ Goto("fault")
  /\ UNCHANGED k

(* Only a capture with packets gets its first and last time.                *)
ParseCapture ==
  /\ pc = "parse" /\ k <= Len(vec_pcapfile) /\ vec_pcapfile[k] # "foreign"
  /\ wct' = IF vec_pcapfile[k] = "filled" THEN wct \cup {k} ELSE wct
  /\ k' = k + 1
  /\ UNCHANGED <<argc, config, parameter, vec_pcapfile, pc, entries>>

ParseDone ==
  /\ pc = "parse" /\ k > Len(vec_pcapfile)
  /\ Goto("call")
  /\ UNCHANGED k

(* at(0) throws when no capture was taken, and nothing catches it.          *)
CallFirst == IF vec_pcapfile = <<>> THEN "abort" ELSE "simulate"

CallSimulate ==
  /\ pc = "call"
  /\ Goto(CallFirst)
  /\ UNCHANGED k

Next == \/ CheckArguments \/ ReadFile \/ LookupSettings \/ ListCapture \/ ListDone
        \/ ParseForeign \/ ParseCapture \/ ParseDone \/ CallSimulate

Spec == Init /\ [][Next]_vars

-----------------------------------------------------------------------------
(* Properties.                                                              *)

TypeOK ==
  /\ argc \in 1 .. 4 /\ config \in Configurations
  /\ parameter \subseteq Settings
  /\ vec_pcapfile \in Seq(CaptureKinds \ {"partial"})
  /\ Len(entries) = Len(vec_pcapfile) /\ Len(entries) <= MaxCaptures
  /\ wct \subseteq 1 .. Len(vec_pcapfile)
  /\ k \in 1 .. MaxCaptures + 1
  /\ pc \in {"args", "read", "settings", "list", "parse", "call",
             "simulate", "exit", "abort", "fault"}

(* ns3_simulate never runs on parameters that were not set, nor on a capture *)
(* that no configuration named.                                              *)
ParametersSet ==
  pc = "simulate" =>
    /\ config.readable /\ {"window_size", "num_nodes"} \subseteq parameter
    /\ vec_pcapfile # <<>> /\ config.list

(* The capture that is simulated is the first complete entry of the list,   *)
(* and every complete entry was parsed on the way.                          *)
FirstCompleteEntry ==
  pc = "simulate" =>
    /\ \A e \in 1 .. entries[1] - 1 : config.captures[e] = "partial"
    /\ \A e \in 1 .. Len(config.captures) :
         config.captures[e] # "partial" => \E c \in 1 .. Len(entries) : entries[c] = e
    /\ \A c \in 1 .. Len(vec_pcapfile) : vec_pcapfile[c] = "filled" => c \in wct

(* Although main ignores the results of parse_config and parse_from_file,   *)
(* nothing is simulated but what a configuration asked for: with all of its *)
(* parameters, and on the first complete capture of its list.               *)
SimulatesAsConfigured == ParametersSet /\ FirstCompleteEntry

(* What README.adoc:45, "./clusim default.cfg", shows as the way to simulate *)
(* a capture: a configuration file is all it takes.                          *)
ReadmeCommandSimulates ==
  argc = 2 /\ config.readable /\ config.list /\ config.captures = <<"filled">>
    /\ (\A x \in Settings : config.settings[x] = "set")
  => pc # "exit"
=============================================================================
