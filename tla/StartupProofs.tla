---------------------------- MODULE StartupProofs ----------------------------
(***************************************************************************)
(* The way to ns3_simulate, proved for lists of captures of any length:    *)
(* although no failure stops main, only what a configuration asks for is   *)
(* simulated, with all of its parameters.                                  *)
(***************************************************************************)
EXTENDS Startup, TLAPS

Needed == {"window_size", "num_nodes"}

(* Before the list is reached nothing was taken; a capture is only taken    *)
(* from a list, which is reached with the parameters set.                   *)
Provenance ==
  /\ pc \in {"read", "settings", "args"} => entries = <<>> /\ k = 1
  /\ pc = "settings" => config.readable
  /\ pc = "list" => config.readable /\ Needed \subseteq parameter
  /\ entries # <<>> => config.readable /\ config.list /\ Needed \subseteq parameter
  /\ pc = "simulate" => entries # <<>>

(* Entries of the list that were looked at.                                 *)
Seen == CASE pc = "list" -> 1 .. k - 1
          [] pc \in {"parse", "call", "simulate"} /\ entries # <<>> ->
               1 .. Len(config.captures)
          [] OTHER -> {}

(* The captures taken are the complete ones among those, in order.          *)
ListInv ==
  /\ \A c \in 1 .. Len(entries) :
       /\ entries[c] \in 1 .. Len(config.captures)
       /\ vec_pcapfile[c] = config.captures[entries[c]]
       /\ pc = "list" => entries[c] < k
  /\ \A c, d \in 1 .. Len(entries) : c < d => entries[c] < entries[d]
  /\ \A e \in Seen : Taken(config.captures[e]) => \E c \in 1 .. Len(entries) : entries[c] = e
  /\ pc = "list" => k <= Len(config.captures) + 1 /\ Len(entries) < k

(* Captures before the next one were parsed.                                *)
ParseInv ==
  \A c \in 1 .. Len(vec_pcapfile) :
    /\ vec_pcapfile[c] = "filled"
    /\ (pc = "parse" /\ c < k) \/ pc \in {"call", "simulate"}
    => c \in wct

StartInv == TypeOK /\ Provenance /\ ListInv /\ ParseInv

(* A configuration lists at most MaxCaptures captures.                      *)
LEMMA ConfigurationTypes ==
  ASSUME config \in Configurations
  PROVE  /\ config.captures \in Seq(CaptureKinds)
         /\ Len(config.captures) \in 0 .. MaxCaptures
         /\ config.readable \in BOOLEAN /\ config.list \in BOOLEAN
<1>1. PICK len \in 0 .. MaxCaptures : config.captures \in [1 .. len -> CaptureKinds]
  BY DEF Configurations
<1>2. len \in Nat /\ Len(config.captures) = len /\ config.captures \in Seq(CaptureKinds)
  BY <1>1, MaxCapturesAssumption
<1> QED BY <1>2 DEF Configurations

(* entries is a sequence of numbers as long as vec_pcapfile.                *)
EntriesType == entries \in Seq(Nat)

LEMMA StartInitially == Init => StartInv /\ EntriesType
<1> SUFFICES ASSUME Init PROVE StartInv /\ EntriesType
  OBVIOUS
<1>1. entries = <<>> /\ vec_pcapfile = <<>> /\ Len(entries) = 0 /\ Len(vec_pcapfile) = 0
  BY DEF Init
<1>2. MaxCaptures \in Nat
  BY MaxCapturesAssumption
<1>3. TypeOK
  BY <1>1, <1>2 DEF Init, TypeOK
<1>4. Provenance /\ EntriesType
  BY <1>1 DEF Init, Provenance, EntriesType
<1>5. Seen = {}
  BY DEF Init, Seen
<1>6. ListInv /\ ParseInv
  BY <1>1, <1>5 DEF Init, ListInv, ParseInv
<1> QED BY <1>3, <1>4, <1>6 DEF StartInv

LEMMA StartStep == StartInv /\ EntriesType /\ [Next]_vars => (StartInv /\ EntriesType)'
<1> SUFFICES ASSUME StartInv, EntriesType, [Next]_vars PROVE StartInv' /\ EntriesType'
  OBVIOUS
<1>0. /\ MaxCaptures \in Nat /\ k \in Nat /\ Len(entries) \in Nat
      /\ Len(entries) = Len(vec_pcapfile) /\ Len(entries) <= MaxCaptures
      /\ config \in Configurations
  BY MaxCapturesAssumption DEF StartInv, TypeOK, EntriesType
<1>c. /\ config.captures \in Seq(CaptureKinds)
      /\ Len(config.captures) \in 0 .. MaxCaptures
      /\ config.readable \in BOOLEAN /\ config.list \in BOOLEAN
  BY <1>0, ConfigurationTypes
<1>e. entries = <<>> <=> Len(entries) = 0
  BY DEF EntriesType
<1>1. CASE CheckArguments
  <2>1. TypeOK' /\ EntriesType'
    BY <1>1 DEF CheckArguments, Goto, StartInv, TypeOK, EntriesType
  <2>2. /\ pc' \in {"exit", "read"} /\ pc = "args" /\ UNCHANGED entries
        /\ entries = <<>> /\ k = 1
    BY <1>1 DEF CheckArguments, Goto, StartInv, Provenance
  <2>3. Provenance'
    BY <1>1, <2>2 DEF CheckArguments, Goto, Provenance
  <2>4. Seen' = {} /\ Len(entries') = 0
    BY <2>2 DEF Seen
  <2>5. ListInv' /\ ParseInv'
    BY <2>2, <2>4 DEF ListInv, ParseInv
  <2> QED BY <2>1, <2>3, <2>5 DEF StartInv
<1>2. CASE ReadFile
  <2>1. TypeOK' /\ EntriesType'
    BY <1>2 DEF ReadFile, Goto, StartInv, TypeOK, EntriesType
  <2>2. /\ pc' \in {"settings", "parse"} /\ pc = "read" /\ UNCHANGED <<k, entries>>
        /\ entries = <<>> /\ k = 1
    BY <1>2 DEF ReadFile, Goto, StartInv, Provenance
  <2>3. Provenance'
    BY <1>2, <2>2 DEF ReadFile, Goto, Provenance
  <2>4. Seen' = {} /\ Len(entries') = 0 /\ Len(vec_pcapfile') = 0
    BY <1>0, <1>e, <1>2, <2>2 DEF Seen, ReadFile, Goto
  <2>5. ListInv' /\ ParseInv'
    BY <2>2, <2>4 DEF ListInv, ParseInv
  <2> QED BY <2>1, <2>3, <2>5 DEF StartInv
<1>3. CASE LookupSettings
  <2>0. /\ \A q \in 1 .. 4 : StoredBefore(q) \subseteq Settings
        /\ Needed \subseteq StoredBefore(4)
    <3>1. /\ Lookups[1] = "name" /\ Lookups[2] = "window_size" /\ Lookups[3] = "num_nodes"
      BY DEF Lookups
    <3>2. \A q \in 1 .. 4 : \A r \in 2 .. q - 1 : r = 2 \/ r = 3
      OBVIOUS
    <3>3. 2 \in 2 .. 4 - 1 /\ 3 \in 2 .. 4 - 1
      OBVIOUS
    <3> QED BY <3>1, <3>2, <3>3 DEF StoredBefore, Settings, Needed
  <2>l. /\ pc' \in {"list", "exit", "abort"} /\ \E q \in 1 .. 4 : parameter' = StoredBefore(q)
        /\ pc' = "list" => parameter' = StoredBefore(4)
    BY <1>3 DEF LookupSettings, Lookup
  <2>1. TypeOK' /\ EntriesType'
    BY <1>3, <2>0, <2>l DEF LookupSettings, StartInv, TypeOK, EntriesType
  <2>2. /\ pc' \in {"list", "exit", "abort"} /\ pc = "settings"
        /\ UNCHANGED <<k, entries, config>> /\ entries = <<>> /\ k = 1
        /\ pc' = "list" => Needed \subseteq parameter'
    BY <1>3, <2>0, <2>l DEF LookupSettings, StartInv, Provenance
  <2>3. config.readable
    BY <2>2 DEF StartInv, Provenance
  <2>4. Provenance'
    BY <2>2, <2>3 DEF Provenance
  <2>5. Seen' = {} /\ Len(entries') = 0 /\ Len(vec_pcapfile') = 0
    BY <1>0, <1>e, <1>3, <2>2 DEF Seen, LookupSettings
  <2>6. ListInv' /\ ParseInv'
    BY <1>c, <2>2, <2>5 DEF ListInv, ParseInv
  <2> QED BY <2>1, <2>4, <2>6 DEF StartInv
<1>4. CASE ListCapture
  <2>1. /\ pc = "list" /\ UNCHANGED <<config, parameter, pc, wct>> /\ config.list
        /\ k' = k + 1 /\ k \in 1 .. Len(config.captures)
        /\ config.captures[k] \in CaptureKinds /\ Len(entries) < k
    BY <1>0, <1>c, <1>4 DEF ListCapture, StartInv, TypeOK, ListInv
  <2>2. Provenance'
    BY <2>1 DEF StartInv, Provenance
  <2>3. Seen = 1 .. k - 1 /\ Seen' = 1 .. k
    BY <1>0, <2>1 DEF Seen
  <2>4. CASE Taken(config.captures[k])
    <3>1. /\ vec_pcapfile' = Append(vec_pcapfile, config.captures[k])
          /\ entries' = Append(entries, k)
      BY <1>4, <2>4 DEF ListCapture
    <3>2. vec_pcapfile \in Seq(CaptureKinds \ {"partial"}) /\ entries \in Seq(Nat)
      BY DEF StartInv, TypeOK, EntriesType
    <3>3. /\ Len(entries') = Len(entries) + 1 /\ entries'[Len(entries) + 1] = k
          /\ \A c \in 1 .. Len(entries) : entries'[c] = entries[c]
          /\ entries' \in Seq(Nat)
      BY <1>0, <3>1, <3>2
    <3>4. /\ Len(vec_pcapfile') = Len(entries) + 1
          /\ vec_pcapfile'[Len(entries) + 1] = config.captures[k]
          /\ \A c \in 1 .. Len(entries) : vec_pcapfile'[c] = vec_pcapfile[c]
          /\ vec_pcapfile' \in Seq(CaptureKinds \ {"partial"})
      BY <1>0, <2>1, <2>4, <3>1, <3>2 DEF Taken
    <3>5. TypeOK'
      <4>1. wct' \subseteq 1 .. Len(vec_pcapfile')
        BY <1>0, <2>1, <3>4 DEF StartInv, TypeOK
      <4>2. Len(entries') <= MaxCaptures /\ k' \in 1 .. MaxCaptures + 1
        BY <1>0, <1>c, <2>1, <3>3
      <4> QED BY <1>4, <3>3, <3>4, <4>1, <4>2 DEF ListCapture, StartInv, TypeOK
    <3>6. ListInv'
      <4> DEFINE Last == Len(entries) + 1
      <4>0. /\ \A c \in 1 .. Len(entries') : c \in 1 .. Len(entries) \/ c = Last
            /\ \A c \in 1 .. Len(entries) : c \in 1 .. Len(entries')
            /\ Last \in 1 .. Len(entries') /\ entries'[Last] = k
            /\ vec_pcapfile'[Last] = config.captures[k]
        BY <1>0, <3>3, <3>4
      <4>a. \A c \in 1 .. Len(entries) :
               /\ entries[c] \in 1 .. Len(config.captures)
               /\ vec_pcapfile[c] = config.captures[entries[c]]
               /\ entries[c] < k /\ entries[c] \in Nat
        BY <1>c, <2>1 DEF StartInv, ListInv
      <4>b. \A c, d \in 1 .. Len(entries) : c < d => entries[c] < entries[d]
        BY DEF StartInv, ListInv
      <4> HIDE DEF Last
      <4>1. \A c \in 1 .. Len(entries') :
               /\ entries'[c] \in 1 .. Len(config.captures)
               /\ vec_pcapfile'[c] = config.captures[entries'[c]]
               /\ entries'[c] < k'
        <5> TAKE c \in 1 .. Len(entries')
        <5>1. CASE c = Last
          BY <1>0, <2>1, <4>0, <5>1
        <5>2. CASE c \in 1 .. Len(entries)
          <6>1. entries'[c] = entries[c] /\ vec_pcapfile'[c] = vec_pcapfile[c]
            BY <3>3, <3>4, <5>2
          <6>2. entries[c] < k + 1
            BY <1>0, <4>a, <5>2
          <6> QED BY <2>1, <4>a, <5>2, <6>1, <6>2
        <5> QED BY <4>0, <5>1, <5>2
      <4>2. \A c, d \in 1 .. Len(entries') : c < d => entries'[c] < entries'[d]
        <5> SUFFICES ASSUME NEW c \in 1 .. Len(entries'), NEW d \in 1 .. Len(entries'), c < d
                     PROVE  entries'[c] < entries'[d]
          OBVIOUS
        <5>1. c \in 1 .. Len(entries)
          BY <1>0, <3>3
        <5>2. CASE d = Last
          BY <3>3, <4>0, <4>a, <5>1, <5>2
        <5>3. CASE d \in 1 .. Len(entries)
          BY <3>3, <4>b, <5>1, <5>3
        <5> QED BY <4>0, <5>2, <5>3
      <4>3. \A e \in Seen' : Taken(config.captures[e]) =>
               \E c \in 1 .. Len(entries') : entries'[c] = e
        <5> SUFFICES ASSUME NEW e \in Seen', Taken(config.captures[e])
                     PROVE  \E c \in 1 .. Len(entries') : entries'[c] = e
          OBVIOUS
        <5>1. CASE e = k
          BY <4>0, <5>1
        <5>2. CASE e # k
          <6>1. e \in Seen
            BY <1>0, <2>3, <5>2
          <6>2. PICK c \in 1 .. Len(entries) : entries[c] = e
            BY <6>1 DEF StartInv, ListInv
          <6>3. c \in 1 .. Len(entries') /\ entries'[c] = e
            BY <3>3, <4>0, <6>2
          <6> QED BY <6>3
        <5> QED BY <5>1, <5>2
      <4>4. k' <= Len(config.captures) + 1 /\ Len(entries') < k'
        BY <1>0, <1>c, <2>1, <3>3
      <4> QED BY <2>1, <4>1, <4>2, <4>3, <4>4 DEF ListInv
    <3>7. ParseInv'
      BY <2>1 DEF ParseInv
    <3> QED BY <2>2, <3>3, <3>5, <3>6, <3>7 DEF StartInv, EntriesType
  <2>5. CASE ~ Taken(config.captures[k])
    <3>1. UNCHANGED <<vec_pcapfile, entries>>
      BY <1>4, <2>5 DEF ListCapture
    <3>2. k' \in 1 .. MaxCaptures + 1
      BY <1>0, <1>c, <2>1
    <3>3. TypeOK' /\ EntriesType'
      BY <1>4, <3>1, <3>2 DEF ListCapture, StartInv, TypeOK, EntriesType
    <3>4. \A e \in Seen' : Taken(config.captures[e]) =>
             \E c \in 1 .. Len(entries) : entries[c] = e
      <4> TAKE e \in Seen'
      <4>1. e # k => e \in Seen
        BY <1>0, <2>3
      <4> QED BY <2>5, <4>1 DEF StartInv, ListInv
    <3>5. \A c \in 1 .. Len(entries) : entries[c] < k'
      BY <1>0, <1>c, <2>1 DEF StartInv, ListInv
    <3>6. k' <= Len(config.captures) + 1 /\ Len(entries) < k'
      BY <1>0, <1>c, <2>1
    <3>7. ListInv'
      BY <2>1, <3>1, <3>4, <3>5, <3>6 DEF StartInv, ListInv
    <3>8. ParseInv'
      BY <2>1 DEF ParseInv
    <3> QED BY <2>2, <3>3, <3>7, <3>8 DEF StartInv
  <2> QED BY <2>4, <2>5
<1>5. CASE ListDone
  <2>1. /\ pc = "list" /\ pc' = "parse" /\ k' = 1
        /\ UNCHANGED <<argc, config, parameter, vec_pcapfile, wct, entries>>
        /\ ~ config.list \/ k > Len(config.captures)
    BY <1>5 DEF ListDone, Goto, FirstToParse
  <2>2. TypeOK' /\ EntriesType'
    BY <1>0, <2>1 DEF StartInv, TypeOK, EntriesType
  <2>3. Provenance'
    BY <2>1 DEF StartInv, Provenance
  <2>4. \A e \in Seen' : e \in Seen
    <3>1. CASE entries = <<>>
      BY <2>1, <3>1 DEF Seen
    <3>2. CASE entries # <<>>
      <4>1. k = Len(config.captures) + 1
        BY <1>0, <1>c, <2>1, <3>2 DEF StartInv, Provenance, ListInv
      <4> QED BY <1>0, <1>c, <2>1, <3>2, <4>1 DEF Seen
    <3> QED BY <3>1, <3>2
  <2>5. ListInv'
    BY <2>1, <2>4 DEF StartInv, ListInv
  <2>6. ParseInv'
    BY <2>1 DEF ParseInv
  <2> QED BY <2>2, <2>3, <2>5, <2>6 DEF StartInv
<1>6. CASE ParseForeign
  <2>1. pc = "parse" /\ pc' = "fault" /\ UNCHANGED <<argc, config, parameter, vec_pcapfile, wct, entries, k>>
    BY <1>6 DEF ParseForeign, Goto
  <2>2. TypeOK' /\ EntriesType'
    BY <2>1 DEF StartInv, TypeOK, EntriesType
  <2>3. Provenance' /\ ParseInv' /\ Seen' = {}
    BY <2>1 DEF StartInv, Provenance, ParseInv, Seen
  <2>4. ListInv'
    BY <2>1, <2>3 DEF StartInv, ListInv
  <2> QED BY <2>2, <2>3, <2>4 DEF StartInv
<1>7. CASE ParseCapture
  <2>1. /\ pc = "parse" /\ k \in 1 .. Len(vec_pcapfile) /\ k' = k + 1
        /\ wct' = IF vec_pcapfile[k] = "filled" THEN wct \cup {k} ELSE wct
        /\ UNCHANGED <<argc, config, parameter, vec_pcapfile, pc, entries>>
    BY <1>0, <1>7 DEF ParseCapture, StartInv, TypeOK
  <2>2. k' \in 1 .. MaxCaptures + 1 /\ wct' \subseteq 1 .. Len(vec_pcapfile)
    BY <1>0, <2>1 DEF StartInv, TypeOK
  <2>3. TypeOK' /\ EntriesType'
    BY <2>1, <2>2 DEF StartInv, TypeOK, EntriesType
  <2>4. Provenance' /\ Seen' = Seen
    BY <2>1 DEF StartInv, Provenance, Seen
  <2>5. ListInv'
    BY <2>1, <2>4 DEF StartInv, ListInv
  <2>6. ParseInv'
    <3> SUFFICES ASSUME NEW c \in 1 .. Len(vec_pcapfile), vec_pcapfile[c] = "filled", c < k'
                 PROVE  c \in wct'
      BY <2>1 DEF ParseInv
    <3>1. c = k \/ c < k
      BY <1>0, <2>1
    <3> QED BY <2>1, <3>1 DEF StartInv, ParseInv
  <2> QED BY <2>3, <2>4, <2>5, <2>6 DEF StartInv
<1>8. CASE ParseDone
  <2>1. /\ pc = "parse" /\ pc' = "call" /\ k > Len(vec_pcapfile)
        /\ UNCHANGED <<argc, config, parameter, vec_pcapfile, wct, entries, k>>
    BY <1>8 DEF ParseDone, Goto
  <2>2. TypeOK' /\ EntriesType'
    BY <2>1 DEF StartInv, TypeOK, EntriesType
  <2>3. Provenance' /\ Seen' = Seen
    BY <2>1 DEF StartInv, Provenance, Seen
  <2>4. ListInv'
    BY <2>1, <2>3 DEF StartInv, ListInv
  <2>5. ParseInv'
    BY <1>0, <2>1 DEF StartInv, ParseInv
  <2> QED BY <2>2, <2>3, <2>4, <2>5 DEF StartInv
<1>9. CASE CallSimulate
  <2>1. /\ pc = "call" /\ pc' \in {"abort", "simulate"}
        /\ UNCHANGED <<argc, config, parameter, vec_pcapfile, wct, entries, k>>
    BY <1>9 DEF CallSimulate, CallFirst, Goto
  <2>2. TypeOK' /\ EntriesType'
    BY <2>1 DEF StartInv, TypeOK, EntriesType
  <2>3. pc' = "simulate" => entries # <<>>
    <3>1. vec_pcapfile = <<>> <=> Len(vec_pcapfile) = 0
      BY DEF StartInv, TypeOK
    <3> QED BY <1>0, <1>e, <1>9, <3>1 DEF CallSimulate, CallFirst, Goto
  <2>4. Provenance' /\ \A e \in Seen' : e \in Seen
    BY <2>1, <2>3 DEF StartInv, Provenance, Seen
  <2>5. ListInv'
    BY <2>1, <2>4 DEF StartInv, ListInv
  <2>6. ParseInv'
    BY <2>1 DEF StartInv, ParseInv
  <2> QED BY <2>2, <2>4, <2>5, <2>6 DEF StartInv
<1>10. CASE UNCHANGED vars
  BY <1>10 DEF vars, StartInv, TypeOK, Provenance, ListInv, ParseInv, Seen, EntriesType
<1> QED
  BY <1>1, <1>2, <1>3, <1>4, <1>5, <1>6, <1>7, <1>8, <1>9, <1>10 DEF Next

LEMMA StartInvariant == Spec => [](StartInv /\ EntriesType)
BY StartInitially, StartStep, PTL DEF Spec

(* Types: however long the list, no index leaves vec_pcapfile.              *)
THEOREM StartTypes == Spec => []TypeOK
<1>1. StartInv /\ EntriesType => TypeOK
  BY DEF StartInv
<1> QED BY <1>1, StartInvariant, PTL

(* SimulatesAsConfigured: main ignores what parse_config and                *)
(* parse_from_file return, but reaches ns3_simulate only by way of a        *)
(* configuration that has all that is needed, with its first complete       *)
(* capture and the times of every capture that has packets.                 *)
THEOREM ConfiguredOnly == Spec => []SimulatesAsConfigured
<1>1. StartInv /\ EntriesType => SimulatesAsConfigured
  <2> SUFFICES ASSUME StartInv, EntriesType, pc = "simulate"
               PROVE  SimulatesAsConfigured
    BY DEF SimulatesAsConfigured, ParametersSet, FirstCompleteEntry
  <2>1. /\ entries # <<>> /\ config.readable /\ config.list
        /\ {"window_size", "num_nodes"} \subseteq parameter
    BY DEF StartInv, Provenance, Needed
  <2>2. /\ Len(entries) \in Nat /\ Len(entries) > 0
        /\ Len(vec_pcapfile) = Len(entries) /\ vec_pcapfile # <<>>
    BY <2>1 DEF StartInv, TypeOK, EntriesType
  <2>3. ParametersSet
    BY <2>1, <2>2 DEF ParametersSet
  <2>4. Seen = 1 .. Len(config.captures)
    BY <2>1 DEF Seen
  <2>5. 1 \in 1 .. Len(entries) /\ entries[1] \in 1 .. Len(config.captures)
    BY <2>2 DEF StartInv, ListInv
  <2>6. Len(config.captures) \in Nat
    BY ConfigurationTypes DEF StartInv, TypeOK
  <2>7. \A e \in 1 .. Len(config.captures) :
          config.captures[e] # "partial" => \E c \in 1 .. Len(entries) : entries[c] = e
    BY <2>4 DEF StartInv, ListInv, Taken
  <2>8. \A e \in 1 .. entries[1] - 1 : config.captures[e] = "partial"
    <3> SUFFICES ASSUME NEW e \in 1 .. entries[1] - 1, config.captures[e] # "partial"
                 PROVE  FALSE
      OBVIOUS
    <3>1. e \in 1 .. Len(config.captures) /\ e < entries[1]
      BY <2>5, <2>6
    <3>2. PICK c \in 1 .. Len(entries) : entries[c] = e
      BY <2>7, <3>1
    <3>3. c = 1 \/ 1 < c
      BY <2>2
    <3>4. 1 < c => entries[1] < entries[c]
      BY <2>5 DEF StartInv, ListInv
    <3> QED BY <2>5, <3>1, <3>2, <3>3, <3>4
  <2>9. \A c \in 1 .. Len(vec_pcapfile) : vec_pcapfile[c] = "filled" => c \in wct
    BY DEF StartInv, ParseInv
  <2> QED BY <2>3, <2>7, <2>8, <2>9 DEF SimulatesAsConfigured, FirstCompleteEntry
<1> QED BY <1>1, StartInvariant, PTL
=============================================================================
