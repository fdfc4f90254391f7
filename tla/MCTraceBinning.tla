--------------------------- MODULE MCTraceBinning ---------------------------
(* Values of TraceBinning's constants for TLC: captures between two hosts,  *)
(* phases of three seconds, half-second timestamps.                         *)
EXTENDS TraceBinning

Flow(s, d, len, t) == [src |-> s, dst |-> d, payload |-> len, ts |-> t]

(* Captures in time order, of up to three packets between the hosts over    *)
(* ten seconds: long enough for phases whose bounds are inverted.           *)
ClusterPackets(times) ==
  {Flow(s, 5 - s, len, t) : s \in {2, 3}, len \in {AckLen, 43}, t \in times}

ClusterTraces ==
  UNION {
    {<<a, b>> : a \in ClusterPackets({0, 1}), b \in ClusterPackets(1 .. 20)},
    {t \in {<<a, b, c>> : a \in ClusterPackets({0, 1}),
                          b \in ClusterPackets({3, 6, 7, 8, 14, 15, 16}),
                          c \in ClusterPackets({6, 7, 8, 9, 11, 15, 16, 18, 20})}
       : t[2].ts <= t[3].ts}}

(* Any capture of up to two packets: no packet at all, the gateway's        *)
(* address, a third machine, a clock that steps back by a second or more, a *)
(* very long pause.                                                         *)
AnyPackets == {Flow(s, d, len, t) : s \in 1 .. 2, d \in 1 .. 4,
                                    len \in {AckLen, 43}, t \in {0, 5, 7, 40}}
AnyTraces == {<<>>} \cup {<<a>> : a \in AnyPackets}
               \cup {<<a, b>> : a, b \in AnyPackets}

Captures == ClusterTraces \cup AnyTraces

(* Captures of eight seconds and more whose second packet was sent in the   *)
(* second between two phases.                                               *)
GapTraces ==
  {t \in ClusterTraces : /\ Len(t) = 3 /\ t[2].ts \div Tick \in {3, 7}
                         /\ t[3].ts >= 8 * Tick}

(* The README's session with four hosts: the login from the bridge's address *)
(* to host 2 and the answers to it, before or amid the hosts' own traffic.   *)
Login(t)  == <<Flow(1, 2, 74, t), Flow(2, 1, 74, t), Flow(1, 2, AckLen, t + 1)>>
SshTraces == {Login(0) \o <<Flow(2, 3, 43, 5)>>,
              <<Flow(3, 5, 43, 0)>> \o Login(2) \o <<Flow(2, 3, 43, 5)>>}
=============================================================================
