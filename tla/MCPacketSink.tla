----------------------------- MODULE MCPacketSink -----------------------------
(* Values of PacketSink's constants for TLC: a sink that reads from accepted *)
(* connections, a socket each, or from one datagram socket.                  *)
EXTENDS PacketSink, TLC

ConnectionSockets == {{q} : q \in Peers}
DatagramSockets   == {Peers}
BothProtocols     == {ConnectionSockets, DatagramSockets}

(* Nothing tells the peers apart. *)
PeerSymmetry == Permutations(Peers)
=============================================================================
