SPECIFICATION Spec
CONSTANTS
  Peers = {p1, p2, p3, p4}
  None = None
  Protocols <- BothProtocols
  Colo = 3
  MaxTime = 4
  MaxPackets = 6
SYMMETRY PeerSymmetry
INVARIANTS
  EntriesDistinct
  EntriesUpToDate
  EveryPeerRecorded
  OverrunOnlyWhenFull
  LatencyIsOfAllFlows
CHECK_DEADLOCK FALSE
