SPECIFICATION ReportFairSpec
CONSTANTS
  NumPhases = 2
  NumQueues = 2
  StopTime = 3
  Lengths = {0, 1, 3}
  Unit = 6
  Leftover = {0, 2}
  MaxUid = 14
INVARIANTS
  TypeOK
  ProbesPointToLiveArrays
  SampledEveryInterval
  SinksOpenUntilTheEnd
  RunningTotalsAgree
  CongestionIsPartial
  ReportedWasSeen
  ReportAgrees
PROPERTY EventuallyPrinted
CHECK_DEADLOCK FALSE
