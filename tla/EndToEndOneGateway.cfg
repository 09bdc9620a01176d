SPECIFICATION FairSpec
CONSTANTS
  house = house
  mppt = mppt
  m1 = m1
  m2 = m2
  Devices <- MCDevices
  Macs = {m1, m2}
  OnlineTimeout = 2
  Never = Never
  Keys = {1, 2}
  Malformed = Malformed
  MaxCount = 0
  NotAMac = NotAMac
  NoFile = NoFile
  Compiled <- MCCompiled
  Texts <- MCTexts
  Gateways = {g1}
  Capacity = 2
  Claimable = 2
  MaxHeard = 4
INVARIANTS
  SettledIsNewest
  AllowlistInForce
  RunningOrErrorShown
PROPERTY LatestReadingsShown
