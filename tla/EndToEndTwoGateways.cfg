SPECIFICATION Spec
CONSTANTS
  house = house
  mppt = mppt
  m1 = m1
  m2 = m2
  Devices <- MCDevices
  Macs = {m1, m2}
  OnlineTimeout = 2
  Never = Never
  Keys = {1, 2}
  Malformed = Malformed
  MaxCount = 0
  NotAMac = NotAMac
  NoFile = NoFile
  Compiled <- MCCompiled
  Texts = {}
  Gateways = {g1, g2}
  Capacity = 2
  Claimable = 2
  MaxHeard = 3
INVARIANT SettledIsNewest
