SPECIFICATION Spec
CONSTANTS
  house = house
  mppt = mppt
  m1 = m1
  m2 = m2
  m3 = m3
  m4 = m4
  Devices <- MCDevices
  Macs = {m1, m2, m3, m4}
  OnlineTimeout = 1
  Never = Never
  Keys = {1, 2}
  Malformed = Malformed
  MaxCount = 4
  Heard <- MCHeard
  ClockSteps <- BackAndForth
  MaxElapsed = 2
  MaxHeard = 3
INVARIANTS
  TypeOK
  LastReadingKept
  OnlineTracksReadings
  ErrorTellsLastReadout
  CountersMatchStates
PROPERTY PublishesFreshOnly
