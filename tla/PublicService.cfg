SPECIFICATION FairSpec
CONSTANTS
  r1 = r1
  r2 = r2
  full = full
  narrow = narrow
  bank = bank
  forged = forged
  NoToken = NoToken
  NoClient = NoClient
  Requests = {r1, r2}
  Calls <- MCCalls
  Grant <- MCGrant
  Configurations <- MCConfigurations
  RequestTimeout = 1
  ShutdownTimeout = 2
  MaxFailures = 1
  LastSecond = 3
CHECK_DEADLOCK FALSE
INVARIANTS
  TypeOK
  ShutdownInterruptsNothing
  ActsForALiveToken
PROPERTIES
  SignalStops
