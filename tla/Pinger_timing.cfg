SPECIFICATION FairSpec
CONSTANTS
  PingEvery = 30
  CheckAfter = 5
  MaxDelay = 2
  MaxLate = 1
  MaxFlight = 4
INVARIANTS HealthyStaysOpen DeadPeerNoticed

