\* Two clients, two goroutines; time to trip, reset and expire several times.
SPECIFICATION GatewaySpec
CONSTANTS
  Goroutines = {h1, h2}
  Clients = {ann, bob}
  MaxRequests = 2
  Window = 2
  MaxFailures = 2
  ResetTimeout = 2
  HalfOpenMax = 3
  MaxPerTick = 2
INVARIANTS
  SlidingWindowBound
PROPERTIES
  NeverShutForGood
CHECK_DEADLOCK TRUE
