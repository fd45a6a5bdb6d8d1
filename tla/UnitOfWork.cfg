\* Two wallets, one saga, two handlers.
SPECIFICATION Spec
CONSTANTS
  ann = ann
  bob = bob
  k1 = k1
  k2 = k2
  k3 = k3
  k4 = k4
  k5 = k5
  s1 = s1
  NoRequest = NoRequest
  Users = {ann, bob}
  Keys = {k1, k2, k3, k4, k5}
  Sagas = {s1}
  Handlers = {h1, h2}
  Lockable = {ann}
  Requests <- SomeRequests
INVARIANTS
  VersionTestRedundant
PROPERTIES
  ImplementsWallet
  EveryRequestEnds
CHECK_DEADLOCK TRUE
