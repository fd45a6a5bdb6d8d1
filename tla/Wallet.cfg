\* Two wallets, one saga, two handlers.
SPECIFICATION Spec
CONSTANTS
  ann = ann
  bob = bob
  k1 = k1
  k2 = k2
  k3 = k3
  k4 = k4
  k5 = k5
  k6 = k6
  s1 = s1
  Users = {ann, bob}
  Keys = {k1, k2, k3, k4, k5, k6}
  Sagas = {s1}
  Handlers = {h1, h2}
  NoRequest = NoRequest
  Requests <- SomeRequests
INVARIANTS
  TypeOK
  NonNegativeBalance
  LedgerReconciles
  KeyRecordedOnce
  SagaAgrees
  AckedHasEffect
  MoneyConserved
PROPERTIES
  LockedWalletFrozen
  SagaOutcomeIsFinal
  ImplementsBank
CHECK_DEADLOCK TRUE
