\* The promise of the success message, on the same instance.
SPECIFICATION Spec
CONSTANTS
  ann = ann
  k1 = k1
  s1 = s1
  s2 = s2
  Users = {ann}
  Keys = {k1, s1, s2}
  Sagas = {s1, s2}
  Requests <- Funding
  Products = {p1}
  Prices = {2}
  OnSale = {"AIRTIME", "DATA", "ELECTRICITY"}
  NumProviders = 1
INVARIANTS
  SuccessMeansDelivered
CHECK_DEADLOCK TRUE
