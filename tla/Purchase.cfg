\* One buyer, two purchases at once, one product, one provider.
SPECIFICATION Spec
CONSTANTS
  ann = ann
  k1 = k1
  s1 = s1
  s2 = s2
  Users = {ann}
  Keys = {k1, s1, s2}
  Sagas = {s1, s2}
  Requests <- Funding
  Products = {p1}
  Prices = {2}
  OnSale = {"AIRTIME", "DATA", "ELECTRICITY"}
  NumProviders = 1
INVARIANTS
  TypeOK
  OrderAgreesWithSaga
  StrandedOnlyByFault
  GoodsMatchMoney
PROPERTIES
  GoodsAfterMoney
  HeldMoneyMovesOn
CHECK_DEADLOCK TRUE
