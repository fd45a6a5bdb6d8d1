\* Two users, two payments.
SPECIFICATION Spec
CONSTANTS
  ann = ann
  bob = bob
  s1 = s1
  Users = {ann, bob}
  Keys = {p1, p2}
  Sagas = {s1}
  Requests <- NoRequests
  Payments = {p1, p2}
  Groups = {"0a", "0b"}
  GroupsOf <- UserGroups
PROPERTY
  PaidIsCredited
CHECK_DEADLOCK FALSE
