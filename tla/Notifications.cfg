SPECIFICATION Spec
CONSTANTS
  Ann = Ann
  Bob = Bob
  e1 = e1
  e2 = e2
  e3 = e3
  Users <- MCUsers
  Events <- MCEvents
  UserOf <- MCUserOf
  Unhandled <- MCUnhandled
  Tokens = {t1}
  MaxBreaks = 2
INVARIANTS NoneLost InOrder RepeatedOnlyAfterBreak AtMostOneStray
PROPERTY QueueDrains
