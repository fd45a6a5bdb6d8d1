SPECIFICATION Spec
CONSTANTS
  Absent = {u, v}
  IdleAfter = 2
  QuietFor = 1
  Owners = {o}
  Handlers = {h1, h2}
  MaxFailures = 1
INVARIANTS KeptOnce
PROPERTIES RemindersAreDue
SYMMETRY Symmetry
