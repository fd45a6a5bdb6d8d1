\* One person, whose address Google spells with a capital; two requests at a time.
SPECIFICATION Spec
CONSTANTS
  a = a
  A = A
  b = b
  u = u
  w1 = w1
  w2 = w2
  h1 = h1
  h2 = h2
  None = None
  Emails = {a, A}
  GoogleEmails = {A}
  Lower <- Spelling
  Usernames = {u}
  Passwords = {w1, w2}
  Roles = {r1, r2}
  Codes = {c1}
  Registrations <- SignUps
  Handlers = {h1, h2}
INVARIANTS
  TypeOK
  VerifiedStays
  PendingIsOnFile
SYMMETRY Symmetry
CHECK_DEADLOCK TRUE
