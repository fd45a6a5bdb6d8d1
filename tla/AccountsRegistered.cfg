\* Two people sign up with the same username.
SPECIFICATION Spec
CONSTANTS
  a = a
  A = A
  b = b
  u = u
  w1 = w1
  w2 = w2
  h1 = h1
  h2 = h2
  None = None
  Emails = {a, b}
  GoogleEmails = {b}
  Lower <- Spelling
  Usernames = {u}
  Passwords = {w1, w2}
  Roles = {r1}
  Codes = {c1}
  Registrations <- SignUps
  Handlers = {h1, h2}
INVARIANT
  RegisteredHasAccount
SYMMETRY Symmetry
CHECK_DEADLOCK TRUE
