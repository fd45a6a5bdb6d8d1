SPECIFICATION Spec
CONSTANTS
  Members = {o}
  Owner = o
  Referees = {a, b, c}
  Handlers = {h1, h2}
  MaxUses = 1
  Milestones = {3}
  Moments = {m1, m2}
  MaxDay = 3
INVARIANTS StreakEarned RewardsBounded ReferralsBounded MarkedWasPaid
SYMMETRY Symmetry
