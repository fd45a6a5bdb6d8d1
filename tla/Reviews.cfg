SPECIFICATION MCSpec
CONSTANTS
  Durations <- MCDurations
  Users = {u}
  Merchants = {m1, m2}
  Tutors = {t1, t2}
INVARIANTS VerdictIsItsOwn StuckOnlyByFault InsightBounded
PROPERTIES OnlyRacersDuplicate VerdictArrives
CHECK_DEADLOCK FALSE
