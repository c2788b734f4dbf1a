\* Two keys, two admissions in three instants, more than two windows of time.
SPECIFICATION Spec
CONSTANTS
  k1 = k1
  k2 = k2
  Key <- MCKey
  Window = 3
  MaxAttempts = 2
  MaxTime = 8
  MaxTotal = 6
SYMMETRY Symmetry
INVARIANTS LimiterTypeOK WindowBound RefusedOnlyWhenFull
