SPECIFICATION Spec
CONSTANTS
  c1 = c1
  c2 = c2
  Callers = {c1, c2}
  Burst = 2
  Cost = 2
  TokenTtl = 4
  Windows <- MCWindows
  Second = 2
  Timeout = 2
  MaxSleep = 2
  MaxTime = 8
SYMMETRY Symmetry
INVARIANTS TypeOK RateBounded CalendarCaps SlidingCaps
