SPECIFICATION MCSpec
CONSTANTS
  s1 = s1
  s2 = s2
  r1 = r1
  r2 = r2
  r3 = r3
  Users <- MCUsers
  Calls <- MCCalls
  Verdicts <- MCVerdicts
  UserOf <- MCUserOf
  Slots <- MCSlots
  Readers <- MCReaders
  Nothing = Nothing
  MaxRetries = 1
  MaxFaults = 2
SYMMETRY MCSymmetry
INVARIANTS
  TypeOK
  LaggingIsExplained
  VerdictsAreKept
  TopIsServed
CHECK_DEADLOCK FALSE
