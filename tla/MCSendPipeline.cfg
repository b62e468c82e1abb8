SPECIFICATION Spec
CONSTANTS
  r1 = r1
  r2 = r2
  r3 = r3
  Requests = {r1, r2, r3}
  Bodies <- MCBodies
  Keys <- MCKeys
  Max = 2
  Window = 3
  Second = 2
  MaxTime = 4
CHECK_DEADLOCK FALSE
INVARIANTS TypeOK HintIsEnough OneMessage HonestAnswer RightRecipient EnvelopeFits
PROPERTIES KeepsBudget
