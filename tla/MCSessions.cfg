SPECIFICATION Spec
CONSTANTS
  Ids = {s1}
  Addresses = {a1}
  Logins = {l1, l2}
  Requests = {r1, r2}
  NoId = NoId
  TTL = 2
  MaxFailures = 2
  Window = 2
  Lockout = 3
  MaxTime = 4
SYMMETRY Symmetry
INVARIANTS TypeOK Genuine LockedWithCause GuessesBounded
PROPERTIES NoReturn WithinLimit
