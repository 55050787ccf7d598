SPECIFICATION Spec
CONSTANTS
  Calls = {c1, c2}
  Threads = {k1, k2}
  Nonces = {n1, n2, n3}
  NoNonce = NoNonce
  Absent = Absent
  TTL = 1
  MaxTime = 2
  MaxFaults = 2
SYMMETRY Symmetry
INVARIANTS
  TypeOK
  HeldOnce
  ServedForOwnPayment
PROPERTIES
  PurgeKeepsLive
  ImplementsOneShot
CHECK_DEADLOCK FALSE
