SPECIFICATION FairSpec
CONSTANTS
  Calls = {c1}
  Threads = {k1, k2}
  Nonces = {n1, n2, n3}
  NoNonce = NoNonce
  Absent = Absent
  TTL = 1
  MaxTime = 2
  MaxFaults = 2
PROPERTIES
  PaymentsAdmit
  CallsEnd
CHECK_DEADLOCK FALSE
