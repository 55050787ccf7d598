\* Two overlapping checks of one tenant, and nothing else.
CONSTANTS
  Workers = {w1, w2}
  Seed = 3
  Low = 2
  Charges = {1, 2}
  Amounts = {2}
  MaxCharges = 2
  MaxPaid = 0
  MaxScans = 0
  MaxStops = 0
SPECIFICATION CreditsSpec
CHECK_DEADLOCK FALSE
INVARIANTS
  OneNotice
