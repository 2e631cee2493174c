\* The status shown after a receipt.
SPECIFICATION Spec
CONSTANTS
  None = None
  r1 = r1  r2 = r2  d1 = d1  d2 = d2  a1 = a1  a2 = a2  k1 = k1  k2 = k2
  Runs = {r1}
  Devices = {d1}
  Approvers = {a1}
  Receivers = {k1}
  TTL = 1
  MaxTime = 2
INVARIANTS
  DispatchedAwaitsReceipt
