\* One run, its approval raced on both routes, two devices of the owner, a
\* receipt sent again while an earlier copy is verified, and restarts.
SPECIFICATION Spec
CONSTANTS
  None = None
  r1 = r1  r2 = r2  d1 = d1  d2 = d2  a1 = a1  a2 = a2  k1 = k1  k2 = k2
  Runs = {r1}
  Devices = {d1, d2}
  Approvers = {a1, a2}
  Receivers = {k1, k2}
  TTL = 1
  MaxTime = 2
SYMMETRY Symmetry
INVARIANTS
  TypeOK
  OneCommandPerConsent
  HandedOutOnce
  OneReceiptPerCommand
  OutcomeIsThePhones
  ToolApprovalNeverDispatches
  DirectCommandNeverDispatches
  StaleBindingNotHandedOut
PROPERTIES
  CancellationHolds
  ImplementsConsent
