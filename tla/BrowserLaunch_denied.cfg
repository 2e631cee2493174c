\* The message shown when a request fails.
SPECIFICATION Spec
CONSTANTS
  r1 = r1  r2 = r2
  Runs = {r1}
  Outcomes <- MCOutcomes
  Attempts = 2
INVARIANTS
  DeniedBeforeCommand
