\* Two launches offered in one page, with restarts and lost requests.
SPECIFICATION TwoFlows
CONSTANTS
  r1 = r1  r2 = r2
  Runs = {r1, r2}
  Outcomes <- MCOutcomes
  Attempts = 3
INVARIANTS
  TypeOK
  OutcomeShownHappened
  DeclinedNeverLaunches
  DeniedUnlessLost
PROPERTIES
  FlowConcludes
