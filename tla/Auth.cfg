\* Two request threads, two keys per issuer.
SPECIFICATION FairSpec
CONSTANTS
  None = None
  q1 = q1  q2 = q2
  Requests = {q1, q2}
  CacheTTL = 2
  MaxFetch = 1
  MaxTime = 5
  MaxKeys = 3
INVARIANTS
  TypeOK
PROPERTIES
  AcceptedKeyIsRecent
  CurrentKeyIsAccepted
  AnsweredOrOvertaken
