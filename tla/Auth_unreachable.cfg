\* A connection to Supabase's endpoint fails.
SPECIFICATION Spec
CONSTANTS
  None = None
  q1 = q1  q2 = q2
  Requests = {q1}
  CacheTTL = 2
  MaxFetch = 1
  MaxTime = 5
  MaxKeys = 3
PROPERTIES
  UnreachableIsRefused
