\* One owner's device under redelivered messages, one request thread,
\* restarts and repository writes that may be performed late.
SPECIFICATION Spec
CONSTANTS
  None = None
  o1 = o1  o2 = o2  d1 = d1  d2 = d2  d3 = d3  p3 = p3  p1 = p1  p2 = p2  c1 = c1  c2 = c2  t1 = t1  t2 = t2
  Owners = {o1}
  Devices = {d1, d2}
  Pairings = {p1, p2}
  Codes = {}
  Threads = {t1}
  Prefixes <- OnePrefix
  Prefix <- SharedPrefix
  Messages <- PhoneMessages
  WriteOutcomes = {"stored", "late"}
  PairingTTL = 1
  MessageTTL = 2
  MaxTime = 1
SYMMETRY MessageSymmetry
INVARIANTS
  AcceptedInOrder
PROPERTIES
  RevocationPermanent
  SequenceLostWithDevice
