\* Two enrolments of one owner when the table may perform a write after the
\* client gave up on it.
SPECIFICATION Spec
CONSTANTS
  None = None
  o1 = o1  o2 = o2  d1 = d1  d2 = d2  d3 = d3  p3 = p3  p1 = p1  p2 = p2  c1 = c1  c2 = c2  t1 = t1  t2 = t2
  Owners = {o1}
  Devices = {d1, d2}
  Pairings = {p1, p2}
  Codes = {}
  Threads = {}
  Prefixes <- OnePrefix
  Prefix <- SharedPrefix
  Messages <- NoMessages
  WriteOutcomes = {"stored", "rejected", "unacked", "late"}
  PairingTTL = 1
  MessageTTL = 1
  MaxTime = 1
INVARIANTS
  OneActiveDevice
