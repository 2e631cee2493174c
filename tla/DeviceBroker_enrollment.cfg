\* Two owners race their pairings, codes and enrolments through failing
\* repository writes and restarts; no device messages.
SPECIFICATION Spec
CONSTANTS
  None = None
  o1 = o1  o2 = o2  d1 = d1  d2 = d2  d3 = d3  p3 = p3  p1 = p1  p2 = p2  c1 = c1  c2 = c2  t1 = t1  t2 = t2
  Owners = {o1, o2}
  Devices = {d1, d2, d3}
  Pairings = {p1, p2, p3}
  Codes = {c1, c2}
  Threads = {}
  Prefixes <- OnePrefix
  Prefix <- SharedPrefix
  Messages <- NoMessages
  WriteOutcomes = {"stored", "rejected", "unacked"}
  PairingTTL = 1
  MessageTTL = 1
  MaxTime = 1
SYMMETRY Symmetry
INVARIANTS
  TypeOK
  OneActiveDevice
  NewestEnrollmentActive
  EnrollmentBoundToIssuer
  PairingUsedOnce
  CodeExchangedOnce
PROPERTIES
  ImplementsRegistry
