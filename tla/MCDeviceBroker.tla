--------------------------- MODULE MCDeviceBroker ---------------------------
(* Small instances of DeviceBroker for TLC. *)
EXTENDS DeviceBroker, TLC

CONSTANTS o1, o2, d1, d2, d3, p1, p2, p3, c1, c2, t1, t2

\* Both codes share a lookup prefix.
OnePrefix == {"ABCD"}
SharedPrefix == [c \in Codes |-> "ABCD"]

NoMessages == {}

Message(d, n, s, e) == [device |-> d, nonce |-> n, sequence |-> s, expires |-> e]

\* One phone's messages: an early one, a newer one, and the newer number
\* signed again under another nonce.
PhoneMessages == {Message(d1, "n1", 1, 1), Message(d1, "n2", 2, 2),
                  Message(d1, "n3", 2, 1)}

Symmetry == Permutations(Devices) \cup Permutations(Pairings)
              \cup Permutations(Codes) \cup Permutations(Owners)
              \cup Permutations(Threads)

\* With messages of d1 only, the devices are not interchangeable.
MessageSymmetry == Permutations(Pairings) \cup Permutations(Threads)
=============================================================================
