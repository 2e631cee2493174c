--------------------------- MODULE MCYouTubeLaunch ---------------------------
(* Small instances of YouTubeLaunch for TLC. *)
EXTENDS YouTubeLaunch, TLC

CONSTANTS r1, r2, d1, d2, a1, a2, k1, k2

Symmetry == Permutations(Runs) \cup Permutations(Devices)
              \cup Permutations(Approvers) \cup Permutations(Receivers)

\* The queue under the YouTube route alone.
QueueSpec ==
  Init /\ [][Next /\ UNCHANGED resumer]_vars /\ Fairness
=============================================================================
