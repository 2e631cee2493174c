--------------------------- MODULE MCConversations ---------------------------
(* A small instance of Conversations for TLC. *)
EXTENDS Conversations, TLC

CONSTANTS u1, u2, c1, c2, t1, t2, t3, t4

Symmetry == Permutations(Users) \cup Permutations(Chats) \cup Permutations(Turns)
=============================================================================
