-------------------------- MODULE MCAgentDelivery --------------------------
(* Small instances of AgentDelivery for TLC. *)
EXTENDS AgentDelivery, TLC

Chats == Deliveries \ (Scheduled \cup Oversized)

(* Scheduled tasks are alike, and so are the other deliveries; sessions and errors
   are numbered and are not permuted. Used by runs that check invariants only.  *)
Symmetry == Permutations(Scheduled) \cup Permutations(Chats)
=============================================================================
