------------------------- MODULE MCA2AConversation -------------------------
(* A2AConversation on a small instance, for TLC. *)
EXTENDS A2AConversation, TLC

MCTiers    == {"known", "trusted"}
MCReliable == {"saved"}
MCPeer     == {Peer}
MCNobody   == {}

MCSymmetry == Permutations(Tasks)
=============================================================================
