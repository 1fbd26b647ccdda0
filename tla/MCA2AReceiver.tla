--------------------------- MODULE MCA2AReceiver ---------------------------
(* A2AReceiver on small instances, for TLC. *)
EXTENDS A2AReceiver, TLC

\* A tier the tool's schema does not name, which the code accepts as any other.
MCTiers == {"known", "trusted", "colleague"}

MCTwoTiers == {"known", "trusted"}

MCReliable == {"saved"}
MCTearing  == {"saved", "refused", "torn"}

MCSymmetry == Permutations(Tasks) \union Permutations(Senders)

MCTaskSymmetry == Permutations(Tasks)
=============================================================================
