---------------------------- MODULE MCA2AExchange ----------------------------
(* A2AExchange on a small instance, for TLC. *)
EXTENDS A2AExchange, TLC

CONSTANTS name, trusted, literal, public, private, r1, r2

\* A literal address on the private network.
MCLiteral == literal :> private

MCDestinations ==
    {[host |-> name, https |-> TRUE], [host |-> name, https |-> FALSE],
     [host |-> trusted, https |-> FALSE], [host |-> literal, https |-> TRUE]}

\* A second ahead, half a second behind.
MCOffsets == {-1, 2}

MCSymmetry == Permutations({r1, r2})
=============================================================================
