--------------------------- MODULE MCA2AOutgoing ---------------------------
(* A2AOutgoing on small instances, for TLC. *)
EXTENDS A2AOutgoing, TLC

CONSTANTS s1, s2, s3, a1, a2

MCTwoSends   == {s1, s2}
MCThreeSends == {s1, s2, s3}

MCAgents   == {a1, a2}
MCRealtime == {a1}

\* One send to the realtime agent, the others to the async one.
MCAgentOf == [s \in Sends |-> IF s = s1 THEN a1 ELSE a2]

MCNoAgents == {}
MCNoSends  == {}
MCAsyncAgent == {a2}
MCFirstSend  == {s1}

MCSymmetry == Permutations({s2, s3})
=============================================================================
