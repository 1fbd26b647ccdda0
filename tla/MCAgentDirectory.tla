-------------------------- MODULE MCAgentDirectory --------------------------
(* AgentDirectory on a small instance, for TLC. *)
EXTENDS AgentDirectory

CONSTANTS u1, u2, n1, n2

\* One configured agent.
MCKnown == <<[name |-> n1, url |-> u1]>>

\* The configured agent under another name, and another agent advertised twice,
\* once under the configured name.
MCAdverts ==
    {<<[name |-> n2, url |-> u1]>>,
     <<[name |-> n1, url |-> u2], [name |-> n2, url |-> u2]>>}
=============================================================================
