--------------------------- MODULE AnswerDelivery ---------------------------
(***************************************************************************)
(* What the sending half promises the session about each message it sends: *)
(* the operation's result either gives the answer, or gives up, or owes    *)
(* it; an answer that is owed is given later, once, together with any      *)
(* number of others; and nothing is answered that was given up.            *)
(***************************************************************************)
CONSTANT Sends

VARIABLE phase

Phases == {"undecided", "owed", "answered", "given_up"}

TypeOK == phase \in [Sends -> Phases]

Init == phase = [s \in Sends |-> "undecided"]

Decide(s) ==
    /\ phase[s] = "undecided"
    /\ \E p \in {"owed", "answered", "given_up"} : phase' = [phase EXCEPT ![s] = p]

AnswerOwed(batch) ==
    /\ \A s \in batch : phase[s] = "owed"
    /\ phase' = [s \in Sends |-> IF s \in batch THEN "answered" ELSE phase[s]]

Next ==
    \/ \E s \in Sends : Decide(s)
    \/ \E batch \in SUBSET Sends : AnswerOwed(batch)

Spec == Init /\ [][Next]_phase
=============================================================================
