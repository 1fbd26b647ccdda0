------------------------------ MODULE A2AData ------------------------------
(***************************************************************************)
(* What the components of the A2A bundle have in common: the identifiers   *)
(* they exchange, the lists of entries they keep in memory, and the JSON   *)
(* files those lists are written through to.                               *)
(*                                                                         *)
(* A message is identified with the task the server creates for it: the    *)
(* code gives each accepted message a fresh uuid4 and carries both         *)
(* together everywhere.  Names, timestamps and message texts are left out: *)
(* no decision of the code reads them.                                     *)
(***************************************************************************)
EXTENDS Naturals, Sequences, Functions

CONSTANTS Tasks,        \* the task ids uuid4 may hand out (a bound: each is used once)
          Senders,      \* the sender URLs of remote agents
          Tiers,        \* the trust tiers a user may type; the code accepts any text
          SaveOutcomes  \* what a write of a JSON file may come to

ASSUME TiersAssumption == "known" \in Tiers

\* "saved": the file holds the new list.  "refused": the write raises before
\* it truncates the file.  "torn": it raises after truncation (disk full, or
\* the process is killed), and _load reads such a file as an empty list.
ASSUME SaveOutcomesAssumption ==
    "saved" \in SaveOutcomes /\ SaveOutcomes \subseteq {"saved", "refused", "torn"}

\* The list a file loads as after a write of `list' that comes to `outcome'.
Written(file, list, outcome) ==
    CASE outcome = "saved"   -> list
      [] outcome = "refused" -> file
      [] OTHER               -> <<>>

\* The code finds a queue entry by task id with a loop that stops at the
\* first match: the position of that match, as a set of at most one element.
FirstFor(list, t) ==
    {i \in DOMAIN list : list[i].task = t /\ \A j \in DOMAIN list : list[j].task = t => i <= j}

HasEntry(list, t) == \E i \in DOMAIN list : list[i].task = t

\* The list with the status of the first entry for task t overwritten.
WithStatus(list, t, status) ==
    [i \in DOMAIN list |->
        IF i \in FirstFor(list, t) THEN [list[i] EXCEPT !.status = status] ELSE list[i]]
=============================================================================
