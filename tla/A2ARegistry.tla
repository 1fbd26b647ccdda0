---------------------------- MODULE A2ARegistry ----------------------------
(***************************************************************************)
(* The task table of A2ARegistry (registry.py): the status, artifact,      *)
(* error and attribution a remote sender reads when it polls a task.  It   *)
(* lives in memory only.                                                   *)
(***************************************************************************)
EXTENDS A2AData

VARIABLES tasks,       \* _tasks, total: an id without a task is Absent
          deferredIds  \* deferred_ids, which the injection handler skips

registryVars == <<tasks, deferredIds>>

None == "none"  \* Python's None: a field never set, or an argument not given

Statuses     == {"ABSENT", "SUBMITTED", "WORKING", "INPUT_REQUIRED",
                 "COMPLETED", "FAILED", "REJECTED"}
Closed       == {"COMPLETED", "FAILED", "REJECTED"}
Artifacts    == {None, "child_answer", "user_reply", "approval_notice"}
Errors       == {None, "child_failed", "save_failed", "blocked", "dismissed"}
Attributions == {None, "autonomous", "user_response", "escalated_user_response", "dismissed"}

TaskRecord == [status : Statuses, artifact : Artifacts,
               error : Errors, attribution : Attributions]

Blank(status) == [status |-> status, artifact |-> None, error |-> None, attribution |-> None]

Absent == Blank("ABSENT")

RegistryTypeOK ==
    /\ tasks \in [Tasks -> TaskRecord]
    /\ deferredIds \subseteq Tasks

RegistryInit ==
    /\ tasks = [t \in Tasks |-> Absent]
    /\ deferredIds = {}

\* The operations are operators over the table, because handlers call
\* several of them within one step.
CreateTask(table, t) == [table EXCEPT ![t] = Blank("SUBMITTED")]

Given(new, old) == IF new = None THEN old ELSE new

\* A no-op on a task that does not exist; an argument not given keeps the field.
UpdateTask(table, t, status, artifact, error, attribution) ==
    IF table[t].status = "ABSENT"
    THEN table
    ELSE [table EXCEPT ![t] =
            [status      |-> status,
             artifact    |-> Given(artifact, table[t].artifact),
             error       |-> Given(error, table[t].error),
             attribution |-> Given(attribution, table[t].attribution)]]

SetStatus(table, t, status) == UpdateTask(table, t, status, None, None, None)
=============================================================================
