------------------------- MODULE A2AReceiver_proofs -------------------------
(***************************************************************************)
(* Theorems about A2AReceiver, for every set of tasks, senders and tiers   *)
(* and whatever becomes of the writes.                                     *)
(***************************************************************************)
EXTENDS A2AReceiver, SequenceTheorems, TLAPS

\* Overwriting a status leaves a list with the same positions, whose entries
\* are those it had or those with the new status.
LEMMA WithStatusType ==
    ASSUME NEW S, NEW list \in Seq(S), NEW t, NEW status,
           \A e \in S : [e EXCEPT !.status = status] \in S
    PROVE  WithStatus(list, t, status) \in Seq(S)
  <1>1. \A i \in DOMAIN list : list[i] \in S
    BY LenProperties
  <1>2. WithStatus(list, t, status) \in [1 .. Len(list) -> S]
    BY <1>1, LenProperties DEF WithStatus
  <1> QED BY <1>2, LenProperties

LEMMA MessageStatusType ==
    ASSUME NEW list \in Seq(MessageEntry), NEW t, NEW status \in MessageStatuses
    PROVE  WithStatus(list, t, status) \in Seq(MessageEntry)
  <1>1. \A e \in MessageEntry : [e EXCEPT !.status = status] \in MessageEntry
    BY DEF MessageEntry
  <1> QED BY <1>1, WithStatusType

LEMMA ApprovalStatusType ==
    ASSUME NEW list \in Seq(ApprovalEntry), NEW t, NEW status \in ApprovalStatuses
    PROVE  WithStatus(list, t, status) \in Seq(ApprovalEntry)
  <1>1. \A e \in ApprovalEntry : [e EXCEPT !.status = status] \in ApprovalEntry
    BY DEF ApprovalEntry
  <1> QED BY <1>1, WithStatusType

\* A file holds a list of the entries written to it.
LEMMA WrittenType ==
    ASSUME NEW S, NEW file \in Seq(S), NEW list \in Seq(S), NEW outcome
    PROVE  Written(file, list, outcome) \in Seq(S)
  BY DEF Written

LEMMA UpdateTaskType ==
    ASSUME NEW table \in [Tasks -> TaskRecord], NEW t \in Tasks, NEW status \in Statuses,
           NEW artifact \in Artifacts, NEW error \in Errors, NEW attribution \in Attributions
    PROVE  UpdateTask(table, t, status, artifact, error, attribution) \in [Tasks -> TaskRecord]
  BY DEF UpdateTask, Given, TaskRecord

LEMMA CreateTaskType ==
    ASSUME NEW table \in [Tasks -> TaskRecord], NEW t \in Tasks
    PROVE  CreateTask(table, t) \in [Tasks -> TaskRecord]
  BY DEF CreateTask, Blank, TaskRecord, Statuses, Artifacts, Errors, Attributions, None

LEMMA SetStatusType ==
    ASSUME NEW table \in [Tasks -> TaskRecord], NEW t \in Tasks, NEW status \in Statuses
    PROVE  SetStatus(table, t, status) \in [Tasks -> TaskRecord]
  <1>1. None \in Artifacts /\ None \in Errors /\ None \in Attributions
    BY DEF Artifacts, Errors, Attributions
  <1> QED BY <1>1, UpdateTaskType DEF SetStatus
-----------------------------------------------------------------------------
(* The operations of the stores keep the types of what they change.        *)

LEMMA AddMessageType ==
    ASSUME TypeOK, NEW t \in Tasks, NEW s \in Senders, NEW escalated \in BOOLEAN,
           NEW outcome \in SaveOutcomes, AddMessage(t, s, escalated, outcome)
    PROVE  messages' \in Seq(MessageEntry) /\ messagesFile' \in Seq(MessageEntry)
  <1> DEFINE entry == [task |-> t, sender |-> s, escalated |-> escalated, status |-> "pending"]
  <1>1. entry \in MessageEntry
    BY DEF MessageEntry, MessageStatuses
  <1>2. messages' \in Seq(MessageEntry)
    BY <1>1, AppendProperties DEF AddMessage, TypeOK, QueueTypeOK
  <1> QED BY <1>2, WrittenType DEF AddMessage, TypeOK, QueueTypeOK

LEMMA UpdateMessageStatusType ==
    ASSUME TypeOK, NEW t \in Tasks, NEW status \in MessageStatuses,
           NEW outcome \in SaveOutcomes, UpdateMessageStatus(t, status, outcome)
    PROVE  messages' \in Seq(MessageEntry) /\ messagesFile' \in Seq(MessageEntry)
  <1>1. messages' \in Seq(MessageEntry)
    BY MessageStatusType DEF UpdateMessageStatus, TypeOK, QueueTypeOK
  <1> QED BY <1>1, WrittenType DEF UpdateMessageStatus, TypeOK, QueueTypeOK

LEMMA AddApprovalType ==
    ASSUME TypeOK, NEW t \in Tasks, NEW s \in Senders,
           NEW outcome \in SaveOutcomes, AddApproval(t, s, outcome)
    PROVE  approvals' \in Seq(ApprovalEntry) /\ approvalsFile' \in Seq(ApprovalEntry)
  <1> DEFINE entry == [task |-> t, sender |-> s, status |-> "pending"]
  <1>1. entry \in ApprovalEntry
    BY DEF ApprovalEntry, ApprovalStatuses
  <1>2. approvals' \in Seq(ApprovalEntry)
    BY <1>1, AppendProperties DEF AddApproval, TypeOK, QueueTypeOK
  <1> QED BY <1>2, WrittenType DEF AddApproval, TypeOK, QueueTypeOK

LEMMA UpdateApprovalStatusType ==
    ASSUME TypeOK, NEW t \in Tasks, NEW status \in ApprovalStatuses,
           NEW outcome \in SaveOutcomes, UpdateApprovalStatus(t, status, outcome)
    PROVE  approvals' \in Seq(ApprovalEntry) /\ approvalsFile' \in Seq(ApprovalEntry)
  <1>1. approvals' \in Seq(ApprovalEntry)
    BY ApprovalStatusType DEF UpdateApprovalStatus, TypeOK, QueueTypeOK
  <1> QED BY <1>1, WrittenType DEF UpdateApprovalStatus, TypeOK, QueueTypeOK

LEMMA AddContactType ==
    ASSUME TypeOK, NEW s \in Senders, NEW tier \in Tiers,
           NEW outcome \in SaveOutcomes, AddContact(s, tier, outcome)
    PROVE  ContactsTypeOK'
  <1>1. [sender |-> s, tier |-> tier] \in Contact
    BY DEF Contact
  <1>2. contacts' \in Seq(Contact)
    BY <1>1, AppendProperties DEF AddContact, TypeOK, ContactsTypeOK
  <1> QED BY <1>2, WrittenType DEF AddContact, TypeOK, ContactsTypeOK

LEMMA UpdateTierType ==
    ASSUME TypeOK, NEW s \in Senders, NEW tier \in Tiers,
           NEW outcome \in SaveOutcomes, UpdateTier(s, tier, outcome)
    PROVE  ContactsTypeOK'
  <1>0. \A c \in Contact : [c EXCEPT !.tier = tier] \in Contact
    BY DEF Contact
  <1>1. \A i \in DOMAIN contacts :
           contacts[i] \in Contact /\ [contacts[i] EXCEPT !.tier = tier] \in Contact
    BY <1>0, LenProperties DEF TypeOK, ContactsTypeOK
  <1>2. contacts' \in [1 .. Len(contacts) -> Contact]
    BY <1>1, LenProperties DEF UpdateTier, TypeOK, ContactsTypeOK
  <1>3. contacts' \in Seq(Contact)
    BY <1>2, LenProperties DEF TypeOK, ContactsTypeOK
  <1> QED BY <1>3, WrittenType DEF UpdateTier, TypeOK, ContactsTypeOK

\* The position approve and block work on is one of the list.
LEMMA FirstRequestType ==
    ASSUME TypeOK, NEW s \in Senders, NEW i \in FirstRequestFrom(s)
    PROVE  i \in DOMAIN approvals /\ approvals[i] \in ApprovalEntry /\ approvals[i].task \in Tasks
  <1>1. i \in DOMAIN approvals /\ approvals[i] \in ApprovalEntry
    BY LenProperties DEF FirstRequestFrom, TypeOK, QueueTypeOK
  <1> QED BY <1>1 DEF ApprovalEntry

-----------------------------------------------------------------------------
(* Type correctness.                                                       *)

LEMMA TypeInit == Init => TypeOK
  BY EmptySeq DEF Init, TypeOK, RegistryInit, RegistryTypeOK, QueueInit, QueueTypeOK,
     ContactsInit, ContactsTypeOK, Absent, Blank, TaskRecord, Statuses, Artifacts, Errors,
     Attributions, None

LEMMA TypeStep == TypeOK /\ [Next]_vars => TypeOK'
  <1> SUFFICES ASSUME TypeOK, [Next]_vars
               PROVE  TypeOK'
    OBVIOUS
  <1> USE DEF RegistryTypeOK
  <1>V. /\ \A x \in {"WORKING", "INPUT_REQUIRED", "COMPLETED", "FAILED", "REJECTED"} : x \in Statuses
        /\ \A x \in {None, "child_answer", "user_reply", "approval_notice"} : x \in Artifacts
        /\ \A x \in {None, "child_failed", "save_failed", "blocked", "dismissed"} : x \in Errors
        /\ \A x \in {None, "autonomous", "user_response", "escalated_user_response", "dismissed"} :
             x \in Attributions
    BY DEF Statuses, Artifacts, Errors, Attributions
  <1>1. ASSUME NEW t \in Tasks, NEW s \in Senders, NEW signed \in BOOLEAN,
               NEW o \in SaveOutcomes, FirstContact(t, s, signed, o)
        PROVE  TypeOK'
    <2>1. tasks' \in [Tasks -> TaskRecord]
      BY <1>1, <1>V, CreateTaskType, SetStatusType DEF FirstContact, TypeOK
    <2> QED BY <1>1, <2>1, AddApprovalType DEF FirstContact, TypeOK, QueueTypeOK,
               ContactsTypeOK, messageVars, contactVars
  <1>2. ASSUME NEW t \in Tasks, NEW s \in Senders, NEW signed \in BOOLEAN,
               NEW o \in SaveOutcomes, QueueForUser(t, s, signed, o)
        PROVE  TypeOK'
    <2>1. tasks' \in [Tasks -> TaskRecord]
      BY <1>2, <1>V, CreateTaskType, SetStatusType DEF QueueForUser, TypeOK
    <2> QED BY <1>2, <2>1, AddMessageType DEF QueueForUser, TypeOK, QueueTypeOK,
               ContactsTypeOK, approvalVars, contactVars
  <1>3. ASSUME NEW t \in Tasks, NEW s \in Senders, NEW signed \in BOOLEAN,
               SpawnChild(t, s, signed)
        PROVE  TypeOK'
    <2>1. tasks' \in [Tasks -> TaskRecord]
      BY <1>3, <1>V, CreateTaskType, SetStatusType DEF SpawnChild, TypeOK
    <2>2. handlers' \subseteq Handler
      BY <1>3 DEF SpawnChild, TypeOK, Handler
    <2> QED BY <1>3, <2>1, <2>2 DEF SpawnChild, TypeOK, QueueTypeOK, ContactsTypeOK,
               queueVars, contactVars
  <1>4. ASSUME NEW h \in handlers, CompleteAutonomously(h)
        PROVE  TypeOK'
    <2>1. h.task \in Tasks
      BY DEF TypeOK, Handler
    <2>2. tasks' \in [Tasks -> TaskRecord]
      BY <1>4, <1>V, <2>1, UpdateTaskType DEF CompleteAutonomously, TypeOK
    <2> QED BY <1>4, <2>2 DEF CompleteAutonomously, TypeOK, QueueTypeOK, ContactsTypeOK,
               queueVars, contactVars
  <1>5. ASSUME NEW h \in handlers, StartEvaluation(h)
        PROVE  TypeOK'
    <2>1. [h EXCEPT !.stage = "evaluating"] \in Handler
      BY DEF TypeOK, Handler
    <2> QED BY <1>5, <2>1 DEF StartEvaluation, TypeOK, QueueTypeOK, ContactsTypeOK,
               registryVars, queueVars, contactVars
  <1>6. ASSUME NEW h \in handlers, NEW o \in SaveOutcomes, Escalate(h, o)
        PROVE  TypeOK'
    <2>1. h.task \in Tasks /\ h.sender \in Senders
      BY DEF TypeOK, Handler
    <2>2. tasks' \in [Tasks -> TaskRecord]
      BY <1>6, <1>V, <2>1, UpdateTaskType, SetStatusType DEF Escalate, TypeOK
    <2> QED BY <1>6, <2>1, <2>2, AddMessageType DEF Escalate, TypeOK, QueueTypeOK,
               ContactsTypeOK, approvalVars, contactVars
  <1>7. ASSUME NEW h \in handlers, ChildFails(h)
        PROVE  TypeOK'
    <2>1. h.task \in Tasks
      BY DEF TypeOK, Handler
    <2>2. tasks' \in [Tasks -> TaskRecord]
      BY <1>7, <1>V, <2>1, UpdateTaskType DEF ChildFails, TypeOK
    <2> QED BY <1>7, <2>2 DEF ChildFails, TypeOK, QueueTypeOK, ContactsTypeOK,
               queueVars, contactVars
  <1>8. CASE Inject
    <2>1. Unseen \subseteq Tasks
      <3>1. /\ \A e \in Range(messages) : e.task \in Tasks
            /\ \A e \in Range(approvals) : e.task \in Tasks
        <4>1. Range(messages) \subseteq MessageEntry /\ Range(approvals) \subseteq ApprovalEntry
          BY RangeOfSeq DEF TypeOK, QueueTypeOK
        <4> QED BY <4>1 DEF MessageEntry, ApprovalEntry
      <3> QED BY <3>1 DEF Unseen, PendingMessageTasks, PendingApprovalTasks
    <2> QED BY <1>8, <2>1 DEF Inject, TypeOK, QueueTypeOK, ContactsTypeOK,
               registryVars, queueVars, contactVars
  <1>9. ASSUME NEW s \in Senders, NEW tier \in Tiers, NEW o \in SaveOutcomes,
               NEW q \in SaveOutcomes, Approve(s, tier, o, q)
        PROVE  TypeOK'
    <2>1. PICK i \in FirstRequestFrom(s) :
             /\ AddContact(s, tier, o)
             /\ IF o = "saved" THEN UpdateApprovalStatus(approvals[i].task, "approved", q)
                               ELSE UNCHANGED approvalVars
             /\ tasks' = IF o = "saved" /\ q = "saved"
                          THEN UpdateTask(tasks, approvals[i].task, "COMPLETED",
                                          "approval_notice", None, None)
                          ELSE tasks
             /\ UNCHANGED <<deferredIds, messageVars, issued, handlers, injectedIds>>
      BY <1>9 DEF Approve
    <2>2. approvals[i].task \in Tasks
      BY FirstRequestType
    <2>3. tasks' \in [Tasks -> TaskRecord]
      BY <2>1, <2>2, <1>V, UpdateTaskType DEF TypeOK
    <2>4. approvals' \in Seq(ApprovalEntry) /\ approvalsFile' \in Seq(ApprovalEntry)
      <3>1. "approved" \in ApprovalStatuses
        BY DEF ApprovalStatuses
      <3> QED BY <2>1, <2>2, <3>1, UpdateApprovalStatusType DEF TypeOK, QueueTypeOK, approvalVars
    <2> QED BY <2>1, <2>3, <2>4, AddContactType DEF TypeOK, QueueTypeOK, messageVars
  <1>10. ASSUME NEW s \in Senders, NEW o \in SaveOutcomes, Block(s, o)
         PROVE  TypeOK'
    <2>1. PICK i \in FirstRequestFrom(s) :
             /\ UpdateApprovalStatus(approvals[i].task, "blocked", o)
             /\ tasks' = IF o = "saved"
                          THEN UpdateTask(tasks, approvals[i].task, "FAILED", None, "blocked", None)
                          ELSE tasks
             /\ UNCHANGED <<deferredIds, messageVars, contactVars, issued, handlers, injectedIds>>
      BY <1>10 DEF Block
    <2>2. approvals[i].task \in Tasks
      BY FirstRequestType
    <2>3. tasks' \in [Tasks -> TaskRecord]
      BY <2>1, <2>2, <1>V, UpdateTaskType DEF TypeOK
    <2>4. "blocked" \in ApprovalStatuses
      BY DEF ApprovalStatuses
    <2> QED BY <2>1, <2>2, <2>3, <2>4, UpdateApprovalStatusType
            DEF TypeOK, QueueTypeOK, ContactsTypeOK, messageVars, contactVars
  <1>11. ASSUME NEW s \in Senders, NEW tier \in Tiers, NEW o \in SaveOutcomes, Trust(s, tier, o)
         PROVE  TypeOK'
    BY <1>11, UpdateTierType DEF Trust, TypeOK, QueueTypeOK, registryVars, queueVars
  <1>12. ASSUME NEW s \in Senders, NEW tier \in Tiers, NEW o \in SaveOutcomes,
                AddContactByUrl(s, tier, o)
         PROVE  TypeOK'
    BY <1>12, AddContactType DEF AddContactByUrl, TypeOK, QueueTypeOK, registryVars, queueVars
  <1>13. ASSUME NEW t \in Tasks, NEW o \in SaveOutcomes, Respond(t, o)
         PROVE  TypeOK'
    <2>1. tasks' \in [Tasks -> TaskRecord]
      BY <1>13, <1>V, UpdateTaskType DEF Respond, TypeOK
    <2>2. "responded" \in MessageStatuses
      BY DEF MessageStatuses
    <2> QED BY <1>13, <2>1, <2>2, UpdateMessageStatusType DEF Respond, TypeOK, QueueTypeOK,
               ContactsTypeOK, approvalVars, contactVars
  <1>14. ASSUME NEW t \in Tasks, NEW o \in SaveOutcomes, Dismiss(t, o)
         PROVE  TypeOK'
    <2>1. tasks' \in [Tasks -> TaskRecord]
      BY <1>14, <1>V, UpdateTaskType DEF Dismiss, TypeOK
    <2>2. "dismissed" \in MessageStatuses
      BY DEF MessageStatuses
    <2> QED BY <1>14, <2>1, <2>2, UpdateMessageStatusType DEF Dismiss, TypeOK, QueueTypeOK,
               ContactsTypeOK, approvalVars, contactVars
  <1>15. ASSUME NEW t \in Tasks, NEW o \in SaveOutcomes, Defer(t, o)
         PROVE  TypeOK'
    <2>1. "deferred" \in MessageStatuses
      BY DEF MessageStatuses
    <2> QED BY <1>15, <2>1, UpdateMessageStatusType DEF Defer, TypeOK, QueueTypeOK,
               ContactsTypeOK, approvalVars, contactVars
  <1>16. CASE Restart
    <2>1. Absent \in TaskRecord
      BY DEF Absent, Blank, TaskRecord, Statuses, Artifacts, Errors, Attributions, None
    <2> QED BY <1>16, <2>1 DEF Restart, TypeOK, QueueTypeOK, ContactsTypeOK,
               ReloadQueue, ReloadContacts
  <1>17. CASE UNCHANGED vars
    BY <1>17 DEF vars, registryVars, queueVars, contactVars, TypeOK, QueueTypeOK, ContactsTypeOK
  <1> QED
    BY <1>1, <1>2, <1>3, <1>4, <1>5, <1>6, <1>7, <1>8, <1>9, <1>10, <1>11, <1>12, <1>13,
       <1>14, <1>15, <1>16, <1>17
    DEF Next, Receive, Resume, AnswerUnevaluated, AcceptAnswer, DecideOnSender, DecideOnMessage

\* Every component keeps its type through every handler, operation and restart.
THEOREM TypeCorrect == Spec => []TypeOK
  BY TypeInit, TypeStep, PTL DEF Spec
-----------------------------------------------------------------------------
(* What the operators do to a list and to the task table.                  *)

\* Appending an entry for a task that has none.
LEMMA AppendedEntry ==
    ASSUME NEW S, NEW list \in Seq(S), NEW e \in S
    PROVE  /\ Range(Append(list, e)) = Range(list) \union {e}
           /\ TasksOf(Append(list, e)) = TasksOf(list) \union {e.task}
           /\ OneEntryEach(list) /\ e.task \notin TasksOf(list) => OneEntryEach(Append(list, e))
  <1> DEFINE new == Append(list, e)
  <1>1. DOMAIN new = DOMAIN list \union {Len(list) + 1}
    BY AppendProperties, LenProperties
  <1>2. \A i \in DOMAIN list : new[i] = list[i]
    BY AppendProperties, LenProperties
  <1>3. new[Len(list) + 1] = e
    BY AppendProperties
  <1>4. Range(new) = Range(list) \union {e}
    BY <1>1, <1>2, <1>3 DEF Range
  <1>5. TasksOf(new) = TasksOf(list) \union {e.task}
    BY <1>1, <1>2, <1>3 DEF TasksOf
  <1>6. ASSUME OneEntryEach(list), e.task \notin TasksOf(list)
        PROVE  OneEntryEach(new)
    BY <1>1, <1>2, <1>3, <1>6 DEF OneEntryEach, TasksOf
  <1> QED BY <1>4, <1>5, <1>6

\* Overwriting the status of the one entry for a task.
LEMMA RestatedEntry ==
    ASSUME NEW S, NEW list \in Seq(S), OneEntryEach(list), NEW t, NEW status
    PROVE  /\ DOMAIN WithStatus(list, t, status) = DOMAIN list
           /\ \A i \in DOMAIN list :
                WithStatus(list, t, status)[i] =
                    IF list[i].task = t THEN [list[i] EXCEPT !.status = status] ELSE list[i]
  <1>1. \A i \in DOMAIN list : list[i].task = t <=> i \in FirstFor(list, t)
    <2> SUFFICES ASSUME NEW i \in DOMAIN list, list[i].task = t
                 PROVE  i \in FirstFor(list, t)
      BY DEF FirstFor
    <2>1. \A j \in DOMAIN list : list[j].task = t => j = i
      BY DEF OneEntryEach
    <2>2. i <= i
      BY LenProperties
    <2> QED BY <2>1, <2>2 DEF FirstFor
  <1> QED BY <1>1 DEF WithStatus

\* Overwriting a status does not change which tasks have entries.
LEMMA RestatedTasks ==
    ASSUME NEW S, NEW list \in Seq(S), NEW t, NEW status,
           \A e \in S : [e EXCEPT !.status = status].task = e.task
    PROVE  /\ TasksOf(WithStatus(list, t, status)) = TasksOf(list)
           /\ OneEntryEach(list) => OneEntryEach(WithStatus(list, t, status))
  <1> DEFINE new == WithStatus(list, t, status)
  <1>1. DOMAIN new = DOMAIN list
    BY DEF WithStatus
  <1>2. \A i \in DOMAIN list : list[i] \in S
    BY LenProperties
  <1>3. \A i \in DOMAIN list : new[i].task = list[i].task
    BY <1>2 DEF WithStatus
  <1> QED BY <1>1, <1>3 DEF TasksOf, OneEntryEach

\* A written file holds entries of the list or of the file before, if any.
LEMMA WrittenTasks ==
    ASSUME NEW file, NEW list, NEW outcome
    PROVE  /\ TasksOf(Written(file, list, outcome)) \subseteq TasksOf(file) \union TasksOf(list)
           /\ OneEntryEach(file) /\ OneEntryEach(list) => OneEntryEach(Written(file, list, outcome))
  <1>1. \/ Written(file, list, outcome) = list
        \/ Written(file, list, outcome) = file
        \/ Written(file, list, outcome) = <<>>
    BY DEF Written
  <1>2. TasksOf(<<>>) = {} /\ OneEntryEach(<<>>)
    BY DEF TasksOf, OneEntryEach
  <1> QED BY <1>1, <1>2

LEMMA UpdatedTask ==
    ASSUME NEW table \in [Tasks -> TaskRecord], NEW t \in Tasks,
           NEW status, NEW artifact, NEW error, NEW attribution
    PROVE  LET new == UpdateTask(table, t, status, artifact, error, attribution) IN
           /\ \A u \in Tasks : u # t => new[u] = table[u]
           /\ table[t].status = "ABSENT" => new[t] = table[t]
           /\ table[t].status # "ABSENT" =>
                /\ new[t].status = status
                /\ new[t].artifact = Given(artifact, table[t].artifact)
                /\ new[t].attribution = Given(attribution, table[t].attribution)
  <1>1. CASE table[t].status = "ABSENT"
    BY <1>1 DEF UpdateTask
  <1>2. CASE table[t].status # "ABSENT"
    BY <1>2 DEF UpdateTask
  <1> QED BY <1>1, <1>2

LEMMA OpenedTask ==
    ASSUME NEW table \in [Tasks -> TaskRecord], NEW t \in Tasks, NEW status
    PROVE  /\ \A u \in Tasks \ {t} :
                /\ CreateTask(table, t)[u] = table[u]
                /\ SetStatus(CreateTask(table, t), t, status)[u] = table[u]
           /\ CreateTask(table, t)[t].status = "SUBMITTED"
           /\ SetStatus(CreateTask(table, t), t, status)[t].status = status
  <1>1. /\ \A u \in Tasks \ {t} : CreateTask(table, t)[u] = table[u]
        /\ CreateTask(table, t)[t].status = "SUBMITTED"
    BY DEF CreateTask, Blank
  <1>2. CreateTask(table, t) \in [Tasks -> TaskRecord]
    BY CreateTaskType
  <1> QED BY <1>1, <1>2, UpdatedTask DEF SetStatus

-----------------------------------------------------------------------------
(* What the operations of the queue do to the places items are in.         *)

LEMMA AddedMessage ==
    ASSUME Inv, NEW t \in Tasks, NEW s \in Senders, NEW escalated \in BOOLEAN,
           NEW outcome \in SaveOutcomes, AddMessage(t, s, escalated, outcome),
           t \notin InboxTasks
    PROVE  /\ Range(messages) \subseteq Range(messages')
           /\ \E m \in Range(messages') : m.task = t /\ m.status = "pending"
           /\ TasksOf(messages') = TasksOf(messages) \union {t}
           /\ InboxTasks' \subseteq InboxTasks \union {t}
           /\ OneEntryEach(messages') /\ OneEntryEach(messagesFile')
  <1> DEFINE e == [task |-> t, sender |-> s, escalated |-> escalated, status |-> "pending"]
  <1>1. e \in MessageEntry /\ e.task = t /\ e.status = "pending"
    BY DEF MessageEntry, MessageStatuses
  <1>2. messages \in Seq(MessageEntry) /\ messages' = Append(messages, e)
    BY DEF Inv, TypeOK, QueueTypeOK, AddMessage
  <1>3. OneEntryEach(messages) /\ OneEntryEach(messagesFile)
    BY DEF Inv, OnePlaceEach
  <1>4. /\ Range(messages') = Range(messages) \union {e}
        /\ TasksOf(messages') = TasksOf(messages) \union {t}
        /\ OneEntryEach(messages')
    BY <1>1, <1>2, <1>3, AppendedEntry DEF InboxTasks
  <1> QED BY <1>3, <1>4, WrittenTasks DEF AddMessage, InboxTasks

LEMMA UpdatedMessage ==
    ASSUME Inv, NEW t \in Tasks, NEW status \in MessageStatuses,
           NEW outcome \in SaveOutcomes, UpdateMessageStatus(t, status, outcome)
    PROVE  /\ \A m \in Range(messages) : \E n \in Range(messages') :
                /\ n.task = m.task /\ n.escalated = m.escalated
                /\ n.status = IF m.task = t THEN status ELSE m.status
           /\ TasksOf(messages') = TasksOf(messages)
           /\ InboxTasks' \subseteq InboxTasks
           /\ OneEntryEach(messages') /\ OneEntryEach(messagesFile')
  <1>1. messages \in Seq(MessageEntry) /\ messages' = WithStatus(messages, t, status)
    BY DEF Inv, TypeOK, QueueTypeOK, UpdateMessageStatus
  <1>2. OneEntryEach(messages) /\ OneEntryEach(messagesFile)
    BY DEF Inv, OnePlaceEach
  <1>3. \A m \in MessageEntry : LET n == [m EXCEPT !.status = status] IN
          n.task = m.task /\ n.escalated = m.escalated /\ n.status = status
    BY DEF MessageEntry
  <1>4. TasksOf(messages') = TasksOf(messages) /\ OneEntryEach(messages')
    BY <1>1, <1>2, <1>3, RestatedTasks
  <1>5. \A i \in DOMAIN messages :
          /\ messages[i] \in MessageEntry
          /\ messages'[i] = IF messages[i].task = t THEN [messages[i] EXCEPT !.status = status]
                                                    ELSE messages[i]
    BY <1>1, <1>2, RestatedEntry, LenProperties
  <1>6. DOMAIN messages' = DOMAIN messages
    BY <1>1, <1>2, RestatedEntry
  <1>7. \A m \in Range(messages) : \E n \in Range(messages') :
          /\ n.task = m.task /\ n.escalated = m.escalated
          /\ n.status = IF m.task = t THEN status ELSE m.status
    <2> SUFFICES ASSUME NEW i \in DOMAIN messages
                 PROVE  /\ messages'[i].task = messages[i].task
                        /\ messages'[i].escalated = messages[i].escalated
                        /\ messages'[i].status = IF messages[i].task = t THEN status
                                                                        ELSE messages[i].status
      BY <1>6 DEF Range
    <2>1. CASE messages[i].task = t
      <3>1. messages'[i] = [messages[i] EXCEPT !.status = status]
        BY <1>5, <2>1
      <3> QED BY <1>3, <1>5, <2>1, <3>1
    <2>2. CASE messages[i].task # t
      BY <1>5, <2>2
    <2> QED BY <2>1, <2>2
  <1> QED BY <1>2, <1>4, <1>7, WrittenTasks DEF UpdateMessageStatus, InboxTasks

LEMMA AddedApproval ==
    ASSUME Inv, NEW t \in Tasks, NEW s \in Senders, NEW outcome \in SaveOutcomes,
           AddApproval(t, s, outcome), t \notin RequestTasks
    PROVE  /\ approvals' = Append(approvals, [task |-> t, sender |-> s, status |-> "pending"])
           /\ Range(approvals) \subseteq Range(approvals')
           /\ \E a \in Range(approvals') : a.task = t /\ a.status = "pending"
           /\ TasksOf(approvals') = TasksOf(approvals) \union {t}
           /\ RequestTasks' \subseteq RequestTasks \union {t}
           /\ OneEntryEach(approvals') /\ OneEntryEach(approvalsFile')
           /\ RequestFileTrails'
           /\ DOMAIN approvals \subseteq DOMAIN approvals'
           /\ \A i \in DOMAIN approvals : approvals'[i] = approvals[i]
  <1> DEFINE e == [task |-> t, sender |-> s, status |-> "pending"]
  <1>1. e \in ApprovalEntry /\ e.task = t /\ e.status = "pending"
    BY DEF ApprovalEntry, ApprovalStatuses
  <1>2. approvals \in Seq(ApprovalEntry) /\ approvals' = Append(approvals, e)
    BY DEF Inv, TypeOK, QueueTypeOK, AddApproval
  <1>3. OneEntryEach(approvals) /\ OneEntryEach(approvalsFile)
    BY DEF Inv, OnePlaceEach
  <1>4. /\ Range(approvals') = Range(approvals) \union {e}
        /\ TasksOf(approvals') = TasksOf(approvals) \union {t}
        /\ OneEntryEach(approvals')
    BY <1>1, <1>2, <1>3, AppendedEntry DEF RequestTasks
  <1>5. /\ DOMAIN approvals \subseteq DOMAIN approvals'
        /\ \A i \in DOMAIN approvals : approvals'[i] = approvals[i]
    BY <1>1, <1>2, AppendProperties, LenProperties
  <1>6. RequestFileTrails'
    BY <1>5 DEF Inv, RequestFileTrails, AddApproval, Written
  <1> QED BY <1>1, <1>2, <1>3, <1>4, <1>5, <1>6, WrittenTasks DEF AddApproval, RequestTasks

\* Approve and block restate the one request they have found.
LEMMA RestatedRequest ==
    ASSUME Inv, NEW s \in Senders, NEW i \in FirstRequestFrom(s),
           NEW status \in ApprovalStatuses, NEW outcome \in SaveOutcomes,
           UpdateApprovalStatus(approvals[i].task, status, outcome)
    PROVE  /\ i \in DOMAIN approvals /\ approvals[i].sender = s /\ approvals[i].status = "pending"
           /\ DOMAIN approvals' = DOMAIN approvals
           /\ \A j \in DOMAIN approvals :
                approvals'[j] = IF j = i THEN [approvals[i] EXCEPT !.status = status]
                                         ELSE approvals[j]
           /\ approvalsFile' = Written(approvalsFile, approvals', outcome)
           /\ TasksOf(approvals') = TasksOf(approvals)
           /\ RequestTasks' \subseteq RequestTasks
           /\ OneEntryEach(approvals') /\ OneEntryEach(approvalsFile')
           /\ RequestFileTrails'
  <1> DEFINE t == approvals[i].task
  <1>1. approvals \in Seq(ApprovalEntry) /\ approvals' = WithStatus(approvals, t, status)
    BY DEF Inv, TypeOK, QueueTypeOK, UpdateApprovalStatus
  <1>2. OneEntryEach(approvals) /\ OneEntryEach(approvalsFile)
    BY DEF Inv, OnePlaceEach
  <1>3. i \in DOMAIN approvals /\ approvals[i].sender = s /\ approvals[i].status = "pending"
    BY DEF FirstRequestFrom
  <1>4. /\ DOMAIN approvals' = DOMAIN approvals
        /\ \A j \in DOMAIN approvals :
             approvals'[j] = IF approvals[j].task = t THEN [approvals[j] EXCEPT !.status = status]
                                                      ELSE approvals[j]
    BY <1>1, <1>2, RestatedEntry
  <1>5. \A j \in DOMAIN approvals : approvals[j].task = t => j = i
    BY <1>2, <1>3 DEF OneEntryEach
  <1>6. \A j \in DOMAIN approvals :
          approvals'[j] = IF j = i THEN [approvals[i] EXCEPT !.status = status] ELSE approvals[j]
    BY <1>4, <1>5
  <1>7. approvalsFile' = Written(approvalsFile, approvals', outcome)
    BY <1>3 DEF UpdateApprovalStatus, HasEntry
  <1>8. TasksOf(approvals') = TasksOf(approvals) /\ OneEntryEach(approvals')
    <2>1. \A a \in ApprovalEntry : [a EXCEPT !.status = status].task = a.task
      BY DEF ApprovalEntry
    <2> QED BY <1>1, <1>2, <2>1, RestatedTasks
  <1>9. RequestTasks' \subseteq RequestTasks /\ OneEntryEach(approvalsFile')
    BY <1>2, <1>7, <1>8, WrittenTasks DEF RequestTasks
  <1>10. RequestFileTrails'
    <2>1. CASE approvalsFile' = approvalsFile
      BY <1>3, <1>4, <1>6, <2>1 DEF Inv, RequestFileTrails
    <2>2. CASE approvalsFile' = approvals' \/ approvalsFile' = <<>>
      BY <2>2 DEF RequestFileTrails
    <2> QED BY <1>7, <2>1, <2>2 DEF Written
  <1> QED BY <1>3, <1>4, <1>6, <1>7, <1>8, <1>9, <1>10

LEMMA RequestsKept ==
    ASSUME Inv, UNCHANGED <<approvals, approvalsFile>>
    PROVE  RequestFileTrails'
  BY DEF Inv, RequestFileTrails

-----------------------------------------------------------------------------
(* The inductive invariant.                                                *)

LEMMA HasEntryTasks ==
    ASSUME NEW list, NEW t
    PROVE  HasEntry(list, t) <=> t \in TasksOf(list)
  BY DEF HasEntry, TasksOf

LEMMA InvInit == Init => Inv
  <1> SUFFICES ASSUME Init PROVE Inv
    OBVIOUS
  <1>1. TypeOK
    BY TypeInit
  <1>2. /\ \A t \in Tasks : tasks[t].status = "ABSENT"
        /\ handlers = {}
        /\ messages = <<>> /\ messagesFile = <<>> /\ approvals = <<>> /\ approvalsFile = <<>>
    BY DEF Init, RegistryInit, QueueInit, Absent, Blank
  <1>3. TasksOf(<<>>) = {} /\ OneEntryEach(<<>>)
    BY DEF TasksOf, OneEntryEach
  <1>4. IdsAreFresh /\ OnePlaceEach /\ RequestFileTrails
    BY <1>2, <1>3 DEF IdsAreFresh, OnePlaceEach, RequestFileTrails, InboxTasks, RequestTasks
  <1>5. WorkIsBeingDone /\ OpenMessageIsQueued /\ AttributionTruthful
    BY <1>2 DEF WorkIsBeingDone, OpenMessageIsQueued, AttributionTruthful
  <1> QED BY <1>1, <1>4, <1>5 DEF Inv

LEMMA FirstContactInv ==
    ASSUME Inv, TypeOK', NEW t \in Tasks, NEW s \in Senders, NEW signed \in BOOLEAN,
           NEW o \in SaveOutcomes, FirstContact(t, s, signed, o)
    PROVE  Inv'
  <1>1. /\ TasksOf(approvals') = TasksOf(approvals) \union {t}
        /\ RequestTasks' \subseteq RequestTasks \union {t}
        /\ OneEntryEach(approvals') /\ OneEntryEach(approvalsFile') /\ RequestFileTrails'
    <2>1. t \notin RequestTasks
      BY DEF FirstContact, Inv, IdsAreFresh
    <2> QED BY <2>1, AddedApproval DEF FirstContact
  <1>2. /\ \A u \in Tasks : u # t => tasks'[u] = tasks[u]
        /\ tasks'[t].status \in {"SUBMITTED", "INPUT_REQUIRED"}
    BY OpenedTask DEF FirstContact, Inv, TypeOK, RegistryTypeOK
  <1>3. /\ UNCHANGED <<messages, messagesFile, handlers>>
        /\ t \notin issued /\ issued' = issued \union {t}
    BY DEF FirstContact, messageVars
  <1>4. t \notin InboxTasks /\ \A h \in handlers : h.task # t
    BY <1>3 DEF Inv, IdsAreFresh
  <1>5. IdsAreFresh'
    BY <1>1, <1>2, <1>3 DEF Inv, IdsAreFresh, InboxTasks
  <1>6. OnePlaceEach'
    BY <1>1, <1>3, <1>4 DEF Inv, OnePlaceEach, InboxTasks
  <1>7. WorkIsBeingDone'
    BY <1>2, <1>3, <1>4 DEF Inv, WorkIsBeingDone
  <1>8. OpenMessageIsQueued' /\ AttributionTruthful'
    BY <1>1, <1>2, <1>3, HasEntryTasks DEF Inv, OpenMessageIsQueued, AttributionTruthful
  <1> QED BY <1>1, <1>5, <1>6, <1>7, <1>8 DEF Inv

LEMMA QueueForUserInv ==
    ASSUME Inv, TypeOK', NEW t \in Tasks, NEW s \in Senders, NEW signed \in BOOLEAN,
           NEW o \in SaveOutcomes, QueueForUser(t, s, signed, o)
    PROVE  Inv'
  <1>1. /\ UNCHANGED <<approvals, approvalsFile, handlers>>
        /\ t \notin issued /\ issued' = issued \union {t}
    BY DEF QueueForUser, approvalVars
  <1>2. t \notin InboxTasks \union RequestTasks /\ \A h \in handlers : h.task # t
    BY <1>1 DEF Inv, IdsAreFresh
  <1>3. /\ Range(messages) \subseteq Range(messages')
        /\ \E m \in Range(messages') : m.task = t /\ m.status = "pending"
        /\ TasksOf(messages') = TasksOf(messages) \union {t}
        /\ InboxTasks' \subseteq InboxTasks \union {t}
        /\ OneEntryEach(messages') /\ OneEntryEach(messagesFile')
    BY <1>2, AddedMessage DEF QueueForUser
  <1>4. /\ \A u \in Tasks : u # t => tasks'[u] = tasks[u]
        /\ tasks'[t].status = "INPUT_REQUIRED"
    BY OpenedTask DEF QueueForUser, Inv, TypeOK, RegistryTypeOK
  <1>5. IdsAreFresh'
    BY <1>1, <1>3, <1>4 DEF Inv, IdsAreFresh, RequestTasks
  <1>6. OnePlaceEach'
    BY <1>1, <1>2, <1>3 DEF Inv, OnePlaceEach, RequestTasks
  <1>7. WorkIsBeingDone'
    BY <1>1, <1>2, <1>4 DEF Inv, WorkIsBeingDone
  <1>8. OpenMessageIsQueued'
    BY <1>1, <1>3, <1>4 DEF Inv, OpenMessageIsQueued
  <1>9. AttributionTruthful'
    BY <1>1, <1>3, <1>4, HasEntryTasks DEF Inv, AttributionTruthful
  <1> QED BY <1>1, <1>5, <1>6, <1>7, <1>8, <1>9, RequestsKept DEF Inv

LEMMA SpawnChildInv ==
    ASSUME Inv, TypeOK', NEW t \in Tasks, NEW s \in Senders, NEW signed \in BOOLEAN,
           SpawnChild(t, s, signed)
    PROVE  Inv'
  <1>1. PICK tier \in Tiers : handlers' = handlers \union
            {[task |-> t, sender |-> s, tier |-> tier, stage |-> "child"]}
    BY DEF SpawnChild
  <1>2. /\ UNCHANGED <<messages, messagesFile, approvals, approvalsFile>>
        /\ t \notin issued /\ issued' = issued \union {t}
    BY DEF SpawnChild, queueVars
  <1>3. t \notin InboxTasks \union RequestTasks /\ \A h \in handlers : h.task # t
    BY <1>2 DEF Inv, IdsAreFresh
  <1>4. /\ \A u \in Tasks : u # t => tasks'[u] = tasks[u]
        /\ tasks'[t].status = "WORKING"
    BY OpenedTask DEF SpawnChild, Inv, TypeOK, RegistryTypeOK
  <1>5. IdsAreFresh'
    BY <1>1, <1>2, <1>4 DEF Inv, IdsAreFresh, InboxTasks, RequestTasks
  <1>6. OnePlaceEach'
    BY <1>1, <1>2, <1>3 DEF Inv, OnePlaceEach, InboxTasks, RequestTasks
  <1>7. WorkIsBeingDone'
    <2> DEFINE g == [task |-> t, sender |-> s, tier |-> tier, stage |-> "child"]
    <2>0. g.task = t /\ handlers' = handlers \union {g}
      BY <1>1
    <2> HIDE DEF g
    <2>1. \A u : (\E h \in handlers' : h.task = u) <=> (u = t \/ \E h \in handlers : h.task = u)
      BY <2>0
    <2> QED BY <2>1, <1>3, <1>4 DEF Inv, WorkIsBeingDone
  <1>8. OpenMessageIsQueued' /\ AttributionTruthful'
    BY <1>2, <1>4 DEF Inv, OpenMessageIsQueued, AttributionTruthful
  <1> QED BY <1>2, <1>5, <1>6, <1>7, <1>8, RequestsKept DEF Inv

\* A suspended request is the only place its task is in.
LEMMA HandlerAlone ==
    ASSUME Inv, NEW h \in handlers
    PROVE  /\ h.task \in Tasks /\ h.task \in issued /\ h.sender \in Senders
           /\ h.task \notin InboxTasks \union RequestTasks
           /\ h.task \notin TasksOf(messages) /\ h.task \notin TasksOf(approvals)
           /\ tasks[h.task].status = "WORKING"
           /\ \A g \in handlers \ {h} : g.task # h.task
  <1>1. h.task \in Tasks /\ h.sender \in Senders
    BY DEF Inv, TypeOK, Handler
  <1> QED BY <1>1 DEF Inv, IdsAreFresh, OnePlaceEach, WorkIsBeingDone, InboxTasks, RequestTasks

LEMMA CompleteAutonomouslyInv ==
    ASSUME Inv, TypeOK', NEW h \in handlers, CompleteAutonomously(h)
    PROVE  Inv'
  <1>1. /\ UNCHANGED <<messages, messagesFile, approvals, approvalsFile, issued>>
        /\ handlers' = handlers \ {h}
    BY DEF CompleteAutonomously, queueVars
  <1>2. /\ \A u \in Tasks : u # h.task => tasks'[u] = tasks[u]
        /\ tasks'[h.task].status = "COMPLETED"
        /\ tasks'[h.task].artifact = "child_answer"
        /\ tasks'[h.task].attribution = "autonomous"
    <2>1. tasks \in [Tasks -> TaskRecord] /\ h.task \in Tasks /\ tasks[h.task].status # "ABSENT"
      BY HandlerAlone DEF Inv, TypeOK, RegistryTypeOK
    <2>2. tasks' = UpdateTask(tasks, h.task, "COMPLETED", "child_answer", None, "autonomous")
      BY DEF CompleteAutonomously
    <2> QED BY <2>1, <2>2, UpdatedTask DEF Given, None
  <1>3. IdsAreFresh'
    BY <1>1, <1>2, HandlerAlone DEF Inv, IdsAreFresh, InboxTasks, RequestTasks
  <1>4. OnePlaceEach'
    BY <1>1 DEF Inv, OnePlaceEach, InboxTasks, RequestTasks
  <1>5. WorkIsBeingDone'
    BY <1>1, <1>2, HandlerAlone DEF Inv, WorkIsBeingDone
  <1>6. OpenMessageIsQueued'
    BY <1>1, <1>2 DEF Inv, OpenMessageIsQueued
  <1>7. AttributionTruthful'
    BY <1>1, <1>2, HandlerAlone, HasEntryTasks DEF Inv, AttributionTruthful
  <1> QED BY <1>1, <1>3, <1>4, <1>5, <1>6, <1>7, RequestsKept DEF Inv

LEMMA StartEvaluationInv ==
    ASSUME Inv, TypeOK', NEW h \in handlers, StartEvaluation(h)
    PROVE  Inv'
  <1> DEFINE g == [h EXCEPT !.stage = "evaluating"]
  <1>1. /\ UNCHANGED <<tasks, messages, messagesFile, approvals, approvalsFile, issued>>
        /\ handlers' = (handlers \ {h}) \union {g}
    BY DEF StartEvaluation, registryVars, queueVars
  <1>2. g.task = h.task
    BY DEF Inv, TypeOK, Handler
  <1> HIDE DEF g
  <1>3. IdsAreFresh'
    BY <1>1, <1>2, HandlerAlone DEF Inv, IdsAreFresh, InboxTasks, RequestTasks
  <1>4. OnePlaceEach'
    BY <1>1, <1>2, HandlerAlone DEF Inv, OnePlaceEach, InboxTasks, RequestTasks
  <1>5. WorkIsBeingDone'
    BY <1>1, <1>2 DEF Inv, WorkIsBeingDone
  <1>6. OpenMessageIsQueued' /\ AttributionTruthful'
    BY <1>1 DEF Inv, OpenMessageIsQueued, AttributionTruthful
  <1> QED BY <1>1, <1>3, <1>4, <1>5, <1>6, RequestsKept DEF Inv

LEMMA EscalateInv ==
    ASSUME Inv, TypeOK', NEW h \in handlers, NEW o \in SaveOutcomes, Escalate(h, o)
    PROVE  Inv'
  <1> DEFINE t == h.task
             waiting == SetStatus(tasks, t, "INPUT_REQUIRED")
  <1>1. /\ UNCHANGED <<approvals, approvalsFile, issued>>
        /\ handlers' = handlers \ {h}
    BY DEF Escalate, approvalVars
  <1>2. /\ Range(messages) \subseteq Range(messages')
        /\ \E m \in Range(messages') : m.task = t /\ m.status = "pending"
        /\ TasksOf(messages') = TasksOf(messages) \union {t}
        /\ InboxTasks' \subseteq InboxTasks \union {t}
        /\ OneEntryEach(messages') /\ OneEntryEach(messagesFile')
    BY HandlerAlone, AddedMessage DEF Escalate
  <1>3. /\ \A u \in Tasks : u # t => tasks'[u] = tasks[u]
        /\ tasks'[t].status \in {"INPUT_REQUIRED", "FAILED"}
    <2>1. tasks \in [Tasks -> TaskRecord] /\ tasks[t].status = "WORKING" /\ t \in Tasks
      BY HandlerAlone DEF Inv, TypeOK, RegistryTypeOK
    <2>2. /\ waiting \in [Tasks -> TaskRecord]
          /\ \A u \in Tasks : u # t => waiting[u] = tasks[u]
          /\ waiting[t].status = "INPUT_REQUIRED"
      <3>1. "INPUT_REQUIRED" \in Statuses
        BY DEF Statuses
      <3> QED BY <2>1, <3>1, SetStatusType, UpdatedTask DEF SetStatus
    <2>3. tasks' = IF o = "saved" THEN waiting
                   ELSE UpdateTask(waiting, t, "FAILED", None, "save_failed", None)
      BY DEF Escalate
    <2> QED BY <2>1, <2>2, <2>3, UpdatedTask
  <1>4. IdsAreFresh'
    BY <1>1, <1>2, <1>3, HandlerAlone DEF Inv, IdsAreFresh, RequestTasks
  <1>5. OnePlaceEach'
    BY <1>1, <1>2, HandlerAlone DEF Inv, OnePlaceEach, RequestTasks
  <1>6. WorkIsBeingDone'
    BY <1>1, <1>3, HandlerAlone DEF Inv, WorkIsBeingDone
  <1>7. OpenMessageIsQueued'
    BY <1>1, <1>2, <1>3 DEF Inv, OpenMessageIsQueued
  <1>8. AttributionTruthful'
    BY <1>1, <1>2, <1>3, HasEntryTasks DEF Inv, AttributionTruthful
  <1> QED BY <1>1, <1>4, <1>5, <1>6, <1>7, <1>8, RequestsKept DEF Inv

LEMMA ChildFailsInv ==
    ASSUME Inv, TypeOK', NEW h \in handlers, ChildFails(h)
    PROVE  Inv'
  <1>1. /\ UNCHANGED <<messages, messagesFile, approvals, approvalsFile, issued>>
        /\ handlers' = handlers \ {h}
    BY DEF ChildFails, queueVars
  <1>2. /\ \A u \in Tasks : u # h.task => tasks'[u] = tasks[u]
        /\ tasks'[h.task].status = "FAILED"
    <2>1. tasks \in [Tasks -> TaskRecord] /\ h.task \in Tasks /\ tasks[h.task].status # "ABSENT"
      BY HandlerAlone DEF Inv, TypeOK, RegistryTypeOK
    <2>2. tasks' = UpdateTask(tasks, h.task, "FAILED", None, "child_failed", None)
      BY DEF ChildFails
    <2> QED BY <2>1, <2>2, UpdatedTask
  <1>3. IdsAreFresh'
    BY <1>1, <1>2, HandlerAlone DEF Inv, IdsAreFresh, InboxTasks, RequestTasks
  <1>4. OnePlaceEach'
    BY <1>1 DEF Inv, OnePlaceEach, InboxTasks, RequestTasks
  <1>5. WorkIsBeingDone'
    BY <1>1, <1>2, HandlerAlone DEF Inv, WorkIsBeingDone
  <1>6. OpenMessageIsQueued' /\ AttributionTruthful'
    BY <1>1, <1>2 DEF Inv, OpenMessageIsQueued, AttributionTruthful
  <1> QED BY <1>1, <1>3, <1>4, <1>5, <1>6, RequestsKept DEF Inv

LEMMA InjectInv ==
    ASSUME Inv, TypeOK', Inject
    PROVE  Inv'
  <1>1. UNCHANGED <<tasks, messages, messagesFile, approvals, approvalsFile, issued, handlers>>
    BY DEF Inject, registryVars, queueVars
  <1> QED BY <1>1, RequestsKept DEF Inv, IdsAreFresh, OnePlaceEach, InboxTasks, RequestTasks,
             WorkIsBeingDone, OpenMessageIsQueued, AttributionTruthful

\* Approve and block close at most the task of a contact request.
LEMMA RequestDecidedInv ==
    ASSUME Inv, TypeOK', NEW t \in TasksOf(approvals),
           UNCHANGED <<messages, messagesFile, issued, handlers>>,
           TasksOf(approvals') = TasksOf(approvals),
           RequestTasks' \subseteq RequestTasks,
           OneEntryEach(approvals'), OneEntryEach(approvalsFile'), RequestFileTrails',
           \A u \in Tasks : u # t => tasks'[u] = tasks[u],
           tasks'[t] = tasks[t] \/ (tasks[t].status # "ABSENT" /\ tasks'[t].status \in Closed)
    PROVE  Inv'
  <1>1. t \in RequestTasks /\ \A h \in handlers : h.task # t
    BY DEF Inv, OnePlaceEach, RequestTasks
  <1>2. IdsAreFresh'
    <2>1. t \in issued
      BY <1>1 DEF Inv, IdsAreFresh
    <2> QED BY <2>1 DEF Inv, IdsAreFresh, InboxTasks
  <1>3. OnePlaceEach'
    BY DEF Inv, OnePlaceEach, InboxTasks
  <1>4. WorkIsBeingDone'
    BY <1>1 DEF Inv, WorkIsBeingDone, Closed
  <1>5. OpenMessageIsQueued' /\ AttributionTruthful'
    BY HasEntryTasks DEF Inv, OpenMessageIsQueued, AttributionTruthful
  <1> QED BY <1>2, <1>3, <1>4, <1>5 DEF Inv

LEMMA ApproveInv ==
    ASSUME Inv, TypeOK', NEW s \in Senders, NEW tier \in Tiers, NEW o \in SaveOutcomes,
           NEW q \in SaveOutcomes, Approve(s, tier, o, q)
    PROVE  Inv'
  <1>1. PICK i \in FirstRequestFrom(s) :
          /\ IF o = "saved" THEN UpdateApprovalStatus(approvals[i].task, "approved", q)
                            ELSE UNCHANGED approvalVars
          /\ tasks' = IF o = "saved" /\ q = "saved"
                       THEN UpdateTask(tasks, approvals[i].task, "COMPLETED",
                                       "approval_notice", None, None)
                       ELSE tasks
          /\ UNCHANGED <<deferredIds, messageVars, issued, handlers, injectedIds>>
    BY DEF Approve
  <1> DEFINE t == approvals[i].task
  <1>2. t \in Tasks /\ t \in TasksOf(approvals)
    BY FirstRequestType DEF Inv, TasksOf
  <1>3. /\ TasksOf(approvals') = TasksOf(approvals) /\ RequestTasks' \subseteq RequestTasks
        /\ OneEntryEach(approvals') /\ OneEntryEach(approvalsFile') /\ RequestFileTrails'
    <2>1. CASE o = "saved"
      <3>1. "approved" \in ApprovalStatuses
        BY DEF ApprovalStatuses
      <3> QED BY <1>1, <2>1, <3>1, RestatedRequest
    <2>2. CASE o # "saved"
      BY <1>1, <2>2, RequestsKept DEF approvalVars, RequestTasks, Inv, OnePlaceEach
    <2> QED BY <2>1, <2>2
  <1>4. /\ \A u \in Tasks : u # t => tasks'[u] = tasks[u]
        /\ tasks'[t] = tasks[t] \/ (tasks[t].status # "ABSENT" /\ tasks'[t].status \in Closed)
    BY <1>1, <1>2, UpdatedTask DEF Inv, TypeOK, RegistryTypeOK, Closed
  <1> QED BY <1>1, <1>2, <1>3, <1>4, RequestDecidedInv DEF messageVars

LEMMA BlockInv ==
    ASSUME Inv, TypeOK', NEW s \in Senders, NEW o \in SaveOutcomes, Block(s, o)
    PROVE  Inv'
  <1>1. PICK i \in FirstRequestFrom(s) :
          /\ UpdateApprovalStatus(approvals[i].task, "blocked", o)
          /\ tasks' = IF o = "saved"
                       THEN UpdateTask(tasks, approvals[i].task, "FAILED", None, "blocked", None)
                       ELSE tasks
          /\ UNCHANGED <<deferredIds, messageVars, contactVars, issued, handlers, injectedIds>>
    BY DEF Block
  <1> DEFINE t == approvals[i].task
  <1>2. t \in Tasks /\ t \in TasksOf(approvals)
    BY FirstRequestType DEF Inv, TasksOf
  <1>3. /\ TasksOf(approvals') = TasksOf(approvals) /\ RequestTasks' \subseteq RequestTasks
        /\ OneEntryEach(approvals') /\ OneEntryEach(approvalsFile') /\ RequestFileTrails'
    <2>1. "blocked" \in ApprovalStatuses
      BY DEF ApprovalStatuses
    <2> QED BY <1>1, <2>1, RestatedRequest
  <1>4. /\ \A u \in Tasks : u # t => tasks'[u] = tasks[u]
        /\ tasks'[t] = tasks[t] \/ (tasks[t].status # "ABSENT" /\ tasks'[t].status \in Closed)
    BY <1>1, <1>2, UpdatedTask DEF Inv, TypeOK, RegistryTypeOK, Closed
  <1> QED BY <1>1, <1>2, <1>3, <1>4, RequestDecidedInv DEF messageVars

LEMMA ContactChangeInv ==
    ASSUME Inv, TypeOK', UNCHANGED <<registryVars, queueVars, issued, handlers>>
    PROVE  Inv'
  BY RequestsKept DEF Inv, registryVars, queueVars, IdsAreFresh, OnePlaceEach, InboxTasks, RequestTasks,
         WorkIsBeingDone, OpenMessageIsQueued, AttributionTruthful

\* Of a task in the inbox: its entry tells whether it was escalated, and the
\* task is neither worked on nor a contact request.
LEMMA InboxTask ==
    ASSUME Inv, NEW t \in Tasks, HasEntry(messages, t)
    PROVE  /\ \E m \in Range(messages) : m.task = t /\ (m.escalated <=> IsEscalated(t))
           /\ t \in issued /\ \A h \in handlers : h.task # t
           /\ tasks[t].status # "WORKING"
           /\ ~HasEntry(approvals, t)
  <1>1. t \in TasksOf(messages) /\ t \in InboxTasks
    BY HasEntryTasks DEF InboxTasks
  <1>2. PICK i \in DOMAIN messages : messages[i].task = t
    BY DEF HasEntry
  <1>3. FirstFor(messages, t) = {i}
    <2>1. \A j \in DOMAIN messages : messages[j].task = t => j = i
      BY <1>2 DEF Inv, OnePlaceEach, OneEntryEach
    <2>2. i <= i
      BY LenProperties DEF Inv, TypeOK, QueueTypeOK
    <2> QED BY <1>2, <2>1, <2>2 DEF FirstFor
  <1>4. messages[i] \in Range(messages) /\ (messages[i].escalated <=> IsEscalated(t))
    BY <1>3 DEF IsEscalated, Range
  <1>5. t \in issued /\ \A h \in handlers : h.task # t
    BY <1>1 DEF Inv, IdsAreFresh, OnePlaceEach
  <1>6. tasks[t].status # "WORKING"
    BY <1>5 DEF Inv, WorkIsBeingDone
  <1>7. ~HasEntry(approvals, t)
    BY <1>1, HasEntryTasks DEF Inv, OnePlaceEach, RequestTasks
  <1> QED BY <1>2, <1>4, <1>5, <1>6, <1>7

\* What answering, dismissing and deferring have in common.
LEMMA MessageDecidedInv ==
    ASSUME Inv, TypeOK', NEW t \in Tasks, NEW status \in MessageStatuses, NEW o \in SaveOutcomes,
           HasEntry(messages, t), UpdateMessageStatus(t, status, o),
           UNCHANGED <<approvals, approvalsFile, issued, handlers>>,
           \A u \in Tasks : u # t => tasks'[u] = tasks[u],
           tasks[t].status = "ABSENT" => tasks'[t].status = "ABSENT",
           tasks'[t].status # "WORKING",
           tasks'[t].status \in {"SUBMITTED", "INPUT_REQUIRED"} => status = "deferred",
           tasks'[t].status = "COMPLETED" =>
               \/ tasks'[t] = tasks[t]
               \/ /\ tasks'[t].artifact = "user_reply"
                  /\ tasks'[t].attribution = IF IsEscalated(t) THEN "escalated_user_response"
                                                               ELSE "user_response"
    PROVE  Inv'
  <1>1. /\ \A m \in Range(messages) : \E n \in Range(messages') :
             /\ n.task = m.task /\ n.escalated = m.escalated
             /\ n.status = IF m.task = t THEN status ELSE m.status
        /\ TasksOf(messages') = TasksOf(messages)
        /\ InboxTasks' \subseteq InboxTasks
        /\ OneEntryEach(messages') /\ OneEntryEach(messagesFile')
    BY UpdatedMessage
  <1>2. /\ \E m \in Range(messages) : m.task = t /\ (m.escalated <=> IsEscalated(t))
        /\ t \in issued /\ (\A h \in handlers : h.task # t)
        /\ ~HasEntry(approvals, t)
    BY InboxTask
  <1>3. IdsAreFresh'
    BY <1>1, <1>2 DEF Inv, IdsAreFresh, RequestTasks
  <1>4. OnePlaceEach'
    BY <1>1 DEF Inv, OnePlaceEach, RequestTasks
  <1>5. WorkIsBeingDone'
    BY <1>2 DEF Inv, WorkIsBeingDone
  <1>6. OpenMessageIsQueued'
    <2> SUFFICES ASSUME NEW u \in Tasks,
                        tasks'[u].status \in {"SUBMITTED", "INPUT_REQUIRED"},
                        ~HasEntry(approvals, u)
                 PROVE  \E n \in Range(messages') : n.task = u /\ n.status \in {"pending", "deferred"}
      BY DEF OpenMessageIsQueued
    <2>1. CASE u = t
      BY <1>1, <1>2, <2>1
    <2>2. CASE u # t
      BY <1>1, <2>2 DEF Inv, OpenMessageIsQueued
    <2> QED BY <2>1, <2>2
  <1>7. AttributionTruthful'
    <2> SUFFICES ASSUME NEW u \in Tasks, tasks'[u].status = "COMPLETED", ~HasEntry(approvals, u)
                 PROVE  (CASE tasks[u].attribution = "autonomous" ->
                            tasks[u].artifact = "child_answer" /\ ~HasEntry(messages, u)
                      [] tasks[u].attribution = "user_response" ->
                            /\ tasks[u].artifact = "user_reply"
                            /\ \E m \in Range(messages) : m.task = u /\ ~m.escalated
                      [] tasks[u].attribution = "escalated_user_response" ->
                            /\ tasks[u].artifact = "user_reply"
                            /\ \E m \in Range(messages) : m.task = u /\ m.escalated
                      [] OTHER -> FALSE)'
      BY DEF AttributionTruthful
    <2>1. CASE tasks'[u] = tasks[u]
      BY <1>1, <2>1, HasEntryTasks DEF Inv, AttributionTruthful
    <2>2. CASE u = t /\ tasks'[u] # tasks[u]
      BY <1>1, <1>2, <2>2
    <2> QED BY <2>1, <2>2
  <1> QED BY <1>3, <1>4, <1>5, <1>6, <1>7, RequestsKept DEF Inv

LEMMA RespondInv ==
    ASSUME Inv, TypeOK', NEW t \in Tasks, NEW o \in SaveOutcomes, Respond(t, o)
    PROVE  Inv'
  <1> DEFINE who == IF IsEscalated(t) THEN "escalated_user_response" ELSE "user_response"
  <1>1. tasks \in [Tasks -> TaskRecord] /\ "responded" \in MessageStatuses
    BY DEF Inv, TypeOK, RegistryTypeOK, MessageStatuses
  <1>2. tasks' = UpdateTask(tasks, t, "COMPLETED", "user_reply", None, who)
    BY DEF Respond
  <1>3. who # None
    BY DEF None
  <1> HIDE DEF who
  <1>4. /\ \A u \in Tasks : u # t => tasks'[u] = tasks[u]
        /\ tasks[t].status = "ABSENT" => tasks'[t] = tasks[t]
        /\ tasks[t].status # "ABSENT" =>
             /\ tasks'[t].status = "COMPLETED"
             /\ tasks'[t].artifact = "user_reply"
             /\ tasks'[t].attribution = who
    BY <1>1, <1>2, <1>3, UpdatedTask DEF Given, None
  <1>5. /\ HasEntry(messages, t) /\ UpdateMessageStatus(t, "responded", o)
        /\ UNCHANGED <<approvals, approvalsFile, issued, handlers>>
    BY DEF Respond, approvalVars
  <1> QED BY <1>1, <1>4, <1>5, MessageDecidedInv DEF who

LEMMA DismissInv ==
    ASSUME Inv, TypeOK', NEW t \in Tasks, NEW o \in SaveOutcomes, Dismiss(t, o)
    PROVE  Inv'
  <1>1. tasks \in [Tasks -> TaskRecord] /\ "dismissed" \in MessageStatuses
    BY DEF Inv, TypeOK, RegistryTypeOK, MessageStatuses
  <1>2. /\ \A u \in Tasks : u # t => tasks'[u] = tasks[u]
        /\ tasks[t].status = "ABSENT" => tasks'[t] = tasks[t]
        /\ tasks[t].status # "ABSENT" => tasks'[t].status = "REJECTED"
    BY <1>1, UpdatedTask DEF Dismiss
  <1>3. /\ HasEntry(messages, t) /\ UpdateMessageStatus(t, "dismissed", o)
        /\ UNCHANGED <<approvals, approvalsFile, issued, handlers>>
    BY DEF Dismiss, approvalVars
  <1> QED BY <1>1, <1>2, <1>3, MessageDecidedInv

LEMMA DeferInv ==
    ASSUME Inv, TypeOK', NEW t \in Tasks, NEW o \in SaveOutcomes, Defer(t, o)
    PROVE  Inv'
  <1>1. "deferred" \in MessageStatuses
    BY DEF MessageStatuses
  <1>2. /\ HasEntry(messages, t) /\ UpdateMessageStatus(t, "deferred", o)
        /\ UNCHANGED <<tasks, approvals, approvalsFile, issued, handlers>>
    BY DEF Defer, approvalVars
  <1>3. tasks[t].status # "WORKING"
    BY <1>2, InboxTask
  <1> QED BY <1>1, <1>2, <1>3, MessageDecidedInv

LEMMA RestartInv ==
    ASSUME Inv, TypeOK', Restart
    PROVE  Inv'
  <1>1. /\ \A t \in Tasks : tasks'[t].status = "ABSENT"
        /\ handlers' = {} /\ issued' = issued
        /\ messages' = messagesFile /\ messagesFile' = messagesFile
        /\ approvals' = approvalsFile /\ approvalsFile' = approvalsFile
    BY DEF Restart, ReloadQueue, Absent, Blank
  <1>2. IdsAreFresh' /\ OnePlaceEach' /\ RequestFileTrails'
    BY <1>1 DEF Inv, IdsAreFresh, OnePlaceEach, RequestFileTrails, InboxTasks, RequestTasks
  <1>3. WorkIsBeingDone' /\ OpenMessageIsQueued' /\ AttributionTruthful'
    BY <1>1 DEF WorkIsBeingDone, OpenMessageIsQueued, AttributionTruthful
  <1> QED BY <1>2, <1>3 DEF Inv

LEMMA InvStep == Inv /\ [Next]_vars => Inv'
  <1> SUFFICES ASSUME Inv, [Next]_vars
               PROVE  Inv'
    OBVIOUS
  <1>1. TypeOK'
    BY TypeStep DEF Inv
  <1>2. CASE Receive
    BY <1>1, <1>2, FirstContactInv, QueueForUserInv, SpawnChildInv DEF Receive
  <1>3. ASSUME NEW h \in handlers, Resume(h)
        PROVE  Inv'
    BY <1>1, <1>3, CompleteAutonomouslyInv, StartEvaluationInv, EscalateInv, ChildFailsInv
    DEF Resume, AnswerUnevaluated, AcceptAnswer
  <1>4. CASE Inject
    BY <1>1, <1>4, InjectInv
  <1>5. CASE DecideOnSender
    BY <1>1, <1>5, ApproveInv, BlockInv, ContactChangeInv
    DEF DecideOnSender, Trust, AddContactByUrl
  <1>6. CASE DecideOnMessage
    BY <1>1, <1>6, RespondInv, DismissInv, DeferInv DEF DecideOnMessage
  <1>7. CASE Restart
    BY <1>1, <1>7, RestartInv
  <1>8. CASE UNCHANGED vars
    BY <1>1, <1>8, ContactChangeInv DEF vars
  <1> QED BY <1>2, <1>3, <1>4, <1>5, <1>6, <1>7, <1>8 DEF Next

\* The inductive invariant holds, for any number of tasks, senders, tiers,
\* contacts and restarts, and whatever becomes of the writes.
THEOREM InvAlways == Spec => []Inv
  BY InvInit, InvStep, PTL DEF Spec

\* A task says WORKING exactly while a request of handle_send_message is
\* suspended on it.
THEOREM WorkAlwaysBeingDone == Spec => []WorkIsBeingDone
  <1>1. Inv => WorkIsBeingDone
    BY DEF Inv
  <1> QED BY <1>1, InvAlways, PTL

\* A message whose sender still waits is always in the inbox, undecided.
THEOREM OpenMessageAlwaysQueued == Spec => []OpenMessageIsQueued
  <1>1. Inv => OpenMessageIsQueued
    BY DEF Inv
  <1> QED BY <1>1, InvAlways, PTL

\* What senders are told about who answered is always true.
THEOREM AttributionAlwaysTruthful == Spec => []AttributionTruthful
  <1>1. Inv => AttributionTruthful
    BY DEF Inv
  <1> QED BY <1>1, InvAlways, PTL

-----------------------------------------------------------------------------
(* The action properties.                                                  *)

\* UpdateTask takes no task from a closed status to an open one by itself.
LEMMA ClosingUpdate ==
    ASSUME NEW t \in Tasks, NEW u \in Tasks, tasks \in [Tasks -> TaskRecord],
           tasks[t].status \in Closed,
           NEW status \in Closed, NEW artifact, NEW error, NEW attribution
    PROVE  UpdateTask(tasks, u, status, artifact, error, attribution)[t].status \in Closed
  BY UpdatedTask

LEMMA ClosedStep ==
    ASSUME Inv, [Next]_vars, NEW t \in Tasks, tasks[t].status \in Closed
    PROVE  tasks'[t].status \in Closed \union {"ABSENT"}
  <1>0. tasks \in [Tasks -> TaskRecord] /\ {"COMPLETED", "FAILED", "REJECTED"} = Closed
    BY DEF Inv, TypeOK, RegistryTypeOK, Closed
  <1>1. CASE Receive
    <2>1. t \in issued
      BY <1>0 DEF Inv, IdsAreFresh
    <2>2. PICK u \in Tasks, s \in Senders, signed \in BOOLEAN :
            \/ \E o \in SaveOutcomes : FirstContact(u, s, signed, o)
            \/ \E o \in SaveOutcomes : QueueForUser(u, s, signed, o)
            \/ SpawnChild(u, s, signed)
      BY <1>1 DEF Receive
    <2>3. u # t
      BY <2>1, <2>2 DEF FirstContact, QueueForUser, SpawnChild
    <2>4. \/ tasks' = CreateTask(tasks, u)
          \/ \E status \in {"INPUT_REQUIRED", "WORKING"} :
               tasks' = SetStatus(CreateTask(tasks, u), u, status)
      BY <2>2 DEF FirstContact, QueueForUser, SpawnChild
    <2>5. CASE tasks' = CreateTask(tasks, u)
      BY <2>3, <2>5, <1>0 DEF CreateTask
    <2>6. ASSUME NEW status \in {"INPUT_REQUIRED", "WORKING"},
                 tasks' = SetStatus(CreateTask(tasks, u), u, status)
          PROVE  tasks'[t] = tasks[t]
      <3>1. status \in Statuses
        BY DEF Statuses
      <3> QED BY <1>0, <2>3, <2>6, <3>1, OpenedTask
    <2> QED BY <2>4, <2>5, <2>6
  <1>2. ASSUME NEW h \in handlers, Resume(h)
        PROVE  tasks'[t].status \in Closed
    <2>1. h.task \in Tasks /\ h.task # t
      BY <1>0, HandlerAlone
    <2>2. CASE \E o \in SaveOutcomes : Escalate(h, o)
      <3> DEFINE waiting == SetStatus(tasks, h.task, "INPUT_REQUIRED")
      <3>1. waiting \in [Tasks -> TaskRecord] /\ waiting[t] = tasks[t]
        <4>1. "INPUT_REQUIRED" \in Statuses
          BY DEF Statuses
        <4> QED BY <1>0, <2>1, <4>1, SetStatusType, UpdatedTask DEF SetStatus
      <3>2. \/ tasks' = waiting
            \/ tasks' = UpdateTask(waiting, h.task, "FAILED", None, "save_failed", None)
        BY <2>2 DEF Escalate
      <3> QED BY <2>1, <3>1, <3>2, UpdatedTask
    <2>3. CASE StartEvaluation(h)
      BY <2>3 DEF StartEvaluation, registryVars
    <2>4. CASE CompleteAutonomously(h) \/ ChildFails(h)
      BY <1>0, <2>1, <2>4, ClosingUpdate DEF CompleteAutonomously, ChildFails
    <2> QED BY <1>2, <2>2, <2>3, <2>4 DEF Resume, AnswerUnevaluated, AcceptAnswer
  <1>3. CASE Inject
    BY <1>3 DEF Inject, registryVars
  <1>4. CASE DecideOnSender
    <2>1. PICK s \in Senders, o \in SaveOutcomes :
            \/ \E tier \in Tiers, q \in SaveOutcomes : Approve(s, tier, o, q)
            \/ Block(s, o)
            \/ \E tier \in Tiers : Trust(s, tier, o)
            \/ \E tier \in Tiers : AddContactByUrl(s, tier, o)
      BY <1>4 DEF DecideOnSender
    <2>2. CASE \E tier \in Tiers, q \in SaveOutcomes : Approve(s, tier, o, q)
      <3>1. PICK i \in FirstRequestFrom(s) :
               \/ tasks' = UpdateTask(tasks, approvals[i].task, "COMPLETED",
                                      "approval_notice", None, None)
               \/ tasks' = tasks
        BY <2>2 DEF Approve
      <3>2. approvals[i].task \in Tasks
        BY FirstRequestType DEF Inv
      <3> QED BY <1>0, <3>1, <3>2, ClosingUpdate
    <2>3. CASE Block(s, o)
      <3>1. PICK i \in FirstRequestFrom(s) :
               \/ tasks' = UpdateTask(tasks, approvals[i].task, "FAILED", None, "blocked", None)
               \/ tasks' = tasks
        BY <2>3 DEF Block
      <3>2. approvals[i].task \in Tasks
        BY FirstRequestType DEF Inv
      <3> QED BY <1>0, <3>1, <3>2, ClosingUpdate
    <2> QED BY <2>1, <2>2, <2>3 DEF Trust, AddContactByUrl, registryVars
  <1>5. CASE DecideOnMessage
    <2>1. PICK u \in Tasks, o \in SaveOutcomes : Respond(u, o) \/ Dismiss(u, o) \/ Defer(u, o)
      BY <1>5 DEF DecideOnMessage
    <2> QED BY <1>0, <2>1, ClosingUpdate DEF Respond, Dismiss, Defer
  <1>6. CASE Restart
    BY <1>6 DEF Restart, Absent, Blank
  <1>7. CASE UNCHANGED vars
    BY <1>7 DEF vars, registryVars
  <1> QED BY <1>1, <1>2, <1>3, <1>4, <1>5, <1>6, <1>7 DEF Next

\* No step reopens a task its sender may have seen closed.
THEOREM ClosedNeverReopensAlways == Spec => ClosedNeverReopens
  <1>1. Inv /\ [Next]_vars =>
          [\A t \in Tasks : tasks[t].status \in Closed =>
             tasks'[t].status \in Closed \union {"ABSENT"}]_vars
    BY ClosedStep
  <1> QED BY <1>1, InvAlways, PTL DEF Spec, ClosedNeverReopens

\* Requests are decided by approve and block.  A restart does not, as the file
\* is not ahead.
LEMMA DecidingStep ==
    ASSUME Inv, [Next]_vars, NEW i \in DOMAIN approvals \cap DOMAIN approvals',
           approvals[i].status = "pending", approvals'[i].status # "pending"
    PROVE  \E s \in Senders, o \in SaveOutcomes :
             \/ \E tier \in Tiers, q \in SaveOutcomes : Approve(s, tier, o, q)
             \/ Block(s, o)
  <1>1. approvals' # approvals
    OBVIOUS
  <1>2. CASE Receive
    <2>1. PICK t \in Tasks, s \in Senders, signed \in BOOLEAN, o \in SaveOutcomes :
            FirstContact(t, s, signed, o)
      BY <1>1, <1>2 DEF Receive, QueueForUser, SpawnChild, queueVars, approvalVars
    <2>2. t \notin RequestTasks /\ AddApproval(t, s, o)
      BY <2>1 DEF FirstContact, Inv, IdsAreFresh
    <2> QED BY <2>2, AddedApproval
  <1>3. CASE DecideOnSender
    BY <1>1, <1>3 DEF DecideOnSender, Trust, AddContactByUrl, queueVars
  <1>4. CASE Restart
    BY <1>4 DEF Restart, ReloadQueue, Inv, RequestFileTrails
  <1> QED
    BY <1>1, <1>2, <1>3, <1>4
    DEF Next, Resume, AnswerUnevaluated, AcceptAnswer, CompleteAutonomously, StartEvaluation,
        Escalate, ChildFails, Inject, DecideOnMessage, Respond, Dismiss, Defer,
        vars, queueVars, approvalVars

\* Only approve marks a request approved, and it has the sender in memory and on
\* disk by then.
LEMMA ApprovalStep ==
    ASSUME Inv, [Next]_vars, NEW i \in DOMAIN approvals \cap DOMAIN approvals',
           approvals[i].status = "pending", approvals'[i].status = "approved"
    PROVE  \A list \in {contacts', contactsFile'} :
             \E c \in Range(list) : c.sender = approvals[i].sender
  <1>1. PICK s \in Senders, o \in SaveOutcomes :
          \/ \E tier \in Tiers, q \in SaveOutcomes : Approve(s, tier, o, q)
          \/ Block(s, o)
    BY DecidingStep
  <1>2. ASSUME NEW tier \in Tiers, NEW q \in SaveOutcomes, Approve(s, tier, o, q)
        PROVE  \A list \in {contacts', contactsFile'} :
                 \E c \in Range(list) : c.sender = approvals[i].sender
    <2>1. PICK k \in FirstRequestFrom(s) :
            /\ AddContact(s, tier, o)
            /\ IF o = "saved" THEN UpdateApprovalStatus(approvals[k].task, "approved", q)
                              ELSE UNCHANGED approvalVars
      BY <1>2 DEF Approve
    <2>2. o = "saved" /\ "approved" \in ApprovalStatuses
      BY <2>1 DEF approvalVars, ApprovalStatuses
    <2>3. i = k /\ approvals[k].sender = s
      <3>1. /\ approvals[k].sender = s
            /\ \A j \in DOMAIN approvals :
                 approvals'[j] = IF j = k THEN [approvals[k] EXCEPT !.status = "approved"]
                                          ELSE approvals[j]
        BY <2>1, <2>2, RestatedRequest
      <3> QED BY <3>1
    <2>4. contactsFile' = contacts' /\ contacts' = Append(contacts, [sender |-> s, tier |-> tier])
      BY <2>1, <2>2 DEF AddContact, Written
    <2>5. contacts'[Len(contacts) + 1] = [sender |-> s, tier |-> tier]
          /\ Len(contacts) + 1 \in DOMAIN contacts'
      <3>1. contacts \in Seq(Contact) /\ [sender |-> s, tier |-> tier] \in Contact
        BY DEF Inv, TypeOK, ContactsTypeOK, Contact
      <3> QED BY <2>4, <3>1, AppendProperties, LenProperties
    <2> QED BY <2>3, <2>4, <2>5 DEF Range
  <1>3. CASE Block(s, o)
    <2>1. PICK k \in FirstRequestFrom(s) : UpdateApprovalStatus(approvals[k].task, "blocked", o)
      BY <1>3 DEF Block
    <2>2. "blocked" \in ApprovalStatuses /\ approvals \in Seq(ApprovalEntry)
      BY DEF ApprovalStatuses, Inv, TypeOK, QueueTypeOK
    <2>3. approvals'[i] = approvals[i] \/ approvals'[i] = [approvals[i] EXCEPT !.status = "blocked"]
      <3>1. \A j \in DOMAIN approvals :
              approvals'[j] = IF j = k THEN [approvals[k] EXCEPT !.status = "blocked"]
                                       ELSE approvals[j]
        BY <2>1, <2>2, RestatedRequest
      <3> QED BY <3>1
    <2>4. approvals[i] \in ApprovalEntry
      BY <2>2, LenProperties
    <2> QED BY <2>3, <2>4 DEF ApprovalEntry
  <1> QED BY <1>1, <1>2, <1>3

\* A decision whose write failed is not on disk.
LEMMA UnsavedDecision ==
    ASSUME Inv, NEW s \in Senders, NEW k \in FirstRequestFrom(s),
           NEW status \in ApprovalStatuses, NEW outcome \in SaveOutcomes, outcome # "saved",
           UpdateApprovalStatus(approvals[k].task, status, outcome)
    PROVE  \A a \in Range(approvalsFile') : a.task = approvals[k].task => a.status = "pending"
  <1>1. /\ k \in DOMAIN approvals /\ approvals[k].status = "pending"
        /\ approvalsFile' = Written(approvalsFile, approvals', outcome)
    BY DEF FirstRequestFrom, UpdateApprovalStatus, HasEntry
  <1>2. approvalsFile' = approvalsFile \/ approvalsFile' = <<>>
    BY <1>1 DEF Written
  <1>3. ASSUME NEW j \in DOMAIN approvalsFile, approvalsFile[j].task = approvals[k].task
        PROVE  approvalsFile[j].status = "pending"
    <2>1. SUFFICES ASSUME approvalsFile[j].status # "pending" PROVE FALSE
      OBVIOUS
    <2>2. j \in DOMAIN approvals /\ approvalsFile[j] = approvals[j]
      BY <2>1 DEF Inv, RequestFileTrails
    <2>3. j = k
      BY <1>1, <1>3, <2>2 DEF Inv, OnePlaceEach, OneEntryEach
    <2> QED BY <1>1, <2>1, <2>2, <2>3
  <1> QED BY <1>2, <1>3 DEF Range

\* approve and block close the task, unless they end at a failed write.
LEMMA DecisionStep ==
    ASSUME Inv, [Next]_vars, NEW i \in DOMAIN approvals \cap DOMAIN approvals',
           approvals[i].status = "pending", approvals'[i].status # "pending"
    PROVE  \/ tasks'[approvals[i].task].status \in Closed \union {"ABSENT"}
           \/ \A a \in Range(approvalsFile') :
                  a.task = approvals[i].task => a.status = "pending"
  <1>1. PICK s \in Senders, o \in SaveOutcomes :
          \/ \E tier \in Tiers, q \in SaveOutcomes : Approve(s, tier, o, q)
          \/ Block(s, o)
    BY DecidingStep
  <1>2. PICK k \in FirstRequestFrom(s), status \in {"approved", "blocked"},
             closed \in {"COMPLETED", "FAILED"}, artifact \in Artifacts, error \in Errors,
             q \in SaveOutcomes :
          /\ UpdateApprovalStatus(approvals[k].task, status, q)
          /\ q = "saved" => tasks' = UpdateTask(tasks, approvals[k].task, closed, artifact, error, None)
    <2>1. ASSUME NEW tier \in Tiers, NEW q \in SaveOutcomes, Approve(s, tier, o, q)
          PROVE  \E k \in FirstRequestFrom(s) :
                   /\ UpdateApprovalStatus(approvals[k].task, "approved", q)
                   /\ q = "saved" => tasks' = UpdateTask(tasks, approvals[k].task, "COMPLETED",
                                                         "approval_notice", None, None)
      BY <2>1 DEF Approve, approvalVars
    <2>2. CASE Block(s, o)
      BY <2>2 DEF Block, Artifacts, Errors
    <2> QED BY <1>1, <2>1, <2>2 DEF Artifacts, Errors
  <1>3. status \in ApprovalStatuses
    BY DEF ApprovalStatuses
  <1>4. i = k
    <2>1. \A j \in DOMAIN approvals :
            approvals'[j] = IF j = k THEN [approvals[k] EXCEPT !.status = status]
                                     ELSE approvals[j]
      BY <1>2, <1>3, RestatedRequest
    <2> QED BY <2>1
  <1>5. CASE q # "saved"
    BY <1>2, <1>3, <1>4, <1>5, UnsavedDecision
  <1>6. CASE q = "saved"
    <2>1. tasks \in [Tasks -> TaskRecord] /\ approvals[i].task \in Tasks
      BY <1>4, FirstRequestType DEF Inv, TypeOK, RegistryTypeOK
    <2> QED BY <1>2, <1>4, <1>6, <2>1 DEF UpdateTask, Closed
  <1> QED BY <1>5, <1>6

\* What is decided comes about, or its write has failed.
THEOREM DecisionsAlwaysTakeEffect == Spec => DecisionsTakeEffect
  <1>1. Inv /\ [Next]_vars =>
          [\A i \in DOMAIN approvals \cap DOMAIN approvals' :
             approvals[i].status = "pending" /\ approvals'[i].status # "pending" =>
                 /\ approvals'[i].status = "approved" =>
                        \A list \in {contacts', contactsFile'} :
                            \E c \in Range(list) : c.sender = approvals[i].sender
                 /\ \/ tasks'[approvals[i].task].status \in Closed \union {"ABSENT"}
                    \/ \A a \in Range(approvalsFile') :
                           a.task = approvals[i].task => a.status = "pending"]_vars
    BY ApprovalStep, DecisionStep
  <1> QED BY <1>1, InvAlways, PTL DEF Spec, DecisionsTakeEffect
=============================================================================
