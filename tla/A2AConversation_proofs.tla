------------------------ MODULE A2AConversation_proofs ------------------------
(***************************************************************************)
(* The conversation of two agents, for any number of messages and senders: *)
(* the server is a remote agent as A2AOutgoing assumes one, so that what   *)
(* is proved of the sending half alone holds of the two together.          *)
(***************************************************************************)
EXTENDS A2AConversation, TLAPS

\* What is proved of each half.
ReceiverProofs == INSTANCE A2AReceiverDurable_proofs

SenderProofs == INSTANCE A2AOutgoing_proofs WITH
    Sends <- Tasks, Agents <- {Peer}, AgentOf <- [t \in Tasks |-> Peer], remote <- RemoteTask

-----------------------------------------------------------------------------
(* The two halves are those of their proofs.                               *)

\* The receiver starts as the receiver of the proofs.
LEMMA SameReceiverInit == Receiver!Init <=> ReceiverProofs!Init
  BY DEF Receiver!None, ReceiverProofs!None, Receiver!Blank, ReceiverProofs!Blank,
         Receiver!Absent, ReceiverProofs!Absent, Receiver!RegistryInit,
         ReceiverProofs!RegistryInit, Receiver!QueueInit, ReceiverProofs!QueueInit,
         Receiver!ContactsInit, ReceiverProofs!ContactsInit, Receiver!Init, ReceiverProofs!Init

\* Its steps are those of the receiver of the proofs.
LEMMA SameReceiverNext == Receiver!Next <=> ReceiverProofs!Next
  BY DEF Receiver!Written, ReceiverProofs!Written, Receiver!FirstFor, ReceiverProofs!FirstFor,
         Receiver!HasEntry, ReceiverProofs!HasEntry, Receiver!WithStatus,
         ReceiverProofs!WithStatus, Receiver!registryVars, ReceiverProofs!registryVars,
         Receiver!None, ReceiverProofs!None, Receiver!Blank, ReceiverProofs!Blank,
         Receiver!Absent, ReceiverProofs!Absent, Receiver!CreateTask, ReceiverProofs!CreateTask,
         Receiver!Given, ReceiverProofs!Given, Receiver!UpdateTask, ReceiverProofs!UpdateTask,
         Receiver!SetStatus, ReceiverProofs!SetStatus, Receiver!messageVars,
         ReceiverProofs!messageVars, Receiver!approvalVars, ReceiverProofs!approvalVars,
         Receiver!queueVars, ReceiverProofs!queueVars, Receiver!AddMessage,
         ReceiverProofs!AddMessage, Receiver!UpdateMessageStatus,
         ReceiverProofs!UpdateMessageStatus, Receiver!AddApproval, ReceiverProofs!AddApproval,
         Receiver!UpdateApprovalStatus, ReceiverProofs!UpdateApprovalStatus,
         Receiver!IsEscalated, ReceiverProofs!IsEscalated, Receiver!PendingMessageTasks,
         ReceiverProofs!PendingMessageTasks, Receiver!PendingApprovalTasks,
         ReceiverProofs!PendingApprovalTasks, Receiver!ReloadQueue, ReceiverProofs!ReloadQueue,
         Receiver!contactVars, ReceiverProofs!contactVars, Receiver!IsKnown,
         ReceiverProofs!IsKnown, Receiver!FirstContactFor, ReceiverProofs!FirstContactFor,
         Receiver!HasTier, ReceiverProofs!HasTier, Receiver!AddContact,
         ReceiverProofs!AddContact, Receiver!UpdateTier, ReceiverProofs!UpdateTier,
         Receiver!ReloadContacts, ReceiverProofs!ReloadContacts, Receiver!Admitted,
         ReceiverProofs!Admitted, Receiver!Recognised, ReceiverProofs!Recognised,
         Receiver!FirstContact, ReceiverProofs!FirstContact, Receiver!QueueForUser,
         ReceiverProofs!QueueForUser, Receiver!SpawnChild, ReceiverProofs!SpawnChild,
         Receiver!ShouldEvaluate, ReceiverProofs!ShouldEvaluate, Receiver!CompleteAutonomously,
         ReceiverProofs!CompleteAutonomously, Receiver!AnswerUnevaluated,
         ReceiverProofs!AnswerUnevaluated, Receiver!StartEvaluation,
         ReceiverProofs!StartEvaluation, Receiver!AcceptAnswer, ReceiverProofs!AcceptAnswer,
         Receiver!Escalate, ReceiverProofs!Escalate, Receiver!ChildFails,
         ReceiverProofs!ChildFails, Receiver!Unseen, ReceiverProofs!Unseen, Receiver!Inject,
         ReceiverProofs!Inject, Receiver!FirstRequestFrom, ReceiverProofs!FirstRequestFrom,
         Receiver!Approve, ReceiverProofs!Approve, Receiver!Block, ReceiverProofs!Block,
         Receiver!Trust, ReceiverProofs!Trust, Receiver!AddContactByUrl,
         ReceiverProofs!AddContactByUrl, Receiver!Respond, ReceiverProofs!Respond,
         Receiver!Dismiss, ReceiverProofs!Dismiss, Receiver!Defer, ReceiverProofs!Defer,
         Receiver!Restart, ReceiverProofs!Restart, Receiver!Receive, ReceiverProofs!Receive,
         Receiver!Resume, ReceiverProofs!Resume, Receiver!DecideOnSender,
         ReceiverProofs!DecideOnSender, Receiver!DecideOnMessage, ReceiverProofs!DecideOnMessage,
         Receiver!Next, ReceiverProofs!Next, Receiver!Range, ReceiverProofs!Range

\* Its variables are those of the receiver of the proofs.
LEMMA SameReceiverVars == Receiver!vars = ReceiverProofs!vars
  BY DEF Receiver!registryVars, ReceiverProofs!registryVars, Receiver!queueVars,
         ReceiverProofs!queueVars, Receiver!contactVars, ReceiverProofs!contactVars,
         Receiver!vars, ReceiverProofs!vars

\* Its invariants are those of the receiver of the proofs.
LEMMA SameReceiverInv ==
    /\ Receiver!Inv <=> ReceiverProofs!Inv
    /\ Receiver!Inv' <=> ReceiverProofs!Inv'
    /\ Receiver!DurableInv <=> ReceiverProofs!DurableInv
    /\ Receiver!DurableInv' <=> ReceiverProofs!DurableInv'
  BY DEF Receiver!HasEntry, ReceiverProofs!HasEntry, Receiver!None, ReceiverProofs!None,
         Receiver!Statuses, ReceiverProofs!Statuses, Receiver!Artifacts,
         ReceiverProofs!Artifacts, Receiver!Errors, ReceiverProofs!Errors, Receiver!Attributions,
         ReceiverProofs!Attributions, Receiver!TaskRecord, ReceiverProofs!TaskRecord,
         Receiver!RegistryTypeOK, ReceiverProofs!RegistryTypeOK, Receiver!MessageStatuses,
         ReceiverProofs!MessageStatuses, Receiver!ApprovalStatuses,
         ReceiverProofs!ApprovalStatuses, Receiver!MessageEntry, ReceiverProofs!MessageEntry,
         Receiver!ApprovalEntry, ReceiverProofs!ApprovalEntry, Receiver!QueueTypeOK,
         ReceiverProofs!QueueTypeOK, Receiver!PendingApprovalTasks,
         ReceiverProofs!PendingApprovalTasks, Receiver!Contact, ReceiverProofs!Contact,
         Receiver!ContactsTypeOK, ReceiverProofs!ContactsTypeOK, Receiver!IsKnown,
         ReceiverProofs!IsKnown, Receiver!Handler, ReceiverProofs!Handler, Receiver!TypeOK,
         ReceiverProofs!TypeOK, Receiver!WorkIsBeingDone, ReceiverProofs!WorkIsBeingDone,
         Receiver!OpenMessageIsQueued, ReceiverProofs!OpenMessageIsQueued,
         Receiver!AttributionTruthful, ReceiverProofs!AttributionTruthful, Receiver!TasksOf,
         ReceiverProofs!TasksOf, Receiver!OneEntryEach, ReceiverProofs!OneEntryEach,
         Receiver!InboxTasks, ReceiverProofs!InboxTasks, Receiver!RequestTasks,
         ReceiverProofs!RequestTasks, Receiver!IdsAreFresh, ReceiverProofs!IdsAreFresh,
         Receiver!OnePlaceEach, ReceiverProofs!OnePlaceEach, Receiver!RequestFileTrails,
         ReceiverProofs!RequestFileTrails, Receiver!Inv, ReceiverProofs!Inv,
         Receiver!MessageAgrees, ReceiverProofs!MessageAgrees, Receiver!RequestAgrees,
         ReceiverProofs!RequestAgrees, Receiver!QueueAgreesWithTasks,
         ReceiverProofs!QueueAgreesWithTasks, Receiver!OpenTaskIsQueued,
         ReceiverProofs!OpenTaskIsQueued, Receiver!OnlyContactsAreServed,
         ReceiverProofs!OnlyContactsAreServed, Receiver!FilesCurrent,
         ReceiverProofs!FilesCurrent, Receiver!DurableInv, ReceiverProofs!DurableInv,
         Receiver!Range, ReceiverProofs!Range

\* The sender starts as the sender of the proofs.
LEMMA SameSenderInit == Sender!Init <=> SenderProofs!Init
  BY DEF Sender!Init, SenderProofs!Init

\* Its steps are those of the sender of the proofs.
LEMMA SameSenderNext == Sender!Next <=> SenderProofs!Next
  BY DEF Sender!remoteVars, SenderProofs!remoteVars, Sender!sendVars, SenderProofs!sendVars,
         Sender!pollVars, SenderProofs!pollVars, Sender!shownVars, SenderProofs!shownVars,
         Sender!RemoteAccepts, SenderProofs!RemoteAccepts, Sender!RemoteReplies,
         SenderProofs!RemoteReplies, Sender!RemoteRefuses, SenderProofs!RemoteRefuses,
         Sender!RemoteCloses, SenderProofs!RemoteCloses, Sender!AgentRestarts,
         SenderProofs!AgentRestarts, Sender!IsAsync, SenderProofs!IsAsync, Sender!Send,
         SenderProofs!Send, Sender!Return, SenderProofs!Return, Sender!Track, SenderProofs!Track,
         Sender!PostFails, SenderProofs!PostFails, Sender!PostReturnsAnswer,
         SenderProofs!PostReturnsAnswer, Sender!PostReturnsNoTask,
         SenderProofs!PostReturnsNoTask, Sender!PostReturnsOpenTask,
         SenderProofs!PostReturnsOpenTask, Sender!PostStartsPolling,
         SenderProofs!PostStartsPolling, Sender!CountPoll, SenderProofs!CountPoll,
         Sender!ForegroundAnswer, SenderProofs!ForegroundAnswer, Sender!ForegroundNoAnswer,
         SenderProofs!ForegroundNoAnswer, Sender!ForegroundError, SenderProofs!ForegroundError,
         Sender!Wake, SenderProofs!Wake, Sender!IsNext, SenderProofs!IsNext, Sender!PollAnswer,
         SenderProofs!PollAnswer, Sender!PollNoAnswer, SenderProofs!PollNoAnswer,
         Sender!PollError, SenderProofs!PollError, Sender!StopPoller, SenderProofs!StopPoller,
         Sender!Deliver, SenderProofs!Deliver, Sender!Remote, SenderProofs!Remote,
         Sender!SendStep, SenderProofs!SendStep, Sender!PollStep, SenderProofs!PollStep,
         Sender!Next, SenderProofs!Next, Sender!RemoveAt, SenderProofs!RemoveAt, Sender!Range,
         SenderProofs!Range

\* Its variables are those of the sender of the proofs.
LEMMA SameSenderVars == Sender!vars = SenderProofs!vars
  BY DEF Sender!remoteVars, SenderProofs!remoteVars, Sender!sendVars, SenderProofs!sendVars,
         Sender!pollVars, SenderProofs!pollVars, Sender!shownVars, SenderProofs!shownVars,
         Sender!vars, SenderProofs!vars

\* Its invariant is that of the sender of the proofs.
LEMMA SameSenderInv ==
    /\ Sender!Inv <=> SenderProofs!Inv
    /\ Sender!Inv' <=> SenderProofs!Inv'
  BY DEF Sender!TypeOK, SenderProofs!TypeOK, Sender!Promised, SenderProofs!Promised,
         Sender!Tracked, SenderProofs!Tracked, Sender!Reported, SenderProofs!Reported,
         Sender!Accounted, SenderProofs!Accounted, Sender!OnlyClosedReported,
         SenderProofs!OnlyClosedReported, Sender!RoundIsTracked, SenderProofs!RoundIsTracked,
         Sender!RepliesFit, SenderProofs!RepliesFit, Sender!OneListEach,
         SenderProofs!OneListEach, Sender!Inv, SenderProofs!Inv, Sender!IsInjective,
         SenderProofs!IsInjective, Sender!Range, SenderProofs!Range

\* What is proved of the receiver.
LEMMA ReceiverFacts ==
    /\ Receiver!Init => Receiver!Inv
    /\ Receiver!Inv /\ [Receiver!Next]_Receiver!vars => Receiver!Inv'
  <1>1. ReceiverProofs!Init => ReceiverProofs!Inv
    BY TiersAssumption, SaveOutcomesAssumption, MaxContactsAssumption, ConversationAssumption,
       ReceiverProofs!InvInit
  <1>2. ReceiverProofs!Inv /\ [ReceiverProofs!Next]_ReceiverProofs!vars => ReceiverProofs!Inv'
    BY TiersAssumption, SaveOutcomesAssumption, MaxContactsAssumption, ConversationAssumption,
       ReceiverProofs!InvStep
  <1>3. [Receiver!Next]_Receiver!vars => [ReceiverProofs!Next]_ReceiverProofs!vars
    BY SameReceiverNext DEF Receiver!registryVars, ReceiverProofs!registryVars, Receiver!queueVars,
         ReceiverProofs!queueVars, Receiver!contactVars, ReceiverProofs!contactVars,
         Receiver!vars, ReceiverProofs!vars
  <1> QED BY <1>1, <1>2, <1>3, SameReceiverInit, SameReceiverInv

\* What is proved of the sender.
LEMMA SenderFacts ==
    /\ Sender!Init => Sender!Inv
    /\ Sender!Inv /\ [Sender!Next]_Sender!vars => Sender!Inv'
  <1>1. SenderProofs!Init => SenderProofs!Inv
    BY ConversationAssumption, SenderProofs!InitInv
  <1>2. SenderProofs!Inv /\ [SenderProofs!Next]_SenderProofs!vars => SenderProofs!Inv'
    BY ConversationAssumption, SenderProofs!NextInv
  <1>3. [Sender!Next]_(Sender!vars) => [SenderProofs!Next]_(SenderProofs!vars)
    BY SameSenderNext DEF Sender!remoteVars, SenderProofs!remoteVars, Sender!sendVars, SenderProofs!sendVars,
         Sender!pollVars, SenderProofs!pollVars, Sender!shownVars, SenderProofs!shownVars,
         Sender!vars, SenderProofs!vars
  <1> QED BY <1>1, <1>2, <1>3, SameSenderInit, SameSenderInv

-----------------------------------------------------------------------------
(* The task table as the sender sees it.                                   *)

\* What the sender sees of a task.
LEMMA RemoteMeaning ==
    /\ RemoteTask \in [Tasks -> {"none", "open", "closed", "forgotten"}]
    /\ \A t \in Tasks :
         /\ RemoteTask[t] = "none" <=> t \notin issued
         /\ RemoteTask[t] = "closed" <=> t \in issued /\ tasks[t].status \in Receiver!Closed
         /\ RemoteTask[t] = "open" <=>
              t \in issued /\ tasks[t].status \notin Receiver!Closed \union {"ABSENT"}
  BY DEF RemoteTask, Closed, Receiver!Closed

\* A change of one task is a change of what the sender sees of that task.
LEMMA RemoteChanges ==
    ASSUME NEW t \in Tasks, \A u \in Tasks \ {t} : tasks'[u] = tasks[u],
           issued' = issued \/ issued' = issued \union {t}
    PROVE  RemoteTask' = [RemoteTask EXCEPT ![t] = RemoteTask'[t]]
  <1>1. \A u \in Tasks \ {t} : RemoteTask'[u] = RemoteTask[u]
    BY DEF RemoteTask
  <1>2. DOMAIN RemoteTask' = Tasks /\ DOMAIN RemoteTask = Tasks
    BY DEF RemoteTask
  <1>3. RemoteTask' = [u \in Tasks |-> RemoteTask'[u]]
    BY DEF RemoteTask
  <1> QED BY <1>1, <1>2, <1>3

\* The task of a new message is open, whatever becomes of the message.
LEMMA TaskOpens ==
    ASSUME Receiver!Inv, NEW t \in Tasks \ issued, issued' = issued \union {t},
           NEW status \in {"SUBMITTED", "WORKING", "INPUT_REQUIRED"},
           tasks' \in {Receiver!CreateTask(tasks, t),
                       Receiver!SetStatus(Receiver!CreateTask(tasks, t), t, status)}
    PROVE  /\ RemoteTask[t] = "none" /\ RemoteTask'[t] = "open"
           /\ RemoteTask' = [RemoteTask EXCEPT ![t] = "open"]
  <1>1. tasks \in [Tasks -> Receiver!TaskRecord]
    BY DEF Receiver!Inv, Receiver!TypeOK, Receiver!RegistryTypeOK
  <1>2. /\ \A u \in Tasks \ {t} : tasks'[u] = tasks[u]
        /\ tasks'[t].status \in {"SUBMITTED", "WORKING", "INPUT_REQUIRED"}
    BY <1>1 DEF Receiver!CreateTask, Receiver!SetStatus, Receiver!UpdateTask, Receiver!Blank
  <1>3. RemoteTask'[t] = "open"
    BY <1>2 DEF RemoteTask, Closed
  <1>4. RemoteTask[t] = "none"
    BY RemoteMeaning
  <1> QED BY <1>2, <1>3, <1>4, RemoteChanges

\* The update of a task, as the sender sees it.
LEMMA TaskMoves ==
    ASSUME Receiver!Inv, NEW t \in Tasks, NEW status \in Receiver!Statuses \ {"ABSENT"},
           NEW artifact, NEW error, NEW attribution, issued' = issued,
           tasks' = Receiver!UpdateTask(tasks, t, status, artifact, error, attribution)
    PROVE  \/ RemoteTask' = RemoteTask /\ RemoteTask[t] \in {"none", "forgotten"}
           \/ /\ RemoteTask[t] \in {"open", "closed"}
              /\ RemoteTask' = [RemoteTask EXCEPT
                     ![t] = IF status \in Receiver!Closed THEN "closed" ELSE "open"]
  <1>1. tasks \in [Tasks -> Receiver!TaskRecord]
    BY DEF Receiver!Inv, Receiver!TypeOK, Receiver!RegistryTypeOK
  <1>2. CASE tasks[t].status = "ABSENT"
    <2>1. tasks' = tasks
      BY <1>2 DEF Receiver!UpdateTask
    <2>2. RemoteTask' = RemoteTask
      BY <2>1 DEF RemoteTask
    <2> QED BY <1>2, <2>2, RemoteMeaning DEF Receiver!Closed
  <1>3. CASE tasks[t].status # "ABSENT"
    <2>1. t \in issued
      BY <1>3 DEF Receiver!Inv, Receiver!IdsAreFresh
    <2>2. /\ \A u \in Tasks \ {t} : tasks'[u] = tasks[u]
          /\ tasks'[t].status = status
      BY <1>1, <1>3 DEF Receiver!UpdateTask
    <2>3. RemoteTask'[t] = IF status \in Receiver!Closed THEN "closed" ELSE "open"
      BY <2>1, <2>2 DEF RemoteTask, Closed, Receiver!Closed
    <2>4. RemoteTask[t] \in {"open", "closed"}
      BY <1>3, <2>1, RemoteMeaning
    <2> QED BY <2>2, <2>3, <2>4, RemoteChanges
  <1> QED BY <1>2, <1>3

\* A decision of the user, or a failure, closes a task or leaves it as it is.
LEMMA TaskCloses ==
    ASSUME Receiver!Inv, NEW t \in Tasks, NEW status \in Receiver!Closed,
           NEW artifact, NEW error, NEW attribution, issued' = issued,
           tasks' \in {tasks, Receiver!UpdateTask(tasks, t, status, artifact, error, attribution)},
           UNCHANGED <<reply, sessionVars>>
    PROVE  Sender!RemoteCloses(t) \/ UNCHANGED <<RemoteTask, reply, sessionVars>>
  <1>1. CASE tasks' = tasks
    BY <1>1 DEF RemoteTask
  <1>2. CASE tasks' = Receiver!UpdateTask(tasks, t, status, artifact, error, attribution)
    <2>1. \/ RemoteTask' = RemoteTask
          \/ /\ RemoteTask[t] \in {"open", "closed"}
             /\ RemoteTask' = [RemoteTask EXCEPT ![t] = "closed"]
      BY <1>2, TaskMoves DEF Receiver!Closed, Receiver!Statuses
    <2>2. RemoteTask[t] = "closed" => [RemoteTask EXCEPT ![t] = "closed"] = RemoteTask
      BY RemoteMeaning
    <2> QED BY <2>1, <2>2 DEF Sender!RemoteCloses, sessionVars, Sender!sendVars,
            Sender!pollVars, Sender!shownVars
  <1> QED BY <1>1, <1>2

-----------------------------------------------------------------------------
(* The steps.                                                              *)

\* What the invariant says of a suspended request.
LEMMA Suspended ==
    ASSUME Inv, NEW h \in handlers
    PROVE  /\ h.task \in Tasks /\ h.task \in issued
           /\ RemoteTask[h.task] = "open" /\ reply[h.task] = "none"
           /\ \A g \in handlers : g.task = h.task => g = h
  <1>1. h.task \in Tasks
    BY DEF Inv, Receiver!Inv, Receiver!TypeOK, Receiver!Handler
  <1>2. h.task \in issued
    BY DEF Inv, Receiver!Inv, Receiver!IdsAreFresh
  <1>3. tasks[h.task].status = "WORKING"
    BY <1>1 DEF Inv, Receiver!Inv, Receiver!WorkIsBeingDone
  <1>4. RemoteTask[h.task] = "open"
    BY <1>1, <1>2, <1>3, RemoteMeaning DEF Receiver!Closed
  <1> QED BY <1>1, <1>2, <1>4 DEF Inv, SuspendedUnanswered, Receiver!Inv, Receiver!OnePlaceEach

\* The replies are a function on the messages.
LEMMA RepliesTyping == Inv => reply \in [Tasks -> {"none", "open", "closed", "refused"}]
  BY DEF Inv, Sender!Inv, Sender!TypeOK

\* A request that arrives is one the remote agent accepts, and its reply is no
\* reply to a suspended request.
LEMMA ReceiveMaps ==
    ASSUME Inv, NEW t \in Tasks, Receive(t)
    PROVE  Receiver!Receive /\ Sender!RemoteAccepts(t) /\ SuspendedUnanswered'
  <1>1. call[t] # "idle" /\ reply[t] = "none" /\ UNCHANGED sessionVars
    BY DEF Receive
  <1>2. Receiver!Inv
    BY DEF Inv
  <1>3. PICK s \in Senders, signed \in BOOLEAN :
            \/ \E o \in SaveOutcomes :
                 /\ Receiver!FirstContact(t, s, signed, o) \/ Receiver!QueueForUser(t, s, signed, o)
                 /\ IF o = "saved" THEN Respond200(t) ELSE Respond500
            \/ Receiver!SpawnChild(t, s, signed) /\ UNCHANGED reply
    BY DEF Receive, RespondLater
  <1>4. Receiver!Receive
    BY <1>3 DEF Receiver!Receive
  <1>5. t \in Tasks \ issued /\ issued' = issued \union {t}
    BY <1>3 DEF Receiver!FirstContact, Receiver!QueueForUser, Receiver!SpawnChild
  <1>6. \E status \in {"SUBMITTED", "WORKING", "INPUT_REQUIRED"} :
            tasks' \in {Receiver!CreateTask(tasks, t),
                        Receiver!SetStatus(Receiver!CreateTask(tasks, t), t, status)}
    BY <1>3 DEF Receiver!FirstContact, Receiver!QueueForUser, Receiver!SpawnChild
  <1>7. /\ RemoteTask[t] = "none" /\ RemoteTask'[t] = "open"
        /\ RemoteTask' = [RemoteTask EXCEPT ![t] = "open"]
    BY <1>2, <1>5, <1>6, TaskOpens
  <1>8. reply' \in {reply, [reply EXCEPT ![t] = "open"]}
    BY <1>3, <1>7 DEF Respond200, Respond500
  <1>9. Sender!RemoteAccepts(t)
    BY <1>1, <1>7, <1>8 DEF Sender!RemoteAccepts, sessionVars, Sender!sendVars, Sender!pollVars,
       Sender!shownVars
  <1>10. \A h \in handlers' : h \in handlers \/ (h.task = t /\ UNCHANGED reply)
    <2>1. CASE Receiver!SpawnChild(t, s, signed) /\ UNCHANGED reply
      <3>1. PICK tier \in Tiers \ {"known"} : handlers' = handlers \union
                {[task |-> t, sender |-> s, tier |-> tier, stage |-> "child"]}
        BY <2>1 DEF Receiver!SpawnChild
      <3> QED BY <2>1, <3>1
    <2>2. CASE \E o \in SaveOutcomes :
                   Receiver!FirstContact(t, s, signed, o) \/ Receiver!QueueForUser(t, s, signed, o)
      <3>1. handlers' = handlers
        BY <2>2 DEF Receiver!FirstContact, Receiver!QueueForUser
      <3> QED BY <3>1
    <2> QED BY <1>3, <2>1, <2>2
  <1>11. \A h \in handlers : h.task # t /\ h.task \in Tasks /\ reply[h.task] = "none"
    BY <1>5, Suspended
  <1>12. SuspendedUnanswered'
    BY <1>1, <1>8, <1>10, <1>11, RepliesTyping DEF SuspendedUnanswered
  <1> QED BY <1>4, <1>9, <1>12

\* A suspended request is answered, goes on, or fails.
LEMMA ResumeMaps ==
    ASSUME Inv, NEW h \in handlers, Resume(h)
    PROVE  /\ Receiver!Resume(h)
           /\ \/ Sender!RemoteReplies(h.task) \/ Sender!RemoteCloses(h.task)
              \/ UNCHANGED <<RemoteTask, reply, sessionVars>>
           /\ SuspendedUnanswered'
  <1> DEFINE t == h.task
  <1>1. /\ t \in Tasks /\ t \in issued /\ RemoteTask[t] = "open" /\ reply[t] = "none"
        /\ \A g \in handlers : g.task = t => g = h
    BY Suspended
  <1>2. Receiver!Inv /\ UNCHANGED sessionVars
    BY DEF Inv, Resume
  <1>3. \A g \in handlers : g.task \in Tasks /\ reply[g.task] = "none"
    BY Suspended
  <1>4. ASSUME UNCHANGED <<RemoteTask, reply>>, handlers' \subseteq handlers
        PROVE  SuspendedUnanswered'
    BY <1>3, <1>4 DEF SuspendedUnanswered
  <1>5. ASSUME handlers' = handlers \ {h}, reply' \in {reply, [reply EXCEPT ![t] = RemoteTask'[t]]}
        PROVE  SuspendedUnanswered'
    BY <1>1, <1>3, <1>5, RepliesTyping DEF SuspendedUnanswered
  <1>6. CASE (Receiver!AnswerUnevaluated(h) \/ Receiver!AcceptAnswer(h)) /\ Respond200(t)
    <2>1. /\ issued' = issued /\ handlers' = handlers \ {h}
          /\ tasks' = Receiver!UpdateTask(tasks, t, "COMPLETED", "child_answer",
                                          Receiver!None, "autonomous")
      BY <1>6 DEF Receiver!AnswerUnevaluated, Receiver!AcceptAnswer, Receiver!CompleteAutonomously
    <2>2. RemoteTask' = [RemoteTask EXCEPT ![t] = "closed"]
      BY <1>1, <1>2, <2>1, TaskMoves DEF Receiver!Closed, Receiver!Statuses
    <2>3. RemoteTask'[t] = "closed"
      BY <1>1, <2>2, RemoteMeaning
    <2>4. Sender!RemoteReplies(t)
      BY <1>1, <1>2, <1>6, <2>2, <2>3 DEF Respond200, Sender!RemoteReplies, sessionVars,
         Sender!sendVars, Sender!pollVars, Sender!shownVars
    <2> QED BY <1>5, <1>6, <2>1, <2>4 DEF Respond200, Receiver!Resume
  <1>7. CASE Receiver!StartEvaluation(h) /\ UNCHANGED reply
    <2>1. UNCHANGED RemoteTask
      BY <1>7 DEF Receiver!StartEvaluation, Receiver!registryVars, RemoteTask
    <2>2. \A g \in handlers' : g \in handlers \/ g.task = t
      BY <1>7 DEF Receiver!StartEvaluation, Inv, Receiver!Inv, Receiver!TypeOK, Receiver!Handler
    <2>3. SuspendedUnanswered'
      BY <1>1, <1>3, <1>7, <2>2 DEF SuspendedUnanswered
    <2> QED BY <1>2, <1>7, <2>1, <2>3 DEF Receiver!Resume
  <1>8. ASSUME NEW o \in SaveOutcomes, Receiver!Escalate(h, o),
               IF o = "saved" THEN Respond200(t) ELSE Respond500
        PROVE  /\ Sender!RemoteReplies(t) \/ Sender!RemoteCloses(t)
               /\ Receiver!Resume(h) /\ SuspendedUnanswered'
    <2>1. issued' = issued /\ handlers' = handlers \ {h}
      BY <1>8 DEF Receiver!Escalate
    <2>2. SuspendedUnanswered' /\ Receiver!Resume(h)
      BY <1>5, <1>8, <2>1 DEF Respond200, Respond500, Receiver!Resume
    <2>3. tasks[t].status = "WORKING" /\ tasks \in [Tasks -> Receiver!TaskRecord]
      BY <1>1, <1>2 DEF Receiver!Inv, Receiver!WorkIsBeingDone, Receiver!TypeOK,
         Receiver!RegistryTypeOK
    <2>4. CASE o = "saved"
      <3>1. tasks' = Receiver!UpdateTask(tasks, t, "INPUT_REQUIRED", Receiver!None,
                                         Receiver!None, Receiver!None)
        BY <1>8, <2>4 DEF Receiver!Escalate, Receiver!SetStatus
      <3>2. RemoteTask' = [RemoteTask EXCEPT ![t] = "open"]
        BY <1>1, <1>2, <2>1, <3>1, TaskMoves DEF Receiver!Closed, Receiver!Statuses
      <3>3. RemoteTask'[t] = "open"
        BY <1>1, <3>2, RemoteMeaning
      <3>4. Sender!RemoteReplies(t)
        BY <1>1, <1>2, <1>8, <2>4, <3>2, <3>3 DEF Respond200, Sender!RemoteReplies, sessionVars,
           Sender!sendVars, Sender!pollVars, Sender!shownVars
      <3> QED BY <2>2, <3>4
    <2>5. CASE o # "saved"
      <3>1. /\ \A u \in Tasks \ {t} : tasks'[u] = tasks[u]
            /\ tasks'[t].status = "FAILED"
        BY <1>1, <1>8, <2>3, <2>5 DEF Receiver!Escalate, Receiver!SetStatus, Receiver!UpdateTask
      <3>2. RemoteTask'[t] = "closed"
        BY <1>1, <2>1, <3>1 DEF RemoteTask, Closed
      <3>3. RemoteTask' = [RemoteTask EXCEPT ![t] = "closed"]
        BY <1>1, <2>1, <3>1, <3>2, RemoteChanges
      <3>4. Sender!RemoteCloses(t)
        BY <1>1, <1>2, <1>8, <2>5, <3>3 DEF Respond500, Sender!RemoteCloses, sessionVars,
           Sender!sendVars, Sender!pollVars, Sender!shownVars
      <3> QED BY <2>2, <3>4
    <2> QED BY <2>4, <2>5
  <1>9. CASE Receiver!ChildFails(h) /\ Respond500
    <2>1. /\ issued' = issued /\ handlers' = handlers \ {h} /\ reply' = reply
          /\ tasks' = Receiver!UpdateTask(tasks, t, "FAILED", Receiver!None, "child_failed",
                                          Receiver!None)
      BY <1>9 DEF Receiver!ChildFails, Respond500
    <2>2. Sender!RemoteCloses(t) \/ UNCHANGED <<RemoteTask, reply, sessionVars>>
      BY <1>1, <1>2, <2>1, TaskCloses DEF Receiver!Closed
    <2> QED BY <1>5, <1>9, <2>1, <2>2 DEF Receiver!Resume
  <1> QED BY <1>6, <1>7, <1>8, <1>9 DEF Resume, RespondLater

\* Decisions close tasks, and a restart loses them all; nothing else is seen.
LEMMA ReceiverAloneMaps ==
    ASSUME Inv, ReceiverAlone
    PROVE  Receiver!Next /\ [Sender!Next]_(Sender!vars) /\ SuspendedUnanswered'
  <1>1. UNCHANGED <<reply, sessionVars>> /\ Receiver!Inv
    BY DEF ReceiverAlone, Inv
  <1>2. Receiver!Next
    BY DEF ReceiverAlone, Receiver!Next
  <1>3. handlers' \subseteq handlers
    BY DEF ReceiverAlone, Receiver!Inject, Receiver!DecideOnSender, Receiver!DecideOnMessage,
       Receiver!Restart, Receiver!Approve, Receiver!Block, Receiver!Trust,
       Receiver!AddContactByUrl, Receiver!Respond, Receiver!Dismiss, Receiver!Defer
  <1>4. SuspendedUnanswered'
    BY <1>1, <1>3 DEF Inv, SuspendedUnanswered
  <1> SUFFICES [Sender!Next]_(Sender!vars)
    BY <1>2, <1>4
  <1>5. ASSUME UNCHANGED <<RemoteTask, reply, sessionVars>> PROVE UNCHANGED Sender!vars
    BY <1>5 DEF Sender!vars, Sender!remoteVars, Sender!sendVars, Sender!pollVars,
       Sender!shownVars, sessionVars
  <1>6. ASSUME UNCHANGED <<tasks, issued>> PROVE UNCHANGED RemoteTask
    BY <1>6 DEF RemoteTask
  <1>7. ASSUME NEW t \in Tasks, Sender!RemoteCloses(t) \/ UNCHANGED <<RemoteTask, reply, sessionVars>>
        PROVE  [Sender!Next]_(Sender!vars)
    BY <1>5, <1>7 DEF Sender!Next, Sender!Remote
  <1>8. CASE Receiver!Inject
    BY <1>1, <1>5, <1>6, <1>8 DEF Receiver!Inject, Receiver!registryVars
  <1>9. CASE Receiver!DecideOnSender
    <2>1. PICK s \in Senders, o \in SaveOutcomes :
              \/ \E tier \in Tiers, q \in SaveOutcomes : Receiver!Approve(s, tier, o, q)
              \/ Receiver!Block(s, o)
              \/ \E tier \in Tiers : Receiver!Trust(s, tier, o)
              \/ \E tier \in Tiers : Receiver!AddContactByUrl(s, tier, o)
      BY <1>9 DEF Receiver!DecideOnSender
    <2>2. \A i \in Receiver!FirstRequestFrom(s) : approvals[i].task \in Tasks
      <3>1. approvals \in Seq(Receiver!ApprovalEntry)
        BY <1>1 DEF Receiver!Inv, Receiver!TypeOK, Receiver!QueueTypeOK
      <3>2. \A i \in DOMAIN approvals : approvals[i] \in Receiver!ApprovalEntry
        BY <3>1
      <3>3. Receiver!FirstRequestFrom(s) \subseteq DOMAIN approvals
        BY DEF Receiver!FirstRequestFrom
      <3> QED BY <3>2, <3>3 DEF Receiver!ApprovalEntry
    <2>3. ASSUME NEW tier \in Tiers, NEW q \in SaveOutcomes, Receiver!Approve(s, tier, o, q)
          PROVE  [Sender!Next]_(Sender!vars)
      <3>1. PICK i \in Receiver!FirstRequestFrom(s) :
                /\ issued' = issued
                /\ tasks' \in {tasks, Receiver!UpdateTask(tasks, approvals[i].task, "COMPLETED",
                                          "approval_notice", Receiver!None, Receiver!None)}
        BY <2>3 DEF Receiver!Approve
      <3> QED BY <1>1, <1>7, <2>2, <3>1, TaskCloses DEF Receiver!Closed
    <2>4. CASE Receiver!Block(s, o)
      <3>1. PICK i \in Receiver!FirstRequestFrom(s) :
                /\ issued' = issued
                /\ tasks' \in {tasks, Receiver!UpdateTask(tasks, approvals[i].task, "FAILED",
                                          Receiver!None, "blocked", Receiver!None)}
        BY <2>4 DEF Receiver!Block
      <3> QED BY <1>1, <1>7, <2>2, <3>1, TaskCloses DEF Receiver!Closed
    <2>5. CASE \E tier \in Tiers : Receiver!Trust(s, tier, o) \/ Receiver!AddContactByUrl(s, tier, o)
      BY <1>1, <1>5, <1>6, <2>5 DEF Receiver!Trust, Receiver!AddContactByUrl, Receiver!registryVars
    <2> QED BY <2>1, <2>3, <2>4, <2>5
  <1>10. CASE Receiver!DecideOnMessage
    <2>1. PICK t \in Tasks, o \in SaveOutcomes :
              Receiver!Respond(t, o) \/ Receiver!Dismiss(t, o) \/ Receiver!Defer(t, o)
      BY <1>10 DEF Receiver!DecideOnMessage
    <2>2. CASE Receiver!Respond(t, o)
      <3>1. PICK attribution :
                /\ issued' = issued
                /\ tasks' = Receiver!UpdateTask(tasks, t, "COMPLETED", "user_reply",
                                                Receiver!None, attribution)
        BY <2>2 DEF Receiver!Respond
      <3> QED BY <1>1, <1>7, <3>1, TaskCloses DEF Receiver!Closed
    <2>3. CASE Receiver!Dismiss(t, o)
      <3>1. /\ issued' = issued
            /\ tasks' = Receiver!UpdateTask(tasks, t, "REJECTED", Receiver!None, "dismissed",
                                            "dismissed")
        BY <2>3 DEF Receiver!Dismiss
      <3> QED BY <1>1, <1>7, <3>1, TaskCloses DEF Receiver!Closed
    <2>4. CASE Receiver!Defer(t, o)
      BY <1>1, <1>5, <1>6, <2>4 DEF Receiver!Defer
    <2> QED BY <2>1, <2>2, <2>3, <2>4
  <1>11. CASE Receiver!Restart
    <2> DEFINE held == {t \in Tasks : RemoteTask[t] \in {"open", "closed"}}
    <2>1. issued' = issued /\ \A t \in Tasks : tasks'[t].status = "ABSENT"
      BY <1>11 DEF Receiver!Restart, Receiver!Absent, Receiver!Blank
    <2>2. RemoteTask' = [t \in Tasks |-> IF t \in issued THEN "forgotten" ELSE "none"]
      BY <2>1 DEF RemoteTask
    <2>3. \A t \in Tasks : /\ t \in held => t \in issued
                           /\ t \notin held => RemoteTask[t] = IF t \in issued THEN "forgotten"
                                                                               ELSE "none"
      BY RemoteMeaning
    <2>4. RemoteTask' = [t \in Tasks |-> IF t \in held THEN "forgotten" ELSE RemoteTask[t]]
      BY <2>2, <2>3
    <2>5. CASE held = {}
      <3>1. RemoteTask' = RemoteTask
        BY <2>4, <2>5 DEF RemoteTask
      <3> QED BY <1>1, <1>5, <3>1
    <2>6. CASE held # {}
      <3>1. held = {t \in Tasks : [u \in Tasks |-> Peer][t] = Peer /\ RemoteTask[t] \in {"open", "closed"}}
        OBVIOUS
      <3>2. Sender!AgentRestarts(Peer)
        BY <1>1, <2>4, <2>6, <3>1 DEF Sender!AgentRestarts, sessionVars, Sender!sendVars,
           Sender!pollVars, Sender!shownVars
      <3> QED BY <3>2 DEF Sender!Next
    <2> QED BY <2>5, <2>6
  <1> QED BY <1>8, <1>9, <1>10, <1>11 DEF ReceiverAlone

\* The sender's steps are no business of the receiver.
LEMMA SenderMaps ==
    ASSUME Inv,
           \/ \E t \in Tasks : Refuse(t) \/ Send(t) \/ SendStep(t) \/ PollStep(t)
           \/ Wake \/ StopPoller \/ Deliver
    PROVE  UNCHANGED Receiver!vars /\ Sender!Next /\ SuspendedUnanswered'
  <1>1. UNCHANGED receiverVars
    BY DEF Refuse, Send, SendStep, PollStep, Wake, StopPoller, Deliver
  <1>2. UNCHANGED Receiver!vars /\ handlers' = handlers
    BY <1>1 DEF receiverVars, registryVars, queueVars, contactVars, Receiver!vars,
       Receiver!registryVars, Receiver!queueVars, Receiver!contactVars
  <1>3. Sender!Next
    BY DEF Refuse, Send, SendStep, PollStep, Wake, StopPoller, Deliver, Sender!Next, Sender!Remote
  <1>4. UNCHANGED reply \/ \E t \in Tasks : Sender!RemoteRefuses(t)
    <2>1. ASSUME NEW t \in Tasks, Send(t) \/ SendStep(t) \/ PollStep(t) PROVE UNCHANGED reply
      BY <2>1 DEF Send, SendStep, PollStep, Sender!Send, Sender!SendStep, Sender!PostFails,
         Sender!PostReturnsAnswer, Sender!PostReturnsNoTask, Sender!PostReturnsOpenTask,
         Sender!PostStartsPolling, Sender!ForegroundAnswer, Sender!ForegroundNoAnswer,
         Sender!ForegroundError, Sender!PollStep, Sender!PollAnswer, Sender!PollNoAnswer,
         Sender!PollError, Sender!remoteVars
    <2>2. Wake \/ StopPoller \/ Deliver => UNCHANGED reply
      BY DEF Wake, StopPoller, Deliver, Sender!Wake, Sender!StopPoller, Sender!Deliver,
         Sender!remoteVars
    <2> QED BY <2>1, <2>2 DEF Refuse
  <1>5. ASSUME NEW t \in Tasks, Sender!RemoteRefuses(t), NEW h \in handlers
        PROVE  reply'[h.task] = "none"
    <2>1. RemoteTask[t] = "none" /\ reply' = [reply EXCEPT ![t] = "refused"]
      BY <1>5 DEF Sender!RemoteRefuses
    <2>2. h.task # t /\ h.task \in Tasks /\ reply[h.task] = "none"
      BY <2>1, Suspended
    <2> QED BY <2>1, <2>2, RepliesTyping
  <1>6. SuspendedUnanswered'
    BY <1>2, <1>4, <1>5 DEF Inv, SuspendedUnanswered
  <1> QED BY <1>2, <1>3, <1>6

\* Every step of the conversation is a step of each half, or nothing to it.
LEMMA StepMaps ==
    ASSUME Inv, [Next]_vars
    PROVE  /\ [Receiver!Next]_(Receiver!vars)
           /\ [Sender!Next]_(Sender!vars)
           /\ SuspendedUnanswered'
  <1>1. CASE UNCHANGED vars
    <2>1. UNCHANGED receiverVars /\ UNCHANGED reply /\ UNCHANGED sessionVars
      BY <1>1 DEF vars
    <2>2. UNCHANGED Receiver!vars /\ UNCHANGED RemoteTask /\ UNCHANGED handlers
      BY <2>1 DEF receiverVars, registryVars, queueVars, contactVars, Receiver!vars,
         Receiver!registryVars, Receiver!queueVars, Receiver!contactVars, RemoteTask
    <2>3. UNCHANGED Sender!vars
      BY <2>1, <2>2 DEF sessionVars, Sender!vars, Sender!remoteVars, Sender!sendVars,
         Sender!pollVars, Sender!shownVars
    <2> QED BY <2>1, <2>2, <2>3 DEF Inv, SuspendedUnanswered
  <1>2. CASE \E t \in Tasks : Receive(t)
    BY <1>2, ReceiveMaps DEF Receiver!Next, Sender!Next, Sender!Remote
  <1>3. ASSUME NEW h \in handlers, Resume(h)
        PROVE  /\ [Receiver!Next]_(Receiver!vars)
               /\ [Sender!Next]_(Sender!vars)
               /\ SuspendedUnanswered'
    <2>1. UNCHANGED <<RemoteTask, reply, sessionVars>> => UNCHANGED Sender!vars
      BY DEF sessionVars, Sender!vars, Sender!remoteVars, Sender!sendVars, Sender!pollVars,
         Sender!shownVars
    <2>2. h.task \in Tasks
      BY Suspended
    <2> QED BY <1>3, <2>1, <2>2, ResumeMaps DEF Receiver!Next, Sender!Next, Sender!Remote
  <1>4. CASE ReceiverAlone
    BY <1>4, ReceiverAloneMaps
  <1>5. CASE \/ \E t \in Tasks : Refuse(t) \/ Send(t) \/ SendStep(t) \/ PollStep(t)
             \/ Wake \/ StopPoller \/ Deliver
    BY <1>5, SenderMaps
  <1> QED BY <1>1, <1>2, <1>3, <1>4, <1>5 DEF Next

\* The invariants of both halves hold, and no suspended request is answered.
THEOREM InvAlways == Spec => []Inv
  <1>1. Init => Inv
    BY ReceiverFacts, SenderFacts DEF Init, Inv, SuspendedUnanswered, Receiver!Init
  <1>2. Inv /\ [Next]_vars => Inv'
    BY StepMaps, ReceiverFacts, SenderFacts DEF Inv
  <1> QED BY <1>1, <1>2, PTL DEF Spec

\* The response of Mode C, which comes when the child session has ended, finds its
\* sender waiting for it: no request is answered twice.
THEOREM SuspendedAlwaysUnanswered == Spec => []SuspendedUnanswered
  <1>1. Inv => SuspendedUnanswered
    BY DEF Inv
  <1> QED BY <1>1, InvAlways, PTL

\* The receiver's half of a conversation is the receiver of A2AReceiver.
THEOREM ReceiverAlwaysMet == Spec => Receiver!Spec
  <1>1. Init => Receiver!Init
    BY DEF Init
  <1>2. Inv /\ [Next]_vars => [Receiver!Next]_(Receiver!vars)
    BY StepMaps
  <1> QED BY <1>1, <1>2, InvAlways, PTL DEF Spec, Receiver!Spec

\* The server does what the sending half assumes of a remote agent, whatever
\* its writes come to.
THEOREM SenderAlwaysMet == Spec => SenderSpec
  <1>1. Init => Sender!Init
    BY DEF Init
  <1>2. Inv /\ [Next]_vars => [SenderStep]_(Sender!vars)
    BY StepMaps DEF SenderStep
  <1> QED BY <1>1, <1>2, InvAlways, PTL DEF Spec, SenderSpec

-----------------------------------------------------------------------------
(* What follows from the proofs of the halves.                             *)

\* When every write succeeds the receiver's files and queues stay current.
LEMMA DurableStep ==
    ASSUME SaveOutcomes = {"saved"}
    PROVE  /\ Receiver!Init => Receiver!DurableInv
           /\ Receiver!DurableInv /\ [Receiver!Next]_(Receiver!vars) => Receiver!DurableInv'
  <1>1. ReceiverProofs!WritesSucceed
    BY DEF ReceiverProofs!WritesSucceed
  <1>2. ReceiverProofs!Init => ReceiverProofs!DurableInv
    BY <1>1, TiersAssumption, SaveOutcomesAssumption, MaxContactsAssumption,
       ConversationAssumption, ReceiverProofs!DurableInit
  <1>3. ReceiverProofs!DurableInv /\ [ReceiverProofs!Next]_(ReceiverProofs!vars)
            => ReceiverProofs!DurableInv'
    BY <1>1, TiersAssumption, SaveOutcomesAssumption, MaxContactsAssumption,
       ConversationAssumption, ReceiverProofs!DurableStep
  <1>4. [Receiver!Next]_(Receiver!vars) => [ReceiverProofs!Next]_(ReceiverProofs!vars)
    BY SameReceiverNext DEF Receiver!registryVars, ReceiverProofs!registryVars, Receiver!queueVars,
         ReceiverProofs!queueVars, Receiver!contactVars, ReceiverProofs!contactVars,
         Receiver!vars, ReceiverProofs!vars
  <1> QED BY <1>2, <1>3, <1>4, SameReceiverInit, SameReceiverInv

\* Whatever the sender waits for, a child session or the user has in hand.
THEOREM OwedAlwaysHeld == ASSUME SaveOutcomes = {"saved"} PROVE Spec => []OwedIsHeld
  <1>1. Init => Receiver!DurableInv
    BY DurableStep DEF Init
  <1>2. Inv /\ [Next]_vars /\ Receiver!DurableInv => Receiver!DurableInv'
    BY StepMaps, DurableStep
  <1>3. ASSUME Receiver!DurableInv PROVE OwedIsHeld
    <2>1. Receiver!Inv /\ Receiver!OpenTaskIsQueued
      BY <1>3 DEF Receiver!DurableInv
    <2>2. SUFFICES ASSUME NEW t \in Tasks, RemoteTask[t] = "open"
                   PROVE  \/ \E h \in handlers : h.task = t
                          \/ \E m \in Range(messages) :
                                 m.task = t /\ m.status \in {"pending", "deferred"}
                          \/ t \in PendingApprovalTasks
      BY DEF OwedIsHeld
    <2>3. tasks[t].status \in {"SUBMITTED", "WORKING", "INPUT_REQUIRED"}
      <3>1. tasks[t].status \in Receiver!Statuses
        BY <2>1 DEF Receiver!Inv, Receiver!TypeOK, Receiver!RegistryTypeOK, Receiver!TaskRecord
      <3> QED BY <2>2, <3>1, RemoteMeaning DEF Receiver!Statuses, Receiver!Closed
    <2>4. CASE tasks[t].status = "WORKING"
      BY <2>1, <2>4 DEF Receiver!Inv, Receiver!WorkIsBeingDone
    <2>5. CASE tasks[t].status \in {"SUBMITTED", "INPUT_REQUIRED"}
      BY <2>1, <2>5 DEF Receiver!OpenTaskIsQueued, Receiver!PendingApprovalTasks, Receiver!Range,
         PendingApprovalTasks, Range
    <2> QED BY <2>3, <2>4, <2>5
  <1> QED BY <1>1, <1>2, <1>3, InvAlways, PTL DEF Spec

\* A behaviour of the sender is one of the sender of the proofs.
LEMMA SameSenderSpec == SenderSpec => SenderProofs!Spec
  <1>1. [SenderStep]_(Sender!vars) => [SenderProofs!Next]_(SenderProofs!vars)
    BY SameSenderNext DEF Sender!remoteVars, SenderProofs!remoteVars, Sender!sendVars, SenderProofs!sendVars,
         Sender!pollVars, SenderProofs!pollVars, Sender!shownVars, SenderProofs!shownVars,
         Sender!vars, SenderProofs!vars, SenderStep
  <1> QED BY <1>1, SameSenderInit, PTL DEF SenderSpec, SenderProofs!Spec

\* What the sending half promises its session it promises when it talks to this
\* server: every task it was given is watched or reported, once, and only what the
\* server has closed is reported; and who the server says has answered, has.
THEOREM PromisesKept ==
    Spec => [](/\ Sender!Accounted /\ Sender!ReportedOnce /\ Sender!OnlyClosedReported
               /\ Receiver!AttributionTruthful)
  <1>1. SenderProofs!Spec => []SenderProofs!ReportedOnce
    BY ConversationAssumption, SenderProofs!AlwaysReportedOnce
  <1>2. SenderProofs!ReportedOnce => Sender!ReportedOnce
    BY DEF Sender!Tracked, SenderProofs!Tracked, Sender!Reported, SenderProofs!Reported,
         Sender!ReportedOnce, SenderProofs!ReportedOnce, Sender!IsInjective,
         SenderProofs!IsInjective, Sender!Range, SenderProofs!Range
  <1>3. Inv => Sender!Accounted /\ Sender!OnlyClosedReported /\ Receiver!AttributionTruthful
    BY DEF Inv, Sender!Inv, Receiver!Inv
  <1> QED BY <1>1, <1>2, <1>3, InvAlways, SenderAlwaysMet, SameSenderSpec, PTL

\* Two agents in conversation implement AnswerDelivery: each message is answered,
\* owed or given up, and what is owed is all that is answered later.
THEOREM ConversationDelivers == Spec => Sender!DeliverySpec
  <1>1. SenderProofs!Spec => SenderProofs!DeliverySpec
    BY ConversationAssumption, SenderProofs!DeliveryImplemented
  <1>2. /\ SenderProofs!Delivery!Init => Sender!Delivery!Init
        /\ [SenderProofs!Delivery!Next]_([s \in Tasks |-> SenderProofs!PhaseOf(s)])
               => [Sender!Delivery!Next]_([s \in Tasks |-> Sender!PhaseOf(s)])
    BY DEF Sender!Delivery!Init, SenderProofs!Delivery!Init,
           Sender!Delivery!Next, SenderProofs!Delivery!Next,
           Sender!Delivery!Decide, SenderProofs!Delivery!Decide,
           Sender!Delivery!AnswerOwed, SenderProofs!Delivery!AnswerOwed,
           Sender!PhaseOf, SenderProofs!PhaseOf, Sender!Reported, SenderProofs!Reported,
           Sender!Tracked, SenderProofs!Tracked, Sender!Range, SenderProofs!Range
  <1>3. SenderProofs!DeliverySpec => Sender!DeliverySpec
    BY <1>2, PTL DEF SenderProofs!DeliverySpec, Sender!DeliverySpec,
       SenderProofs!Delivery!Spec, Sender!Delivery!Spec
  <1> QED BY <1>1, <1>3, SenderAlwaysMet, SameSenderSpec, PTL
=============================================================================
