---------------------------- MODULE A2AReceiver ----------------------------
(***************************************************************************)
(* One agent that receives messages: the HTTP handler of A2AServer, the    *)
(* hook that shows waiting items to the user, the user's operations of the *)
(* a2a tool, and restarts of the process, over the task table, the two     *)
(* queues and the contact list they share.                                 *)
(*                                                                         *)
(* All of it runs on one event loop.  The only awaits that yield are the   *)
(* child session and the confidence evaluation: the asyncio locks of the   *)
(* stores are never contended, so every other handler runs to its end in   *)
(* one step.  A write that fails raises out of the handler at that point,  *)
(* with the list in memory changed already; a crash between two writes is  *)
(* a failed second write followed by Restart.                              *)
(***************************************************************************)
EXTENDS A2ARegistry, PendingQueue, ContactStore

CONSTANTS AuthRequired,    \* authentication.required
          AllowAnonymous,  \* authentication.allow_anonymous_first_contact
          Evaluates        \* confidence_evaluation is on and a provider is mounted

ASSUME ConfigAssumption ==
    AuthRequired \in BOOLEAN /\ AllowAnonymous \in BOOLEAN /\ Evaluates \in BOOLEAN

VARIABLES issued,      \* the task ids uuid4 has handed out
          handlers,    \* requests suspended in Mode C, with what they read before it
          injectedIds  \* _injected_ids of the injection handler

vars == <<registryVars, queueVars, contactVars, issued, handlers, injectedIds>>

Handler == [task : Tasks, sender : Senders, tier : Tiers, stage : {"child", "evaluating"}]

TypeOK ==
    /\ RegistryTypeOK
    /\ QueueTypeOK
    /\ ContactsTypeOK
    /\ issued \subseteq Tasks
    /\ handlers \subseteq Handler
    /\ injectedIds \subseteq Tasks

Init ==
    /\ RegistryInit
    /\ QueueInit
    /\ ContactsInit
    /\ issued = {}
    /\ handlers = {}
    /\ injectedIds = {}

-----------------------------------------------------------------------------
(* A message arrives: handle_send_message up to its first suspension.      *)

\* verify lets an unsigned request through only in one of two configurations.
Admitted(signed) == signed \/ AllowAnonymous \/ ~AuthRequired

\* is_authenticated and is_known
Recognised(s, signed) == (signed \/ ~AuthRequired) /\ IsKnown(s)

\* Strangers wait for the user's approval.  When the write fails the request
\* ends there, and the task is never moved on from SUBMITTED.
FirstContact(t, s, signed, outcome) ==
    /\ t \notin issued
    /\ Admitted(signed)
    /\ ~Recognised(s, signed)
    /\ issued' = issued \union {t}
    /\ AddApproval(t, s, outcome)
    /\ tasks' = IF outcome = "saved"
                THEN SetStatus(CreateTask(tasks, t), t, "INPUT_REQUIRED")
                ELSE CreateTask(tasks, t)
    /\ UNCHANGED <<deferredIds, messageVars, contactVars, handlers, injectedIds>>

\* Fault: a signature is enough to reach the inbox.
QueueForUserUnaccepted(t, s, signed, outcome) ==
    /\ t \notin issued
    /\ signed
    /\ IsKnown(s) => HasTier(s, "known")
    /\ issued' = issued \union {t}
    /\ tasks' = SetStatus(CreateTask(tasks, t), t, "INPUT_REQUIRED")
    /\ AddMessage(t, s, FALSE, outcome)
    /\ UNCHANGED <<deferredIds, approvalVars, contactVars, handlers, injectedIds>>

\* Mode A: the message waits for the user's reply.
QueueForUser(t, s, signed, outcome) ==
    /\ t \notin issued
    /\ Recognised(s, signed)
    /\ HasTier(s, "known")
    /\ issued' = issued \union {t}
    /\ tasks' = SetStatus(CreateTask(tasks, t), t, "INPUT_REQUIRED")
    /\ AddMessage(t, s, FALSE, outcome)
    /\ UNCHANGED <<deferredIds, approvalVars, contactVars, handlers, injectedIds>>

\* Mode C: a child session starts; the request suspends with the tier it read.
SpawnChild(t, s, signed) ==
    /\ t \notin issued
    /\ Recognised(s, signed)
    /\ \E tier \in Tiers \ {"known"} :
         /\ HasTier(s, tier)
         /\ handlers' = handlers \union
              {[task |-> t, sender |-> s, tier |-> tier, stage |-> "child"]}
    /\ issued' = issued \union {t}
    /\ tasks' = SetStatus(CreateTask(tasks, t), t, "WORKING")
    /\ UNCHANGED <<deferredIds, queueVars, contactVars, injectedIds>>

-----------------------------------------------------------------------------
(* The suspended request resumes.                                          *)

ShouldEvaluate(h) == h.tier = "trusted" /\ Evaluates

CompleteAutonomously(h) ==
    /\ tasks' = UpdateTask(tasks, h.task, "COMPLETED", "child_answer", None, "autonomous")
    /\ handlers' = handlers \ {h}
    /\ UNCHANGED <<deferredIds, queueVars, contactVars, issued, injectedIds>>

\* The child has answered; nobody judges the answer.
AnswerUnevaluated(h) ==
    /\ h.stage = "child"
    /\ ~ShouldEvaluate(h)
    /\ CompleteAutonomously(h)

\* The child has answered; the evaluation of the answer starts.
StartEvaluation(h) ==
    /\ h.stage = "child"
    /\ ShouldEvaluate(h)
    /\ handlers' = (handlers \ {h}) \union {[h EXCEPT !.stage = "evaluating"]}
    /\ UNCHANGED <<registryVars, queueVars, contactVars, issued, injectedIds>>

\* The answer is judged sufficient, or the evaluation fails or times out.
AcceptAnswer(h) ==
    /\ h.stage = "evaluating"
    /\ CompleteAutonomously(h)

\* Fault: the child is asked again, as often as the answer is insufficient.
EscalateToChild(h, outcome) ==
    /\ h.stage = "evaluating"
    /\ handlers' = (handlers \ {h}) \union {[h EXCEPT !.stage = "child"]}
    /\ UNCHANGED <<registryVars, queueVars, contactVars, issued, injectedIds>>

\* Fault: the answer is discarded and the message not queued.
EscalateUnqueued(h, outcome) ==
    /\ h.stage = "evaluating"
    /\ tasks' = SetStatus(tasks, h.task, "INPUT_REQUIRED")
    /\ handlers' = handlers \ {h}
    /\ UNCHANGED <<deferredIds, queueVars, contactVars, issued, injectedIds>>

\* The answer is judged insufficient: it is discarded and the message queued.
\* A failed write raises into the handler's own except clause.
Escalate(h, outcome) ==
    /\ h.stage = "evaluating"
    /\ LET waiting == SetStatus(tasks, h.task, "INPUT_REQUIRED")
       IN  tasks' = IF outcome = "saved"
                    THEN waiting
                    ELSE UpdateTask(waiting, h.task, "FAILED", None, "save_failed", None)
    /\ AddMessage(h.task, h.sender, TRUE, outcome)
    /\ handlers' = handlers \ {h}
    /\ UNCHANGED <<deferredIds, approvalVars, contactVars, issued, injectedIds>>

\* Fault: the failure is logged and the task left as it is.
ChildFailsUnseen(h) ==
    /\ h.stage = "child"
    /\ handlers' = handlers \ {h}
    /\ UNCHANGED <<registryVars, queueVars, contactVars, issued, injectedIds>>

ChildFails(h) ==
    /\ h.stage = "child"
    /\ tasks' = UpdateTask(tasks, h.task, "FAILED", None, "child_failed", None)
    /\ handlers' = handlers \ {h}
    /\ UNCHANGED <<deferredIds, queueVars, contactVars, issued, injectedIds>>

-----------------------------------------------------------------------------
(* The session's next turn shows what waits and was not shown before.      *)

\* Fault: messages are shown only when no contact request waits.
UnseenRequestsFirst ==
    (IF PendingApprovalTasks # {} THEN PendingApprovalTasks ELSE PendingMessageTasks)
        \ (injectedIds \union deferredIds)

Unseen == (PendingApprovalTasks \union PendingMessageTasks) \ (injectedIds \union deferredIds)

Inject ==
    /\ Unseen # {}
    /\ injectedIds' = injectedIds \union Unseen
    /\ UNCHANGED <<registryVars, queueVars, contactVars, issued, handlers>>

-----------------------------------------------------------------------------
(* The user's operations of the a2a tool.                                  *)

\* _find_pending_approval: the position of the sender's first pending request.
FirstRequestFrom(s) ==
    LET pending == {i \in DOMAIN approvals :
                      approvals[i].sender = s /\ approvals[i].status = "pending"}
    IN  {i \in pending : \A j \in pending : i <= j}

\* Fault: the request is marked before the contact is written.
ApproveRequestFirst(s, tier, contactOutcome, requestOutcome) ==
    \E i \in FirstRequestFrom(s) :
        LET t == approvals[i].task IN
        /\ UpdateApprovalStatus(t, "approved", requestOutcome)
        /\ IF requestOutcome = "saved"
           THEN AddContact(s, tier, contactOutcome)
           ELSE UNCHANGED contactVars
        /\ tasks' = IF contactOutcome = "saved" /\ requestOutcome = "saved"
                    THEN UpdateTask(tasks, t, "COMPLETED", "approval_notice", None, None)
                    ELSE tasks
        /\ UNCHANGED <<deferredIds, messageVars, issued, handlers, injectedIds>>

\* Three effects in this order, cut short by the first write that fails: the
\* contact, the request's status, the task.
Approve(s, tier, contactOutcome, requestOutcome) ==
    \E i \in FirstRequestFrom(s) :
        LET t == approvals[i].task IN
        /\ AddContact(s, tier, contactOutcome)
        /\ IF contactOutcome = "saved"
           THEN UpdateApprovalStatus(t, "approved", requestOutcome)
           ELSE UNCHANGED approvalVars
        /\ tasks' = IF contactOutcome = "saved" /\ requestOutcome = "saved"
                    THEN UpdateTask(tasks, t, "COMPLETED", "approval_notice", None, None)
                    ELSE tasks
        /\ UNCHANGED <<deferredIds, messageVars, issued, handlers, injectedIds>>

\* Fault: the sender is never told.
BlockUntold(s, outcome) ==
    \E i \in FirstRequestFrom(s) :
        /\ UpdateApprovalStatus(approvals[i].task, "blocked", outcome)
        /\ UNCHANGED <<registryVars, messageVars, contactVars, issued, handlers, injectedIds>>

Block(s, outcome) ==
    \E i \in FirstRequestFrom(s) :
        LET t == approvals[i].task IN
        /\ UpdateApprovalStatus(t, "blocked", outcome)
        /\ tasks' = IF outcome = "saved"
                    THEN UpdateTask(tasks, t, "FAILED", None, "blocked", None)
                    ELSE tasks
        /\ UNCHANGED <<deferredIds, messageVars, contactVars, issued, handlers, injectedIds>>

Trust(s, tier, outcome) ==
    /\ IsKnown(s)
    /\ UpdateTier(s, tier, outcome)
    /\ UNCHANGED <<registryVars, queueVars, issued, handlers, injectedIds>>

\* The operation add_contact, once the agent's card has been fetched.
AddContactByUrl(s, tier, outcome) ==
    /\ AddContact(s, tier, outcome)
    /\ UNCHANGED <<registryVars, queueVars, issued, handlers, injectedIds>>

\* Fault: the entry is marked before the task is closed.
RespondMarkFirst(t, outcome) ==
    /\ HasEntry(messages, t)
    /\ UpdateMessageStatus(t, "responded", outcome)
    /\ tasks' = IF outcome = "saved"
                THEN UpdateTask(tasks, t, "COMPLETED", "user_reply", None,
                         IF IsEscalated(t) THEN "escalated_user_response" ELSE "user_response")
                ELSE tasks
    /\ UNCHANGED <<deferredIds, approvalVars, contactVars, issued, handlers, injectedIds>>

\* Fault: a task that is closed already keeps its answer, the entry does not.
RespondUnlessClosed(t, outcome) ==
    /\ HasEntry(messages, t)
    /\ tasks' = IF tasks[t].status \in Closed THEN tasks
                ELSE UpdateTask(tasks, t, "COMPLETED", "user_reply", None,
                         IF IsEscalated(t) THEN "escalated_user_response" ELSE "user_response")
    /\ UpdateMessageStatus(t, "responded", outcome)
    /\ UNCHANGED <<deferredIds, approvalVars, contactVars, issued, handlers, injectedIds>>

\* get_message does not look at the status: any queued message may be
\* answered, dismissed or deferred, in any order and any number of times.
Respond(t, outcome) ==
    /\ HasEntry(messages, t)
    /\ tasks' = UpdateTask(tasks, t, "COMPLETED", "user_reply", None,
                    IF IsEscalated(t) THEN "escalated_user_response" ELSE "user_response")
    /\ UpdateMessageStatus(t, "responded", outcome)
    /\ UNCHANGED <<deferredIds, approvalVars, contactVars, issued, handlers, injectedIds>>

\* Fault: the entry gets the task's word for the outcome.
DismissAsRejected(t, outcome) ==
    /\ HasEntry(messages, t)
    /\ tasks' = UpdateTask(tasks, t, "REJECTED", None, "dismissed", "dismissed")
    /\ UpdateMessageStatus(t, "rejected", outcome)
    /\ UNCHANGED <<deferredIds, approvalVars, contactVars, issued, handlers, injectedIds>>

Dismiss(t, outcome) ==
    /\ HasEntry(messages, t)
    /\ tasks' = UpdateTask(tasks, t, "REJECTED", None, "dismissed", "dismissed")
    /\ UpdateMessageStatus(t, "dismissed", outcome)
    /\ UNCHANGED <<deferredIds, approvalVars, contactVars, issued, handlers, injectedIds>>

\* Fault: deferring puts the task back to waiting.
DeferReopens(t, outcome) ==
    /\ HasEntry(messages, t)
    /\ UpdateMessageStatus(t, "deferred", outcome)
    /\ deferredIds' = IF outcome = "saved" THEN deferredIds \union {t} ELSE deferredIds
    /\ tasks' = SetStatus(tasks, t, "INPUT_REQUIRED")
    /\ UNCHANGED <<approvalVars, contactVars, issued, handlers, injectedIds>>

Defer(t, outcome) ==
    /\ HasEntry(messages, t)
    /\ UpdateMessageStatus(t, "deferred", outcome)
    /\ deferredIds' = IF outcome = "saved" THEN deferredIds \union {t} ELSE deferredIds
    /\ UNCHANGED <<tasks, approvalVars, contactVars, issued, handlers, injectedIds>>

-----------------------------------------------------------------------------
(* The process ends, at any point, and a new session mounts the server.    *)
Restart ==
    /\ tasks' = [t \in Tasks |-> Absent]
    /\ deferredIds' = {}
    /\ handlers' = {}
    /\ injectedIds' = {}
    /\ ReloadQueue
    /\ ReloadContacts
    /\ UNCHANGED issued

-----------------------------------------------------------------------------
Receive ==
    \E t \in Tasks, s \in Senders, signed \in BOOLEAN :
        \/ \E o \in SaveOutcomes : FirstContact(t, s, signed, o)
        \/ \E o \in SaveOutcomes : QueueForUser(t, s, signed, o)
        \/ SpawnChild(t, s, signed)

Resume(h) ==
    \/ AnswerUnevaluated(h)
    \/ StartEvaluation(h)
    \/ AcceptAnswer(h)
    \/ \E o \in SaveOutcomes : Escalate(h, o)
    \/ ChildFails(h)

DecideOnSender ==
    \E s \in Senders, o \in SaveOutcomes :
        \/ \E tier \in Tiers, q \in SaveOutcomes : Approve(s, tier, o, q)
        \/ Block(s, o)
        \/ \E tier \in Tiers : Trust(s, tier, o)
        \/ \E tier \in Tiers : AddContactByUrl(s, tier, o)

DecideOnMessage ==
    \E t \in Tasks, o \in SaveOutcomes : Respond(t, o) \/ Dismiss(t, o) \/ Defer(t, o)

Next ==
    \/ Receive
    \/ \E h \in handlers : Resume(h)
    \/ Inject
    \/ DecideOnSender
    \/ DecideOnMessage
    \/ Restart

Spec == Init /\ [][Next]_vars

ResumeTask(t) == \E h \in handlers : h.task = t /\ Resume(h)

\* Turns keep coming while the session is in use, each one running the hook;
\* child sessions end (an assumption on the model provider) and the
\* evaluation has a timeout of ten seconds.
FairSpec ==
    /\ Spec
    /\ WF_vars(Inject)
    /\ \A t \in Tasks : WF_vars(ResumeTask(t))

-----------------------------------------------------------------------------
(* Properties that hold whatever becomes of the writes.                    *)

\* A task says WORKING exactly while some request is suspended on it: no path
\* through the handler's awaits and except clause leaves it WORKING behind.
WorkIsBeingDone ==
    \A t \in Tasks : tasks[t].status = "WORKING" <=> \E h \in handlers : h.task = t

\* A message the remote sender still waits on is in the inbox, neither answered
\* nor dismissed, so the user can find it: respond and dismiss close the task
\* before they mark the entry.  (Tasks of contact requests are left out: approve
\* and block do it in the other order.)
OpenMessageIsQueued ==
    \A t \in Tasks :
        /\ tasks[t].status \in {"SUBMITTED", "INPUT_REQUIRED"}
        /\ ~HasEntry(approvals, t)
        => \E m \in Range(messages) : m.task = t /\ m.status \in {"pending", "deferred"}

\* What a sender is told about who answered is true: "autonomous" only for an
\* answer of the child that nobody found insufficient, a user attribution only
\* for a reply typed by the user, with the escalation marked when there was one.
AttributionTruthful ==
    \A t \in Tasks : tasks[t].status = "COMPLETED" /\ ~HasEntry(approvals, t) =>
        CASE tasks[t].attribution = "autonomous" ->
                tasks[t].artifact = "child_answer" /\ ~HasEntry(messages, t)
          [] tasks[t].attribution = "user_response" ->
                /\ tasks[t].artifact = "user_reply"
                /\ \E m \in Range(messages) : m.task = t /\ ~m.escalated
          [] tasks[t].attribution = "escalated_user_response" ->
                /\ tasks[t].artifact = "user_reply"
                /\ \E m \in Range(messages) : m.task = t /\ m.escalated
          [] OTHER -> FALSE

\* A task the sender has seen closed never opens again in the life of the
\* process: no late resumption or repeated decision takes an answer back to
\* "waiting".  (It may be forgotten, by Restart.)
ClosedNeverReopens ==
    [][\A t \in Tasks : tasks[t].status \in Closed =>
          tasks'[t].status \in Closed \union {"ABSENT"}]_vars

\* The reminder shows the user only items that wait for a decision: not one that
\* any entry, in memory or on disk, has as settled or put off, nor one deferred in
\* this process, nor one whose remote task is closed already.  (That a settled or
\* deferred entry stays so, restarts included, is DecisionsSurvive.)
OnlyOpenItemsAnnounced ==
    [][\A t \in injectedIds' \ injectedIds :
          /\ t \notin deferredIds
          /\ \A list \in {messages, messagesFile, approvals, approvalsFile} :
                 \A e \in Range(list) : e.task = t => e.status = "pending"
          /\ tasks[t].status \in {"ABSENT", "INPUT_REQUIRED"}]_vars

\* How far a decision on a contact request may stop short when a write fails or
\* the process dies.  Approve writes the contact before it marks the request: no
\* request is approved, out of the user's sight for good, while its sender is not
\* a contact.  A decision may leave the task its sender polls open, but is not on
\* disk then (the next write of the list puts it there all the same).
DecisionsTakeEffect ==
    [][\A i \in DOMAIN approvals \cap DOMAIN approvals' :
          approvals[i].status = "pending" /\ approvals'[i].status # "pending" =>
              /\ approvals'[i].status = "approved" =>
                     \A list \in {contacts', contactsFile'} :
                         \E c \in Range(list) : c.sender = approvals[i].sender
              /\ \/ tasks'[approvals[i].task].status \in Closed \union {"ABSENT"}
                 \/ \A a \in Range(approvalsFile') :
                        a.task = approvals[i].task => a.status = "pending"]_vars

-----------------------------------------------------------------------------
(* The inductive invariant behind the three invariants above.              *)

TasksOf(list) == {list[i].task : i \in DOMAIN list}

OneEntryEach(list) == \A i, j \in DOMAIN list : list[i].task = list[j].task => i = j

InboxTasks   == TasksOf(messages) \union TasksOf(messagesFile)
RequestTasks == TasksOf(approvals) \union TasksOf(approvalsFile)

\* A task id that uuid4 has not handed out is nowhere.
IdsAreFresh ==
    /\ \A t \in Tasks \ issued : tasks[t].status = "ABSENT"
    /\ InboxTasks \union RequestTasks \union {h.task : h \in handlers} \subseteq issued

\* An item is in one place: a suspended request, the inbox or the contact
\* requests, in memory and on disk; and it is there once.
OnePlaceEach ==
    /\ InboxTasks \cap RequestTasks = {}
    /\ \A h \in handlers : h.task \notin InboxTasks \union RequestTasks
    /\ \A g, h \in handlers : g.task = h.task => g = h
    /\ OneEntryEach(messages) /\ OneEntryEach(messagesFile)
    /\ OneEntryEach(approvals) /\ OneEntryEach(approvalsFile)

\* The file of contact requests is never ahead of the list in memory: what it
\* holds as decided is decided in memory, at the same position.
RequestFileTrails ==
    /\ DOMAIN approvalsFile \subseteq DOMAIN approvals
    /\ \A i \in DOMAIN approvalsFile :
         approvalsFile[i].status # "pending" => approvalsFile[i] = approvals[i]

Inv ==
    /\ TypeOK
    /\ IdsAreFresh
    /\ OnePlaceEach
    /\ RequestFileTrails
    /\ WorkIsBeingDone
    /\ OpenMessageIsQueued
    /\ AttributionTruthful

-----------------------------------------------------------------------------
(* Properties of an agent whose writes succeed, restarts included.         *)

\* What the status of a queued message says of its task.
MessageAgrees(status, task) ==
    CASE status = "pending"   -> task.status = "INPUT_REQUIRED"
      [] status = "responded" -> task.status = "COMPLETED" /\ task.artifact = "user_reply"
      [] status = "dismissed" -> task.status = "REJECTED" /\ task.attribution = "dismissed"
      [] OTHER -> task.status \in {"INPUT_REQUIRED", "COMPLETED", "REJECTED"}

\* What the status of a contact request says of its task.
RequestAgrees(status, task) ==
    CASE status = "pending"  -> task.status = "INPUT_REQUIRED"
      [] status = "approved" -> task.status = "COMPLETED" /\ task.artifact = "approval_notice"
      [] OTHER -> task.status = "FAILED" /\ task.error = "blocked"

\* The decision recorded in the inbox and the task the sender polls agree,
\* after any sequence of repeated and contradicting decisions; a task lost in
\* a restart is the exception.
QueueAgreesWithTasks ==
    /\ \A m \in Range(messages) :
         tasks[m.task].status # "ABSENT" => MessageAgrees(m.status, tasks[m.task])
    /\ \A a \in Range(approvals) :
         tasks[a.task].status # "ABSENT" => RequestAgrees(a.status, tasks[a.task])

\* No task waits on the user without an entry the user can still decide on.
OpenTaskIsQueued ==
    \A t \in Tasks : tasks[t].status \in {"SUBMITTED", "INPUT_REQUIRED"} =>
        \/ \E m \in Range(messages) : m.task = t /\ m.status \in {"pending", "deferred"}
        \/ t \in PendingApprovalTasks

\* Only messages of accepted contacts reach the inbox or a child session.
OnlyContactsAreServed ==
    /\ \A m \in Range(messages) : IsKnown(m.sender)
    /\ \A h \in handlers : IsKnown(h.sender)

FilesCurrent ==
    messagesFile = messages /\ approvalsFile = approvals /\ contactsFile = contacts

\* The inductive invariant of such an agent.
DurableInv ==
    /\ Inv
    /\ FilesCurrent
    /\ QueueAgreesWithTasks
    /\ OpenTaskIsQueued
    /\ OnlyContactsAreServed

\* What was queued stays queued, and what the user settled is never presented
\* as undecided again: not by a later message, decision, answer or restart.
DecisionsSurvive ==
    [][/\ \A m \in Range(messages) : \E n \in Range(messages') :
             n.task = m.task /\ (m.status # "pending" => n.status # "pending")
       /\ \A a \in Range(approvals) : \E b \in Range(approvals') :
             b.task = a.task /\ (a.status # "pending" => b = a)]_vars

\* An accepted contact is a contact from then on, restarts included.
ContactsNeverForgotten ==
    [][\A s \in Senders : IsKnown(s) => IsKnown(s)']_vars

\* Whatever starts to wait for the user is shown, or decided on before.
WaitingItemsSurface ==
    \A t \in Tasks :
        t \in PendingMessageTasks \union PendingApprovalTasks
            ~> t \in injectedIds \/ t \notin PendingMessageTasks \union PendingApprovalTasks

\* A message given to a child session is answered, failed or handed to the user.
WorkEnds ==
    \A t \in Tasks : tasks[t].status = "WORKING" ~> tasks[t].status # "WORKING"

-----------------------------------------------------------------------------
(* What the repository's documents say of the program and its code denies. *)

\* The phase 2 plan on add_contact: "Overwrites if URL already exists."  The
\* tier a contact is added with, or approved at, is then the tier it has.
AddedTierCounts ==
    [][\A s \in Senders, tier \in Tiers :
          contacts' = Append(contacts, [sender |-> s, tier |-> tier]) => HasTier(s, tier)']_vars

\* The agent's instructions: "Deferred messages stay in your queue - you can
\* respond to them anytime".  Responding closes the task its sender polls.
ResponseReachesTask ==
    [][\A i \in DOMAIN messages :
          messages[i].status = "deferred" /\ messages'[i].status = "responded" =>
              tasks'[messages[i].task].status = "COMPLETED"]_vars
=============================================================================
