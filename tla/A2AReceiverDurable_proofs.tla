---------------------- MODULE A2AReceiverDurable_proofs ----------------------
(***************************************************************************)
(* Theorems about an A2AReceiver whose writes succeed, for every set of    *)
(* tasks, senders and tiers, and any number of contacts and restarts.      *)
(***************************************************************************)
EXTENDS A2AReceiver_proofs

WritesSucceed == SaveOutcomes = {"saved"}

-----------------------------------------------------------------------------
(* What the operations of the stores do to the entries of the lists.       *)

LEMMA SavedFile == \A file, list : Written(file, list, "saved") = list
  BY DEF Written

\* An entry of the inbox after a decision on t: one of another task, as it was,
\* or the one of t, with the new status.
LEMMA MessagesRestated ==
    ASSUME Inv, NEW t \in Tasks, NEW status \in MessageStatuses,
           NEW outcome \in SaveOutcomes, UpdateMessageStatus(t, status, outcome)
    PROVE  \A n \in Range(messages') :
             \E m \in Range(messages) :
               /\ n.task = m.task /\ n.sender = m.sender
               /\ n.status = IF m.task = t THEN status ELSE m.status
  <1>1. messages \in Seq(MessageEntry) /\ messages' = WithStatus(messages, t, status)
    BY DEF Inv, TypeOK, QueueTypeOK, UpdateMessageStatus
  <1>2. OneEntryEach(messages)
    BY DEF Inv, OnePlaceEach
  <1>3. /\ DOMAIN messages' = DOMAIN messages
        /\ \A i \in DOMAIN messages :
             messages'[i] = IF messages[i].task = t THEN [messages[i] EXCEPT !.status = status]
                                                    ELSE messages[i]
    BY <1>1, <1>2, RestatedEntry
  <1>4. \A m \in MessageEntry : LET n == [m EXCEPT !.status = status] IN
          n.task = m.task /\ n.sender = m.sender /\ n.status = status
    BY DEF MessageEntry
  <1> SUFFICES ASSUME NEW i \in DOMAIN messages
               PROVE  /\ messages'[i].task = messages[i].task
                      /\ messages'[i].sender = messages[i].sender
                      /\ messages'[i].status = IF messages[i].task = t THEN status
                                                                      ELSE messages[i].status
    BY <1>3 DEF Range
  <1>5. messages[i] \in MessageEntry
    BY <1>1, LenProperties
  <1>6. CASE messages[i].task = t
    <2>1. messages'[i] = [messages[i] EXCEPT !.status = status]
      BY <1>3, <1>6
    <2> QED BY <1>4, <1>5, <1>6, <2>1
  <1>7. CASE messages[i].task # t
    BY <1>3, <1>7
  <1> QED BY <1>6, <1>7

\* The contact requests after a decision on one of them: it has the new status,
\* the others are as they were.
LEMMA RequestsRestated ==
    ASSUME Inv, NEW s \in Senders, NEW i \in FirstRequestFrom(s),
           NEW status \in ApprovalStatuses, NEW outcome \in SaveOutcomes,
           UpdateApprovalStatus(approvals[i].task, status, outcome)
    PROVE  LET t == approvals[i].task IN
           /\ t \in Tasks /\ t \in TasksOf(approvals)
           /\ \A a \in Range(approvals) :
                IF a.task = t THEN a.status = "pending" ELSE a \in Range(approvals')
           /\ \A b \in Range(approvals') :
                IF b.task = t THEN b.status = status ELSE b \in Range(approvals)
           /\ \E b \in Range(approvals') : b.task = t
  <1> DEFINE t == approvals[i].task
  <1>1. /\ i \in DOMAIN approvals /\ approvals[i].status = "pending"
        /\ DOMAIN approvals' = DOMAIN approvals
        /\ \A j \in DOMAIN approvals :
             approvals'[j] = IF j = i THEN [approvals[i] EXCEPT !.status = status]
                                      ELSE approvals[j]
    BY RestatedRequest
  <1>2. \A j \in DOMAIN approvals : approvals[j].task = t => j = i
    BY <1>1 DEF Inv, OnePlaceEach, OneEntryEach
  <1>3. approvals'[i].task = t /\ approvals'[i].status = status
    <2>1. approvals[i] \in ApprovalEntry /\ approvals'[i] = [approvals[i] EXCEPT !.status = status]
      BY <1>1, FirstRequestType DEF Inv
    <2> QED BY <2>1 DEF ApprovalEntry
  <1>4. t \in Tasks
    BY FirstRequestType DEF Inv
  <1> QED BY <1>1, <1>2, <1>3, <1>4 DEF Range, TasksOf

\* No operation on the contacts takes one away.
LEMMA ContactsGrow ==
    ASSUME Inv, NEW s \in Senders, NEW tier \in Tiers,
           AddContact(s, tier, "saved") \/ (IsKnown(s) /\ UpdateTier(s, tier, "saved"))
    PROVE  contactsFile' = contacts' /\ \A u : IsKnown(u) => IsKnown(u)'
  <1>1. contacts \in Seq(Contact)
    BY DEF Inv, TypeOK, ContactsTypeOK
  <1>2. CASE AddContact(s, tier, "saved")
    <2>1. [sender |-> s, tier |-> tier] \in Contact
      BY DEF Contact
    <2>2. /\ DOMAIN contacts \subseteq DOMAIN contacts'
          /\ \A i \in DOMAIN contacts : contacts'[i] = contacts[i]
      BY <1>1, <1>2, <2>1, AppendProperties, LenProperties DEF AddContact
    <2> QED BY <1>2, <2>2, SavedFile DEF AddContact, IsKnown
  <1>3. CASE IsKnown(s) /\ UpdateTier(s, tier, "saved")
    <2>1. \A i \in DOMAIN contacts : contacts[i] \in Contact
      BY <1>1, LenProperties
    <2>2. DOMAIN contacts' = DOMAIN contacts
      BY <1>3 DEF UpdateTier
    <2>3. \A i \in DOMAIN contacts : contacts'[i].sender = contacts[i].sender
      BY <1>3, <2>1 DEF UpdateTier, Contact
    <2> QED BY <1>3, <2>2, <2>3, SavedFile DEF UpdateTier, IsKnown
  <1> QED BY <1>2, <1>3

-----------------------------------------------------------------------------
(* The inductive invariant.                                                *)

\* The user can still decide on t.
Undecided(t) ==
    \/ \E m \in Range(messages) : m.task = t /\ m.status \in {"pending", "deferred"}
    \/ \E a \in Range(approvals) : a.task = t /\ a.status = "pending"

LEMMA OpenMeaning ==
    OpenTaskIsQueued <=>
        \A t \in Tasks : tasks[t].status \in {"SUBMITTED", "INPUT_REQUIRED"} => Undecided(t)
  BY DEF OpenTaskIsQueued, Undecided, PendingApprovalTasks

LEMMA EntryTypes ==
    ASSUME Inv
    PROVE  /\ \A m \in Range(messages) :
                m.task \in Tasks /\ m.task \in TasksOf(messages) /\ m.task \in InboxTasks
           /\ \A a \in Range(approvals) :
                a.task \in Tasks /\ a.task \in TasksOf(approvals) /\ a.task \in RequestTasks
  <1>1. Range(messages) \subseteq MessageEntry /\ Range(approvals) \subseteq ApprovalEntry
    BY RangeOfSeq DEF Inv, TypeOK, QueueTypeOK
  <1> QED BY <1>1 DEF MessageEntry, ApprovalEntry, Range, TasksOf, InboxTasks, RequestTasks

LEMMA DurableInit == Init => DurableInv
  <1> SUFFICES ASSUME Init PROVE DurableInv
    OBVIOUS
  <1>1. /\ \A t \in Tasks : tasks[t].status = "ABSENT"
        /\ handlers = {}
        /\ messages = <<>> /\ messagesFile = <<>> /\ approvals = <<>> /\ approvalsFile = <<>>
        /\ contacts = <<>> /\ contactsFile = <<>>
    BY DEF Init, RegistryInit, QueueInit, ContactsInit, Absent, Blank
  <1>2. Range(<<>>) = {}
    BY DEF Range
  <1>3. QueueAgreesWithTasks /\ OpenTaskIsQueued /\ OnlyContactsAreServed
    BY <1>1, <1>2 DEF QueueAgreesWithTasks, OpenTaskIsQueued, OnlyContactsAreServed
  <1> QED BY <1>1, <1>3, InvInit DEF DurableInv, FilesCurrent

\* Nothing but the task of one item that is in neither list changes, and it is
\* not left open.
LEMMA ElsewhereDurable ==
    ASSUME DurableInv, Inv', NEW t \in Tasks, t \notin InboxTasks \union RequestTasks,
           UNCHANGED <<queueVars, contactVars>>,
           \A u \in Tasks : u # t => tasks'[u] = tasks[u],
           tasks'[t].status \notin {"SUBMITTED", "INPUT_REQUIRED"},
           \A g \in handlers' : IsKnown(g.sender)
    PROVE  DurableInv'
  <1>1. FilesCurrent'
    BY DEF DurableInv, FilesCurrent, queueVars, contactVars
  <1>2. QueueAgreesWithTasks'
    BY EntryTypes DEF DurableInv, QueueAgreesWithTasks, queueVars
  <1>3. OpenTaskIsQueued'
    BY DEF DurableInv, OpenTaskIsQueued, PendingApprovalTasks, queueVars
  <1>4. OnlyContactsAreServed'
    BY DEF DurableInv, OnlyContactsAreServed, IsKnown, queueVars, contactVars
  <1> QED BY <1>1, <1>2, <1>3, <1>4 DEF DurableInv

\* An accepted message is queued, fresh from its sender or escalated.
LEMMA QueuedDurable ==
    ASSUME DurableInv, Inv', NEW t \in Tasks, NEW s \in Senders, NEW escalated \in BOOLEAN,
           "saved" \in SaveOutcomes, AddMessage(t, s, escalated, "saved"),
           t \notin InboxTasks \union RequestTasks, IsKnown(s),
           UNCHANGED <<approvalVars, contactVars>>, handlers' \subseteq handlers,
           \A u \in Tasks : u # t => tasks'[u] = tasks[u],
           tasks'[t].status = "INPUT_REQUIRED"
    PROVE  DurableInv'
  <1> DEFINE e == [task |-> t, sender |-> s, escalated |-> escalated, status |-> "pending"]
  <1>1. Range(messages') = Range(messages) \union {e}
    <2>1. messages \in Seq(MessageEntry) /\ e \in MessageEntry
      BY DEF DurableInv, Inv, TypeOK, QueueTypeOK, MessageEntry, MessageStatuses
    <2> QED BY <2>1, AppendedEntry DEF AddMessage
  <1>2. e.task = t /\ e.status = "pending" /\ e.sender = s
    OBVIOUS
  <1> HIDE DEF e
  <1>3. /\ \A m \in Range(messages) : m.task \in Tasks /\ m.task # t
        /\ \A a \in Range(approvals) : a.task \in Tasks /\ a.task # t
    BY EntryTypes DEF DurableInv
  <1>4. FilesCurrent'
    BY SavedFile DEF DurableInv, FilesCurrent, AddMessage, approvalVars, contactVars
  <1>5. QueueAgreesWithTasks'
    <2>1. MessageAgrees("pending", tasks'[t])
      BY DEF MessageAgrees
    <2> QED BY <1>1, <1>2, <1>3, <2>1 DEF DurableInv, QueueAgreesWithTasks, approvalVars
  <1>6. OpenTaskIsQueued'
    BY <1>1, <1>2 DEF DurableInv, OpenTaskIsQueued, PendingApprovalTasks, approvalVars
  <1>7. OnlyContactsAreServed'
    BY <1>1, <1>2 DEF DurableInv, OnlyContactsAreServed, IsKnown, contactVars
  <1> QED BY <1>4, <1>5, <1>6, <1>7 DEF DurableInv

\* A stranger's message becomes a contact request.
LEMMA FirstContactDurable ==
    ASSUME WritesSucceed, DurableInv, Inv', NEW t \in Tasks, NEW s \in Senders,
           NEW signed \in BOOLEAN, NEW o \in SaveOutcomes, FirstContact(t, s, signed, o)
    PROVE  DurableInv'
  <1> DEFINE e == [task |-> t, sender |-> s, status |-> "pending"]
  <1>0. o = "saved"
    BY DEF WritesSucceed
  <1>1. Range(approvals') = Range(approvals) \union {e}
    <2>1. approvals \in Seq(ApprovalEntry) /\ e \in ApprovalEntry
      BY DEF DurableInv, Inv, TypeOK, QueueTypeOK, ApprovalEntry, ApprovalStatuses
    <2> QED BY <2>1, AppendedEntry DEF FirstContact, AddApproval
  <1>2. e.task = t /\ e.status = "pending"
    OBVIOUS
  <1> HIDE DEF e
  <1>3. /\ \A m \in Range(messages) : m.task \in Tasks /\ m.task # t
        /\ \A a \in Range(approvals) : a.task \in Tasks /\ a.task # t
    BY EntryTypes DEF FirstContact, DurableInv, Inv, IdsAreFresh
  <1>4. /\ \A u \in Tasks : u # t => tasks'[u] = tasks[u]
        /\ tasks'[t].status = "INPUT_REQUIRED"
    BY <1>0, OpenedTask DEF FirstContact, DurableInv, Inv, TypeOK, RegistryTypeOK
  <1>5. UNCHANGED <<messages, messagesFile, contacts, contactsFile, handlers>>
    BY DEF FirstContact, messageVars, contactVars
  <1>6. FilesCurrent'
    BY <1>0, <1>5, SavedFile DEF DurableInv, FilesCurrent, FirstContact, AddApproval
  <1>7. QueueAgreesWithTasks'
    <2>1. RequestAgrees("pending", tasks'[t])
      BY <1>4 DEF RequestAgrees
    <2> QED BY <1>1, <1>2, <1>3, <1>4, <1>5, <2>1 DEF DurableInv, QueueAgreesWithTasks
  <1>8. OpenTaskIsQueued'
    BY <1>1, <1>2, <1>4, <1>5 DEF DurableInv, OpenTaskIsQueued, PendingApprovalTasks
  <1>9. OnlyContactsAreServed'
    BY <1>5 DEF DurableInv, OnlyContactsAreServed, IsKnown
  <1> QED BY <1>6, <1>7, <1>8, <1>9 DEF DurableInv

LEMMA ReceiveDurable ==
    ASSUME WritesSucceed, DurableInv, Inv', Receive
    PROVE  DurableInv'
  <1>0. \A o \in SaveOutcomes : o = "saved"
    BY DEF WritesSucceed
  <1>T. tasks \in [Tasks -> TaskRecord]
    BY DEF DurableInv, Inv, TypeOK, RegistryTypeOK
  <1>1. ASSUME NEW t \in Tasks, NEW s \in Senders, NEW signed \in BOOLEAN,
               QueueForUser(t, s, signed, "saved")
        PROVE  DurableInv'
    <2>1. t \notin InboxTasks \union RequestTasks
      BY <1>1 DEF QueueForUser, DurableInv, Inv, IdsAreFresh
    <2>2. /\ \A u \in Tasks : u # t => tasks'[u] = tasks[u]
          /\ tasks'[t].status = "INPUT_REQUIRED"
      BY <1>1, <1>T, OpenedTask DEF QueueForUser
    <2>3. IsKnown(s) /\ AddMessage(t, s, FALSE, "saved") /\ handlers' = handlers
          /\ UNCHANGED <<approvalVars, contactVars>>
      BY <1>1 DEF QueueForUser, Recognised
    <2> QED BY <2>1, <2>2, <2>3, SaveOutcomesAssumption, QueuedDurable
  <1>2. ASSUME NEW t \in Tasks, NEW s \in Senders, NEW signed \in BOOLEAN,
               SpawnChild(t, s, signed)
        PROVE  DurableInv'
    <2>1. t \notin InboxTasks \union RequestTasks
      BY <1>2 DEF SpawnChild, DurableInv, Inv, IdsAreFresh
    <2>2. /\ \A u \in Tasks : u # t => tasks'[u] = tasks[u]
          /\ tasks'[t].status = "WORKING"
      BY <1>2, <1>T, OpenedTask DEF SpawnChild
    <2>3. \A g \in handlers' : IsKnown(g.sender)
      <3>1. PICK tier \in Tiers : handlers' = handlers \union
                {[task |-> t, sender |-> s, tier |-> tier, stage |-> "child"]}
        BY <1>2 DEF SpawnChild
      <3>2. IsKnown(s)
        BY <1>2 DEF SpawnChild, Recognised
      <3> QED BY <3>1, <3>2 DEF DurableInv, OnlyContactsAreServed
    <2>4. UNCHANGED <<queueVars, contactVars>>
      BY <1>2 DEF SpawnChild
    <2> QED BY <2>1, <2>2, <2>3, <2>4, ElsewhereDurable
  <1> QED BY <1>0, <1>1, <1>2, FirstContactDurable, SaveOutcomesAssumption DEF Receive

LEMMA ResumeDurable ==
    ASSUME WritesSucceed, DurableInv, Inv', NEW h \in handlers, Resume(h)
    PROVE  DurableInv'
  <1> DEFINE t == h.task
  <1>0. \A o \in SaveOutcomes : o = "saved"
    BY DEF WritesSucceed
  <1>1. /\ t \in Tasks /\ h.sender \in Senders /\ tasks[t].status = "WORKING"
        /\ t \notin InboxTasks \union RequestTasks
        /\ tasks \in [Tasks -> TaskRecord]
    BY HandlerAlone DEF DurableInv, Inv, TypeOK, RegistryTypeOK
  <1>2. \A g \in handlers : IsKnown(g.sender)
    BY DEF DurableInv, OnlyContactsAreServed
  <1>3. CASE CompleteAutonomously(h) \/ ChildFails(h)
    <2>1. \E status \in {"COMPLETED", "FAILED"} : \E artifact, error, attribution :
            tasks' = UpdateTask(tasks, t, status, artifact, error, attribution)
      BY <1>3 DEF CompleteAutonomously, ChildFails
    <2>2. /\ \A u \in Tasks : u # t => tasks'[u] = tasks[u]
          /\ tasks'[t].status \in {"COMPLETED", "FAILED"}
      BY <1>1, <2>1, UpdatedTask
    <2>3. handlers' \subseteq handlers /\ UNCHANGED <<queueVars, contactVars>>
      BY <1>3 DEF CompleteAutonomously, ChildFails
    <2> QED BY <1>1, <1>2, <2>2, <2>3, ElsewhereDurable
  <1>4. CASE StartEvaluation(h)
    <2>1. [h EXCEPT !.stage = "evaluating"].sender = h.sender
      BY DEF DurableInv, Inv, TypeOK, Handler
    <2>2. \A g \in handlers' : IsKnown(g.sender)
      BY <1>2, <1>4, <2>1 DEF StartEvaluation
    <2> QED BY <1>1, <1>4, <2>2, ElsewhereDurable DEF StartEvaluation, registryVars
  <1>5. CASE Escalate(h, "saved")
    <2>1. tasks' = SetStatus(tasks, t, "INPUT_REQUIRED")
      BY <1>5 DEF Escalate
    <2>2. /\ \A u \in Tasks : u # t => tasks'[u] = tasks[u]
          /\ tasks'[t].status = "INPUT_REQUIRED"
      BY <1>1, <2>1, UpdatedTask DEF SetStatus
    <2>3. /\ AddMessage(t, h.sender, TRUE, "saved") /\ handlers' \subseteq handlers
          /\ UNCHANGED <<approvalVars, contactVars>>
      BY <1>5 DEF Escalate
    <2> QED BY <1>1, <1>2, <2>2, <2>3, SaveOutcomesAssumption, QueuedDurable
  <1> QED BY <1>0, <1>3, <1>4, <1>5 DEF Resume, AnswerUnevaluated, AcceptAnswer

\* Approve and block settle one pending request; its task, if it has not been
\* lost, is closed accordingly.
LEMMA RequestDecidedDurable ==
    ASSUME DurableInv, Inv', NEW s \in Senders, NEW i \in FirstRequestFrom(s),
           NEW status \in {"approved", "blocked"}, "saved" \in SaveOutcomes,
           UpdateApprovalStatus(approvals[i].task, status, "saved"),
           UNCHANGED <<messages, messagesFile, handlers>>,
           contactsFile' = contacts', \A u : IsKnown(u) => IsKnown(u)',
           \A u \in Tasks : u # approvals[i].task => tasks'[u] = tasks[u],
           \/ tasks'[approvals[i].task].status = "ABSENT"
           \/ RequestAgrees(status, tasks'[approvals[i].task])
    PROVE  DurableInv'
  <1> DEFINE t == approvals[i].task
  <1>1. /\ t \in Tasks /\ t \in TasksOf(approvals)
        /\ \A a \in Range(approvals) : a.task # t => a \in Range(approvals')
        /\ \A b \in Range(approvals') :
             IF b.task = t THEN b.status = status ELSE b \in Range(approvals)
    <2>1. status \in ApprovalStatuses
      BY DEF ApprovalStatuses
    <2> QED BY <2>1, RequestsRestated DEF DurableInv
  <1>2. \A m \in Range(messages) : m.task \in Tasks /\ m.task # t
    BY <1>1, EntryTypes DEF DurableInv, Inv, OnePlaceEach, RequestTasks
  <1>3. \A a \in Range(approvals) : a.task \in Tasks
    BY EntryTypes DEF DurableInv
  <1>4. tasks'[t].status \notin {"SUBMITTED", "INPUT_REQUIRED"}
    BY DEF RequestAgrees
  <1> HIDE DEF t
  <1>5. FilesCurrent'
    <2>1. HasEntry(approvals, approvals[i].task)
      BY FirstRequestType DEF DurableInv, Inv, HasEntry
    <2>2. approvalsFile' = Written(approvalsFile, approvals', "saved")
      BY <2>1 DEF UpdateApprovalStatus
    <2> QED BY <2>2, SavedFile DEF DurableInv, FilesCurrent
  <1>6. QueueAgreesWithTasks'
    BY <1>1, <1>2, <1>3 DEF DurableInv, QueueAgreesWithTasks, t
  <1>7. OpenTaskIsQueued'
    <2> SUFFICES ASSUME NEW u \in Tasks, tasks'[u].status \in {"SUBMITTED", "INPUT_REQUIRED"}
                 PROVE  Undecided(u)'
      BY OpenMeaning DEF OpenTaskIsQueued, Undecided, PendingApprovalTasks
    <2>1. u # t /\ tasks'[u] = tasks[u]
      BY <1>4 DEF t
    <2>2. Undecided(u)
      BY <2>1, OpenMeaning DEF DurableInv
    <2> QED BY <1>1, <2>1, <2>2 DEF Undecided
  <1>8. OnlyContactsAreServed'
    BY DEF DurableInv, OnlyContactsAreServed
  <1> QED BY <1>5, <1>6, <1>7, <1>8 DEF DurableInv

LEMMA ApproveDurable ==
    ASSUME WritesSucceed, DurableInv, Inv', NEW s \in Senders, NEW tier \in Tiers,
           NEW o \in SaveOutcomes, NEW q \in SaveOutcomes, Approve(s, tier, o, q)
    PROVE  DurableInv'
  <1>0. o = "saved" /\ q = "saved"
    BY DEF WritesSucceed
  <1>1. PICK i \in FirstRequestFrom(s) :
          /\ AddContact(s, tier, "saved")
          /\ UpdateApprovalStatus(approvals[i].task, "approved", "saved")
          /\ tasks' = UpdateTask(tasks, approvals[i].task, "COMPLETED",
                                 "approval_notice", None, None)
          /\ UNCHANGED <<deferredIds, messageVars, issued, handlers, injectedIds>>
    BY <1>0 DEF Approve
  <1>2. contactsFile' = contacts' /\ \A u : IsKnown(u) => IsKnown(u)'
    BY <1>1, ContactsGrow DEF DurableInv
  <1> DEFINE t == approvals[i].task
  <1>3. t \in Tasks /\ tasks \in [Tasks -> TaskRecord]
    BY FirstRequestType DEF DurableInv, Inv, TypeOK, RegistryTypeOK
  <1>4. /\ \A u \in Tasks : u # t => tasks'[u] = tasks[u]
        /\ tasks'[t].status = "ABSENT" \/ RequestAgrees("approved", tasks'[t])
    BY <1>1, <1>3, UpdatedTask DEF RequestAgrees, Given, None
  <1> QED BY <1>1, <1>2, <1>4, SaveOutcomesAssumption, RequestDecidedDurable DEF messageVars

LEMMA BlockDurable ==
    ASSUME WritesSucceed, DurableInv, Inv', NEW s \in Senders,
           NEW o \in SaveOutcomes, Block(s, o)
    PROVE  DurableInv'
  <1>0. o = "saved"
    BY DEF WritesSucceed
  <1>1. PICK i \in FirstRequestFrom(s) :
          /\ UpdateApprovalStatus(approvals[i].task, "blocked", "saved")
          /\ tasks' = UpdateTask(tasks, approvals[i].task, "FAILED", None, "blocked", None)
          /\ UNCHANGED <<deferredIds, messageVars, contactVars, issued, handlers, injectedIds>>
    BY <1>0 DEF Block
  <1>2. contactsFile' = contacts' /\ \A u : IsKnown(u) => IsKnown(u)'
    BY <1>1 DEF DurableInv, FilesCurrent, IsKnown, contactVars
  <1> DEFINE t == approvals[i].task
  <1>3. t \in Tasks /\ tasks \in [Tasks -> TaskRecord]
    BY FirstRequestType DEF DurableInv, Inv, TypeOK, RegistryTypeOK
  <1>4. /\ \A u \in Tasks : u # t => tasks'[u] = tasks[u]
        /\ tasks'[t].status = "ABSENT" \/ RequestAgrees("blocked", tasks'[t])
    BY <1>1, <1>3 DEF UpdateTask, RequestAgrees, Given, None
  <1> QED BY <1>1, <1>2, <1>4, SaveOutcomesAssumption, RequestDecidedDurable DEF messageVars

LEMMA ContactChangeDurable ==
    ASSUME WritesSucceed, DurableInv, Inv', NEW s \in Senders, NEW tier \in Tiers,
           NEW o \in SaveOutcomes, Trust(s, tier, o) \/ AddContactByUrl(s, tier, o)
    PROVE  DurableInv'
  <1>1. o = "saved"
    BY DEF WritesSucceed
  <1>2. contactsFile' = contacts' /\ \A u : IsKnown(u) => IsKnown(u)'
    BY <1>1, ContactsGrow DEF DurableInv, Trust, AddContactByUrl
  <1>3. UNCHANGED <<registryVars, queueVars, handlers>>
    BY DEF Trust, AddContactByUrl
  <1> QED BY <1>2, <1>3 DEF DurableInv, FilesCurrent, QueueAgreesWithTasks, OpenTaskIsQueued,
             PendingApprovalTasks, OnlyContactsAreServed, registryVars, queueVars

\* Respond, dismiss and defer restate the entry of a queued message; they leave
\* its task lost, or agreeing with the new status.
LEMMA MessageDecidedDurable ==
    ASSUME DurableInv, Inv', NEW t \in Tasks, NEW status \in {"responded", "dismissed", "deferred"},
           "saved" \in SaveOutcomes, HasEntry(messages, t), UpdateMessageStatus(t, status, "saved"),
           UNCHANGED <<approvalVars, contactVars, handlers>>,
           \A u \in Tasks : u # t => tasks'[u] = tasks[u],
           tasks'[t].status = "ABSENT" \/ MessageAgrees(status, tasks'[t])
    PROVE  DurableInv'
  <1>0. status \in MessageStatuses
    BY DEF MessageStatuses
  <1>1. /\ \A m \in Range(messages) : \E n \in Range(messages') :
             n.task = m.task /\ n.status = IF m.task = t THEN status ELSE m.status
        /\ \A n \in Range(messages') : \E m \in Range(messages) :
             /\ n.task = m.task /\ n.sender = m.sender
             /\ n.status = IF m.task = t THEN status ELSE m.status
    BY <1>0, UpdatedMessage, MessagesRestated DEF DurableInv
  <1>2. \E m \in Range(messages) : m.task = t
    BY DEF HasEntry, Range
  <1>3. /\ \A m \in Range(messages) : m.task \in Tasks
        /\ \A a \in Range(approvals) : a.task \in Tasks /\ a.task # t
    <2>1. ~HasEntry(approvals, t)
      BY InboxTask DEF DurableInv
    <2> QED BY <2>1, EntryTypes, HasEntryTasks DEF DurableInv
  <1>4. FilesCurrent'
    BY SavedFile DEF DurableInv, FilesCurrent, UpdateMessageStatus, approvalVars, contactVars
  <1>5. QueueAgreesWithTasks'
    BY <1>1, <1>3 DEF DurableInv, QueueAgreesWithTasks, approvalVars
  <1>6. OpenTaskIsQueued'
    <2> SUFFICES ASSUME NEW u \in Tasks, tasks'[u].status \in {"SUBMITTED", "INPUT_REQUIRED"}
                 PROVE  Undecided(u)'
      BY OpenMeaning DEF OpenTaskIsQueued, Undecided, PendingApprovalTasks
    <2>1. CASE u = t
      <3>1. status = "deferred"
        BY <2>1 DEF MessageAgrees
      <3> QED BY <1>1, <1>2, <2>1, <3>1 DEF Undecided
    <2>2. CASE u # t
      <3>1. Undecided(u)
        BY <2>2, OpenMeaning DEF DurableInv
      <3> QED BY <1>1, <2>2, <3>1 DEF Undecided, approvalVars
    <2> QED BY <2>1, <2>2
  <1>7. OnlyContactsAreServed'
    BY <1>1 DEF DurableInv, OnlyContactsAreServed, IsKnown, contactVars
  <1> QED BY <1>4, <1>5, <1>6, <1>7 DEF DurableInv

LEMMA DecideOnMessageDurable ==
    ASSUME WritesSucceed, DurableInv, Inv', DecideOnMessage
    PROVE  DurableInv'
  <1>1. PICK t \in Tasks : Respond(t, "saved") \/ Dismiss(t, "saved") \/ Defer(t, "saved")
    BY DEF DecideOnMessage, WritesSucceed
  <1>2. tasks \in [Tasks -> TaskRecord] /\ "saved" \in SaveOutcomes
    BY SaveOutcomesAssumption DEF DurableInv, Inv, TypeOK, RegistryTypeOK
  <1>3. HasEntry(messages, t) /\ UNCHANGED <<approvalVars, contactVars, handlers>>
    BY <1>1 DEF Respond, Dismiss, Defer
  <1>4. CASE Respond(t, "saved")
    <2>1. /\ \A u \in Tasks : u # t => tasks'[u] = tasks[u]
          /\ tasks'[t].status = "ABSENT" \/ MessageAgrees("responded", tasks'[t])
      BY <1>2, <1>4, UpdatedTask DEF Respond, MessageAgrees, Given, None
    <2>2. UpdateMessageStatus(t, "responded", "saved")
      BY <1>4 DEF Respond
    <2> QED BY <1>2, <1>3, <2>1, <2>2, MessageDecidedDurable
  <1>5. CASE Dismiss(t, "saved")
    <2>1. /\ \A u \in Tasks : u # t => tasks'[u] = tasks[u]
          /\ tasks'[t].status = "ABSENT" \/ MessageAgrees("dismissed", tasks'[t])
      BY <1>2, <1>5, UpdatedTask DEF Dismiss, MessageAgrees, Given, None
    <2>2. UpdateMessageStatus(t, "dismissed", "saved")
      BY <1>5 DEF Dismiss
    <2> QED BY <1>2, <1>3, <2>1, <2>2, MessageDecidedDurable
  <1>6. CASE Defer(t, "saved")
    <2>1. tasks' = tasks /\ UpdateMessageStatus(t, "deferred", "saved")
      BY <1>6 DEF Defer
    <2>2. tasks[t].status = "ABSENT" \/ MessageAgrees("deferred", tasks[t])
      <3>1. PICK m \in Range(messages) : m.task = t
        BY <1>3 DEF HasEntry, Range
      <3> QED BY <3>1 DEF DurableInv, QueueAgreesWithTasks, MessageAgrees
    <2> QED BY <1>2, <1>3, <2>1, <2>2, MessageDecidedDurable
  <1> QED BY <1>1, <1>4, <1>5, <1>6

LEMMA RestartDurable ==
    ASSUME DurableInv, Inv', Restart
    PROVE  DurableInv'
  <1>1. /\ \A t \in Tasks : tasks'[t].status = "ABSENT"
        /\ handlers' = {}
        /\ messages' = messages /\ messagesFile' = messages
        /\ approvals' = approvals /\ approvalsFile' = approvals
        /\ contacts' = contacts /\ contactsFile' = contacts
    BY DEF Restart, ReloadQueue, ReloadContacts, Absent, Blank, DurableInv, FilesCurrent
  <1> QED BY <1>1, EntryTypes DEF DurableInv, FilesCurrent, QueueAgreesWithTasks,
             OpenTaskIsQueued, OnlyContactsAreServed, IsKnown

LEMMA DurableStep == WritesSucceed /\ DurableInv /\ [Next]_vars => DurableInv'
  <1> SUFFICES ASSUME WritesSucceed, DurableInv, [Next]_vars
               PROVE  DurableInv'
    OBVIOUS
  <1>1. Inv'
    BY InvStep DEF DurableInv
  <1>2. CASE Inject \/ UNCHANGED vars
    BY <1>1, <1>2 DEF Inject, vars, DurableInv, FilesCurrent, QueueAgreesWithTasks,
       OpenTaskIsQueued, PendingApprovalTasks, OnlyContactsAreServed, IsKnown,
       registryVars, queueVars, contactVars
  <1>3. CASE DecideOnSender
    BY <1>1, <1>3, ApproveDurable, BlockDurable, ContactChangeDurable DEF DecideOnSender
  <1> QED
    BY <1>1, <1>2, <1>3, ReceiveDurable, ResumeDurable, DecideOnMessageDurable, RestartDurable
    DEF Next

\* With writes that succeed, the invariant of such an agent holds.
THEOREM DurableAlways == ASSUME WritesSucceed PROVE Spec => []DurableInv
  <1>1. DurableInv /\ [Next]_vars => DurableInv'
    BY DurableStep
  <1> QED BY <1>1, DurableInit, PTL DEF Spec

\* The queue and the task table always agree about every decision.
THEOREM QueueAlwaysAgrees == ASSUME WritesSucceed PROVE Spec => []QueueAgreesWithTasks
  <1>1. DurableInv => QueueAgreesWithTasks
    BY DEF DurableInv
  <1> QED BY <1>1, DurableAlways, PTL

\* No task waits on the user without an entry the user can decide on.
THEOREM OpenTaskAlwaysQueued == ASSUME WritesSucceed PROVE Spec => []OpenTaskIsQueued
  <1>1. DurableInv => OpenTaskIsQueued
    BY DEF DurableInv
  <1> QED BY <1>1, DurableAlways, PTL

\* Only messages of accepted contacts reach the inbox or a child session.
THEOREM OnlyContactsAlwaysServed == ASSUME WritesSucceed PROVE Spec => []OnlyContactsAreServed
  <1>1. DurableInv => OnlyContactsAreServed
    BY DEF DurableInv
  <1> QED BY <1>1, DurableAlways, PTL

-----------------------------------------------------------------------------
(* The action properties.                                                  *)

\* How the lists change in a step: not at all, by an entry that waits, or by a
\* decision on an entry.
LEMMA MessagesStep ==
    ASSUME WritesSucceed, DurableInv, [Next]_vars
    PROVE  \A m \in Range(messages) : \E n \in Range(messages') :
             n.task = m.task /\ (m.status # "pending" => n.status # "pending")
  <1>0. "saved" \in SaveOutcomes /\ \A o \in SaveOutcomes : o = "saved"
    BY DEF WritesSucceed
  <1>1. CASE messages' = messages
    BY <1>1
  <1>2. ASSUME NEW t \in Tasks, NEW s \in Senders, NEW escalated \in BOOLEAN,
               AddMessage(t, s, escalated, "saved"), t \notin InboxTasks
        PROVE  Range(messages) \subseteq Range(messages')
    BY <1>0, <1>2, AddedMessage DEF DurableInv
  <1>3. ASSUME NEW t \in Tasks, NEW status \in {"responded", "dismissed", "deferred"},
               UpdateMessageStatus(t, status, "saved")
        PROVE  \A m \in Range(messages) : \E n \in Range(messages') :
                 n.task = m.task /\ (m.status # "pending" => n.status # "pending")
    <2>1. status \in MessageStatuses /\ status # "pending"
      BY DEF MessageStatuses
    <2>2. \A m \in Range(messages) : \E n \in Range(messages') :
            n.task = m.task /\ n.status = IF m.task = t THEN status ELSE m.status
      BY <1>0, <1>3, <2>1, UpdatedMessage DEF DurableInv
    <2> QED BY <2>1, <2>2
  <1>4. CASE Receive
    <2>1. \/ messages' = messages
          \/ \E t \in Tasks, s \in Senders : t \notin issued /\ AddMessage(t, s, FALSE, "saved")
      BY <1>0, <1>4 DEF Receive, FirstContact, QueueForUser, SpawnChild, queueVars, messageVars
    <2>2. \A t \in Tasks \ issued : t \notin InboxTasks
      BY DEF DurableInv, Inv, IdsAreFresh
    <2> QED BY <1>1, <1>2, <2>1, <2>2
  <1>5. ASSUME NEW h \in handlers, Resume(h)
        PROVE  Range(messages) \subseteq Range(messages')
    <2>1. messages' = messages \/ AddMessage(h.task, h.sender, TRUE, "saved")
      BY <1>0, <1>5 DEF Resume, AnswerUnevaluated, AcceptAnswer, CompleteAutonomously,
         StartEvaluation, Escalate, ChildFails, queueVars
    <2>2. h.task \in Tasks /\ h.sender \in Senders /\ h.task \notin InboxTasks
      BY HandlerAlone DEF DurableInv
    <2> QED BY <1>2, <2>1, <2>2
  <1>6. CASE DecideOnMessage
    <2>1. \E t \in Tasks, status \in {"responded", "dismissed", "deferred"} :
            UpdateMessageStatus(t, status, "saved")
      BY <1>0, <1>6 DEF DecideOnMessage, Respond, Dismiss, Defer
    <2> QED BY <1>3, <2>1
  <1>7. CASE Restart
    BY <1>1, <1>7 DEF Restart, ReloadQueue, DurableInv, FilesCurrent
  <1>8. CASE DecideOnSender \/ Inject \/ UNCHANGED vars
    BY <1>1, <1>8 DEF DecideOnSender, Approve, Block, Trust, AddContactByUrl, Inject, vars,
       queueVars, messageVars
  <1> QED BY <1>4, <1>5, <1>6, <1>7, <1>8 DEF Next

LEMMA RequestsStep ==
    ASSUME WritesSucceed, DurableInv, [Next]_vars
    PROVE  \A a \in Range(approvals) : \E b \in Range(approvals') :
             b.task = a.task /\ (a.status # "pending" => b = a)
  <1>0. "saved" \in SaveOutcomes /\ \A o \in SaveOutcomes : o = "saved"
    BY DEF WritesSucceed
  <1>1. CASE approvals' = approvals
    BY <1>1
  <1>2. CASE Receive
    <2>1. \/ approvals' = approvals
          \/ \E t \in Tasks, s \in Senders : t \notin issued /\ AddApproval(t, s, "saved")
      BY <1>0, <1>2 DEF Receive, FirstContact, QueueForUser, SpawnChild, queueVars, approvalVars
    <2>2. \A t \in Tasks \ issued : t \notin RequestTasks
      BY DEF DurableInv, Inv, IdsAreFresh
    <2>3. ASSUME NEW t \in Tasks, NEW s \in Senders, t \notin issued, AddApproval(t, s, "saved")
          PROVE  Range(approvals) \subseteq Range(approvals')
      BY <1>0, <2>2, <2>3, AddedApproval DEF DurableInv
    <2> QED BY <1>1, <2>1, <2>3
  <1>3. CASE DecideOnSender
    <2>1. \/ approvals' = approvals
          \/ \E s \in Senders : \E i \in FirstRequestFrom(s), status \in {"approved", "blocked"} :
               UpdateApprovalStatus(approvals[i].task, status, "saved")
      BY <1>0, <1>3 DEF DecideOnSender, Approve, Block, Trust, AddContactByUrl, queueVars
    <2>2. ASSUME NEW s \in Senders, NEW i \in FirstRequestFrom(s),
                 NEW status \in {"approved", "blocked"},
                 UpdateApprovalStatus(approvals[i].task, status, "saved")
          PROVE  \A a \in Range(approvals) : \E b \in Range(approvals') :
                   b.task = a.task /\ (a.status # "pending" => b = a)
      <3>1. status \in ApprovalStatuses
        BY DEF ApprovalStatuses
      <3>2. LET t == approvals[i].task IN
            /\ \A a \in Range(approvals) :
                 IF a.task = t THEN a.status = "pending" ELSE a \in Range(approvals')
            /\ \E b \in Range(approvals') : b.task = t
        BY <1>0, <2>2, <3>1, RequestsRestated DEF DurableInv
      <3> QED BY <3>2
    <2> QED BY <1>1, <2>1, <2>2
  <1>4. CASE Restart
    BY <1>1, <1>4 DEF Restart, ReloadQueue, DurableInv, FilesCurrent
  <1>5. CASE (\E h \in handlers : Resume(h)) \/ Inject \/ DecideOnMessage \/ UNCHANGED vars
    BY <1>1, <1>5 DEF Resume, AnswerUnevaluated, AcceptAnswer, CompleteAutonomously,
       StartEvaluation, Escalate, ChildFails, Inject, DecideOnMessage, Respond, Dismiss, Defer,
       vars, queueVars, approvalVars
  <1> QED BY <1>2, <1>3, <1>4, <1>5 DEF Next

\* What was queued stays queued, and no later message, decision, answer or
\* restart presents a settled item as undecided.
THEOREM DecisionsAlwaysSurvive == ASSUME WritesSucceed PROVE Spec => DecisionsSurvive
  <1>1. DurableInv /\ [Next]_vars =>
          [/\ \A m \in Range(messages) : \E n \in Range(messages') :
                n.task = m.task /\ (m.status # "pending" => n.status # "pending")
           /\ \A a \in Range(approvals) : \E b \in Range(approvals') :
                b.task = a.task /\ (a.status # "pending" => b = a)]_vars
    BY MessagesStep, RequestsStep
  <1> QED BY <1>1, DurableAlways, PTL DEF Spec, DecisionsSurvive

LEMMA ContactsStep ==
    ASSUME WritesSucceed, DurableInv, [Next]_vars, NEW s \in Senders, IsKnown(s)
    PROVE  IsKnown(s)'
  <1>1. CASE contacts' = contacts
    BY <1>1 DEF IsKnown
  <1>2. CASE DecideOnSender
    <2>1. \/ contacts' = contacts
          \/ \E u \in Senders, tier \in Tiers :
               AddContact(u, tier, "saved") \/ (IsKnown(u) /\ UpdateTier(u, tier, "saved"))
      BY <1>2 DEF WritesSucceed, DecideOnSender, Approve, Block, Trust, AddContactByUrl, contactVars
    <2> QED BY <1>1, <2>1, ContactsGrow DEF DurableInv
  <1>3. CASE Restart
    BY <1>1, <1>3 DEF Restart, ReloadContacts, DurableInv, FilesCurrent
  <1> QED
    BY <1>1, <1>2, <1>3
    DEF Next, Receive, FirstContact, QueueForUser, SpawnChild, Resume, AnswerUnevaluated,
        AcceptAnswer, CompleteAutonomously, StartEvaluation, Escalate, ChildFails, Inject,
        DecideOnMessage, Respond, Dismiss, Defer, vars, contactVars

\* An accepted contact is a contact from then on, restarts included.
THEOREM ContactsAreNeverForgotten == ASSUME WritesSucceed PROVE Spec => ContactsNeverForgotten
  <1>1. DurableInv /\ [Next]_vars => [\A s \in Senders : IsKnown(s) => IsKnown(s)']_vars
    BY ContactsStep
  <1> QED BY <1>1, DurableAlways, PTL DEF Spec, ContactsNeverForgotten

\* What waits by one of its entries waits by all: it has one, which the file repeats.
LEMMA WaitingByAll ==
    ASSUME DurableInv, NEW t \in PendingApprovalTasks \union PendingMessageTasks,
           NEW list \in {messages, messagesFile, approvals, approvalsFile},
           NEW e \in Range(list), e.task = t
    PROVE  e.status = "pending"
  <1>1. /\ OneEntryEach(messages) /\ OneEntryEach(approvals)
        /\ InboxTasks \cap RequestTasks = {}
        /\ messagesFile = messages /\ approvalsFile = approvals
    BY DEF DurableInv, Inv, OnePlaceEach, FilesCurrent
  <1>2. PICK i \in DOMAIN list : e = list[i]
    BY DEF Range
  <1>3. ASSUME NEW j \in DOMAIN messages PROVE messages[j].task \in InboxTasks
    BY <1>3 DEF InboxTasks, TasksOf
  <1>4. ASSUME NEW j \in DOMAIN approvals PROVE approvals[j].task \in RequestTasks
    BY <1>4 DEF RequestTasks, TasksOf
  <1>5. CASE t \in PendingMessageTasks
    <2>1. PICK j \in DOMAIN messages : messages[j].task = t /\ messages[j].status = "pending"
      BY <1>5 DEF PendingMessageTasks, Range
    <2>2. list = messages
      BY <1>1, <1>2, <1>3, <1>4, <2>1
    <2> QED BY <1>1, <1>2, <2>1, <2>2 DEF OneEntryEach
  <1>6. CASE t \in PendingApprovalTasks
    <2>1. PICK j \in DOMAIN approvals : approvals[j].task = t /\ approvals[j].status = "pending"
      BY <1>6 DEF PendingApprovalTasks, Range
    <2>2. list = approvals
      BY <1>1, <1>2, <1>3, <1>4, <2>1
    <2> QED BY <1>1, <1>2, <2>1, <2>2 DEF OneEntryEach
  <1> QED BY <1>5, <1>6

LEMMA InjectionStep ==
    ASSUME DurableInv, [Next]_vars, NEW t \in injectedIds' \ injectedIds
    PROVE  /\ t \notin deferredIds
           /\ \A list \in {messages, messagesFile, approvals, approvalsFile} :
                  \A e \in Range(list) : e.task = t => e.status = "pending"
           /\ tasks[t].status \in {"ABSENT", "INPUT_REQUIRED"}
  <1>1. Inject
    BY DEF Next, Receive, FirstContact, QueueForUser, SpawnChild, Resume, AnswerUnevaluated,
        AcceptAnswer, CompleteAutonomously, StartEvaluation, Escalate, ChildFails,
        DecideOnSender, Approve, Block, Trust, AddContactByUrl,
        DecideOnMessage, Respond, Dismiss, Defer, Restart, vars
  <1>2. t \in PendingApprovalTasks \union PendingMessageTasks /\ t \notin deferredIds
    BY <1>1 DEF Inject, Unseen
  <1>3. \A list \in {messages, messagesFile, approvals, approvalsFile} :
            \A e \in Range(list) : e.task = t => e.status = "pending"
    BY <1>2, WaitingByAll
  <1>4. CASE t \in PendingMessageTasks
    <2>1. tasks[t].status \in {"ABSENT", "INPUT_REQUIRED"}
      BY <1>4 DEF PendingMessageTasks, DurableInv, QueueAgreesWithTasks, MessageAgrees
    <2> QED BY <1>2, <1>3, <2>1
  <1>5. CASE t \in PendingApprovalTasks
    <2>1. tasks[t].status \in {"ABSENT", "INPUT_REQUIRED"}
      BY <1>5 DEF PendingApprovalTasks, DurableInv, QueueAgreesWithTasks, RequestAgrees
    <2> QED BY <1>2, <1>3, <2>1
  <1> QED BY <1>2, <1>4, <1>5

\* The reminder shows only items that wait for a decision: by every entry there is
\* of them, by the deferred ids of the process, and by their task.
THEOREM OnlyOpenItemsEverAnnounced == ASSUME WritesSucceed PROVE Spec => OnlyOpenItemsAnnounced
  <1>1. DurableInv /\ [Next]_vars =>
          [\A t \in injectedIds' \ injectedIds :
             /\ t \notin deferredIds
             /\ \A list \in {messages, messagesFile, approvals, approvalsFile} :
                    \A e \in Range(list) : e.task = t => e.status = "pending"
             /\ tasks[t].status \in {"ABSENT", "INPUT_REQUIRED"}]_vars
    BY InjectionStep
  <1> QED BY <1>1, DurableAlways, PTL DEF Spec, OnlyOpenItemsAnnounced
=============================================================================
