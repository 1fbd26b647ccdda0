---------------------------- MODULE PendingQueue ----------------------------
(***************************************************************************)
(* PendingQueue (pending.py): the messages and the contact requests that   *)
(* wait for the user, each a list in memory written through to a JSON      *)
(* file.  Every mutation changes the list first and the file second, so a  *)
(* write that raises leaves the two apart.                                 *)
(***************************************************************************)
EXTENDS A2AData

VARIABLES messages, messagesFile,    \* _messages and pending_messages.json
          approvals, approvalsFile   \* _approvals and pending_approvals.json

messageVars  == <<messages, messagesFile>>
approvalVars == <<approvals, approvalsFile>>
queueVars    == <<messages, messagesFile, approvals, approvalsFile>>

MessageStatuses  == {"pending", "deferred", "responded", "dismissed"}
ApprovalStatuses == {"pending", "approved", "blocked"}

MessageEntry  == [task : Tasks, sender : Senders, escalated : BOOLEAN, status : MessageStatuses]
ApprovalEntry == [task : Tasks, sender : Senders, status : ApprovalStatuses]

QueueTypeOK ==
    /\ messages \in Seq(MessageEntry)
    /\ messagesFile \in Seq(MessageEntry)
    /\ approvals \in Seq(ApprovalEntry)
    /\ approvalsFile \in Seq(ApprovalEntry)

QueueInit ==
    /\ messages = <<>> /\ messagesFile = <<>>
    /\ approvals = <<>> /\ approvalsFile = <<>>

\* Fault: a refused write is retried, and the retry appends the entry again.
AddMessageRetried(t, s, escalated, outcome) ==
    LET entry == [task |-> t, sender |-> s, escalated |-> escalated, status |-> "pending"] IN
    /\ messages' = messages \o IF outcome = "saved" THEN <<entry>> ELSE <<entry, entry>>
    /\ messagesFile' = Written(messagesFile, messages', "saved")

AddMessage(t, s, escalated, outcome) ==
    /\ messages' = Append(messages,
           [task |-> t, sender |-> s, escalated |-> escalated, status |-> "pending"])
    /\ messagesFile' = Written(messagesFile, messages', outcome)

\* Fault: the status is changed in memory and not saved.
UpdateMessageStatusUnsaved(t, status, outcome) ==
    /\ messages' = WithStatus(messages, t, status)
    /\ UNCHANGED messagesFile

\* Writes the file only when there is an entry to change.
UpdateMessageStatus(t, status, outcome) ==
    /\ messages' = WithStatus(messages, t, status)
    /\ messagesFile' = IF HasEntry(messages, t)
                       THEN Written(messagesFile, messages', outcome)
                       ELSE messagesFile

AddApproval(t, s, outcome) ==
    /\ approvals' = Append(approvals, [task |-> t, sender |-> s, status |-> "pending"])
    /\ approvalsFile' = Written(approvalsFile, approvals', outcome)

UpdateApprovalStatus(t, status, outcome) ==
    /\ approvals' = WithStatus(approvals, t, status)
    /\ approvalsFile' = IF HasEntry(approvals, t)
                        THEN Written(approvalsFile, approvals', outcome)
                        ELSE approvalsFile

\* Fault: any entry of the inbox decides.
IsEscalatedAny(t) == \E m \in Range(messages) : m.escalated

\* get_message(t).get("escalated"): the first entry for t decides.
IsEscalated(t) == \E i \in FirstFor(messages, t) : messages[i].escalated

\* Fault: the status is not looked at.
QueuedMessageTasks == {m.task : m \in Range(messages)}

PendingMessageTasks  == {m.task : m \in {e \in Range(messages) : e.status = "pending"}}
PendingApprovalTasks == {a.task : a \in {e \in Range(approvals) : e.status = "pending"}}

\* The constructor of a new process reads both files.
ReloadQueue ==
    /\ messages' = messagesFile
    /\ approvals' = approvalsFile
    /\ UNCHANGED <<messagesFile, approvalsFile>>
=============================================================================
