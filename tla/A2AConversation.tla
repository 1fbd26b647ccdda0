-------------------------- MODULE A2AConversation --------------------------
(***************************************************************************)
(* Two agents of the bundle in conversation: the sending half of one       *)
(* (A2AOutgoing) posts to and polls the server of the other (A2AReceiver). *)
(* What A2AOutgoing assumes of a remote agent is here what the server's    *)
(* handlers do; its variable `remote' is read off the server's task table. *)
(***************************************************************************)
EXTENDS A2ARegistry, PendingQueue, ContactStore

CONSTANTS AuthRequired, AllowAnonymous, Evaluates,  \* the receiver's configuration
          Peer,                                     \* the receiver, as the sender knows it
          Realtime, Refusing, Flaky,                \* {Peer} or {}: see A2AOutgoing
          Malformed, MaxTimeout

ASSUME ConversationAssumption ==
    /\ AuthRequired \in BOOLEAN /\ AllowAnonymous \in BOOLEAN /\ Evaluates \in BOOLEAN
    /\ Realtime \subseteq {Peer} /\ Refusing \subseteq {Peer} /\ Flaky \subseteq {Peer}
    /\ Malformed \subseteq Tasks
    /\ MaxTimeout \in Nat

VARIABLES issued, handlers, injectedIds,            \* of the receiver
          reply, call, left, told,                  \* of the sender
          pending, completed, todo, running, reported, dropped

\* What GET /a2a/v1/tasks/{id} says of a task.
RemoteTask ==
    [t \in Tasks |-> IF t \notin issued THEN "none"
                     ELSE IF tasks[t].status = "ABSENT" THEN "forgotten"
                     ELSE IF tasks[t].status \in Closed THEN "closed"
                     ELSE "open"]

Receiver == INSTANCE A2AReceiver

Sender == INSTANCE A2AOutgoing WITH
    Sends <- Tasks, Agents <- {Peer}, AgentOf <- [t \in Tasks |-> Peer], remote <- RemoteTask

receiverVars == <<registryVars, queueVars, contactVars, issued, handlers, injectedIds>>
sessionVars  == <<call, left, told, pending, completed, todo, running, reported, dropped>>
vars         == <<receiverVars, reply, sessionVars>>

Init == Receiver!Init /\ Sender!Init

-----------------------------------------------------------------------------
(* The receiver's handler.                                                 *)

\* A 200 carries the task as it is when the handler ends.
Respond200(t) == reply' = [reply EXCEPT ![t] = RemoteTask'[t]]

\* The response waits for the child session and the judgement of its answer.
RespondLater(t) == UNCHANGED reply

\* An exception or a 500, which the client raises as an error.
Respond500 == UNCHANGED reply

\* A request on its way arrives.
Receive(t) ==
    /\ call[t] # "idle" /\ reply[t] = "none"
    /\ \E s \in Senders, signed \in BOOLEAN :
         \/ \E o \in SaveOutcomes :
              /\ Receiver!FirstContact(t, s, signed, o) \/ Receiver!QueueForUser(t, s, signed, o)
              /\ IF o = "saved" THEN Respond200(t) ELSE Respond500
         \/ Receiver!SpawnChild(t, s, signed) /\ RespondLater(t)
    /\ UNCHANGED sessionVars

Resume(h) ==
    /\ \/ (Receiver!AnswerUnevaluated(h) \/ Receiver!AcceptAnswer(h)) /\ Respond200(h.task)
       \/ Receiver!StartEvaluation(h) /\ RespondLater(h.task)
       \/ \E o \in SaveOutcomes :
            /\ Receiver!Escalate(h, o)
            /\ IF o = "saved" THEN Respond200(h.task) ELSE Respond500
       \/ Receiver!ChildFails(h) /\ Respond500
    /\ UNCHANGED sessionVars

\* Authentication or validation of the request fails.
Refuse(t) == UNCHANGED receiverVars /\ Sender!RemoteRefuses(t)

-----------------------------------------------------------------------------
(* The receiver's session and its user; the sender's session.              *)

ReceiverAlone ==
    /\ \/ Receiver!Inject
       \/ Receiver!DecideOnSender
       \/ Receiver!DecideOnMessage
       \/ Receiver!Restart
    /\ UNCHANGED <<reply, sessionVars>>

Send(t)     == /\ UNCHANGED receiverVars
               /\ \E blocking \in BOOLEAN, timeout \in 0..MaxTimeout :
                    Sender!Send(t, blocking, timeout)
SendStep(t) == UNCHANGED receiverVars /\ Sender!SendStep(t)
PollStep(t) == UNCHANGED receiverVars /\ Sender!PollStep(t)
Wake        == UNCHANGED receiverVars /\ Sender!Wake
StopPoller  == UNCHANGED receiverVars /\ Sender!StopPoller
Deliver     == UNCHANGED receiverVars /\ Sender!Deliver

-----------------------------------------------------------------------------
Next ==
    \/ \E t \in Tasks : Receive(t) \/ Refuse(t) \/ Send(t) \/ SendStep(t) \/ PollStep(t)
    \/ \E h \in handlers : Resume(h)
    \/ ReceiverAlone
    \/ Wake
    \/ StopPoller
    \/ Deliver

Spec == Init /\ [][Next]_vars

-----------------------------------------------------------------------------
(* Properties.                                                             *)

\* The server does what the sending half assumes of a remote agent: a task is
\* opened by one request, answered once or not at all, closed for good, and lost
\* together with all the others.
\* It says what Sender!Spec says: most of the receiver's steps the sender does not
\* see, and naming them first spares TLC the comparison with every action.
SenderStep == UNCHANGED Sender!vars \/ Sender!Next

SenderSpec == Sender!Init /\ [][SenderStep]_(Sender!vars)

\* What the sending session waits for is in somebody's hands at the receiver: a
\* child session works on it, or its user can still decide it.  Nobody waits on a
\* task that is open and out of everybody's sight.
OwedIsHeld ==
    \A t \in Tasks : Sender!Tracked(t) /\ RemoteTask[t] = "open" =>
        \/ \E h \in handlers : h.task = t
        \/ \E m \in Range(messages) : m.task = t /\ m.status \in {"pending", "deferred"}
        \/ t \in PendingApprovalTasks

\* A request that a child session still works on has not been answered.
SuspendedUnanswered == \A h \in handlers : reply[h.task] = "none"

\* The inductive invariant: those of the two halves, and what ties them.
Inv == Receiver!Inv /\ Sender!Inv /\ SuspendedUnanswered
=============================================================================
