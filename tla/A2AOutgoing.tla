---------------------------- MODULE A2AOutgoing ----------------------------
(***************************************************************************)
(* The sending half of one agent (A2ATool of tool-a2a): the operation      *)
(* send, the background poller that watches the tasks it leaves open, and  *)
(* the hook that shows finished ones to the session.  The three run on one *)
(* event loop and interleave at every request they await.                  *)
(*                                                                         *)
(* The remote agents are external here: a remote task opens when the POST  *)
(* reaches its agent, is closed by somebody there at some later time, and  *)
(* is forgotten when that agent restarts.  (A2AConversation puts this      *)
(* repository's own server in their place.)  A send is identified with the *)
(* task id the remote agent gives it.                                      *)
(***************************************************************************)
EXTENDS Naturals, Sequences, SequencesExt

CONSTANTS Sends,      \* the calls of the operation send
          Agents,     \* the remote agents
          Realtime,   \* those whose card says realtimeResponse
          Refusing,   \* those that answer some POSTs with a 4xx body
          Flaky,      \* those whose polls may fail in a way the poller does not expect
          Malformed,  \* sends whose remote result the reminder cannot be built from
          AgentOf,    \* the agent each send goes to
          MaxTimeout  \* a bound of the model: the longest timeout, in polls, a caller asks for

ASSUME OutgoingAssumption ==
    /\ Realtime \subseteq Agents
    /\ Refusing \subseteq Agents
    /\ Flaky \subseteq Agents
    /\ Malformed \subseteq Sends
    /\ AgentOf \in [Sends -> Agents]
    /\ MaxTimeout \in Nat

VARIABLES remote,     \* the task at the remote agent
          reply,      \* what the response to the POST says of it
          call,       \* how far the operation send has got
          left,       \* how many polls its timeout leaves it
          told,       \* what its result says to the session
          pending,    \* _pending_outgoing: a dict, its keys in insertion order
          completed,  \* _completed_outgoing
          todo,       \* what is left of task_ids in the poller's current round
          running,    \* the poller task has not been cancelled
          reported,   \* the sends whose answer the session has seen, in order
          dropped     \* the sends whose answer was drained into a reminder that failed

remoteVars == <<remote, reply>>
sendVars   == <<call, left, told>>
pollVars   == <<pending, completed, todo, running>>
shownVars  == <<reported, dropped>>
vars       == <<remoteVars, sendVars, pollVars, shownVars>>

TypeOK ==
    /\ remote \in [Sends -> {"none", "open", "closed", "forgotten"}]
    /\ reply \in [Sends -> {"none", "open", "closed", "refused"}]
    /\ call \in [Sends -> {"idle", "posting", "posting_async", "polling", "returned"}]
    /\ left \in [Sends -> 0..MaxTimeout]
    /\ told \in [Sends -> {"nothing", "error", "no_task", "answer", "task", "async", "timeout"}]
    /\ pending \in Seq(Sends)
    /\ completed \in Seq(Sends)
    /\ todo \in Seq(Sends)
    /\ running \in BOOLEAN
    /\ reported \in Seq(Sends)
    /\ dropped \subseteq Sends

Init ==
    /\ remote = [s \in Sends |-> "none"]
    /\ reply = [s \in Sends |-> "none"]
    /\ call = [s \in Sends |-> "idle"]
    /\ left = [s \in Sends |-> 0]
    /\ told = [s \in Sends |-> "nothing"]
    /\ pending = <<>>
    /\ completed = <<>>
    /\ todo = <<>>
    /\ running = TRUE
    /\ reported = <<>>
    /\ dropped = {}

-----------------------------------------------------------------------------
(* The remote agents (external).                                           *)

\* A request already on its way may arrive after the sender has given it up.
\* The response comes at once, or only when the agent has worked on the message.
RemoteAccepts(s) ==
    /\ call[s] # "idle"
    /\ remote[s] = "none" /\ reply[s] = "none"
    /\ remote' = [remote EXCEPT ![s] = "open"]
    /\ reply' \in {reply, [reply EXCEPT ![s] = "open"]}
    /\ UNCHANGED <<sendVars, pollVars, shownVars>>

RemoteReplies(s) ==
    /\ remote[s] = "open" /\ reply[s] = "none"
    /\ \E status \in {"open", "closed"} :
         /\ remote' = [remote EXCEPT ![s] = status]
         /\ reply' = [reply EXCEPT ![s] = status]
    /\ UNCHANGED <<sendVars, pollVars, shownVars>>

RemoteRefuses(s) ==
    /\ call[s] \in {"posting", "posting_async"}
    /\ AgentOf[s] \in Refusing
    /\ remote[s] = "none" /\ reply[s] = "none"
    /\ reply' = [reply EXCEPT ![s] = "refused"]
    /\ UNCHANGED <<remote, sendVars, pollVars, shownVars>>

RemoteCloses(s) ==
    /\ remote[s] = "open"
    /\ remote' = [remote EXCEPT ![s] = "closed"]
    /\ UNCHANGED <<reply, sendVars, pollVars, shownVars>>

\* All its tasks go at once, those it was working on included.
AgentRestarts(a) ==
    LET held == {s \in Sends : AgentOf[s] = a /\ remote[s] \in {"open", "closed"}} IN
    /\ held # {}
    /\ remote' = [s \in Sends |-> IF s \in held THEN "forgotten" ELSE remote[s]]
    /\ UNCHANGED <<reply, sendVars, pollVars, shownVars>>

-----------------------------------------------------------------------------
(* The operation send.                                                     *)

IsAsync(s) == AgentOf[s] \notin Realtime

\* A blocking send to an async agent is made non-blocking.  The timeout is an
\* argument of the call, and only a blocking send looks at it.
Send(s, blocking, timeout) ==
    /\ call[s] = "idle"
    /\ IF blocking /\ ~IsAsync(s)
       THEN /\ call' = [call EXCEPT ![s] = "posting"]
            /\ left' = [left EXCEPT ![s] = timeout]
       ELSE /\ call' = [call EXCEPT ![s] = "posting_async"]
            /\ UNCHANGED left
    /\ UNCHANGED <<remoteVars, told, pollVars, shownVars>>

Return(s, result) ==
    /\ call' = [call EXCEPT ![s] = "returned"]
    /\ told' = [told EXCEPT ![s] = result]

Track(s) == pending' = Append(pending, s)

\* The card cannot be fetched, or the POST fails, times out or is answered
\* with a 5xx, whether or not it reached the agent: an error, and no task.
PostFails(s) ==
    /\ call[s] \in {"posting", "posting_async"}
    /\ Return(s, "error")
    /\ UNCHANGED <<remoteVars, left, pollVars, shownVars>>

\* The response holds a terminal task: the result is the answer.
PostReturnsAnswer(s) ==
    /\ call[s] \in {"posting", "posting_async"}
    /\ reply[s] = "closed"
    /\ Return(s, "answer")
    /\ reported' = Append(reported, s)
    /\ UNCHANGED <<remoteVars, left, pollVars, dropped>>

\* The response holds no task id.  To an async agent the note is added all
\* the same.
PostReturnsNoTask(s) ==
    /\ call[s] \in {"posting", "posting_async"}
    /\ reply[s] = "refused"
    /\ Return(s, IF call[s] = "posting_async" /\ IsAsync(s) THEN "async" ELSE "no_task")
    /\ UNCHANGED <<remoteVars, left, pollVars, shownVars>>

\* Fault: the poller is not told of a task that an async agent leaves open.
PostReturnsOpenTaskUntracked(s) ==
    /\ call[s] = "posting_async"
    /\ reply[s] = "open"
    /\ Return(s, IF IsAsync(s) THEN "async" ELSE "task")
    /\ IF IsAsync(s) THEN UNCHANGED pending ELSE Track(s)
    /\ UNCHANGED <<remoteVars, left, completed, todo, running, shownVars>>

\* Non-blocking: the poller takes over, and the result says so.
PostReturnsOpenTask(s) ==
    /\ call[s] = "posting_async"
    /\ reply[s] = "open"
    /\ Return(s, IF IsAsync(s) THEN "async" ELSE "task")
    /\ Track(s)
    /\ UNCHANGED <<remoteVars, left, completed, todo, running, shownVars>>

\* Fault: the poller watches the task from the start of the blocking loop.
PostStartsPollingTracked(s) ==
    /\ call[s] = "posting"
    /\ reply[s] = "open"
    /\ call' = [call EXCEPT ![s] = "polling"]
    /\ Track(s)
    /\ UNCHANGED <<remoteVars, left, told, completed, todo, running, shownVars>>

\* Blocking: enter the poll loop, or give up at once when the timeout is zero.
PostStartsPolling(s) ==
    /\ call[s] = "posting"
    /\ reply[s] = "open"
    /\ IF left[s] > 0
       THEN call' = [call EXCEPT ![s] = "polling"] /\ UNCHANGED <<told, pending>>
       ELSE Return(s, "timeout") /\ Track(s)
    /\ UNCHANGED <<remoteVars, left, completed, todo, running, shownVars>>

\* Fault: the loop does not count.
ForgetPoll(s) == UNCHANGED left

CountPoll(s) == left' = [left EXCEPT ![s] = @ - 1]

ForegroundAnswer(s) ==
    /\ call[s] = "polling"
    /\ remote[s] = "closed"
    /\ CountPoll(s)
    /\ Return(s, "answer")
    /\ reported' = Append(reported, s)
    /\ UNCHANGED <<remoteVars, pollVars, dropped>>

\* Fault: one round more than the time allows.
ForegroundNoAnswerLate(s) ==
    /\ call[s] = "polling"
    /\ CountPoll(s)
    /\ IF left[s] > 0
       THEN UNCHANGED <<call, told, pending>>
       ELSE Return(s, "timeout") /\ Track(s)
    /\ UNCHANGED <<remoteVars, completed, todo, running, shownVars>>

\* Not closed, unknown (404) or unreachable: go round, or hand over to the
\* poller when the time is up.
ForegroundNoAnswer(s) ==
    /\ call[s] = "polling"
    /\ CountPoll(s)
    /\ IF left[s] > 1
       THEN UNCHANGED <<call, told, pending>>
       ELSE Return(s, "timeout") /\ Track(s)
    /\ UNCHANGED <<remoteVars, completed, todo, running, shownVars>>

\* Any other exception ends the operation; the task is not tracked.
ForegroundError(s) ==
    /\ call[s] = "polling"
    /\ AgentOf[s] \in Flaky
    /\ CountPoll(s)
    /\ Return(s, "error")
    /\ UNCHANGED <<remoteVars, pollVars, shownVars>>

-----------------------------------------------------------------------------
(* The background poller.                                                  *)

\* Fault: a round asks for the oldest task only.
WakeForOldest ==
    /\ running /\ todo = <<>> /\ pending # <<>>
    /\ todo' = <<Head(pending)>>
    /\ UNCHANGED <<remoteVars, sendVars, pending, completed, running, shownVars>>

Wake ==
    /\ running /\ todo = <<>> /\ pending # <<>>
    /\ todo' = pending
    /\ UNCHANGED <<remoteVars, sendVars, pending, completed, running, shownVars>>

IsNext(s) == running /\ todo # <<>> /\ s = Head(todo)

\* Fault: any response is taken for an answer.
PollAnswerUnchecked(s) ==
    /\ IsNext(s)
    /\ \E i \in DOMAIN pending : pending[i] = s /\ pending' = RemoveAt(pending, i)
    /\ completed' = Append(completed, s)
    /\ todo' = Tail(todo)
    /\ UNCHANGED <<remoteVars, sendVars, running, shownVars>>

PollAnswer(s) ==
    /\ IsNext(s)
    /\ remote[s] = "closed"
    /\ \E i \in DOMAIN pending : pending[i] = s /\ pending' = RemoveAt(pending, i)
    /\ completed' = Append(completed, s)
    /\ todo' = Tail(todo)
    /\ UNCHANGED <<remoteVars, sendVars, running, shownVars>>

\* Not closed, unknown or unreachable: on to the next task of the round.
PollNoAnswer(s) ==
    /\ IsNext(s)
    /\ todo' = Tail(todo)
    /\ UNCHANGED <<remoteVars, sendVars, pending, completed, running, shownVars>>

\* Any other exception (the request's total timeout, a name that does not
\* resolve) leaves the loop over the tasks: the rest of the round is skipped.
PollError(s) ==
    /\ IsNext(s)
    /\ AgentOf[s] \in Flaky
    /\ todo' = <<>>
    /\ UNCHANGED <<remoteVars, sendVars, pending, completed, running, shownVars>>

\* cleanup cancels the poller at the request or sleep it awaits.
StopPoller ==
    /\ running
    /\ running' = FALSE
    /\ todo' = <<>>
    /\ UNCHANGED <<remoteVars, sendVars, pending, completed, shownVars>>

\* Fault: only the first of the completed answers is shown.
DeliverFirst ==
    /\ completed # <<>>
    /\ completed' = <<>>
    /\ reported' = Append(reported, Head(completed))
    /\ UNCHANGED <<remoteVars, sendVars, pending, todo, running, dropped>>

-----------------------------------------------------------------------------
(* The hook of the session's next turn drains the completed list before it *)
(* builds the reminder; one result it cannot build from ends the hook.     *)
Deliver ==
    /\ completed # <<>>
    /\ completed' = <<>>
    /\ IF Range(completed) \cap Malformed = {}
       THEN reported' = reported \o completed /\ UNCHANGED dropped
       ELSE dropped' = dropped \union Range(completed) /\ UNCHANGED reported
    /\ UNCHANGED <<remoteVars, sendVars, pending, todo, running>>

-----------------------------------------------------------------------------
Remote(s) == \/ RemoteAccepts(s) \/ RemoteReplies(s) \/ RemoteRefuses(s)
             \/ RemoteCloses(s)

SendStep(s) ==
    \/ PostFails(s) \/ PostReturnsAnswer(s) \/ PostReturnsNoTask(s)
    \/ PostReturnsOpenTask(s) \/ PostStartsPolling(s)
    \/ ForegroundAnswer(s) \/ ForegroundNoAnswer(s) \/ ForegroundError(s)

PollStep(s) == PollAnswer(s) \/ PollNoAnswer(s) \/ PollError(s)

Next ==
    \/ \E s \in Sends :
         \/ Remote(s)
         \/ \E blocking \in BOOLEAN, timeout \in 0..MaxTimeout : Send(s, blocking, timeout)
         \/ SendStep(s)
         \/ PollStep(s)
    \/ \E a \in Agents : AgentRestarts(a)
    \/ Wake
    \/ StopPoller
    \/ Deliver

Spec == Init /\ [][Next]_vars

\* The event loop runs the poller and the operation send (whose requests all
\* have timeouts), turns keep coming while the session is in use, and an agent
\* that is not flaky does not refuse every connection for ever.
FairSpec ==
    /\ Spec
    /\ WF_vars(Wake)
    /\ WF_vars(Deliver)
    /\ \A s \in Sends :
         /\ WF_vars(SendStep(s))
         /\ WF_vars(PollStep(s))
         /\ AgentOf[s] \notin Flaky => SF_vars(PollAnswer(s))

-----------------------------------------------------------------------------
(* Properties.                                                             *)

Promised(s) == told[s] = "task" \/ told[s] = "timeout" \/ (told[s] = "async" /\ reply[s] = "open")

Tracked(s) == s \in Range(pending) \/ s \in Range(completed)

Reported(s) == s \in Range(reported)

\* Neither an answer nor a watched task goes missing between the operation, the
\* poller and the hook, and none comes from nowhere: a send is watched or
\* reported exactly when its result promised or gave an answer.  What a reminder
\* that could not be built has dropped is the exception, and only an answer of
\* the poller that came together with a malformed one is dropped.
Accounted ==
    /\ \A s \in Sends :
         (Tracked(s) \/ Reported(s) \/ s \in dropped) <=> (Promised(s) \/ told[s] = "answer")
    /\ dropped # {} => dropped \cap Malformed # {}

\* The session sees each answer once, though the operation send, the poller and
\* the hook all report answers and the first two poll the same tasks.
ReportedOnce ==
    /\ IsInjective(reported \o completed \o pending)
    /\ \A s \in dropped : ~Tracked(s) /\ ~Reported(s)

\* Only a task that its agent has closed is reported.
OnlyClosedReported ==
    \A s \in Sends : s \in Range(completed) \/ Reported(s) \/ s \in dropped => remote[s] \in {"closed", "forgotten"}

\* The round works on a copy of the keys, while send adds keys and the round
\* removes them; what is left of it is still watched, each task once.
RoundIsTracked == Range(todo) \subseteq Range(pending) /\ IsInjective(todo)

\* How far a send has got, what it was told, and what it was answered agree.
RepliesFit ==
    \A s \in Sends :
        /\ told[s] = "nothing" <=> call[s] # "returned"
        /\ call[s] = "polling" => left[s] > 0
        /\ told[s] = "async" => reply[s] \in {"open", "refused"}
        /\ reply[s] = "closed" => remote[s] \in {"closed", "forgotten"}

\* A send is in one list at most, once.
OneListEach ==
    /\ IsInjective(reported) /\ IsInjective(completed) /\ IsInjective(pending)
    /\ Range(completed) \cap Range(pending) = {}
    /\ Range(reported) \cap (Range(completed) \union Range(pending)) = {}
    /\ dropped \cap (Range(reported) \union Range(completed) \union Range(pending)) = {}

\* The inductive invariant of A2AOutgoing_proofs.
Inv ==
    /\ TypeOK /\ RepliesFit /\ OneListEach
    /\ Accounted /\ OnlyClosedReported /\ RoundIsTracked

\* A blocking send returns, whatever the remote agent does.
SendReturns == \A s \in Sends : call[s] = "polling" ~> call[s] = "returned"

\* An answer that was promised arrives: unless the agent forgets the task, or
\* the session ends, which stops the poller.
AnswersArrive ==
    \A s \in Sends : Promised(s) /\ remote[s] = "closed" /\ AgentOf[s] \notin Flaky
                        ~> Reported(s) \/ s \in dropped \/ remote[s] = "forgotten" \/ ~running

\* The operation, the poller and the hook together do what AnswerDelivery says.
PhaseOf(s) ==
    IF Reported(s) THEN "answered"
    ELSE IF Tracked(s) \/ s \in dropped THEN "owed"
    ELSE IF told[s] \in {"error", "no_task", "async"} THEN "given_up"
    ELSE "undecided"

Delivery == INSTANCE AnswerDelivery WITH phase <- [s \in Sends |-> PhaseOf(s)]

DeliverySpec == Delivery!Spec

=============================================================================
