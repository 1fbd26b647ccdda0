# A TLA+ verification of the A2A bundle

The A2A bundle lets the agents of several Amplifier users exchange messages over
HTTP. It is two Python modules that meet in one process: `hooks-a2a-server`
receives messages, `tool-a2a` is the tool with which a session (and through it
the user) sends messages and decides on received ones. This directory holds TLA+
modules translated from that code, TLC configurations that check them on small
instances, and theorems about them with proofs checked by TLAPS.

Paths below: `hooks/` is
`modules/hooks-a2a-server/amplifier_module_hooks_a2a_server/`, `tool/` is
`modules/tool-a2a/amplifier_module_tool_a2a/`.

## 1. The system

| Component | State | Operations | Works with |
|---|---|---|---|
| Message server, `hooks/server.py` | the requests suspended in it | receive a message, resume after a child session or its evaluation, serve a task or the card, start, stop | registry, queue, contacts, authenticator, evaluation |
| Registry, `hooks/registry.py` | tasks (memory only), `deferred_ids`, known agents, two caches with expiry | create, update, get a task; cache and look up cards and discovered agents; resolve a name | shared by server, hook and tool as a capability |
| Pending queue, `hooks/pending.py` | two lists in memory, each with its JSON file | add, list, find, set status; load at construction | server writes, tool decides, hook reads |
| Contact store, `hooks/contacts.py` | a list in memory with its JSON file | add, find, set tier; load | server reads, tool writes |
| Injection hook, `hooks/injection.py` | `_injected_ids` | at each turn, show what waits and was not shown | queue, registry |
| Evaluation, `hooks/evaluation.py` | none | judge a child's answer, ten seconds at most | called by the server |
| Authenticator, `hooks/authentication.py` | nonces seen | admit or refuse a request | called by the server |
| Lifecycle, `hooks/__init__.py` | whether cleanup has run | mount, clean up | the coordinator |
| The a2a tool, `tool/__init__.py` | watched tasks, completed answers, the poller task | 14 operations; the background poller; the delivery hook | registry and stores; remote agents through the client |
| Client, `tool/client.py` | an HTTP session | fetch a card, post a message, poll a task | remote agents; the outbound policy |
| Outbound policy and resolver, `tool/client.py` | none | allow or refuse a URL or address | called by the client |
| Discovery, `hooks/discovery.py`, `tool/discovery.py`; card, `hooks/card.py` | none | advertise, browse; build a dictionary | mDNS library |

A message travels like this. The sender's `send` posts it. The receiving server
creates a task and takes one of three ways: a stranger's message becomes a contact
request; a known contact's is queued for the user (Mode A); any other contact's goes
to a child session (Mode C), whose answer may be judged insufficient, which queues
the message after all. The hook shows queued items at the session's next turn; the
user approves, blocks, responds, defers or dismisses; each decision changes the queue
and the task. The sender polls the task: first in `send`, later in a background
poller, whose answers a second hook shows to the sending session.

What is hard here:

* **Two kinds of memory.** Queue and contacts are on disk, tasks and the two sets of
  ids are not. A restart keeps half of what was related.
* **Several effects per operation**, each write of a file able to fail after memory
  has changed, or to leave a torn file that loads as empty.
* **Suspended requests.** While a child session answers, everything else goes on, and
  the request resumes with what it read before.
* **No check of the status** in respond, defer and dismiss: every repeated and
  contradicting decision is legal.
* **Three parties report answers** to the sending session (the operation, the
  poller, the hook), over a dict the first two change while the poller walks it.
* **Unreliable requests**: a POST may fail after it arrived, an agent may forget a
  task, polls may fail in ways the poller expects and in ways it does not.
* **Several processes**: two sessions of one user compete for a port and overwrite each
  other's files, and the module loader mounts the hook twice in each.
* **Time**: caches expire while requests that will fill them are under way; stamps are
  judged by one clock and written by another; a nonce is forgotten by a third reckoning.
* **Checks made before they count**: the name service may answer differently between the
  check of a destination and the connection to it.

What makes each component correct: the queue loses no message and no decision; the
task table agrees with the queue about who waits; the server leaves no task
`WORKING` behind, serves only contacts, and attributes answers truthfully; the
contact list forgets nobody; the hook shows open items, each in the end; the outgoing
half returns from `send`, loses no watched task, and reports each answer once; the two
halves together keep what one waits for in somebody's hands at the other; a session that
advertises serves; the registry decides from recent cards and stable names; the client
contacts allowed addresses only, and the authenticator admits a request once.

## 2. Modules

| Module | Models | Lines of code behind it |
|---|---|---|
| `A2AData` | task ids, senders, tiers; lists and the files they are written to | `hooks/pending.py` |
| `A2ARegistry` | `tasks`, `deferredIds`; `CreateTask`, `UpdateTask` as operators over the table | `hooks/registry.py` |
| `PendingQueue` | `messages`, `approvals` and their files; the mutations; the reload | `hooks/pending.py` |
| `ContactStore` | `contacts` and its file; look-ups, mutations, the reload | `hooks/contacts.py` |
| `A2AReceiver` | EXTENDS the three: the server's handler, the injection hook, the user's operations, restarts | `hooks/server.py`, `hooks/injection.py`, `hooks/evaluation.py`, `tool/__init__.py` |
| `AnswerDelivery` | abstract: what the sending half promises about each send | |
| `A2AOutgoing` | `send`, the poller, the delivery hook; the remote agents, external | `tool/__init__.py`, `tool/client.py` |
| `A2AConversation` | composes `A2AReceiver` and `A2AOutgoing`: the remote agent is the bundle's own server | `hooks/server.py`, `tool/__init__.py` |
| `A2ASessions` | several sessions with one port and one set of files: mount, cleanup, the validator's mount, adverts and withdrawals that fail, deaths | `hooks/__init__.py`, `hooks/server.py`, `hooks/discovery.py`, the stores |
| `AgentDirectory` | what a session knows of other agents: names, contacts, discovered agents, cached cards and the requests for them | `hooks/registry.py`, `tool/__init__.py` |
| `OutboundPolicy` | the policy's decisions, as operators | `tool/client.py` |
| `A2AExchange` | one request from `send_message` over the connector and the network to `verify` | `tool/client.py`, `hooks/authentication.py` |
| `*_proofs` | the theorems about `A2AReceiver` (`A2AReceiverDurable_proofs`: when its writes succeed), `A2AOutgoing`, `A2AConversation`, `A2ASessions`, `AgentDirectory`, `A2AExchange` | |
| `MC*` | the values TLC needs (`A2ASessions` is run as it is) | |

How they fit. `A2AReceiver` has the verdict of the authenticator as an input;
`A2AExchange` is where that verdict comes from. `A2AOutgoing` takes the card's
`realtimeResponse` and the remote agent as given; `AgentDirectory` says how old the card
may be, `A2AConversation` puts the receiver in the agent's place. `A2AReceiver` has one
process over the files, `A2ASessions` several, with the content of the files reduced to
a set of entries.

Conventions. The action has the name of the handler's branch or of the operation
(`Respond` is `_op_respond`), the variables keep the code's names (`_injected_ids` is
`injectedIds`). A handler without an await that yields is one action: the stores'
`asyncio.Lock`s are never held across one, so their `async with` does not yield.
The handler of Mode C yields at the child session and at the evaluation; the actions
`SpawnChild`, `StartEvaluation`, `AnswerUnevaluated`, `AcceptAnswer`, `Escalate` and
`ChildFails` are the pieces between, and `handlers` holds what the request carries over.
`A2AOutgoing` has one action per piece between the requests `send` and the poller await,
`AgentDirectory` one for the start and one for the end of each request for a card.
`A2AConversation` has no transitions of its own: each of its actions is one of the
receiver's or one of the sender's, with the response put where the sender reads it.

Writes: each takes an outcome from `SaveOutcomes`. `saved` writes the list; `refused`
raises before the file is truncated (no such directory, no permission, not
serialisable); `torn` raises after it, and the file then loads as `[]`
(`_load` answers so to a file that does not parse). A write that raises ends the
handler at that line, with memory changed already. A crash between two writes of one
operation is a failed second write followed by `Restart`, which may happen at any time.

A definition whose comment begins with "Fault" is no part of the system. It is the
operation below it with a plausible mistake, and `PROJECT.json` names the property that
TLC finds violated when the mistake is made.

Abstractions, and why they lose nothing here. In the receiver a message is identified
with its task (the code carries a task id with every message); texts, names and timestamps
are left out (no decision reads them); an answer is known by where it came from; the
judgement of a child's answer, which requests are signed and which answers fail are
nondeterministic. The server's branch for a registry without stores is left out: `mount`
always attaches them. In `AgentDirectory` a card is the version its agent had published,
and names that differ in case only are one name. In `OutboundPolicy` a wildcard or a
network is the set of what it matches. In `A2AExchange` a digest is whether the copy is
intact, nonces are unique (`secrets.token_hex`), and a clock ticks twice a second so that
cutting it to whole seconds shows; the server's clock does not go backwards, and a
sender's is off by a constant.

In `A2ASessions` the two calls of the loader (its validation, which undoes the mount it
made, and the mount proper) are taken from the comment in `mount` (hooks/__init__.py:131).

## 3. What the runs check

All runs of the receiver have authentication required, anonymous first contact allowed
and the evaluation on. That configuration has the behaviours of the others: without
evaluation `StartEvaluation` is the only step missing, and tier `colleague` takes the
path without it; without anonymous contact there are fewer requests; without required
authentication an unsigned request is treated as a signed one.

| Run | Instance | Checks | States |
|---|---|---|---|
| `receiver_durable` | 2 messages, 2 senders, 2 contacts, 3 tiers, writes succeed | `QueueAgreesWithTasks`, `OpenTaskIsQueued`, `OnlyContactsAreServed`, `DecisionsSurvive`, `ContactsNeverForgotten`, `OnlyOpenItemsAnnounced`, `DurableInv` | 326,887 |
| `receiver_torn` | 2 messages, 1 sender, 2 tiers, writes may be refused or torn | `Inv`, `WorkIsBeingDone`, `OpenMessageIsQueued`, `AttributionTruthful`, `ClosedNeverReopens`, `DecisionsTakeEffect` | 685,678 |
| `receiver_progress` | 2 messages, 1 sender, fairness | `WaitingItemsSurface`, `WorkEnds` | 26,509 |
| `outgoing_safety` | 3 sends to a realtime and an async agent, every fault, agents that restart | `Accounted`, `ReportedOnce`, `OnlyClosedReported`, `DeliverySpec`, `Inv` | 127,106 |
| `outgoing_progress` | 2 sends, no flaky agent, fairness | `SendReturns`, `AnswersArrive` | 7,182 |
| `conversation` | 2 messages of one sender to the bundle's own server, every decision, restarts | `OwedIsHeld`, `SenderSpec`, `SuspendedUnanswered` | 725,878 |
| `sessions` | 2 sessions, 2 entries, fairness | `AdvertisedIsServed`, `WhoamiIsTruthful`, `LostOnlyToOverlap`, `ProbeMakesWay`, `PortIsGivenBack`, `Inv` | 464,757 |
| `directory` | 2 agents, 2 names, 2 overlapping requests, 2 contacts, caches of 2 and 1 ticks | `CardIsRecent`, `NameKeepsUrl`, `ListingIsComplete`, `Inv` | 1,004,850 |
| `exchange` | 2 requests, 3 hosts, 2 addresses, a skew of 1 second, clocks half a second behind and a second ahead | `ContactsAllowed`, `AcceptedOnce`, `RepeatedOnlyIfTaken`, `ExpiredOnlyIfLate`, `Inv` | 586,690 |

Three more runs end in a violation, each of a sentence the repository says:

| Run | Shows |
|---|---|
| `receiver_tier_of_duplicate` | adding a sender that is a contact already does not overwrite: the first entry, with its tier, stays in force |
| `receiver_late_response` | a deferred message answered after a restart is marked responded while the task its sender polls is gone |
| `outgoing_head_of_line` | a poll that raises `TimeoutError` ends the round, so the answers behind it never arrive |

Why these bounds. The receiver's operations relate at most two entries of a list (the
first for a task or sender, and another), so two messages, two senders and two contacts
give every pair: two requests of one stranger, a message of one contact between
decisions on another's, a duplicate contact. One sender is enough where the property is
about one task. Task ids are used once, as uuid4s are, so a bound on `Tasks` bounds the
messages of a behaviour and not its length: decisions, turns and restarts are unlimited.
`MaxContacts` bounds `add_contact`, whose list is unbounded in the code. In
`A2AOutgoing` two sends to one agent and one to another give a round with a task behind
another; a timeout of 0 to `MaxTimeout` = 2 polls gives a blocking call that never polls,
one that polls once, and a poll that is not the last. Tasks are symmetric, and senders
too; in the outgoing runs, the two sends to one agent. The liveness runs use no symmetry.

In `conversation` one sender has two messages under way, so that the answer to one comes
between the polls of the other; the blocking loop, checked in `outgoing_safety`, is cut to
a timeout of zero, and writes succeed; the theorems are about every timeout and outcome. In `sessions` two sessions are enough: each property is about one, or about
one that finds the port or the files as another left them. In `directory` the cache of cards
lives for two ticks, a request for one, and time for three: a card is fetched, published anew,
fetched by two overlapping requests that are answered in either order, and expires; a
configured agent is advertised under another name, another agent twice, once under the
configured name. In `exchange` time is seven half seconds with a skew of two: a stamp
enters and leaves the window, with a copy at every tick; a host whose name the service
answers anew at each look-up, an allowed host without TLS, and a literal private address
are the kinds of destination the policy tells apart. `MaxTaken` = 2 acceptances are what
`AcceptedOnce` counts.

`outgoing_*`, `sessions`, `directory` and `exchange` switch the deadlock check off: when all
sends are done, all sessions are over or the time of the model is up, nothing is left to
happen. The receiver, and with it the conversation, never stops, as it can always be restarted.

Configurations. The policy of `exchange` requires HTTPS and allows no private networks, the
defaults; its theorems are about every policy.

Fairness. `A2AReceiver`: weak fairness of `Inject`, which runs at every turn of a session
in use; and of the resumption of each suspended request, which for the evaluation is its
timeout and for the child session an assumption about the model provider, as the code
sets no timeout there. No fairness of the user, of senders or of writes. `A2AOutgoing`:
weak fairness of the poller, of `send` (all requests have timeouts) and of the delivery
hook; strong fairness of a successful poll at agents that are not `Flaky`, that is, an
agent does not refuse every connection for ever. `A2ASessions`: `mount` and `cleanup` run to
their end, and the loader undoes the mount of its validation; a session may last for ever.

Some limits the properties state themselves. `OpenMessageIsQueued` leaves contact requests
out: `block` marks the request before it closes the task, so when that write fails the
sender waits on a task the user is not shown (with writes that succeed `OpenTaskIsQueued`
covers them too). `DecisionsTakeEffect` says how far that goes: the decision is then not on
disk, so that a restart offers the request again, unless another write of the list comes first,
which saves what memory holds. `QueueAgreesWithTasks` excuses tasks lost in a restart.
`Accounted` has one exception: answers drained into a reminder that cannot be built, of which
one was malformed (tool/__init__.py:793). `LostOnlyToOverlap` says what overlapping sessions
lose by saying that nothing else is lost. `AdvertisedIsServed` says where an advert without its
server comes from: a process that died, or a withdrawal that failed, which `unadvertise_mdns` only
logs before `cleanup` stops the server (hooks/discovery.py:76); `unwithdrawn` remembers the latter.
`OnlyOpenItemsAnnounced` is about the entries at the moment of the reminder; that what was settled
or deferred is never undecided again, `DecisionsSurvive` says. `AcceptedOnce` is about stamps that are not ahead of
the server's clock: nonces are dropped by the time they were seen, and a stamp ahead of the
clock stays in the window for longer; and about one process, as the cache of nonces is lost
in a restart.

`AnswerDelivery` is the abstract specification of the sending half: each send is
undecided, then answered, owed or given up; only owed answers are given later. The
property `DeliverySpec` of `outgoing_safety` checks that `A2AOutgoing` implements it under
the mapping `PhaseOf`, which reads the phase off the result told, the two lists of the
poller and what was reported. `A2AOutgoing` is in turn the specification the receiver is held
to: `SenderSpec` of `conversation` checks that the server, read through `RemoteTask` (what a
poll answers), does to the sender only what `A2AOutgoing` allows a remote agent: tasks are
opened by one request, closed for good, and lost together. What the outgoing runs show of a
remote agent so understood holds of this one.

## 4. What is proved

Seven modules of proofs, each for all values of the constants their named assumptions allow.
Every invariant, action property and refinement that a passing run checks is the statement of
a theorem or a conjunct of one; what is left to TLC is named at the end.

`A2AReceiver_proofs`, for all sets of tasks, senders and tiers, every bound on contacts,
every configuration and whatever set of outcomes writes have (`TiersAssumption`,
`SaveOutcomesAssumption`, `MaxContactsAssumption`, `ConfigAssumption`): `TypeCorrect`
(`Spec => []TypeOK`), `InvAlways` (`Spec => []Inv`), `WorkAlwaysBeingDone`,
`OpenMessageAlwaysQueued`, `AttributionAlwaysTruthful` (the invariants `WorkIsBeingDone`,
`OpenMessageIsQueued`, `AttributionTruthful`), `ClosedNeverReopensAlways` and
`DecisionsAlwaysTakeEffect` (action properties). None of the three invariants is
inductive. That a resumed request closes its own task and no other needs: two suspended
requests never share a task. That the status of one queue entry tells about its task needs:
a task has one entry, in memory and on disk (a restart exchanges the two). That `respond`
does not touch a task of Mode C needs: an item is in one place, a request or the inbox or
the contact requests. That a decision comes about needs: the file of the requests is never
ahead of memory (`RequestFileTrails`), so that a restart decides nothing. And that a new
message disturbs none of this needs: a fresh id is nowhere. `Inv` is the conjunction of
`TypeOK`, `IdsAreFresh`, `OnePlaceEach` and `RequestFileTrails`, which say so, with the three
invariants. The proof has lemmas on what each helper does to a list and on each mutation of
a component, then one lemma per action.

`A2AReceiverDurable_proofs`, for the same receiver when its writes succeed (`WritesSucceed`,
the premise of each of its theorems: `SaveOutcomes = {"saved"}`, as in `receiver_durable`; a
write that fails leaves file and memory apart, and what then remains true is the subject of
the other module): `DurableAlways`,
`QueueAlwaysAgrees`, `OpenTaskAlwaysQueued`, `OnlyContactsAlwaysServed`,
`DecisionsAlwaysSurvive`, `ContactsAreNeverForgotten`, `OnlyOpenItemsEverAnnounced`. The
inductive invariant `DurableInv` is `Inv` with `FilesCurrent` (each file holds what memory
holds) and the first three, which lean on each other: an open task has an entry to decide on
because what was decided closed its task, and a resumed request finds its sender a contact
because contacts survive the restart. The three action properties follow from it.

`A2AOutgoing_proofs`, for any number of sends and agents, whichever of them refuse, fail polls
or answer what the reminder cannot be built from (`OutgoingAssumption`): `InvAlways`,
`TypeCorrect`, `AlwaysAccounted`, `AlwaysReportedOnce`, `OnlyClosedReportedAlways`,
`RoundAlwaysTracked`, and `DeliveryImplemented` (`Spec => DeliverySpec`): the sending half
implements `AnswerDelivery`. `Accounted` and `ReportedOnce` lean on each other: an answer is
appended once because a send that has not returned is in no list (`Accounted`), and nothing is
lost when an entry is removed because it was there once (`OneListEach`). A response that comes
after the operation has returned must not turn a note into a promise: `RepliesFit` says that a
send noted as asynchronous has its response already. For the refinement each action is shown to
decide about its own send, to give what was owed, or to change no phase. The lemmas on lists
(`AppendList`, `ShorterList`, `JoinedList`, `TailList`) say what the four operations on sequences
do to their range and their injectivity.

`A2AConversation_proofs`, for any messages, senders, tiers and configuration of the receiver,
each restart of it included, whatever its writes do, and whatever the sender's side of the
network adds (`ConversationAssumption` gives the remaining parameters their types): `InvAlways`,
`SuspendedAlwaysUnanswered`, `ReceiverAlwaysMet`, `SenderAlwaysMet`, `OwedAlwaysHeld`, `PromisesKept`,
`ConversationDelivers`. The module takes the other proofs as instances
(`ReceiverProofs`, `SenderProofs`) rather than repeating them; lemmas named `Same...` say that
their definitions are those of the instances in `A2AConversation`. `ReceiverAlwaysMet`: the
receiving half of a conversation behaves as `A2AReceiver`, so its theorems hold here.
`SenderAlwaysMet` (`Spec => SenderSpec`): every step of the receiver, its user and its
restarts is, read through `RemoteTask`, a step `A2AOutgoing` allows a remote agent, or a
stutter; the lemmas before it say what each operation does to the one task it is about and
that it leaves the others alone. With both, `PromisesKept` states the safety properties of the
two halves for the two in conversation, and `ConversationDelivers` that they implement
`AnswerDelivery`: the refinement proved against any remote agent holds against this server.
Neither follows from the halves alone. A response that comes late, when a child session has
ended, must find its sender waiting: `SuspendedUnanswered` says that a request suspended in
the receiver has not been answered, and is the third conjunct of the inductive invariant.
`OwedAlwaysHeld`, with `WritesSucceed` as above, puts `DurableInv` to use: what the sender
watches a child session works on, or the user can decide.

`A2ASessions_proofs`, for any number of sessions and entries: `InvAlways`, `TypeCorrect`,
`AdvertisedAlwaysServed`, `WhoamiAlwaysTruthful`, `LostOnlyToOverlapAlways`,
`ProbeAlwaysMakesWay`. Everything a mount owns follows from how far it has come, so `Inv` ties
the port, the advert and the flag to the mount's `stage` (`PortFollowsStage`,
`AdvertFollowsStage`, `FlagFollowsStage`). That the port found taken belongs to another
session needs `ProbeComesFirst`: the validator's mount is over when the real one starts.
`AdvertisedAlwaysServed` names the two ways an advert outlives its server, a death and a
withdrawal that failed; for every other session the advert's stage implies the port's.
`LostOnlyToOverlap` is not inductive, as any list in memory may replace the file:
`ListsAreCurrent` says that each lacks nothing but exposed entries.

`AgentDirectory_proofs`, for any number of agents and names, every life of the caches and
every timeout: `InvAlways`, `TypeCorrect`, `CardAlwaysRecent`, `NameAlwaysKeepsUrl`,
`ListingAlwaysComplete`. A cached card may be old for two reasons, the cache and the request that brought it, and `Inv` bounds
each: a response was current at some time after it was asked for (`FetchesAreInTime`), so a
card expires at most a cache's life and a request's timeout after it was replaced
(`CardsExpire`). That names keep their URL rests on contacts being appended only: the first of
a name stays the first (`FirstNamedGrows`). That the listing is complete needs no
induction over lists: a list with an entry for a URL has a first one, the least position by the
well-foundedness of `<` on the naturals (`LeastOf`), and that one is kept
(`FirstPerUrlKeepsUrls`).

`A2AExchange_proofs`, for every policy, name service, skew and set of clock offsets:
`InvAlways`, `TypeCorrect`, `ContactsAlwaysAllowed`, `AlwaysAcceptedOnce`,
`RepeatedOnlyIfTakenAlways`, `ExpiredOnlyIfLateAlways`. A connection to a literal address is
not looked up again, so `ContactsAllowed` needs `SignedIsChecked`: what is signed was
validated. That a request is accepted once needs `RememberedWhileFresh`: from the first
acceptance on its nonce is remembered or its stamp is too old, which holds because the
nonce was seen no earlier than the stamp says; and `TakenWasSent`: its stamp is settled by then.
`ExpiredOnlyIfLate` is arithmetic about two clocks cut to seconds.

Only model-checked: liveness, which is out of the prover's reach: `WaitingItemsSurface`,
`WorkEnds`, `SendReturns`, `AnswersArrive`, `PortIsGivenBack`. The three runs that end in a
violation are counterexamples and have nothing to prove.

## 5. Not modelled, and the plan

Not modelled: the mDNS protocol and the content of the agent card (a library and a constant
dictionary); normalisation of URLs; the reuse of an open connection by the HTTP client, which
contacts an address that was allowed when it was opened; which tools a child session gets, a
function of the configuration, and what it does with them; prompts, modes and behaviors;
`remove_contact` and `update_last_seen`, which no operation calls. `status` and `contacts`
read and change nothing.

Divergences between documents and code met on the way that have no run: the README's
table says that Mode C is for trusted contacts, while the server takes every tier but
`known` there (`receiver_durable` has such a tier); the phase 3 plan has a test that
deferring a message already responded to is an error, while `_op_defer` does not look; the note
"will see your message" is added to a send that was refused with a 4xx body, whose status is
not a terminal one (tool/__init__.py:364); answers drained together with one the reminder cannot
be built from are lost (tool/__init__.py:793, the exception in `Accounted`); a discovered agent
is listed under a name that `resolve_agent_url` does not resolve, so only its URL can be sent to
(`ListingIsComplete` states the direction that holds).

Plan, in order:

1. done: `A2AData`, `A2ARegistry`, `PendingQueue`, `ContactStore`, `A2AReceiver` and its
   proofs; `AnswerDelivery`, `A2AOutgoing`.
2. done: `A2AConversation`; `A2ASessions`, `AgentDirectory`, `OutboundPolicy`, `A2AExchange`;
   the proofs of `A2AOutgoing`, `A2ASessions`, `AgentDirectory` and `A2AExchange`.
3. done: the proofs of a receiver whose writes succeed, `DecisionsTakeEffect` for any outcome
   of writes, `ListingIsComplete`.
4. done: the proof of the conversation: that the server is a remote agent `A2AOutgoing` allows
   (`SenderSpec`), from which the theorems about the sending half carry over.
5. Left: the safety half of the liveness properties (that no step takes an open item away from
   the hook or a watched task away from the poller, other than by showing or answering it); an
   abstract specification of the receiver, in the user's terms, for `A2AReceiver` to implement.
