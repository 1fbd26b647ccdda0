--------------------------- MODULE AgentDirectory ---------------------------
(***************************************************************************)
(* What a session knows of remote agents: the configured agents, the       *)
(* contacts and the caches of the registry (registry.py), and the          *)
(* operations agents, discover, card, status, add_contact and the first    *)
(* half of send (tool __init__.py) that read and fill them.                *)
(*                                                                         *)
(* A card is fetched over the network while other operations go on; its    *)
(* content is the version of itself the agent published.  Time is counted  *)
(* in ticks.  Names are compared without case in the code: two names that  *)
(* differ in case only are one name here.                                  *)
(***************************************************************************)
EXTENDS Naturals, Sequences, FiniteSets, Functions

CONSTANTS Urls, Names,
          Reachable,     \* the URLs that answer requests (external)
          Known,         \* known_agents of the configuration, a list
          Adverts,       \* the non-empty lists a browse may return (external)
          CardTTL,       \* how long a card is cached
          DiscoveryTTL,  \* how long the discovered agents are cached
          FetchTimeout,  \* default_timeout of the client
          MaxTime, MaxVersion, MaxFetches, MaxContacts  \* bounds of the model

Agent == [name : Names, url : Urls]

ASSUME DirectoryAssumption ==
    /\ Reachable \subseteq Urls
    /\ Known \in Seq(Agent)
    /\ Adverts \subseteq Seq(Agent)
    /\ CardTTL \in Nat /\ DiscoveryTTL \in Nat /\ FetchTimeout \in Nat
    /\ MaxTime \in Nat /\ MaxFetches \in Nat /\ MaxContacts \in Nat /\ MaxVersion \in Nat \ {0}

VARIABLES now,
          published,   \* the version of its card each agent serves (external)
          replaced,    \* history: when each earlier version was replaced
          cards,       \* _card_cache
          fetches,     \* the card requests under way
          discovered,  \* _discovered_agents
          discoveredExpires,
          contacts     \* the contact store's list

cardVars  == <<published, replaced, cards, fetches>>
nameVars  == <<discovered, discoveredExpires, contacts>>
vars      == <<now, cardVars, nameVars>>

Times    == 0..(MaxTime + CardTTL + DiscoveryTTL)
Versions == 1..MaxVersion
Unanswered == 0

\* An entry that is missing has expired long ago.
CacheEntry == [version : Versions, expires : Times]
Fetch      == [op : {"look_up", "add"}, url : Urls, asked : Times,
               body : Versions \union {Unanswered}]

TypeOK ==
    /\ now \in 0..MaxTime
    /\ published \in [Urls -> Versions]
    /\ replaced \in [Urls -> [Versions -> Times]]
    /\ cards \in [Urls -> CacheEntry]
    /\ fetches \subseteq Fetch
    /\ discovered \in Adverts \union {<<>>}
    /\ discoveredExpires \in Times
    /\ contacts \in Seq(Agent)

Init ==
    /\ now = 0
    /\ published = [u \in Urls |-> 1]
    /\ replaced = [u \in Urls |-> [v \in Versions |-> 0]]
    /\ cards = [u \in Urls |-> [version |-> 1, expires |-> 0]]
    /\ fetches = {}
    /\ discovered = <<>> /\ discoveredExpires = 0
    /\ contacts = <<>>

-----------------------------------------------------------------------------
(* Names.                                                                  *)

FirstNamed(list, n) ==
    {list[i].url : i \in {i \in DOMAIN list : list[i].name = n /\
                             \A j \in 1..(i - 1) : list[j].name # n}}

\* Fault: contacts come first.
ResolveContactFirst(n) ==
    IF FirstNamed(contacts, n) # {} THEN FirstNamed(contacts, n) ELSE FirstNamed(Known, n)

\* resolve_agent_url of a name: a set of at most one URL.  (A URL is itself.)
Resolve(n) ==
    IF FirstNamed(Known, n) # {} THEN FirstNamed(Known, n) ELSE FirstNamed(contacts, n)

UrlsOf(list) == {list[i].url : i \in DOMAIN list}

\* Fault: every entry of the list is taken.
EachOf(list) == Range(list)

FirstPerUrl(list) ==
    {list[i] : i \in {i \in DOMAIN list : \A j \in 1..(i - 1) : list[j].url # list[i].url}}

LiveDiscovered == IF discoveredExpires <= now THEN <<>> ELSE discovered

\* The operation agents: each URL under the name of the first source that has it.
Listing ==
    LET found == FirstPerUrl(LiveDiscovered)
        met   == FirstPerUrl(contacts)
    IN  Range(Known)
        \union {a \in found : a.url \notin UrlsOf(Known)}
        \union {a \in met : a.url \notin UrlsOf(Known) \union UrlsOf(LiveDiscovered)}

\* Expired agents are dropped by whoever asks for them.
ListAgents ==
    /\ discoveredExpires <= now /\ discovered # <<>>
    /\ discovered' = <<>>
    /\ UNCHANGED <<now, cardVars, discoveredExpires, contacts>>

\* A browse that finds somebody replaces the cached list, whatever its age; one
\* that finds nobody, or fails, leaves it alone.
Discover ==
    /\ discovered' \in Adverts
    /\ discoveredExpires' = now + DiscoveryTTL
    /\ UNCHANGED <<now, cardVars, contacts>>

AddContact(a) ==
    /\ Len(contacts) < MaxContacts
    /\ contacts' = Append(contacts, a)

\* Approving a contact request adds its sender under the name the request gave.
ApproveContact(a) ==
    /\ AddContact(a)
    /\ UNCHANGED <<now, cardVars, discovered, discoveredExpires>>

-----------------------------------------------------------------------------
(* Cards.                                                                  *)

\* Fault: a card still counts in the moment it expires.
CachedAtExpiry(u) == cards[u].expires >= now

\* get_cached_card finds one.
Cached(u) == cards[u].expires > now

StartFetch(op, u) ==
    /\ Cardinality(fetches) < MaxFetches
    /\ fetches' = fetches \union {[op |-> op, url |-> u, asked |-> now, body |-> Unanswered]}

\* card and send look a card up and fetch it when none is cached.
LookUp(u) ==
    /\ ~Cached(u)
    /\ StartFetch("look_up", u)
    /\ UNCHANGED <<now, published, replaced, cards, nameVars>>

\* add_contact fetches the card in any case.
AskToAdd(u) ==
    /\ StartFetch("add", u)
    /\ UNCHANGED <<now, published, replaced, cards, nameVars>>

\* The agent answers with the card of the moment (external).
Serve(f) ==
    /\ f.url \in Reachable /\ f.body = Unanswered
    /\ fetches' = (fetches \ {f}) \union {[f EXCEPT !.body = published[f.url]]}
    /\ UNCHANGED <<now, published, replaced, cards, nameVars>>

\* The agent's configuration changes (external).
Republish(u) ==
    /\ u \in Reachable /\ published[u] < MaxVersion
    /\ published' = [published EXCEPT ![u] = @ + 1]
    /\ replaced' = [replaced EXCEPT ![u][published[u]] = now]
    /\ UNCHANGED <<now, cards, fetches, nameVars>>

\* Fault: what is cached stays, for another cache's life.
CacheCardKept(f) ==
    cards' = [cards EXCEPT ![f.url] = [version |-> IF Cached(f.url) THEN @.version ELSE f.body,
                                       expires |-> now + CardTTL]]

\* The last response to arrive counts, though an earlier one may be newer.
CacheCard(f) ==
    cards' = [cards EXCEPT ![f.url] = [version |-> f.body, expires |-> now + CardTTL]]

\* add_contact takes the contact's name from the card, and caches the card last:
\* a write of the contacts that fails ends it before.
FetchReturns(f) ==
    /\ f.body # Unanswered
    /\ fetches' = fetches \ {f}
    /\ \/ f.op = "look_up" /\ CacheCard(f) /\ UNCHANGED contacts
       \/ /\ f.op = "add"
          /\ \E n \in Names : AddContact([name |-> n, url |-> f.url])
          /\ CacheCard(f) \/ UNCHANGED cards
    /\ UNCHANGED <<now, published, replaced, discovered, discoveredExpires>>

\* The request fails or times out; nothing is cached.
FetchFails(f) ==
    /\ fetches' = fetches \ {f}
    /\ UNCHANGED <<now, published, replaced, cards, nameVars>>

-----------------------------------------------------------------------------
\* No request outlives the client's total timeout.
Tick ==
    /\ now < MaxTime
    /\ \A f \in fetches : now - f.asked < FetchTimeout
    /\ now' = now + 1
    /\ UNCHANGED <<cardVars, nameVars>>

Next ==
    \/ \E u \in Urls : LookUp(u) \/ AskToAdd(u) \/ Republish(u)
    \/ \E f \in fetches : Serve(f) \/ FetchReturns(f) \/ FetchFails(f)
    \/ \E a \in Agent : ApproveContact(a)
    \/ Discover
    \/ ListAgents
    \/ Tick

Spec == Init /\ [][Next]_vars

-----------------------------------------------------------------------------
(* Properties.                                                             *)

\* What send decides from (may it wait for an answer?) was the agent's own word
\* less than a cache's life and a request's timeout ago, whatever the order in
\* which overlapping requests are answered.
CardIsRecent ==
    \A u \in Urls : Cached(u) =>
        \/ cards[u].version = published[u]
        \/ now - replaced[u][cards[u].version] < CardTTL + FetchTimeout

FetchesAreInTime ==
    \A f \in fetches :
        /\ f.asked <= now /\ now <= f.asked + FetchTimeout
        /\ f.body # Unanswered =>
               \/ f.body = published[f.url]
               \/ f.body < published[f.url] /\ f.asked <= replaced[f.url][f.body]

CardsExpire ==
    \A u \in Urls :
        /\ cards[u].expires <= now + CardTTL
        /\ \/ cards[u].version = published[u]
           \/ /\ cards[u].version < published[u]
              /\ cards[u].expires <= replaced[u][cards[u].version] + CardTTL + FetchTimeout

\* The inductive invariant of AgentDirectory_proofs: a response is no older than
\* its request, and a card expires soon enough after it was replaced.
Inv == TypeOK /\ FetchesAreInTime /\ CardsExpire

\* Once a name stands for a URL it does so for the rest of the session: no card
\* fetched, agent discovered or contact accepted under that name redirects what
\* is sent to it.
NameKeepsUrl ==
    [][\A n \in Names : Resolve(n) # {} => Resolve(n)' = Resolve(n)]_vars

\* agents lists every agent a message can be sent to, and lists a URL that is
\* not configured once, however many adverts and contacts there are for it.
ListingIsComplete ==
    /\ \A n \in Names : Resolve(n) \subseteq {a.url : a \in Listing}
    /\ \A a, b \in Listing : a.url = b.url => a = b \/ a.url \in UrlsOf(Known)
=============================================================================
