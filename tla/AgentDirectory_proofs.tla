------------------------ MODULE AgentDirectory_proofs ------------------------
(***************************************************************************)
(* How recent the cached cards are and what names stand for, for any       *)
(* agents, names, lives of the caches and number of requests under way.    *)
(***************************************************************************)
EXTENDS AgentDirectory, WellFoundedInduction, TLAPS

\* The lives of the caches and the bounds are natural numbers.
LEMMA ConstantsTyping ==
    /\ CardTTL \in Nat /\ DiscoveryTTL \in Nat /\ FetchTimeout \in Nat
    /\ MaxTime \in Nat /\ MaxVersion \in Nat /\ MaxVersion >= 1
  BY DirectoryAssumption

\* Times and versions are natural numbers.
LEMMA TimesTyping ==
    /\ Times \subseteq Nat /\ 0 \in Times
    /\ \A t \in 0..MaxTime : t \in Times /\ t + CardTTL \in Times /\ t + DiscoveryTTL \in Times
    /\ 1 \in Versions /\ Versions \subseteq Nat /\ Unanswered \notin Versions /\ Unanswered = 0
  BY ConstantsTyping DEF Times, Versions, Unanswered

\* What is known of a card.
LEMMA CardTyping ==
    ASSUME TypeOK, NEW u \in Urls
    PROVE  /\ now \in Nat /\ published[u] \in Versions /\ published[u] \in Nat
           /\ cards[u].version \in Versions /\ cards[u].version \in Nat
           /\ cards[u].expires \in Times /\ cards[u].expires \in Nat
           /\ \A v \in Versions : replaced[u][v] \in Nat
  <1>1. now \in Nat /\ published[u] \in Versions /\ cards[u] \in CacheEntry
    BY ConstantsTyping DEF TypeOK
  <1>2. \A v \in Versions : replaced[u][v] \in Times
    BY DEF TypeOK
  <1> QED BY <1>1, <1>2, TimesTyping DEF CacheEntry

\* What is known of a request under way.
LEMMA FetchTyping ==
    ASSUME TypeOK, NEW f \in fetches
    PROVE  /\ f \in Fetch /\ f.url \in Urls /\ f.asked \in Times /\ f.asked \in Nat
           /\ f.body \in Versions \union {Unanswered} /\ f.body \in Nat
  <1>1. f \in Fetch
    BY DEF TypeOK
  <1> QED BY <1>1, TimesTyping DEF Fetch

\* What was replaced before a card had lived a cache's life and a request's
\* timeout is recent while the card lives.
LEMMA Ages ==
    ASSUME NEW expires \in Nat, NEW since \in Nat, NEW t \in Nat,
           expires <= since + CardTTL + FetchTimeout, expires > t
    PROVE  t - since < CardTTL + FetchTimeout
  BY ConstantsTyping

\* Every card is the first version and has expired, and nothing is asked.
LEMMA InitInv == Init => Inv
  <1> SUFFICES ASSUME Init PROVE Inv
    OBVIOUS
  <1>1. TypeOK
    BY ConstantsTyping, TimesTyping DEF Init, TypeOK, CacheEntry, Agent
  <1>2. FetchesAreInTime /\ CardsExpire
    BY ConstantsTyping, TimesTyping DEF Init, FetchesAreInTime, CardsExpire
  <1> QED BY <1>1, <1>2 DEF Inv

\* Names are no business of cards.
LEMMA NameStepInv ==
    ASSUME Inv, UNCHANGED <<now, cardVars>>, TypeOK'
    PROVE  Inv'
  BY DEF Inv, cardVars, FetchesAreInTime, CardsExpire

\* A contact more is still a list of agents.
LEMMA AddContactTyping ==
    ASSUME TypeOK, NEW a \in Agent, AddContact(a)
    PROVE  contacts' \in Seq(Agent)
  BY DEF TypeOK, AddContact

\* The steps that discover, list and approve keep the invariant.
LEMMA ListInv == Inv /\ (ListAgents \/ Discover \/ \E a \in Agent : ApproveContact(a)) => Inv'
  <1>1. Inv /\ ListAgents => Inv'
    BY NameStepInv DEF ListAgents, Inv, TypeOK, cardVars
  <1>2. Inv /\ Discover => Inv'
    BY TimesTyping, NameStepInv DEF Discover, Inv, TypeOK, cardVars
  <1>3. ASSUME Inv, NEW a \in Agent, ApproveContact(a) PROVE Inv'
    <2>1. contacts' \in Seq(Agent)
      BY <1>3, AddContactTyping DEF Inv, ApproveContact
    <2> QED BY <1>3, <2>1, NameStepInv DEF ApproveContact, Inv, TypeOK, cardVars
  <1> QED BY <1>1, <1>2, <1>3

\* A request begins now, and has no answer.
LEMMA StartFetchInv ==
    ASSUME Inv, NEW op \in {"look_up", "add"}, NEW u \in Urls, StartFetch(op, u),
           UNCHANGED <<now, published, replaced, cards, nameVars>>
    PROVE  Inv'
  <1>1. fetches' = fetches \union {[op |-> op, url |-> u, asked |-> now, body |-> Unanswered]}
    BY DEF StartFetch
  <1>2. now \in Times /\ now \in Nat
    BY TimesTyping DEF Inv, TypeOK
  <1>3. TypeOK'
    BY <1>1, <1>2 DEF Inv, TypeOK, nameVars, Fetch
  <1>4. FetchesAreInTime'
    BY <1>1, <1>2, ConstantsTyping DEF Inv, FetchesAreInTime
  <1>5. CardsExpire'
    BY DEF Inv, CardsExpire
  <1> QED BY <1>3, <1>4, <1>5 DEF Inv

\* A response is the card of the moment.
LEMMA ServeInv == ASSUME Inv, NEW f \in fetches, Serve(f) PROVE Inv'
  <1>1. f \in Fetch /\ f.url \in Urls /\ published[f.url] \in Versions
    BY FetchTyping, CardTyping DEF Inv
  <1>2. PICK g : g = [f EXCEPT !.body = published[f.url]]
    OBVIOUS
  <1>3. g \in Fetch /\ g.asked = f.asked /\ g.url = f.url /\ g.body = published[f.url]
    BY <1>1, <1>2 DEF Fetch
  <1>4. fetches' = (fetches \ {f}) \union {g}
    BY <1>2 DEF Serve
  <1>5. TypeOK'
    BY <1>3, <1>4 DEF Inv, TypeOK, Serve, nameVars
  <1>6. FetchesAreInTime'
    BY <1>3, <1>4 DEF Inv, FetchesAreInTime, Serve
  <1>7. CardsExpire'
    BY DEF Inv, CardsExpire, Serve
  <1> QED BY <1>5, <1>6, <1>7 DEF Inv

\* The version that was current is replaced now, after every request so far
\* was made and before any card so far has expired.
LEMMA RepublishInv == ASSUME Inv, NEW u \in Urls, Republish(u) PROVE Inv'
  <1>1. /\ now \in Nat /\ now \in Times /\ published[u] \in Versions
        /\ published' = [published EXCEPT ![u] = @ + 1] /\ published[u] + 1 \in Versions
        /\ replaced' = [replaced EXCEPT ![u][published[u]] = now]
        /\ UNCHANGED <<now, cards, fetches, nameVars>>
    BY ConstantsTyping, TimesTyping DEF Inv, TypeOK, Republish, Versions
  <1>2. /\ published'[u] = published[u] + 1 /\ replaced'[u][published[u]] = now
        /\ \A v \in Versions : v < published[u] => replaced'[u][v] = replaced[u][v]
        /\ \A w \in Urls : w # u => published'[w] = published[w] /\ replaced'[w] = replaced[w]
    <2>1. published \in [Urls -> Versions] /\ replaced \in [Urls -> [Versions -> Times]]
      BY DEF Inv, TypeOK
    <2>2. replaced[u] \in [Versions -> Times] /\ Versions \subseteq Nat
      BY <2>1, TimesTyping
    <2>3. replaced'[u] = [replaced[u] EXCEPT ![published[u]] = now]
      BY <1>1, <2>1
    <2>4. replaced'[u][published[u]] = now
      BY <1>1, <2>2, <2>3
    <2>5. \A v \in Versions : v < published[u] => replaced'[u][v] = replaced[u][v]
      BY <1>1, <2>2, <2>3
    <2> QED BY <1>1, <2>1, <2>4, <2>5
  <1>3. TypeOK'
    BY <1>1 DEF Inv, TypeOK, nameVars
  <1>4. FetchesAreInTime'
    <2> SUFFICES ASSUME NEW f \in fetches
                 PROVE  (/\ f.asked <= now /\ now <= f.asked + FetchTimeout
                         /\ f.body # Unanswered =>
                              \/ f.body = published[f.url]
                              \/ f.body < published[f.url] /\ f.asked <= replaced[f.url][f.body])'
      BY <1>1 DEF FetchesAreInTime
    <2>1. /\ f.url \in Urls /\ f.body \in Versions \union {Unanswered} /\ f.body \in Nat /\ f.asked \in Nat
          /\ published[f.url] \in Nat /\ \A v \in Versions : replaced[f.url][v] \in Nat
      BY FetchTyping, CardTyping DEF Inv
    <2>2. f.asked <= now /\ now <= f.asked + FetchTimeout
      BY DEF Inv, FetchesAreInTime
    <2>3. CASE f.body = Unanswered
      BY <1>1, <2>2, <2>3
    <2>4. CASE f.body # Unanswered
      <3>1. \/ f.body = published[f.url]
            \/ f.body < published[f.url] /\ f.asked <= replaced[f.url][f.body]
        BY <2>4 DEF Inv, FetchesAreInTime
      <3>2. CASE f.url # u
        BY <1>1, <1>2, <2>1, <2>2, <3>1, <3>2
      <3>3. CASE f.url = u /\ f.body = published[u]
        BY <1>1, <1>2, <2>1, <2>2, <3>3
      <3>4. CASE f.url = u /\ f.body < published[u] /\ f.asked <= replaced[u][f.body]
        BY <1>1, <1>2, <2>1, <2>2, <2>4, <3>4
      <3> QED BY <3>1, <3>2, <3>3, <3>4
    <2> QED BY <2>3, <2>4
  <1>5. CardsExpire'
    <2> SUFFICES ASSUME NEW w \in Urls
                 PROVE  (/\ cards[w].expires <= now + CardTTL
                         /\ \/ cards[w].version = published[w]
                            \/ /\ cards[w].version < published[w]
                               /\ cards[w].expires <= replaced[w][cards[w].version] + CardTTL + FetchTimeout)'
      BY DEF CardsExpire
    <2>1. /\ cards[w].version \in Versions /\ cards[w].version \in Nat /\ cards[w].expires \in Nat
          /\ cards' = cards /\ published[w] \in Nat /\ \A v \in Versions : replaced[w][v] \in Nat
      BY <1>1, CardTyping DEF Inv
    <2>2. /\ cards[w].expires <= now + CardTTL
          /\ \/ cards[w].version = published[w]
             \/ /\ cards[w].version < published[w]
                /\ cards[w].expires <= replaced[w][cards[w].version] + CardTTL + FetchTimeout
      BY DEF Inv, CardsExpire
    <2>3. CASE w # u
      BY <1>1, <1>2, <2>1, <2>2, <2>3
    <2>4. CASE w = u /\ cards[u].version = published[u]
      <3>1. cards[u].expires <= now + CardTTL + FetchTimeout
        BY <1>1, <2>1, <2>2, <2>4, ConstantsTyping
      <3> QED BY <1>1, <1>2, <2>1, <2>2, <2>4, <3>1
    <2>5. CASE /\ w = u /\ cards[u].version < published[u]
               /\ cards[u].expires <= replaced[u][cards[u].version] + CardTTL + FetchTimeout
      BY <1>1, <1>2, <2>1, <2>2, <2>5
    <2> QED BY <2>2, <2>3, <2>4, <2>5
  <1> QED BY <1>3, <1>4, <1>5 DEF Inv

\* The card of a response was replaced after it was asked for, if at all.
LEMMA FetchReturnsInv == ASSUME Inv, NEW f \in fetches, FetchReturns(f) PROVE Inv'
  <1>1. /\ f.url \in Urls /\ f.body \in Versions /\ f.asked \in Nat /\ now \in Nat
        /\ published[f.url] \in Versions /\ replaced[f.url][f.body] \in Nat
    BY FetchTyping, CardTyping, TimesTyping DEF Inv, FetchReturns
  <1>2. /\ fetches' \subseteq fetches
        /\ \/ cards' = [cards EXCEPT ![f.url] = [version |-> f.body, expires |-> now + CardTTL]]
           \/ UNCHANGED cards
        /\ UNCHANGED <<now, published, replaced, discovered, discoveredExpires>>
    BY DEF FetchReturns, CacheCard
  <1>3. contacts' \in Seq(Agent)
    <2>1. CASE UNCHANGED contacts
      BY <2>1 DEF Inv, TypeOK
    <2>2. ASSUME NEW n \in Names, AddContact([name |-> n, url |-> f.url]) PROVE contacts' \in Seq(Agent)
      <3>1. [name |-> n, url |-> f.url] \in Agent
        BY <1>1 DEF Agent
      <3> QED BY <2>2, <3>1, AddContactTyping DEF Inv
    <2> QED BY <2>1, <2>2 DEF FetchReturns
  <1>4. now + CardTTL \in Times
    BY TimesTyping DEF Inv, TypeOK
  <1>5. TypeOK'
    <2>1. cards' \in [Urls -> CacheEntry]
      <3>1. CASE UNCHANGED cards
        BY <3>1 DEF Inv, TypeOK
      <3>2. CASE cards' = [cards EXCEPT ![f.url] = [version |-> f.body, expires |-> now + CardTTL]]
        BY <1>1, <1>4, <3>2 DEF Inv, TypeOK, CacheEntry
      <3> QED BY <1>2, <3>1, <3>2
    <2> QED BY <1>2, <1>3, <2>1 DEF Inv, TypeOK
  <1>6. FetchesAreInTime'
    BY <1>2 DEF Inv, FetchesAreInTime
  <1>7. CardsExpire'
    <2>1. \/ f.body = published[f.url]
          \/ f.body < published[f.url] /\ now + CardTTL <= replaced[f.url][f.body] + CardTTL + FetchTimeout
      <3>1. f.asked <= now /\ now <= f.asked + FetchTimeout
        BY DEF Inv, FetchesAreInTime
      <3>2. f.body = published[f.url] \/ (f.body < published[f.url] /\ f.asked <= replaced[f.url][f.body])
        BY <1>1, TimesTyping DEF Inv, FetchesAreInTime
      <3> QED BY <1>1, <3>1, <3>2, ConstantsTyping
    <2>2. CASE UNCHANGED cards
      BY <1>2, <2>2 DEF Inv, CardsExpire
    <2>3. CASE cards' = [cards EXCEPT ![f.url] = [version |-> f.body, expires |-> now + CardTTL]]
      BY <1>1, <1>2, <2>1, <2>3, ConstantsTyping DEF Inv, TypeOK, CardsExpire
    <2> QED BY <1>2, <2>2, <2>3
  <1> QED BY <1>5, <1>6, <1>7 DEF Inv

\* A request that fails leaves nothing behind.
LEMMA FetchFailsInv == ASSUME Inv, NEW f \in fetches, FetchFails(f) PROVE Inv'
  BY DEF Inv, FetchFails, TypeOK, nameVars, FetchesAreInTime, CardsExpire

\* Time passes only as far as the requests under way allow.
LEMMA TickInv == ASSUME Inv, Tick PROVE Inv'
  <1>1. /\ now \in Nat /\ now' = now + 1 /\ now' \in 0..MaxTime
        /\ \A f \in fetches : now - f.asked < FetchTimeout
        /\ UNCHANGED <<cardVars, nameVars>>
    BY ConstantsTyping DEF Inv, TypeOK, Tick
  <1>2. \A f \in fetches : f.asked \in Nat
    BY FetchTyping DEF Inv
  <1>3. \A u \in Urls : cards[u].expires \in Nat
    BY CardTyping DEF Inv
  <1>4. TypeOK'
    BY <1>1 DEF Inv, TypeOK, cardVars, nameVars
  <1>5. FetchesAreInTime'
    BY <1>1, <1>2, ConstantsTyping DEF Inv, FetchesAreInTime, cardVars
  <1>6. CardsExpire'
    BY <1>1, <1>3, ConstantsTyping DEF Inv, CardsExpire, cardVars
  <1> QED BY <1>4, <1>5, <1>6 DEF Inv

\* Every step keeps the invariant.
LEMMA NextInv == Inv /\ [Next]_vars => Inv'
  <1> SUFFICES ASSUME Inv, [Next]_vars PROVE Inv'
    OBVIOUS
  <1>1. ASSUME NEW u \in Urls, LookUp(u) \/ AskToAdd(u) PROVE Inv'
    <2>1. CASE LookUp(u)
      BY <2>1, StartFetchInv DEF LookUp
    <2>2. CASE AskToAdd(u)
      BY <2>2, StartFetchInv DEF AskToAdd
    <2> QED BY <1>1, <2>1, <2>2
  <1>2. CASE UNCHANGED vars
    BY <1>2 DEF Inv, vars, cardVars, nameVars, TypeOK, FetchesAreInTime, CardsExpire
  <1> QED BY <1>1, <1>2, RepublishInv, ServeInv, FetchReturnsInv, FetchFailsInv, ListInv, TickInv DEF Next

\* The invariant holds for any number of agents and requests.
THEOREM InvAlways == Spec => []Inv
  BY InitInv, NextInv, PTL DEF Spec

\* Every variable keeps its type.
THEOREM TypeCorrect == Spec => []TypeOK
  <1>1. Inv => TypeOK
    BY DEF Inv
  <1> QED BY <1>1, InvAlways, PTL

\* Whatever the lives of the cache and of a request, a card that send decides
\* from was the agent's own less than the two together ago.
THEOREM CardAlwaysRecent == Spec => []CardIsRecent
  <1>1. Inv => CardIsRecent
    <2> SUFFICES ASSUME Inv, NEW u \in Urls, Cached(u)
                 PROVE  \/ cards[u].version = published[u]
                        \/ now - replaced[u][cards[u].version] < CardTTL + FetchTimeout
      BY DEF CardIsRecent
    <2>1. /\ cards[u].version \in Versions /\ cards[u].expires \in Nat /\ now \in Nat
          /\ published[u] \in Nat /\ replaced[u][cards[u].version] \in Nat
      BY CardTyping DEF Inv
    <2>2. CASE cards[u].expires <= replaced[u][cards[u].version] + CardTTL + FetchTimeout
      BY <2>1, <2>2, Ages DEF Cached
    <2> QED BY <2>2 DEF Inv, CardsExpire
  <1> QED BY <1>1, InvAlways, PTL

\* A name that stands for somebody in a list still does when the list grows.
LEMMA FirstNamedGrows ==
    ASSUME NEW list \in Seq(Agent), NEW a \in Agent, NEW n, FirstNamed(list, n) # {}
    PROVE  FirstNamed(Append(list, a), n) = FirstNamed(list, n)
  <1> DEFINE longer == Append(list, a)
  <1>1. /\ longer \in Seq(Agent) /\ Len(longer) = Len(list) + 1
        /\ DOMAIN list = 1..Len(list) /\ DOMAIN longer = 1..(Len(list) + 1)
        /\ \A i \in 1..Len(list) : longer[i] = list[i]
    OBVIOUS
  <1>2. PICK k \in 1..Len(list) : list[k].name = n
    BY <1>1 DEF FirstNamed
  <1> HIDE DEF longer
  <1>3. \A i \in 1..(Len(list) + 1) :
           (longer[i].name = n /\ \A j \in 1..(i - 1) : longer[j].name # n)
           <=> (i \in 1..Len(list) /\ list[i].name = n /\ \A j \in 1..(i - 1) : list[j].name # n)
    <2> SUFFICES ASSUME NEW i \in 1..(Len(list) + 1)
                 PROVE  (longer[i].name = n /\ \A j \in 1..(i - 1) : longer[j].name # n)
                        <=> (i \in 1..Len(list) /\ list[i].name = n /\ \A j \in 1..(i - 1) : list[j].name # n)
      OBVIOUS
    <2>1. Len(list) \in Nat
      OBVIOUS
    <2>2. CASE i = Len(list) + 1
      <3>1. k \in 1..(i - 1) /\ longer[k].name = n
        BY <1>1, <1>2, <2>1, <2>2
      <3> QED BY <2>1, <2>2, <3>1
    <2>3. CASE i \in 1..Len(list)
      <3>1. \A j \in 1..(i - 1) : j \in 1..Len(list)
        BY <2>1, <2>3
      <3> QED BY <1>1, <2>3, <3>1
    <2> QED BY <2>1, <2>2, <2>3
  <1>4. {i \in DOMAIN longer : longer[i].name = n /\ \A j \in 1..(i - 1) : longer[j].name # n}
        = {i \in DOMAIN list : list[i].name = n /\ \A j \in 1..(i - 1) : list[j].name # n}
    BY <1>1, <1>3
  <1> DEFINE first == {i \in DOMAIN list : list[i].name = n /\ \A j \in 1..(i - 1) : list[j].name # n}
  <1>5. /\ FirstNamed(longer, n) = {longer[i].url : i \in first}
        /\ FirstNamed(list, n) = {list[i].url : i \in first}
        /\ first \subseteq 1..Len(list)
    BY <1>1, <1>4 DEF FirstNamed
  <1> HIDE DEF first
  <1>6. FirstNamed(longer, n) = FirstNamed(list, n)
    BY <1>1, <1>5
  <1> QED BY <1>6 DEF longer

\* No step redirects a name.
THEOREM NameAlwaysKeepsUrl == Spec => NameKeepsUrl
  <1> DEFINE Kept == \A n \in Names : Resolve(n) # {} => Resolve(n)' = Resolve(n)
  <1>1. ASSUME Inv, [Next]_vars PROVE [Kept]_vars
    <2>1. UNCHANGED contacts \/ \E a \in Agent : contacts' = Append(contacts, a)
      <3>1. ASSUME NEW f \in fetches, FetchReturns(f)
            PROVE  UNCHANGED contacts \/ \E a \in Agent : contacts' = Append(contacts, a)
        <4>1. f.url \in Urls
          BY <1>1, <3>1, FetchTyping DEF Inv
        <4> QED BY <3>1, <4>1 DEF FetchReturns, AddContact, Agent
      <3>2. ASSUME NEW a \in Agent, ApproveContact(a)
            PROVE  UNCHANGED contacts \/ \E b \in Agent : contacts' = Append(contacts, b)
        BY <3>2 DEF ApproveContact, AddContact
      <3> QED BY <1>1, <3>1, <3>2 DEF Next, vars, nameVars, LookUp, AskToAdd, Republish, Serve,
                 FetchFails, Discover, ListAgents, Tick
    <2>2. contacts \in Seq(Agent)
      BY <1>1 DEF Inv, TypeOK
    <2>3. ASSUME NEW n \in Names, FirstNamed(contacts, n) # {}
          PROVE  FirstNamed(contacts', n) = FirstNamed(contacts, n)
      BY <2>1, <2>2, <2>3, FirstNamedGrows
    <2>4. ASSUME NEW n \in Names, Resolve(n) # {}
          PROVE  Resolve(n)' = Resolve(n)
      <3>1. CASE FirstNamed(Known, n) # {}
        BY <3>1 DEF Resolve
      <3>2. CASE FirstNamed(Known, n) = {}
        <4>1. FirstNamed(contacts, n) # {}
          BY <2>4, <3>2 DEF Resolve
        <4> QED BY <2>3, <3>2, <4>1 DEF Resolve
      <3> QED BY <3>1, <3>2
    <2> QED BY <2>4
  <1> QED BY <1>1, InvAlways, PTL DEF Spec, NameKeepsUrl

-----------------------------------------------------------------------------
(* The listing.                                                            *)

\* Of some natural numbers one is the least.
LEMMA LeastOf ==
    ASSUME NEW S \in SUBSET Nat, S # {}
    PROVE  \E x \in S : \A y \in S : x <= y
  <1>1. PICK x \in S : \A y \in S : ~ (<<y, x>> \in OpToRel(<, Nat))
    BY NatLessThanWellFounded, WFMin
  <1>2. ASSUME NEW y \in S PROVE x <= y
    <2>1. x \in Nat /\ y \in Nat /\ <<y, x>> \in Nat \X Nat
      OBVIOUS
    <2>2. ~ (y < x)
      BY <1>1, <2>1 DEF OpToRel
    <2> QED BY <2>1, <2>2
  <1> QED BY <1>2

\* FirstPerUrl keeps entries of the list, every URL of it, and each URL once.
LEMMA FirstPerUrlKeepsUrls ==
    ASSUME NEW list \in Seq(Agent)
    PROVE  /\ \A a \in FirstPerUrl(list) : a.url \in UrlsOf(list)
           /\ \A u \in UrlsOf(list) : \E a \in FirstPerUrl(list) : a.url = u
           /\ \A a, b \in FirstPerUrl(list) : a.url = b.url => a = b
  <1>1. Len(list) \in Nat /\ DOMAIN list = 1..Len(list)
    OBVIOUS
  <1>2. \A a \in FirstPerUrl(list) : a.url \in UrlsOf(list)
    BY DEF FirstPerUrl, UrlsOf
  <1>3. ASSUME NEW u \in UrlsOf(list)
        PROVE  \E a \in FirstPerUrl(list) : a.url = u
    <2> DEFINE places == {i \in DOMAIN list : list[i].url = u}
    <2>1. places \in SUBSET Nat /\ places # {}
      BY <1>1, <1>3 DEF UrlsOf
    <2>2. PICK i \in places : \A j \in places : i <= j
      BY <2>1, LeastOf
    <2>3. \A j \in 1..(i - 1) : j \in DOMAIN list /\ ~ (i <= j)
      BY <1>1
    <2>4. i \in DOMAIN list /\ list[i].url = u /\ \A j \in 1..(i - 1) : list[j].url # list[i].url
      BY <2>2, <2>3
    <2> QED BY <2>4 DEF FirstPerUrl
  <1>4. ASSUME NEW a \in FirstPerUrl(list), NEW b \in FirstPerUrl(list), a.url = b.url
        PROVE  a = b
    <2>1. PICK i \in DOMAIN list : a = list[i] /\ \A j \in 1..(i - 1) : list[j].url # list[i].url
      BY DEF FirstPerUrl
    <2>2. PICK k \in DOMAIN list : b = list[k] /\ \A j \in 1..(k - 1) : list[j].url # list[k].url
      BY DEF FirstPerUrl
    <2>3. ~ (i \in 1..(k - 1)) /\ ~ (k \in 1..(i - 1))
      BY <1>4, <2>1, <2>2
    <2>4. i = k
      BY <1>1, <2>3
    <2> QED BY <2>1, <2>2, <2>4
  <1> QED BY <1>2, <1>3, <1>4

\* Where a message can be sent to is listed, and only configured URLs are
\* listed twice.
THEOREM ListingAlwaysComplete == Spec => []ListingIsComplete
  <1>1. ASSUME TypeOK PROVE ListingIsComplete
    <2> DEFINE found == {a \in FirstPerUrl(LiveDiscovered) : a.url \notin UrlsOf(Known)}
               met   == {a \in FirstPerUrl(contacts) :
                             a.url \notin UrlsOf(Known) \union UrlsOf(LiveDiscovered)}
    <2>1. Known \in Seq(Agent) /\ contacts \in Seq(Agent) /\ LiveDiscovered \in Seq(Agent)
      <3>1. Known \in Seq(Agent) /\ contacts \in Seq(Agent)
        BY <1>1, DirectoryAssumption DEF TypeOK
      <3>2. discovered \in Adverts \/ discovered = <<>>
        BY <1>1 DEF TypeOK
      <3>3. <<>> \in Seq(Agent)
        OBVIOUS
      <3>4. Adverts \subseteq Seq(Agent)
        BY DirectoryAssumption
      <3>5. discovered \in Seq(Agent)
        BY <3>2, <3>3, <3>4
      <3> QED BY <3>1, <3>3, <3>5 DEF LiveDiscovered
    <2>2. Listing = Range(Known) \union found \union met
      BY DEF Listing
    <2>3. ASSUME NEW a \in found \union met PROVE a.url \notin UrlsOf(Known)
      OBVIOUS
    <2>4. ASSUME NEW u \in UrlsOf(Known) \union UrlsOf(contacts)
          PROVE  \E a \in Listing : a.url = u
      <3>1. CASE u \in UrlsOf(Known)
        BY <2>2, <3>1 DEF UrlsOf, Range
      <3>2. CASE u \notin UrlsOf(Known) /\ u \in UrlsOf(LiveDiscovered)
        <4>1. PICK a \in FirstPerUrl(LiveDiscovered) : a.url = u
          BY <2>1, <3>2, FirstPerUrlKeepsUrls
        <4> QED BY <2>2, <3>2, <4>1
      <3>3. CASE u \notin UrlsOf(Known) \union UrlsOf(LiveDiscovered)
        <4>1. PICK a \in FirstPerUrl(contacts) : a.url = u
          BY <2>1, <2>4, <3>3, FirstPerUrlKeepsUrls
        <4> QED BY <2>2, <3>3, <4>1
      <3> QED BY <3>1, <3>2, <3>3
    <2>5. ASSUME NEW n \in Names PROVE Resolve(n) \subseteq {a.url : a \in Listing}
      <3>1. Resolve(n) \subseteq UrlsOf(Known) \union UrlsOf(contacts)
        BY DEF Resolve, FirstNamed, UrlsOf
      <3> QED BY <2>4, <3>1
    <2>6. ASSUME NEW a \in Listing, NEW b \in Listing, a.url = b.url, a.url \notin UrlsOf(Known)
          PROVE  a = b
      <3>1. \A c \in Range(Known) : c.url \in UrlsOf(Known)
        BY DEF Range, UrlsOf
      <3>2. a \in found \union met /\ b \in found \union met
        BY <2>2, <2>6, <3>1
      <3>3. \A c \in found : c.url \in UrlsOf(LiveDiscovered)
        BY <2>1, FirstPerUrlKeepsUrls
      <3>4. \A c \in met : c.url \notin UrlsOf(LiveDiscovered)
        OBVIOUS
      <3>5. (a \in found /\ b \in found) \/ (a \in met /\ b \in met)
        BY <2>6, <3>2, <3>3, <3>4
      <3> QED BY <2>1, <2>6, <3>5, FirstPerUrlKeepsUrls
    <2> QED BY <2>5, <2>6 DEF ListingIsComplete
  <1> QED BY <1>1, TypeCorrect, PTL
=============================================================================
