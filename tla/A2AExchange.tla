----------------------------- MODULE A2AExchange -----------------------------
(***************************************************************************)
(* One request on its way: A2AClient.send_message validates and signs it,  *)
(* the connector looks its host up once more, the network delivers it      *)
(* late, more than once or damaged, and RequestAuthenticator.verify        *)
(* decides whether the handler sees it.                                    *)
(*                                                                         *)
(* Clocks tick twice a second and are read in whole seconds, as int() does *)
(* with time.time().  The server's clock does not go backwards; a sender's *)
(* is off by a constant number of ticks.  Nonces are unique (external), so *)
(* a request stands for its own.                                           *)
(***************************************************************************)
EXTENDS OutboundPolicy, Integers, Sequences

CONSTANTS Requests,
          Destinations,  \* the host of a URL and whether its scheme is https
          Offsets,   \* how far a sender's clock may be ahead of the server's, in ticks
          MaxSkew,   \* max_clock_skew_seconds
          MaxTime, MaxTaken  \* bounds of the model

ASSUME ExchangeAssumption ==
    /\ Destinations \subseteq [host : Hosts, https : BOOLEAN]
    /\ Offsets \subseteq Int /\ MaxSkew \in Nat /\ MaxTime \in Nat

VARIABLES now,        \* the server's clock, in ticks
          requests,   \* how far each request has come
          seenNonces, \* _seen_nonces: when the nonce of a request was seen
          taken,      \* history: when this process accepted the request
          refusals    \* history: why this process refused it

vars == <<now, requests, seenNonces, taken, refusals>>

Seconds(tick) == tick \div 2
Clock == Seconds(now)

Never == -1 - MaxSkew - MaxTime
NoAddress == "none"

Request == [phase : {"new", "signed", "sent", "refused"}, host : Hosts, https : BOOLEAN,
            clock : Int, address : Addresses \union {NoAddress}]

Stamp(r) == Seconds(requests[r].clock)

TypeOK ==
    /\ now \in 0..MaxTime
    /\ requests \in [Requests -> Request]
    /\ seenNonces \in [Requests -> Nat \union {Never}]
    /\ taken \in [Requests -> Seq(Nat)]
    /\ refusals \in [Requests -> SUBSET {"expired", "replayed", "signature"}]

\* The authenticator of a process that starts.
Remembered ==
    /\ seenNonces = [r \in Requests |-> Never]
    /\ taken = [r \in Requests |-> <<>>]
    /\ refusals = [r \in Requests |-> {}]

Init ==
    /\ now = 0
    /\ requests \in [Requests -> {[phase |-> "new", host |-> d.host, https |-> d.https,
                                   clock |-> 0, address |-> NoAddress] : d \in Destinations}]
    /\ Remembered

-----------------------------------------------------------------------------
(* The sender.                                                             *)

\* send_message up to the first byte: the destination is checked, then the
\* request is stamped and signed.
Sign(r, offset) ==
    LET q == requests[r] IN
    /\ q.phase = "new"
    /\ \E addresses \in Answers(q.host) :
         requests' = [requests EXCEPT ![r] =
             IF Validates(q.host, q.https, addresses)
             THEN [q EXCEPT !.phase = "signed", !.clock = now + offset]
             ELSE [q EXCEPT !.phase = "refused"]]
    /\ UNCHANGED <<now, seenNonces, taken, refusals>>

\* Fault: the connector asks the name service itself.
LooksUpUnchecked(q, addresses) == addresses # {}

\* The connector resolves through the policy, except for a literal address,
\* which validate has checked.
LooksUp(q, addresses) == q.host \in DOMAIN Literal \/ Resolves(q.host, addresses)

\* Any of the addresses is taken.
Connect(r) ==
    LET q == requests[r] IN
    /\ q.phase = "signed"
    /\ \E addresses \in Answers(q.host) :
         \/ /\ LooksUp(q, addresses)
            /\ \E a \in addresses :
                 requests' = [requests EXCEPT ![r] = [q EXCEPT !.phase = "sent", !.address = a]]
         \/ /\ ~LooksUp(q, addresses)
            /\ requests' = [requests EXCEPT ![r] = [q EXCEPT !.phase = "refused"]]
    /\ UNCHANGED <<now, seenNonces, taken, refusals>>

-----------------------------------------------------------------------------
(* The server: verify, for a copy of the request that is intact or not.    *)

Abs(n) == IF n < 0 THEN -n ELSE n

\* Fault: the ends of the window are outside.
InWindowStrictly(r) == Abs(Clock - Stamp(r)) < MaxSkew

InWindow(r) == Abs(Clock - Stamp(r)) <= MaxSkew

\* Fault: a nonce is forgotten a second early.
KeptBriefly == [r \in Requests |-> IF seenNonces[r] > Clock - MaxSkew THEN seenNonces[r] ELSE Never]

\* The nonces that are not too old.
Kept == [r \in Requests |-> IF seenNonces[r] >= Clock - MaxSkew THEN seenNonces[r] ELSE Never]

Refuse(r, why) == refusals' = [refusals EXCEPT ![r] = @ \union {why}]

Expired(r) ==
    /\ ~InWindow(r)
    /\ Refuse(r, "expired")
    /\ UNCHANGED <<seenNonces, taken>>

Replayed(r) ==
    /\ InWindow(r) /\ Kept[r] # Never
    /\ seenNonces' = Kept
    /\ Refuse(r, "replayed")
    /\ UNCHANGED taken

\* Fault: the nonce is remembered before the signature is compared.
DamagedRemembered(r) ==
    /\ InWindow(r) /\ Kept[r] = Never
    /\ seenNonces' = [Kept EXCEPT ![r] = Clock]
    /\ Refuse(r, "signature")
    /\ UNCHANGED taken

Damaged(r) ==
    /\ InWindow(r) /\ Kept[r] = Never
    /\ seenNonces' = Kept
    /\ Refuse(r, "signature")
    /\ UNCHANGED taken

Accept(r) ==
    /\ InWindow(r) /\ Kept[r] = Never
    /\ Len(taken[r]) < MaxTaken
    /\ seenNonces' = [Kept EXCEPT ![r] = Clock]
    /\ taken' = [taken EXCEPT ![r] = Append(@, Clock)]
    /\ UNCHANGED refusals

Verify(r) ==
    /\ requests[r].phase = "sent"
    /\ Expired(r) \/ Replayed(r) \/ Damaged(r) \/ Accept(r)
    /\ UNCHANGED <<now, requests>>

\* The process restarts with an empty cache of nonces.
Restart ==
    /\ \E r \in Requests : seenNonces[r] # Never \/ taken[r] # <<>> \/ refusals[r] # {}
    /\ seenNonces' = [r \in Requests |-> Never]
    /\ taken' = [r \in Requests |-> <<>>]
    /\ refusals' = [r \in Requests |-> {}]
    /\ UNCHANGED <<now, requests>>

-----------------------------------------------------------------------------
Tick ==
    /\ now < MaxTime
    /\ now' = now + 1
    /\ UNCHANGED <<requests, seenNonces, taken, refusals>>

Next ==
    \/ \E r \in Requests :
           \/ \E offset \in Offsets : Sign(r, offset)
           \/ Connect(r)
           \/ Verify(r)
    \/ Restart
    \/ Tick

Spec == Init /\ [][Next]_vars

-----------------------------------------------------------------------------
(* Properties.                                                             *)

\* Whatever the name service answers between the check and the connection, no
\* address is contacted that the policy does not allow, and none without TLS
\* unless the policy says so.
ContactsAllowed ==
    \A r \in Requests : LET q == requests[r] IN
        q.address # NoAddress =>
            /\ HostIsAllowed(q.host) \/ AddressIsAllowed(q.address)
            /\ SchemeIsAllowed(q.host, q.https)

\* However often a request is delivered, a process hands it to the handler once,
\* provided its stamp was not ahead of the server's clock when it was first
\* accepted: its nonce is remembered until its stamp is too old.
AcceptedOnce ==
    \A r \in Requests : Len(taken[r]) > 1 => Stamp(r) > taken[r][1]

\* A request is refused as repeated only if it was accepted: a damaged copy that
\* comes first does not stand in its way.
RepeatedOnlyIfTaken ==
    \A r \in Requests : "replayed" \in refusals[r] => taken[r] # <<>>

SignedIsChecked ==
    \A r \in Requests : LET q == requests[r] IN
        /\ q.phase = "signed" => SchemeIsAllowed(q.host, q.https)
        /\ q.phase = "signed" /\ q.host \in DOMAIN Literal =>
               HostIsAllowed(q.host) \/ AddressIsAllowed(Literal[q.host])

TakenWasSent == \A r \in Requests : taken[r] # <<>> => requests[r].phase = "sent"

NonceWasTaken == \A r \in Requests : seenNonces[r] # Never => taken[r] # <<>>

RememberedWhileFresh ==
    \A r \in Requests : taken[r] # <<>> /\ Stamp(r) <= taken[r][1] =>
        /\ Len(taken[r]) = 1
        /\ seenNonces[r] = taken[r][1] \/ Clock - Stamp(r) > MaxSkew

\* The inductive invariant of A2AExchange_proofs.  A request that was accepted
\* has been sent, so its stamp is settled; a nonce is remembered only from an
\* acceptance; and once the nonce of an accepted request is forgotten its stamp
\* is too old, unless it was ahead of the clock.
Inv ==
    /\ TypeOK
    /\ ContactsAllowed
    /\ SignedIsChecked
    /\ TakenWasSent
    /\ NonceWasTaken
    /\ RememberedWhileFresh
    /\ RepeatedOnlyIfTaken

\* A request delivered while the sender's clock and the server's differ by no
\* more than the configured skew, delays included, is never refused as expired,
\* though both are read in whole seconds.
ExpiredOnlyIfLate ==
    [][\A r \in Requests :
          "expired" \in refusals'[r] \ refusals[r] =>
              Abs(now - requests[r].clock) > 2 * MaxSkew]_vars
=============================================================================
