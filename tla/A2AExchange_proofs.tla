------------------------- MODULE A2AExchange_proofs -------------------------
(***************************************************************************)
(* The properties of A2AExchange for any requests, destinations, policies, *)
(* clocks and windows, from the inductive invariant Inv.                   *)
(***************************************************************************)
EXTENDS A2AExchange, TLAPS

USE ExchangeAssumption

\* Whole seconds do not run ahead of ticks, and start at zero.
LEMMA SecondsGrow ==
    /\ \A n \in Int : Seconds(n) \in Int /\ Seconds(n) <= Seconds(n + 1)
    /\ \A n \in Nat : Seconds(n) \in Nat
  BY DEF Seconds

\* The clock shows a natural number.
LEMMA ClockTyping == ASSUME TypeOK PROVE Clock \in Nat /\ Clock' = Seconds(now')
  BY SecondsGrow DEF TypeOK, Clock

\* A stamp is an integer.
LEMMA StampTyping == ASSUME TypeOK, NEW r \in Requests PROVE Stamp(r) \in Int
  BY SecondsGrow DEF TypeOK, Stamp, Request

\* Never is older than every nonce that is kept.
LEMMA KeptTyping ==
    ASSUME TypeOK
    PROVE  /\ Never \in Int /\ Never < Clock - MaxSkew
           /\ Kept \in [Requests -> Nat \union {Never}]
           /\ \A r \in Requests : Kept[r] # Never => Kept[r] = seenNonces[r]
           /\ \A r \in Requests : Kept[r] = Never => seenNonces[r] < Clock - MaxSkew
  <1>1. Clock \in Nat /\ Never \in Int /\ Never < Clock - MaxSkew
    BY ClockTyping DEF Never
  <1>2. \A r \in Requests : seenNonces[r] \in Nat \union {Never}
    BY DEF TypeOK
  <1> QED BY <1>1, <1>2 DEF Kept

\* Nothing has been sent or accepted at first.
LEMMA InitInv == Init => Inv
  <1> SUFFICES ASSUME Init PROVE Inv
    OBVIOUS
  <1>1. TypeOK
    BY DEF Init, Remembered, TypeOK, Request
  <1>2. ContactsAllowed /\ SignedIsChecked
    BY DEF Init, ContactsAllowed, SignedIsChecked
  <1>3. TakenWasSent /\ NonceWasTaken /\ RememberedWhileFresh /\ RepeatedOnlyIfTaken
    BY DEF Init, Remembered, TakenWasSent, NonceWasTaken, RememberedWhileFresh, RepeatedOnlyIfTaken
  <1> QED BY <1>1, <1>2, <1>3 DEF Inv

\* A sender's step changes a request that has not been sent, and nothing else.
LEMMA SenderKeepsServer ==
    ASSUME Inv, NEW r \in Requests, requests[r].phase # "sent",
           UNCHANGED <<now, seenNonces, taken, refusals>>, TypeOK',
           NEW q, requests' = [requests EXCEPT ![r] = q]
    PROVE  TakenWasSent' /\ NonceWasTaken' /\ RememberedWhileFresh' /\ RepeatedOnlyIfTaken'
  <1>1. \A p \in Requests : p # r => requests'[p] = requests[p] /\ Stamp(p)' = Stamp(p)
    BY DEF Inv, TypeOK, Stamp
  <1>2. taken[r] = <<>>
    BY DEF Inv, TakenWasSent
  <1>3. Clock' = Clock
    BY DEF Clock
  <1> QED BY <1>1, <1>2, <1>3 DEF Inv, TakenWasSent, NonceWasTaken, RememberedWhileFresh, RepeatedOnlyIfTaken

\* Sign keeps the invariant: what is signed has been validated.
LEMMA SignInv ==
    ASSUME Inv, NEW r \in Requests, NEW offset \in Offsets, Sign(r, offset)
    PROVE  Inv'
  <1>1. PICK addresses \in Answers(requests[r].host) : requests' = [requests EXCEPT ![r] =
             IF Validates(requests[r].host, requests[r].https, addresses)
             THEN [requests[r] EXCEPT !.phase = "signed", !.clock = now + offset]
             ELSE [requests[r] EXCEPT !.phase = "refused"]]
    BY DEF Sign
  <1>2. requests[r] \in Request /\ requests[r].phase = "new" /\ now + offset \in Int
    BY DEF Inv, TypeOK, Sign
  <1>3. TypeOK'
    BY <1>1, <1>2 DEF Inv, TypeOK, Sign, Request
  <1>4. ContactsAllowed'
    BY <1>1, <1>2 DEF Inv, TypeOK, ContactsAllowed, Request
  <1>5. SignedIsChecked'
    BY <1>1, <1>2 DEF Inv, TypeOK, SignedIsChecked, Request, Validates, Resolves, Answers
  <1>6. TakenWasSent' /\ NonceWasTaken' /\ RememberedWhileFresh' /\ RepeatedOnlyIfTaken'
    BY <1>1, <1>2, <1>3, SenderKeepsServer DEF Sign
  <1> QED BY <1>3, <1>4, <1>5, <1>6 DEF Inv

\* Connect keeps the invariant: an address is allowed by the look-up or, when
\* the host is one, by validate.
LEMMA ConnectInv ==
    ASSUME Inv, NEW r \in Requests, Connect(r)
    PROVE  Inv'
  <1> DEFINE q == requests[r]
  <1>1. q \in Request /\ q.phase = "signed"
    BY DEF Inv, TypeOK, Connect
  <1>2. PICK addresses \in Answers(q.host) :
            \/ /\ LooksUp(q, addresses)
               /\ \E a \in addresses :
                    requests' = [requests EXCEPT ![r] = [q EXCEPT !.phase = "sent", !.address = a]]
            \/ requests' = [requests EXCEPT ![r] = [q EXCEPT !.phase = "refused"]]
    BY DEF Connect
  <1>3. addresses \subseteq Addresses
    <2>1. CASE q.host \in DOMAIN Literal
      <3>1. Literal[q.host] \in Addresses
        BY <2>1, PolicyAssumption
      <3> QED BY <2>1, <3>1 DEF Answers
    <2>2. CASE q.host \notin DOMAIN Literal
      BY <2>2 DEF Answers
    <2> QED BY <2>1, <2>2
  <1>4. CASE requests' = [requests EXCEPT ![r] = [q EXCEPT !.phase = "refused"]]
    <2>1. TypeOK'
      BY <1>1, <1>4 DEF Inv, TypeOK, Connect, Request
    <2>2. ContactsAllowed' /\ SignedIsChecked'
      BY <1>1, <1>4 DEF Inv, TypeOK, ContactsAllowed, SignedIsChecked, Request
    <2>3. TakenWasSent' /\ NonceWasTaken' /\ RememberedWhileFresh' /\ RepeatedOnlyIfTaken'
      BY <1>1, <1>4, <2>1, SenderKeepsServer DEF Connect
    <2> QED BY <2>1, <2>2, <2>3 DEF Inv
  <1>5. ASSUME LooksUp(q, addresses), NEW a \in addresses,
               requests' = [requests EXCEPT ![r] = [q EXCEPT !.phase = "sent", !.address = a]]
        PROVE  Inv'
    <2>1. TypeOK'
      BY <1>1, <1>3, <1>5 DEF Inv, TypeOK, Connect, Request
    <2>2. HostIsAllowed(q.host) \/ AddressIsAllowed(a)
      BY <1>1, <1>2, <1>5 DEF Inv, SignedIsChecked, LooksUp, Resolves, Answers
    <2>3. SchemeIsAllowed(q.host, q.https)
      BY <1>1 DEF Inv, SignedIsChecked
    <2>4. ContactsAllowed' /\ SignedIsChecked'
      BY <1>1, <1>5, <2>2, <2>3 DEF Inv, TypeOK, ContactsAllowed, SignedIsChecked, Request
    <2>5. TakenWasSent' /\ NonceWasTaken' /\ RememberedWhileFresh' /\ RepeatedOnlyIfTaken'
      BY <1>1, <1>5, <2>1, SenderKeepsServer DEF Connect
    <2> QED BY <2>1, <2>4, <2>5 DEF Inv
  <1> QED BY <1>2, <1>4, <1>5

\* Verify keeps the invariant: the cutoff of the cache and the window of the
\* stamps pass together.
LEMMA VerifyInv ==
    ASSUME Inv, NEW r \in Requests, Verify(r)
    PROVE  Inv'
  <1>1. /\ \A p \in Requests : Stamp(p)' = Stamp(p) /\ Stamp(p) \in Int
        /\ Clock' = Clock /\ Clock \in Nat
        /\ UNCHANGED <<now, requests>>
    BY StampTyping, ClockTyping DEF Inv, Verify, Stamp, Clock
  <1>2. ContactsAllowed' /\ SignedIsChecked'
    BY <1>1 DEF Inv, ContactsAllowed, SignedIsChecked
  <1>3. /\ Never \in Int /\ Never < Clock - MaxSkew
        /\ Kept \in [Requests -> Nat \union {Never}]
        /\ \A p \in Requests : Kept[p] # Never => Kept[p] = seenNonces[p]
        /\ \A p \in Requests : Kept[p] = Never => seenNonces[p] < Clock - MaxSkew
    BY KeptTyping DEF Inv
  <1>4. \A p \in Requests : taken[p] \in Seq(Nat) /\ (taken[p] # <<>> => taken[p][1] \in Nat)
    BY DEF Inv, TypeOK
  <1>5. ASSUME NEW p \in Requests, taken[p] # <<>>, Stamp(p) <= taken[p][1], Kept[p] = Never
        PROVE  Clock - Stamp(p) > MaxSkew
    BY <1>1, <1>3, <1>4, <1>5 DEF Inv, RememberedWhileFresh
  <1>6. ASSUME seenNonces' = Kept, UNCHANGED taken
        PROVE  NonceWasTaken' /\ RememberedWhileFresh'
    <2>1. NonceWasTaken'
      BY <1>3, <1>6 DEF Inv, NonceWasTaken
    <2>2. RememberedWhileFresh'
      BY <1>1, <1>3, <1>5, <1>6 DEF Inv, RememberedWhileFresh
    <2> QED BY <2>1, <2>2
  <1>7. CASE Expired(r)
    BY <1>1, <1>2, <1>7 DEF Inv, Expired, Refuse, TypeOK, TakenWasSent, NonceWasTaken,
       RememberedWhileFresh, RepeatedOnlyIfTaken
  <1>8. CASE Replayed(r)
    <2>1. taken[r] # <<>>
      BY <1>3, <1>8 DEF Inv, Replayed, NonceWasTaken
    <2>2. TypeOK' /\ TakenWasSent' /\ RepeatedOnlyIfTaken'
      BY <1>1, <1>3, <1>8, <2>1 DEF Inv, Replayed, Refuse, TypeOK, TakenWasSent, RepeatedOnlyIfTaken
    <2> QED BY <1>2, <1>6, <1>8, <2>2 DEF Inv, Replayed
  <1>9. CASE Damaged(r)
    <2>1. TypeOK' /\ TakenWasSent' /\ RepeatedOnlyIfTaken'
      BY <1>1, <1>3, <1>9 DEF Inv, Damaged, Refuse, TypeOK, TakenWasSent, RepeatedOnlyIfTaken
    <2> QED BY <1>2, <1>6, <1>9, <2>1 DEF Inv, Damaged
  <1>10. CASE Accept(r)
    <2>1. /\ seenNonces' = [Kept EXCEPT ![r] = Clock]
          /\ taken' = [taken EXCEPT ![r] = Append(taken[r], Clock)]
          /\ Kept[r] = Never /\ requests[r].phase = "sent" /\ UNCHANGED refusals
      BY <1>10 DEF Accept, Verify
    <2>2. /\ Append(taken[r], Clock) \in Seq(Nat) /\ Append(taken[r], Clock) # <<>>
          /\ taken[r] = <<>> => Append(taken[r], Clock)[1] = Clock /\ Len(Append(taken[r], Clock)) = 1
          /\ taken[r] # <<>> => Append(taken[r], Clock)[1] = taken[r][1]
      BY <1>1, <1>4
    <2>3. TypeOK' /\ TakenWasSent' /\ NonceWasTaken' /\ RepeatedOnlyIfTaken'
      BY <1>1, <1>3, <2>1, <2>2 DEF Inv, TypeOK, TakenWasSent, NonceWasTaken, RepeatedOnlyIfTaken
    <2>4. taken[r] # <<>> => ~(Stamp(r) <= taken[r][1])
      <3>1. Clock - Stamp(r) <= MaxSkew
        BY <1>1, <1>10 DEF Accept, InWindow, Abs
      <3> QED BY <1>1, <1>5, <2>1, <3>1
    <2>5. RememberedWhileFresh'
      <3> SUFFICES ASSUME NEW p \in Requests, (taken[p] # <<>> /\ Stamp(p) <= taken[p][1])'
                   PROVE  (/\ Len(taken[p]) = 1
                           /\ seenNonces[p] = taken[p][1] \/ Clock - Stamp(p) > MaxSkew)'
        BY DEF RememberedWhileFresh
      <3>1. CASE p = r
        BY <1>1, <1>3, <2>1, <2>2, <2>4, <3>1 DEF Inv, TypeOK
      <3>2. CASE p # r
        <4>1. taken'[p] = taken[p] /\ seenNonces'[p] = Kept[p]
          BY <1>3, <2>1, <3>2 DEF Inv, TypeOK
        <4> QED BY <1>1, <1>3, <1>5, <4>1 DEF Inv, RememberedWhileFresh
      <3> QED BY <3>1, <3>2
    <2> QED BY <1>2, <2>3, <2>5 DEF Inv
  <1> QED BY <1>7, <1>8, <1>9, <1>10 DEF Verify

\* A restart forgets nonces and the history of the process together.
LEMMA RestartInv == ASSUME Inv, Restart PROVE Inv'
  <1>1. TypeOK'
    BY DEF Inv, TypeOK, Restart
  <1>2. ContactsAllowed' /\ SignedIsChecked'
    BY DEF Inv, Restart, ContactsAllowed, SignedIsChecked
  <1>3. TakenWasSent' /\ NonceWasTaken' /\ RememberedWhileFresh' /\ RepeatedOnlyIfTaken'
    BY DEF Restart, TakenWasSent, NonceWasTaken, RememberedWhileFresh, RepeatedOnlyIfTaken
  <1> QED BY <1>1, <1>2, <1>3 DEF Inv

\* As time passes a stamp only gets older.
LEMMA TickInv == ASSUME Inv, Tick PROVE Inv'
  <1>1. now \in Int /\ now' \in Int /\ now' = now + 1 /\ UNCHANGED <<requests, seenNonces, taken, refusals>>
    BY DEF Inv, TypeOK, Tick
  <1>2. TypeOK'
    BY <1>1 DEF Inv, TypeOK, Tick
  <1>3. ContactsAllowed' /\ SignedIsChecked' /\ TakenWasSent' /\ NonceWasTaken' /\ RepeatedOnlyIfTaken'
    BY <1>1 DEF Inv, ContactsAllowed, SignedIsChecked, TakenWasSent, NonceWasTaken, RepeatedOnlyIfTaken
  <1>4. Clock \in Int /\ Clock' \in Int /\ Clock <= Clock'
    BY <1>1, SecondsGrow DEF Clock
  <1>5. \A r \in Requests : Stamp(r)' = Stamp(r) /\ Stamp(r) \in Int
    BY <1>1, StampTyping DEF Inv, Stamp
  <1>6. RememberedWhileFresh'
    BY <1>1, <1>4, <1>5 DEF Inv, RememberedWhileFresh
  <1> QED BY <1>2, <1>3, <1>6 DEF Inv

\* Nothing changes when nothing happens.
LEMMA StutterInv == ASSUME Inv, UNCHANGED vars PROVE Inv'
  BY DEF Inv, vars, TypeOK, ContactsAllowed, SignedIsChecked, TakenWasSent, NonceWasTaken,
     RememberedWhileFresh, RepeatedOnlyIfTaken, Stamp, Clock

\* Every step keeps the invariant.
LEMMA NextInv == Inv /\ [Next]_vars => Inv'
  <1> SUFFICES ASSUME Inv, [Next]_vars PROVE Inv'
    OBVIOUS
  <1>1. CASE Next
    BY <1>1, SignInv, ConnectInv, VerifyInv, RestartInv, TickInv DEF Next
  <1>2. CASE UNCHANGED vars
    BY <1>2, StutterInv
  <1> QED BY <1>1, <1>2

\* The invariant holds of any number of requests, under every policy.
THEOREM InvAlways == Spec => []Inv
  BY InitInv, NextInv, PTL DEF Spec

\* Every variable keeps its type.
THEOREM TypeCorrect == Spec => []TypeOK
  <1>1. Inv => TypeOK
    BY DEF Inv
  <1> QED BY <1>1, InvAlways, PTL

\* Whatever the policy and whatever the name service answers, only addresses
\* the policy allows are contacted.
THEOREM ContactsAlwaysAllowed == Spec => []ContactsAllowed
  <1>1. Inv => ContactsAllowed
    BY DEF Inv
  <1> QED BY <1>1, InvAlways, PTL

\* For every window, delay and number of deliveries, a request whose stamp was
\* not ahead of the server's clock is handed on once.
THEOREM AlwaysAcceptedOnce == Spec => []AcceptedOnce
  <1>1. Inv => AcceptedOnce
    <2> SUFFICES ASSUME Inv, NEW r \in Requests, Len(taken[r]) > 1, ~(Stamp(r) > taken[r][1])
                 PROVE  FALSE
      BY DEF AcceptedOnce
    <2>1. taken[r] \in Seq(Nat) /\ taken[r] # <<>> /\ taken[r][1] \in Nat /\ Stamp(r) \in Int
      BY StampTyping DEF Inv, TypeOK
    <2>2. Stamp(r) <= taken[r][1]
      BY <2>1
    <2>3. Len(taken[r]) = 1
      BY <2>1, <2>2 DEF Inv, RememberedWhileFresh
    <2> QED BY <2>3
  <1> QED BY <1>1, InvAlways, PTL

\* No request is refused as repeated before it was accepted.
THEOREM RepeatedOnlyIfTakenAlways == Spec => []RepeatedOnlyIfTaken
  <1>1. Inv => RepeatedOnlyIfTaken
    BY DEF Inv
  <1> QED BY <1>1, InvAlways, PTL

\* Whole seconds differ by more than the window only if the clocks do.
LEMMA ExpiredIsLate ==
    ASSUME NEW m \in Int, NEW n \in Int, Abs(Seconds(m) - Seconds(n)) > MaxSkew
    PROVE  Abs(m - n) > 2 * MaxSkew
  BY DEF Abs, Seconds

\* A request delivered in time is never refused as expired.
THEOREM ExpiredOnlyIfLateAlways == Spec => ExpiredOnlyIfLate
  <1> DEFINE Late == \A r \in Requests : "expired" \in refusals'[r] \ refusals[r] =>
                         Abs(now - requests[r].clock) > 2 * MaxSkew
  <1>1. ASSUME Inv, [Next]_vars PROVE [Late]_vars
    <2> SUFFICES ASSUME Next, NEW r \in Requests, "expired" \in refusals'[r] \ refusals[r]
                 PROVE  Abs(now - requests[r].clock) > 2 * MaxSkew
      BY <1>1
    <2>1. refusals \in [Requests -> SUBSET {"expired", "replayed", "signature"}] /\ ~(UNCHANGED refusals)
      BY <1>1 DEF Inv, TypeOK
    <2>2. PICK p \in Requests : Verify(p)
      <3>1. ~Restart
        BY <1>1, <2>1 DEF Restart
      <3> QED BY <2>1, <3>1 DEF Next, Sign, Connect, Tick
    <2>3. p = r /\ Expired(r)
      BY <2>1, <2>2 DEF Verify, Expired, Replayed, Damaged, Accept, Refuse
    <2>4. now \in Int /\ requests[r].clock \in Int
      BY <1>1 DEF Inv, TypeOK, Request
    <2>5. MaxSkew \in Nat /\ Clock \in Int /\ Stamp(r) \in Int
      BY <2>4, SecondsGrow DEF Clock, Stamp
    <2>6. Abs(Seconds(now) - Seconds(requests[r].clock)) > MaxSkew
      BY <2>3, <2>5 DEF Expired, InWindow, Clock, Stamp, Abs
    <2> QED BY <2>4, <2>6, ExpiredIsLate
  <1> QED BY <1>1, InvAlways, PTL DEF Spec, ExpiredOnlyIfLate
=============================================================================
