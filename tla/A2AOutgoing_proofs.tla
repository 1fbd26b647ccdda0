------------------------- MODULE A2AOutgoing_proofs -------------------------
(***************************************************************************)
(* Theorems about A2AOutgoing, for every set of sends and agents, and that *)
(* it implements AnswerDelivery.                                           *)
(***************************************************************************)
EXTENDS A2AOutgoing, SequenceTheorems, TLAPS

-----------------------------------------------------------------------------
(* Lists.                                                                  *)

\* A list that grows by one.
LEMMA AppendList ==
    ASSUME NEW S, NEW list \in Seq(S), NEW e \in S
    PROVE  /\ Append(list, e) \in Seq(S)
           /\ Range(Append(list, e)) = Range(list) \union {e}
           /\ IsInjective(list) /\ e \notin Range(list) => IsInjective(Append(list, e))
  <1> DEFINE longer == Append(list, e)
  <1>1. /\ longer \in Seq(S) /\ DOMAIN list = 1..Len(list)
        /\ DOMAIN longer = 1..(Len(list) + 1) /\ Len(list) \in Nat
        /\ \A i \in 1..Len(list) : longer[i] = list[i]
        /\ longer[Len(list) + 1] = e
    OBVIOUS
  <1> HIDE DEF longer
  <1>2. Range(longer) = Range(list) \union {e}
    BY <1>1 DEF Range
  <1>3. IsInjective(list) /\ e \notin Range(list) => IsInjective(longer)
    BY <1>1 DEF IsInjective, Range
  <1> QED BY <1>1, <1>2, <1>3 DEF longer

\* A list without the entry at a position.
LEMMA ShorterList ==
    ASSUME NEW S, NEW list \in Seq(S), NEW k \in DOMAIN list
    PROVE  /\ RemoveAt(list, k) \in Seq(S)
           /\ IsInjective(list) => /\ IsInjective(RemoveAt(list, k))
                                   /\ Range(RemoveAt(list, k)) = Range(list) \ {list[k]}
  <1> DEFINE rest == RemoveAt(list, k)
             n == Len(list)
  <1>1. n \in Nat /\ DOMAIN list = 1..n /\ k \in 1..n
    OBVIOUS
  <1>2. /\ rest \in Seq(S) /\ Len(rest) = n - 1
        /\ \A i \in 1..(n - 1) : rest[i] = IF i < k THEN list[i] ELSE list[i + 1]
    <2> DEFINE before == SubSeq(list, 1, k - 1)
               after  == SubSeq(list, k + 1, n)
    <2>1. /\ before \in Seq(S) /\ Len(before) = k - 1
          /\ \A i \in 1..(k - 1) : before[i] = list[i]
      BY <1>1, SubSeqProperties
    <2>2. /\ after \in Seq(S) /\ Len(after) = n - k
          /\ \A i \in 1..(n - k) : after[i] = list[i + k]
      BY <1>1, SubSeqProperties
    <2>3. rest = before \o after
      BY DEF RemoveAt
    <2> HIDE DEF before, after, rest, n
    <2>4. /\ rest \in Seq(S) /\ Len(rest) = n - 1
          /\ \A i \in 1..(n - 1) : rest[i] = IF i <= k - 1 THEN before[i] ELSE after[i - (k - 1)]
      <3>1. /\ rest \in Seq(S) /\ Len(rest) = Len(before) + Len(after)
            /\ \A i \in 1..(Len(before) + Len(after)) :
                 rest[i] = IF i <= Len(before) THEN before[i] ELSE after[i - Len(before)]
        BY <2>1, <2>2, <2>3, ConcatProperties
      <3>2. Len(before) = k - 1 /\ Len(after) = n - k /\ Len(before) + Len(after) = n - 1
        BY <1>1, <2>1, <2>2
      <3> QED BY <3>1, <3>2
    <2>5. ASSUME NEW i \in 1..(n - 1) PROVE rest[i] = IF i < k THEN list[i] ELSE list[i + 1]
      <3>1. CASE i < k
        BY <1>1, <2>1, <2>4, <3>1
      <3>2. CASE i >= k
        <4>1. i - (k - 1) \in 1..(n - k) /\ (i - (k - 1)) + k = i + 1
          BY <1>1, <3>2
        <4> QED BY <1>1, <2>2, <2>4, <3>2, <4>1
      <3> QED BY <1>1, <3>1, <3>2
    <2> QED BY <2>4, <2>5
  <1>3. DOMAIN rest = 1..(n - 1)
    BY <1>2, LenProperties
  <1> HIDE DEF rest, n
  <1>4. ASSUME IsInjective(list) PROVE IsInjective(rest)
    <2> SUFFICES ASSUME NEW i \in 1..(n - 1), NEW j \in 1..(n - 1), rest[i] = rest[j] PROVE i = j
      BY <1>3 DEF IsInjective
    <2> DEFINE at(x) == IF x < k THEN x ELSE x + 1
    <2>1. \A x \in 1..(n - 1) : at(x) \in 1..n /\ rest[x] = list[at(x)]
      BY <1>1, <1>2
    <2>2. at(i) = at(j)
      BY <1>1, <1>4, <2>1 DEF IsInjective
    <2> QED BY <1>1, <2>2
  <1>5. ASSUME IsInjective(list) PROVE Range(rest) = Range(list) \ {list[k]}
    <2>1. ASSUME NEW i \in 1..(n - 1) PROVE rest[i] \in Range(list) /\ rest[i] # list[k]
      <3>1. PICK j \in 1..n : rest[i] = list[j] /\ j # k
        <4>1. CASE i < k
          BY <1>1, <1>2, <4>1
        <4>2. CASE ~(i < k)
          <5>1. i + 1 \in 1..n /\ i + 1 # k /\ rest[i] = list[i + 1]
            BY <1>1, <1>2, <4>2
          <5> QED BY <5>1
        <4> QED BY <4>1, <4>2
      <3> QED BY <1>1, <1>5, <3>1 DEF IsInjective, Range
    <2>2. ASSUME NEW j \in 1..n, j # k PROVE list[j] \in Range(rest)
      <3>1. CASE j < k
        BY <1>1, <1>2, <1>3, <3>1 DEF Range
      <3>2. CASE j > k
        <4>1. j - 1 \in 1..(n - 1) /\ rest[j - 1] = list[j]
          BY <1>1, <1>2, <3>2
        <4> QED BY <1>3, <4>1 DEF Range
      <3> QED BY <1>1, <2>2, <3>1, <3>2
    <2> QED BY <1>1, <1>3, <2>1, <2>2 DEF Range
  <1> QED BY <1>2, <1>4, <1>5 DEF rest

\* A list after another.
LEMMA JoinedList ==
    ASSUME NEW S, NEW one \in Seq(S), NEW two \in Seq(S)
    PROVE  /\ one \o two \in Seq(S)
           /\ Range(one \o two) = Range(one) \union Range(two)
           /\ IsInjective(one) /\ IsInjective(two) /\ Range(one) \cap Range(two) = {}
                => IsInjective(one \o two)
  <1> DEFINE all == one \o two
             m == Len(one)
             n == Len(two)
  <1>1. /\ m \in Nat /\ n \in Nat /\ DOMAIN one = 1..m /\ DOMAIN two = 1..n
        /\ all \in Seq(S) /\ DOMAIN all = 1..(m + n)
        /\ \A i \in 1..(m + n) : all[i] = IF i <= m THEN one[i] ELSE two[i - m]
    BY ConcatProperties
  <1> HIDE DEF all, m, n
  <1>2. ASSUME NEW i \in 1..(m + n)
        PROVE  \/ i \in 1..m /\ all[i] = one[i] /\ all[i] \in Range(one)
               \/ i - m \in 1..n /\ all[i] = two[i - m] /\ all[i] \in Range(two)
    <2>1. CASE i <= m
      <3>1. i \in 1..m /\ all[i] = one[i]
        BY <1>1, <2>1
      <3> QED BY <1>1, <3>1 DEF Range
    <2>2. CASE ~(i <= m)
      <3>1. i - m \in 1..n /\ all[i] = two[i - m]
        BY <1>1, <2>2
      <3> QED BY <1>1, <3>1 DEF Range
    <2> QED BY <2>1, <2>2
  <1>3. Range(all) = Range(one) \union Range(two)
    <2>1. ASSUME NEW i \in 1..m PROVE one[i] \in Range(all)
      <3>1. one[i] = all[i] /\ i \in 1..(m + n)
        BY <1>1
      <3> QED BY <1>1, <3>1 DEF Range
    <2>2. ASSUME NEW i \in 1..n PROVE two[i] \in Range(all)
      <3>1. two[i] = all[i + m] /\ i + m \in 1..(m + n)
        BY <1>1
      <3> QED BY <1>1, <3>1 DEF Range
    <2>3. Range(one) \subseteq Range(all) /\ Range(two) \subseteq Range(all)
      BY <1>1, <2>1, <2>2 DEF Range
    <2>4. Range(all) \subseteq Range(one) \union Range(two)
      BY <1>1, <1>2 DEF Range
    <2> QED BY <2>3, <2>4
  <1>4. ASSUME IsInjective(one), IsInjective(two), Range(one) \cap Range(two) = {}
        PROVE  IsInjective(all)
    <2> SUFFICES ASSUME NEW i \in 1..(m + n), NEW j \in 1..(m + n), all[i] = all[j] PROVE i = j
      BY <1>1 DEF IsInjective
    <2>1. CASE i \in 1..m /\ j \in 1..m /\ all[i] = one[i] /\ all[j] = one[j]
      <3>1. one[i] = one[j] /\ i \in DOMAIN one /\ j \in DOMAIN one
        BY <1>1, <2>1
      <3> QED BY <1>4, <3>1 DEF IsInjective
    <2>2. CASE i - m \in 1..n /\ j - m \in 1..n /\ all[i] = two[i - m] /\ all[j] = two[j - m]
      <3>1. two[i - m] = two[j - m] /\ i - m \in DOMAIN two /\ j - m \in DOMAIN two
        BY <1>1, <2>2
      <3>2. i - m = j - m
        BY <1>4, <3>1 DEF IsInjective
      <3> QED BY <1>1, <3>2
    <2>3. all[i] \notin Range(one) \/ all[i] \notin Range(two)
      BY <1>4
    <2> QED BY <1>2, <2>1, <2>2, <2>3
  <1> QED BY <1>1, <1>3, <1>4 DEF all

\* What is left of a list without its first entry.
LEMMA TailList ==
    ASSUME NEW S, NEW list \in Seq(S), list # <<>>
    PROVE  /\ Tail(list) \in Seq(S) /\ Range(Tail(list)) \subseteq Range(list)
           /\ Head(list) \in Range(list)
           /\ IsInjective(list) => IsInjective(Tail(list)) /\ Head(list) \notin Range(Tail(list))
  <1> DEFINE rest == Tail(list)
             n == Len(list)
  <1>1. /\ n \in Nat /\ n > 0 /\ DOMAIN list = 1..n /\ DOMAIN rest = 1..(n - 1)
        /\ rest \in Seq(S) /\ Head(list) = list[1]
        /\ \A i \in 1..(n - 1) : rest[i] = list[i + 1]
    BY HeadTailProperties, EmptySeq
  <1> HIDE DEF rest, n
  <1>2. \A i \in 1..(n - 1) : i + 1 \in 1..n
    BY <1>1
  <1>3. Range(rest) \subseteq Range(list)
    BY <1>1, <1>2 DEF Range
  <1>4. ASSUME IsInjective(list) PROVE IsInjective(rest)
    <2> SUFFICES ASSUME NEW i \in 1..(n - 1), NEW j \in 1..(n - 1), rest[i] = rest[j] PROVE i = j
      BY <1>1 DEF IsInjective
    <2>1. list[i + 1] = list[j + 1]
      BY <1>1
    <2>2. i + 1 = j + 1
      BY <1>1, <1>2, <1>4, <2>1 DEF IsInjective
    <2> QED BY <2>2
  <1>5. Head(list) \in Range(list)
    BY <1>1 DEF Range
  <1>6. ASSUME IsInjective(list) PROVE Head(list) \notin Range(rest)
    <2> SUFFICES ASSUME NEW i \in 1..(n - 1), rest[i] = Head(list) PROVE FALSE
      BY <1>1 DEF Range
    <2>1. list[i + 1] = list[1] /\ 1 \in 1..n
      BY <1>1
    <2>2. i + 1 = 1
      BY <1>1, <1>2, <1>6, <2>1 DEF IsInjective
    <2> QED BY <2>2
  <1> QED BY <1>1, <1>3, <1>4, <1>5, <1>6 DEF rest
-----------------------------------------------------------------------------
(* The invariant.                                                          *)

LEMMA InitInv == Init => Inv
  <1> SUFFICES ASSUME Init PROVE Inv
    OBVIOUS
  <1>1. /\ <<>> \in Seq(Sends) /\ Range(<<>>) = {} /\ IsInjective(<<>>)
    BY DEF Range, IsInjective
  <1>2. TypeOK
    BY <1>1, OutgoingAssumption DEF Init, TypeOK
  <1>3. RepliesFit
    BY DEF Init, RepliesFit
  <1>4. OneListEach /\ OnlyClosedReported /\ RoundIsTracked
    BY <1>1 DEF Init, OneListEach, OnlyClosedReported, RoundIsTracked, Reported
  <1>5. Accounted
    BY <1>1 DEF Init, Accounted, Tracked, Reported, Promised
  <1> QED BY <1>2, <1>3, <1>4, <1>5 DEF Inv

\* A send that has not returned is in none of the lists.
LEMMA NotYetListed ==
    ASSUME Inv, NEW s \in Sends, call[s] # "returned"
    PROVE  /\ s \notin Range(pending) /\ s \notin Range(completed) /\ s \notin Range(reported)
           /\ s \notin dropped
  BY DEF Inv, RepliesFit, Accounted, Promised, Tracked, Reported

\* The remote agents move a task on, and settle the response once.
LEMMA RemoteInv ==
    ASSUME Inv, UNCHANGED <<sendVars, pollVars, shownVars>>,
           remote' \in [Sends -> {"none", "open", "closed", "forgotten"}],
           reply' \in [Sends -> {"none", "open", "closed", "refused"}],
           \A s \in Sends : reply[s] # "none" => reply'[s] = reply[s],
           \A s \in Sends : remote[s] \in {"closed", "forgotten"} => remote'[s] \in {"closed", "forgotten"},
           \A s \in Sends : reply'[s] = "closed" => reply[s] = "closed" \/ remote'[s] = "closed"
    PROVE  Inv'
  <1> USE DEF sendVars, pollVars, shownVars
  <1>1. TypeOK'
    BY DEF Inv, TypeOK
  <1>2. RepliesFit'
    BY DEF Inv, TypeOK, RepliesFit
  <1>3. OneListEach' /\ RoundIsTracked'
    BY DEF Inv, OneListEach, RoundIsTracked
  <1>4. \A s \in Sends : Promised(s)' <=> Promised(s)
    BY DEF Inv, RepliesFit, Promised, TypeOK
  <1>5. Accounted'
    BY <1>4 DEF Inv, Accounted, Tracked, Reported
  <1>6. OnlyClosedReported'
    BY DEF Inv, OnlyClosedReported, Reported
  <1> QED BY <1>1, <1>2, <1>3, <1>5, <1>6 DEF Inv

\* The operation goes on without a result.
LEMMA WaitsInv ==
    ASSUME Inv, NEW s \in Sends, call[s] # "returned",
           NEW c \in {"posting", "posting_async", "polling"}, call' = [call EXCEPT ![s] = c],
           NEW n \in 0..MaxTimeout, left' = [left EXCEPT ![s] = n], c = "polling" => n > 0,
           UNCHANGED <<remoteVars, told, pollVars, shownVars>>
    PROVE  Inv'
  <1> USE DEF remoteVars, pollVars, shownVars
  <1>1. TypeOK'
    BY DEF Inv, TypeOK
  <1>2. RepliesFit'
    BY DEF Inv, TypeOK, RepliesFit
  <1>3. OneListEach' /\ RoundIsTracked' /\ OnlyClosedReported'
    BY DEF Inv, OneListEach, RoundIsTracked, OnlyClosedReported, Reported
  <1>4. Accounted'
    BY DEF Inv, Accounted, Tracked, Reported, Promised
  <1> QED BY <1>1, <1>2, <1>3, <1>4 DEF Inv

\* The operation returns with nothing to wait for.
LEMMA GivesUpInv ==
    ASSUME Inv, NEW s \in Sends, call[s] # "returned",
           NEW result \in {"error", "no_task", "async"}, Return(s, result),
           result = "async" => reply[s] = "refused",
           NEW n \in 0..MaxTimeout, left' = [left EXCEPT ![s] = n],
           UNCHANGED <<remoteVars, pollVars, shownVars>>
    PROVE  Inv'
  <1> USE DEF remoteVars, pollVars, shownVars, Return
  <1>1. TypeOK'
    BY DEF Inv, TypeOK
  <1>2. RepliesFit'
    BY DEF Inv, TypeOK, RepliesFit
  <1>3. OneListEach' /\ RoundIsTracked' /\ OnlyClosedReported'
    BY DEF Inv, OneListEach, RoundIsTracked, OnlyClosedReported, Reported
  <1>4. \A x \in Sends : Promised(x)' <=> Promised(x)
    BY DEF Inv, TypeOK, RepliesFit, Promised
  <1>5. \A x \in Sends : told'[x] = "answer" <=> told[x] = "answer"
    BY DEF Inv, TypeOK, RepliesFit
  <1>6. Accounted'
    BY <1>4, <1>5 DEF Inv, Accounted, Tracked, Reported
  <1> QED BY <1>1, <1>2, <1>3, <1>6 DEF Inv

\* The operation returns with the answer.
LEMMA AnswersInv ==
    ASSUME Inv, NEW s \in Sends, call[s] # "returned", Return(s, "answer"),
           remote[s] \in {"closed", "forgotten"}, reported' = Append(reported, s),
           NEW n \in 0..MaxTimeout, left' = [left EXCEPT ![s] = n],
           UNCHANGED <<remoteVars, pollVars, dropped>>
    PROVE  Inv'
  <1> USE DEF remoteVars, pollVars, Return
  <1>1. /\ reported' \in Seq(Sends) /\ Range(reported') = Range(reported) \union {s}
        /\ IsInjective(reported')
    BY AppendList, NotYetListed DEF Inv, TypeOK, OneListEach
  <1>2. TypeOK'
    BY <1>1 DEF Inv, TypeOK
  <1>3. RepliesFit'
    BY DEF Inv, TypeOK, RepliesFit
  <1>4. OneListEach'
    BY <1>1, NotYetListed DEF Inv, OneListEach
  <1>5. RoundIsTracked' /\ OnlyClosedReported'
    BY <1>1 DEF Inv, RoundIsTracked, OnlyClosedReported, Reported
  <1>6. Accounted'
    <2>1. ASSUME NEW x \in Sends, x # s
          PROVE  (Promised(x)' <=> Promised(x)) /\ told'[x] = told[x] /\ (Reported(x)' <=> Reported(x))
      BY <1>1, <2>1 DEF Inv, TypeOK, Promised, Reported
    <2>2. told'[s] = "answer" /\ Reported(s)'
      BY <1>1 DEF Inv, TypeOK, Reported
    <2> QED BY <2>1, <2>2 DEF Inv, Accounted, Tracked
  <1> QED BY <1>2, <1>3, <1>4, <1>5, <1>6 DEF Inv

\* The operation returns with a promise, and the poller watches the task.
LEMMA TracksInv ==
    ASSUME Inv, NEW s \in Sends, call[s] # "returned", NEW result \in {"task", "async", "timeout"},
           Return(s, result), result = "async" => reply[s] = "open", Track(s),
           NEW n \in 0..MaxTimeout, left' = [left EXCEPT ![s] = n],
           UNCHANGED <<remoteVars, completed, todo, running, shownVars>>
    PROVE  Inv'
  <1> USE DEF remoteVars, shownVars, Return, Track
  <1>1. /\ pending' \in Seq(Sends) /\ Range(pending') = Range(pending) \union {s}
        /\ IsInjective(pending')
    BY AppendList, NotYetListed DEF Inv, TypeOK, OneListEach
  <1>2. TypeOK'
    BY <1>1 DEF Inv, TypeOK
  <1>3. RepliesFit'
    BY DEF Inv, TypeOK, RepliesFit
  <1>4. OneListEach'
    BY <1>1, NotYetListed DEF Inv, OneListEach
  <1>5. RoundIsTracked' /\ OnlyClosedReported'
    BY <1>1 DEF Inv, RoundIsTracked, OnlyClosedReported, Reported
  <1>6. Accounted'
    <2>1. ASSUME NEW x \in Sends, x # s
          PROVE  (Promised(x)' <=> Promised(x)) /\ told'[x] = told[x] /\ (Tracked(x)' <=> Tracked(x))
      BY <1>1, <2>1 DEF Inv, TypeOK, Promised, Tracked
    <2>2. Promised(s)' /\ Tracked(s)'
      BY <1>1 DEF Inv, TypeOK, Promised, Tracked
    <2> QED BY <2>1, <2>2 DEF Inv, Accounted, Reported
  <1> QED BY <1>2, <1>3, <1>4, <1>5, <1>6 DEF Inv

\* The poller's round moves on, or ends.
LEMMA RoundInv ==
    ASSUME Inv, todo' \in Seq(Sends), Range(todo') \subseteq Range(pending), IsInjective(todo'),
           running' \in BOOLEAN, UNCHANGED <<remoteVars, sendVars, pending, completed, shownVars>>
    PROVE  Inv'
  <1> USE DEF remoteVars, sendVars, shownVars
  <1>1. TypeOK' /\ RepliesFit' /\ OneListEach' /\ OnlyClosedReported' /\ RoundIsTracked'
    BY DEF Inv, TypeOK, RepliesFit, OneListEach, OnlyClosedReported, RoundIsTracked, Reported
  <1>2. Accounted'
    BY DEF Inv, Accounted, Tracked, Reported, Promised
  <1> QED BY <1>1, <1>2 DEF Inv

\* A watched task that is closed changes from one list to the other.
LEMMA PollAnswerInv ==
    ASSUME Inv, NEW s \in Sends, PollAnswer(s)
    PROVE  /\ Inv'
           /\ Range(pending') \union Range(completed') = Range(pending) \union Range(completed)
  <1> USE DEF remoteVars, sendVars, shownVars
  <1>1. PICK k \in DOMAIN pending : pending[k] = s /\ pending' = RemoveAt(pending, k)
    BY DEF PollAnswer
  <1>2. /\ remote[s] = "closed" /\ todo # <<>> /\ s = Head(todo)
        /\ completed' = Append(completed, s) /\ todo' = Tail(todo)
        /\ UNCHANGED <<remoteVars, sendVars, running, shownVars>>
    BY DEF PollAnswer, IsNext
  <1>3. /\ pending' \in Seq(Sends) /\ Range(pending') = Range(pending) \ {s}
        /\ IsInjective(pending')
    BY <1>1, ShorterList DEF Inv, TypeOK, OneListEach
  <1>4. s \in Range(pending)
    BY <1>1 DEF Range
  <1>5. /\ completed' \in Seq(Sends) /\ Range(completed') = Range(completed) \union {s}
        /\ IsInjective(completed')
    BY <1>2, <1>4, AppendList DEF Inv, TypeOK, OneListEach
  <1>6. /\ todo' \in Seq(Sends) /\ Range(todo') \subseteq Range(todo) \ {s} /\ IsInjective(todo')
    BY <1>2, TailList DEF Inv, TypeOK, RoundIsTracked
  <1>7. TypeOK' /\ RepliesFit'
    BY <1>2, <1>3, <1>5, <1>6 DEF Inv, TypeOK, RepliesFit
  <1>8. OneListEach'
    BY <1>2, <1>3, <1>4, <1>5 DEF Inv, OneListEach
  <1>9. RoundIsTracked' /\ OnlyClosedReported'
    BY <1>2, <1>3, <1>5, <1>6 DEF Inv, RoundIsTracked, OnlyClosedReported, Reported
  <1>10. Range(pending') \union Range(completed') = Range(pending) \union Range(completed)
    BY <1>3, <1>4, <1>5
  <1>11. Accounted'
    BY <1>2, <1>10 DEF Inv, Accounted, Tracked, Reported, Promised
  <1> QED BY <1>7, <1>8, <1>9, <1>10, <1>11 DEF Inv

\* What the hook drains is shown, or lost with a malformed answer among it.
LEMMA DeliverInv ==
    ASSUME Inv, Deliver
    PROVE  /\ Inv'
           /\ Range(completed') = {} /\ UNCHANGED <<told, pending>>
           /\ \/ Range(reported') = Range(reported) \union Range(completed) /\ UNCHANGED dropped
              \/ UNCHANGED reported /\ dropped' = dropped \union Range(completed)
  <1> USE DEF remoteVars, sendVars
  <1>1. completed' = <<>> /\ UNCHANGED <<remoteVars, sendVars, pending, todo, running>>
    BY DEF Deliver
  <1>2. <<>> \in Seq(Sends) /\ Range(<<>>) = {} /\ IsInjective(<<>>)
    BY DEF Range, IsInjective
  <1>3. Range(completed) \subseteq Sends
    BY RangeEquality, LenProperties DEF Inv, TypeOK, Range
  <1>4. CASE Range(completed) \cap Malformed = {} /\ reported' = reported \o completed /\ UNCHANGED dropped
    <2>1. /\ reported' \in Seq(Sends) /\ Range(reported') = Range(reported) \union Range(completed)
          /\ IsInjective(reported')
      BY <1>4, JoinedList DEF Inv, TypeOK, OneListEach
    <2>2. TypeOK' /\ RepliesFit'
      BY <1>1, <1>2, <1>4, <2>1 DEF Inv, TypeOK, RepliesFit
    <2>3. OneListEach'
      BY <1>1, <1>2, <1>4, <2>1 DEF Inv, OneListEach
    <2>4. RoundIsTracked' /\ OnlyClosedReported'
      BY <1>1, <1>2, <1>4, <2>1 DEF Inv, RoundIsTracked, OnlyClosedReported, Reported
    <2>5. Accounted'
      BY <1>1, <1>2, <1>4, <2>1 DEF Inv, Accounted, Tracked, Reported, Promised
    <2> QED BY <1>1, <1>2, <1>4, <2>1, <2>2, <2>3, <2>4, <2>5 DEF Inv
  <1>5. CASE Range(completed) \cap Malformed # {} /\ dropped' = dropped \union Range(completed) /\ UNCHANGED reported
    <2>1. TypeOK' /\ RepliesFit'
      BY <1>1, <1>2, <1>3, <1>5 DEF Inv, TypeOK, RepliesFit
    <2>2. OneListEach'
      BY <1>1, <1>2, <1>5 DEF Inv, OneListEach
    <2>3. RoundIsTracked' /\ OnlyClosedReported'
      BY <1>1, <1>2, <1>5 DEF Inv, RoundIsTracked, OnlyClosedReported, Reported
    <2>4. Accounted'
      BY <1>1, <1>2, <1>5 DEF Inv, Accounted, Tracked, Reported, Promised
    <2> QED BY <1>1, <1>2, <1>5, <2>1, <2>2, <2>3, <2>4 DEF Inv
  <1> QED BY <1>4, <1>5 DEF Deliver

-----------------------------------------------------------------------------
(* One step for each disjunct of Next.                                     *)

LEMMA RemoteStepInv ==
    ASSUME Inv, NEW s \in Sends, Remote(s)
    PROVE  Inv'
  <1>1. CASE RemoteAccepts(s)
    <2>1. CASE UNCHANGED reply
      BY <1>1, <2>1, RemoteInv DEF RemoteAccepts, Inv, TypeOK
    <2>2. CASE reply' = [reply EXCEPT ![s] = "open"]
      BY <1>1, <2>2, RemoteInv DEF RemoteAccepts, Inv, TypeOK
    <2> QED BY <1>1, <2>1, <2>2 DEF RemoteAccepts
  <1>2. CASE RemoteReplies(s)
    BY <1>2, RemoteInv DEF RemoteReplies, Inv, TypeOK
  <1>3. CASE RemoteRefuses(s)
    BY <1>3, RemoteInv DEF RemoteRefuses, Inv, TypeOK
  <1>4. CASE RemoteCloses(s)
    BY <1>4, RemoteInv DEF RemoteCloses, Inv, TypeOK
  <1> QED BY <1>1, <1>2, <1>3, <1>4 DEF Remote

LEMMA RestartInv ==
    ASSUME Inv, NEW a \in Agents, AgentRestarts(a)
    PROVE  Inv'
  BY RemoteInv DEF AgentRestarts, Inv, TypeOK

\* Polls left: what the operation counts down from stays in its bounds.
LEMMA LeftTyping == ASSUME Inv, NEW s \in Sends
                    PROVE  /\ left[s] \in 0..MaxTimeout /\ left = [left EXCEPT ![s] = left[s]]
                           /\ left[s] > 0 => left[s] - 1 \in 0..MaxTimeout
  BY OutgoingAssumption DEF Inv, TypeOK

LEMMA SendInv ==
    ASSUME Inv, NEW s \in Sends, NEW blocking \in BOOLEAN, NEW timeout \in 0..MaxTimeout,
           Send(s, blocking, timeout)
    PROVE  Inv'
  <1>1. CASE blocking /\ ~IsAsync(s)
    BY <1>1, WaitsInv DEF Send
  <1>2. CASE ~(blocking /\ ~IsAsync(s))
    BY <1>2, WaitsInv, LeftTyping DEF Send
  <1> QED BY <1>1, <1>2

\* The results of the operation, one case for each way it ends or goes on.
LEMMA SendStepInv ==
    ASSUME Inv, NEW s \in Sends, SendStep(s)
    PROVE  Inv'
  <1>1. CASE PostFails(s)
    BY <1>1, GivesUpInv, LeftTyping DEF PostFails
  <1>2. CASE PostReturnsAnswer(s)
    <2>1. remote[s] \in {"closed", "forgotten"}
      BY <1>2 DEF PostReturnsAnswer, Inv, RepliesFit
    <2> QED BY <1>2, <2>1, AnswersInv, LeftTyping DEF PostReturnsAnswer
  <1>3. CASE PostReturnsNoTask(s)
    BY <1>3, GivesUpInv, LeftTyping DEF PostReturnsNoTask
  <1>4. CASE PostReturnsOpenTask(s)
    BY <1>4, TracksInv, LeftTyping DEF PostReturnsOpenTask
  <1>5. CASE PostStartsPolling(s)
    <2>1. CASE left[s] > 0
      BY <1>5, <2>1, WaitsInv, LeftTyping DEF PostStartsPolling, pollVars
    <2>2. CASE ~(left[s] > 0)
      BY <1>5, <2>2, TracksInv, LeftTyping DEF PostStartsPolling
    <2> QED BY <2>1, <2>2
  <1>6. ASSUME call[s] = "polling", CountPoll(s)
        PROVE  left[s] - 1 \in 0..MaxTimeout /\ left' = [left EXCEPT ![s] = left[s] - 1]
    BY <1>6, LeftTyping DEF CountPoll, Inv, RepliesFit
  <1>7. CASE ForegroundAnswer(s)
    BY <1>6, <1>7, AnswersInv DEF ForegroundAnswer
  <1>8. CASE ForegroundNoAnswer(s)
    <2>1. CASE left[s] > 1
      <3>1. /\ call[s] = "polling" /\ call = [call EXCEPT ![s] = "polling"]
            /\ left[s] - 1 \in 0..MaxTimeout /\ left[s] - 1 > 0
            /\ left' = [left EXCEPT ![s] = left[s] - 1]
        BY <1>6, <1>8, <2>1, LeftTyping DEF ForegroundNoAnswer, Inv, TypeOK
      <3>2. UNCHANGED <<call, remoteVars, told, pollVars, shownVars>>
        BY <1>8, <2>1 DEF ForegroundNoAnswer, pollVars
      <3> QED BY <3>1, <3>2, WaitsInv
    <2>2. CASE ~(left[s] > 1)
      BY <1>6, <1>8, <2>2, TracksInv DEF ForegroundNoAnswer
    <2> QED BY <2>1, <2>2
  <1>9. CASE ForegroundError(s)
    BY <1>6, <1>9, GivesUpInv DEF ForegroundError
  <1> QED BY <1>1, <1>2, <1>3, <1>4, <1>5, <1>7, <1>8, <1>9 DEF SendStep

LEMMA PollerInv ==
    ASSUME Inv, Wake \/ StopPoller \/ \E s \in Sends : PollNoAnswer(s) \/ PollError(s)
    PROVE  Inv'
  <1>1. <<>> \in Seq(Sends) /\ Range(<<>>) = {} /\ IsInjective(<<>>)
    BY DEF Range, IsInjective
  <1>2. CASE Wake
    BY <1>2, RoundInv DEF Wake, Inv, TypeOK, OneListEach
  <1>3. CASE StopPoller
    BY <1>1, <1>3, RoundInv DEF StopPoller
  <1>4. ASSUME NEW s \in Sends, PollNoAnswer(s) PROVE Inv'
    <2>1. todo # <<>> /\ todo' = Tail(todo)
      BY <1>4 DEF PollNoAnswer, IsNext
    <2>2. todo' \in Seq(Sends) /\ Range(todo') \subseteq Range(pending) /\ IsInjective(todo')
      BY <2>1, TailList DEF Inv, TypeOK, RoundIsTracked
    <2> QED BY <1>4, <2>2, RoundInv DEF PollNoAnswer, Inv, TypeOK
  <1>5. ASSUME NEW s \in Sends, PollError(s) PROVE Inv'
    BY <1>1, <1>5, RoundInv DEF PollError, Inv, TypeOK
  <1> QED BY <1>2, <1>3, <1>4, <1>5

LEMMA NextInv == Inv /\ [Next]_vars => Inv'
  <1> SUFFICES ASSUME Inv, [Next]_vars PROVE Inv'
    OBVIOUS
  <1>1. CASE UNCHANGED vars
    <2>1. UNCHANGED <<remote, reply, call, left, told, pending, completed, todo, running, reported, dropped>>
      BY <1>1 DEF vars, remoteVars, sendVars, pollVars, shownVars
    <2> QED BY <2>1, RemoteInv DEF Inv, TypeOK, sendVars, pollVars, shownVars
  <1> QED BY <1>1, RemoteStepInv, RestartInv, SendInv, SendStepInv, PollAnswerInv, PollerInv,
             DeliverInv DEF Next, PollStep

\* The invariant holds for any number of sends and agents.
THEOREM InvAlways == Spec => []Inv
  BY InitInv, NextInv, PTL DEF Spec

\* Every variable keeps its type.
THEOREM TypeCorrect == Spec => []TypeOK
  <1>1. Inv => TypeOK
    BY DEF Inv
  <1> QED BY <1>1, InvAlways, PTL

\* No answer and no watched task goes missing, whatever agents, poller and hook
\* do, but in a reminder that could not be built.
THEOREM AlwaysAccounted == Spec => []Accounted
  <1>1. Inv => Accounted
    BY DEF Inv
  <1> QED BY <1>1, InvAlways, PTL

\* The session sees each answer once.
THEOREM AlwaysReportedOnce == Spec => []ReportedOnce
  <1>1. Inv => ReportedOnce
    <2> SUFFICES ASSUME Inv PROVE ReportedOnce
      OBVIOUS
    <2>1. /\ reported \in Seq(Sends) /\ completed \in Seq(Sends) /\ pending \in Seq(Sends)
          /\ OneListEach
      BY DEF Inv, TypeOK
    <2>2. /\ reported \o completed \in Seq(Sends)
          /\ Range(reported \o completed) = Range(reported) \union Range(completed)
          /\ IsInjective(reported \o completed)
      BY <2>1, JoinedList DEF OneListEach
    <2>3. IsInjective((reported \o completed) \o pending)
      BY <2>1, <2>2, JoinedList DEF OneListEach
    <2>4. \A s \in dropped : ~Tracked(s) /\ ~Reported(s)
      BY <2>1 DEF OneListEach, Tracked, Reported
    <2> QED BY <2>3, <2>4 DEF ReportedOnce
  <1> QED BY <1>1, InvAlways, PTL

\* Only a task its agent has closed is reported.
THEOREM OnlyClosedReportedAlways == Spec => []OnlyClosedReported
  <1>1. Inv => OnlyClosedReported
    BY DEF Inv
  <1> QED BY <1>1, InvAlways, PTL

\* What is left of a round is watched.
THEOREM RoundAlwaysTracked == Spec => []RoundIsTracked
  <1>1. Inv => RoundIsTracked
    BY DEF Inv
  <1> QED BY <1>1, InvAlways, PTL

-----------------------------------------------------------------------------
(* The sending half does what AnswerDelivery says.                         *)

DeliveryPhases == [s \in Sends |-> PhaseOf(s)]

\* A phase tells which lists a send is in.
LEMMA PhaseMeaning ==
    ASSUME Inv, NEW s \in Sends
    PROVE  /\ call[s] # "returned" => PhaseOf(s) = "undecided"
           /\ Tracked(s) => PhaseOf(s) = "owed"
           /\ PhaseOf(s) \in {"undecided", "owed", "answered", "given_up"}
  <1>1. Tracked(s) => ~Reported(s)
    BY DEF Inv, OneListEach, Tracked, Reported
  <1>2. call[s] # "returned" => ~Tracked(s) /\ ~Reported(s) /\ s \notin dropped /\ told[s] = "nothing"
    BY NotYetListed DEF Inv, RepliesFit, Tracked, Reported
  <1> QED BY <1>1, <1>2 DEF PhaseOf

\* A step that changes neither lists nor results changes no phase.
LEMMA SamePhases ==
    ASSUME UNCHANGED told, UNCHANGED dropped, UNCHANGED reported,
           Range(pending') \union Range(completed') = Range(pending) \union Range(completed)
    PROVE  UNCHANGED DeliveryPhases
  <1>1. \A s \in Sends : (Tracked(s)' <=> Tracked(s)) /\ (Reported(s)' <=> Reported(s))
    BY DEF Tracked, Reported
  <1> QED BY <1>1 DEF DeliveryPhases, PhaseOf

\* A step of the operation decides about its own send at most.
LEMMA SendStepRefines ==
    ASSUME Inv, Inv', NEW s \in Sends, SendStep(s)
    PROVE  Delivery!Decide(s) \/ UNCHANGED DeliveryPhases
  <1>1. call[s] # "returned" /\ UNCHANGED completed /\ UNCHANGED dropped
    BY DEF SendStep, PostFails, PostReturnsAnswer, PostReturnsNoTask, PostReturnsOpenTask,
           PostStartsPolling, ForegroundAnswer, ForegroundNoAnswer, ForegroundError,
           pollVars, shownVars
  <1>2. \/ UNCHANGED <<told, pending, reported>>
        \/ /\ \E result \in {"error", "no_task", "async", "answer", "task", "timeout"} :
                Return(s, result)
           /\ \/ UNCHANGED <<pending, reported>>
              \/ pending' = Append(pending, s) /\ UNCHANGED reported
              \/ reported' = Append(reported, s) /\ UNCHANGED pending
    BY DEF SendStep, PostFails, PostReturnsAnswer, PostReturnsNoTask, PostReturnsOpenTask,
           PostStartsPolling, ForegroundAnswer, ForegroundNoAnswer, ForegroundError,
           pollVars, shownVars, Track
  <1>3. CASE UNCHANGED <<told, pending, reported>>
    BY <1>1, <1>3, SamePhases
  <1>4. ASSUME NEW result \in {"error", "no_task", "async", "answer", "task", "timeout"},
               Return(s, result),
               \/ UNCHANGED <<pending, reported>>
               \/ pending' = Append(pending, s) /\ UNCHANGED reported
               \/ reported' = Append(reported, s) /\ UNCHANGED pending
        PROVE  Delivery!Decide(s)
    <2>1. told' = [told EXCEPT ![s] = result] /\ call' = [call EXCEPT ![s] = "returned"]
      BY <1>4 DEF Return
    <2>2. /\ Range(pending') \subseteq Range(pending) \union {s}
          /\ Range(pending) \subseteq Range(pending')
          /\ Range(reported') \subseteq Range(reported) \union {s}
          /\ Range(reported) \subseteq Range(reported')
      <3>1. /\ Range(Append(pending, s)) = Range(pending) \union {s}
            /\ Range(Append(reported, s)) = Range(reported) \union {s}
        BY AppendList DEF Inv, TypeOK
      <3>2. CASE UNCHANGED <<pending, reported>>
        BY <3>2
      <3>3. CASE pending' = Append(pending, s) /\ UNCHANGED reported
        BY <3>1, <3>3
      <3>4. CASE reported' = Append(reported, s) /\ UNCHANGED pending
        BY <3>1, <3>4
      <3> QED BY <1>4, <3>2, <3>3, <3>4
    <2>3. ASSUME NEW x \in Sends, x # s PROVE PhaseOf(x)' = PhaseOf(x)
      <3>1. told'[x] = told[x]
        BY <2>1, <2>3 DEF Inv, TypeOK
      <3>2. (Tracked(x)' <=> Tracked(x)) /\ (Reported(x)' <=> Reported(x))
        BY <1>1, <2>2, <2>3 DEF Tracked, Reported
      <3> QED BY <1>1, <3>1, <3>2 DEF PhaseOf
    <2>4. PhaseOf(s) = "undecided"
      BY <1>1, PhaseMeaning
    <2>5. PhaseOf(s)' \in {"owed", "answered", "given_up"}
      <3>1. told'[s] = result
        BY <2>1 DEF Inv, TypeOK
      <3>2. (Tracked(s)' \/ Reported(s)' \/ s \in dropped') <=> (Promised(s)' \/ told'[s] = "answer")
        BY DEF Inv, Accounted
      <3> QED BY <1>4, <3>1, <3>2 DEF PhaseOf, Promised
    <2>6. DeliveryPhases' = [DeliveryPhases EXCEPT ![s] = PhaseOf(s)']
      BY <2>3 DEF DeliveryPhases
    <2> QED BY <2>4, <2>5, <2>6 DEF Delivery!Decide, DeliveryPhases
  <1> QED BY <1>2, <1>3, <1>4

\* What the hook shows was owed; what it loses stays owed.
LEMMA DeliverRefines ==
    ASSUME Inv, Deliver
    PROVE  Delivery!AnswerOwed(Range(completed)) \/ UNCHANGED DeliveryPhases
  <1>1. Range(completed') = {} /\ UNCHANGED <<told, pending>>
    BY DeliverInv
  <1>2. CASE Range(reported') = Range(reported) \union Range(completed) /\ UNCHANGED dropped
    <2>1. \A s \in Sends : s \in Range(completed) => PhaseOf(s) = "owed" /\ PhaseOf(s)' = "answered"
      BY <1>2, PhaseMeaning DEF Tracked, Reported, PhaseOf
    <2>2. \A s \in Sends : s \notin Range(completed) => PhaseOf(s)' = PhaseOf(s)
      BY <1>1, <1>2 DEF Tracked, Reported, PhaseOf
    <2>3. Range(completed) \subseteq Sends
      BY RangeEquality, LenProperties DEF Inv, TypeOK, Range
    <2> QED BY <2>1, <2>2, <2>3 DEF Delivery!AnswerOwed, DeliveryPhases
  <1>3. CASE UNCHANGED reported /\ dropped' = dropped \union Range(completed)
    <2>1. \A s \in Sends : (Tracked(s)' \/ s \in dropped') <=> (Tracked(s) \/ s \in dropped)
      BY <1>1, <1>3 DEF Tracked
    <2>2. \A s \in Sends : PhaseOf(s)' = PhaseOf(s)
      BY <1>1, <1>3, <2>1 DEF PhaseOf, Reported
    <2> QED BY <2>2 DEF DeliveryPhases
  <1> QED BY <1>2, <1>3, DeliverInv

LEMMA NextRefines == ASSUME Inv, Inv', [Next]_vars PROVE [Delivery!Next]_DeliveryPhases
  <1>1. ASSUME NEW s \in Sends, SendStep(s) PROVE [Delivery!Next]_DeliveryPhases
    BY <1>1, SendStepRefines DEF Delivery!Next
  <1>2. ASSUME NEW s \in Sends, PollAnswer(s) PROVE UNCHANGED DeliveryPhases
    BY <1>2, PollAnswerInv, SamePhases DEF PollAnswer, sendVars, shownVars
  <1>3. CASE Deliver
    <2>1. Range(completed) \subseteq Sends
      BY RangeEquality, LenProperties DEF Inv, TypeOK, Range
    <2> QED BY <1>3, <2>1, DeliverRefines DEF Delivery!Next
  <1>4. CASE UNCHANGED <<told, pollVars, shownVars>>
    BY <1>4, SamePhases DEF pollVars, shownVars
  <1>5. CASE UNCHANGED <<told, pending, completed, shownVars>>
    BY <1>5, SamePhases DEF shownVars
  <1>6. ASSUME NEW s \in Sends, Remote(s) PROVE UNCHANGED <<told, pollVars, shownVars>>
    BY <1>6 DEF Remote, RemoteAccepts, RemoteReplies, RemoteRefuses, RemoteCloses, sendVars
  <1>7. ASSUME NEW a \in Agents, AgentRestarts(a) PROVE UNCHANGED <<told, pollVars, shownVars>>
    BY <1>7 DEF AgentRestarts, sendVars
  <1>8. ASSUME NEW s \in Sends, NEW blocking \in BOOLEAN, NEW timeout \in 0..MaxTimeout,
               Send(s, blocking, timeout)
        PROVE  UNCHANGED <<told, pollVars, shownVars>>
    BY <1>8 DEF Send
  <1>9. ASSUME Wake \/ StopPoller \/ \E s \in Sends : PollNoAnswer(s) \/ PollError(s)
        PROVE  UNCHANGED <<told, pending, completed, shownVars>>
    BY <1>9 DEF Wake, StopPoller, PollNoAnswer, PollError, sendVars
  <1>10. CASE UNCHANGED vars
    BY <1>10, <1>4 DEF vars, sendVars
  <1> QED BY <1>1, <1>2, <1>3, <1>4, <1>5, <1>6, <1>7, <1>8, <1>9, <1>10 DEF Next, PollStep

\* The operation, the poller and the hook together implement AnswerDelivery, for
\* any number of sends and agents: what is owed is given once, what is given up
\* is not answered.
THEOREM DeliveryImplemented == Spec => DeliverySpec
  <1>1. Init => Delivery!Init
    <2> SUFFICES ASSUME Init PROVE Delivery!Init
      OBVIOUS
    <2>1. Inv /\ \A s \in Sends : call[s] = "idle"
      BY InitInv DEF Init
    <2>2. \A s \in Sends : PhaseOf(s) = "undecided"
      BY <2>1, PhaseMeaning
    <2> QED BY <2>2 DEF Delivery!Init
  <1>2. Inv /\ Inv' /\ [Next]_vars => [Delivery!Next]_DeliveryPhases
    BY NextRefines
  <1> QED BY <1>1, <1>2, InvAlways, PTL DEF Spec, DeliverySpec, Delivery!Spec, DeliveryPhases
=============================================================================
