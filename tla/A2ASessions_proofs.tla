------------------------- MODULE A2ASessions_proofs -------------------------
(***************************************************************************)
(* The safety properties of A2ASessions for any number of sessions and     *)
(* entries, from the inductive invariant Inv.                              *)
(***************************************************************************)
EXTENDS A2ASessions, TLAPS

\* A mount is a session with one of two kinds.
LEMMA MountsTyping ==
    /\ \A s \in Sessions : <<s, "probe">> \in Mounts /\ <<s, "real">> \in Mounts
    /\ \A i \in Mounts : i[1] \in Sessions /\ i[2] \in {"probe", "real"} /\ i = <<i[1], i[2]>>
  BY DEF Mounts

\* Free is told from every mount by its second component.
LEMMA FreeIsNoMount == Free \notin Mounts
  BY DEF Free, Mounts

\* Nothing is mounted at first.
LEMMA InitInv == Init => Inv
  BY FreeIsNoMount, MountsTyping DEF Init, Inv, TypeOK, Stages, PortFollowsStage,
     AdvertFollowsStage, ProbeComesFirst, FlagFollowsStage, ListsAreCurrent, HoldsLists,
     LostOnlyToOverlap

\* Load keeps the invariant.
LEMMA LoadInv == ASSUME Inv, NEW i \in Mounts, Load(i) PROVE Inv'
  <1> USE FreeIsNoMount, MountsTyping DEF Inv, Load, MayLoad, GoTo
  <1>1. TypeOK'
    BY DEF TypeOK, Stages
  <1>2. PortFollowsStage'
    BY DEF TypeOK, PortFollowsStage
  <1>3. AdvertFollowsStage'
    BY DEF TypeOK, AdvertFollowsStage, PortFollowsStage
  <1>4. ProbeComesFirst'
    BY DEF TypeOK, ProbeComesFirst
  <1>5. FlagFollowsStage'
    BY DEF TypeOK, FlagFollowsStage
  <1>6. ListsAreCurrent'
    BY DEF TypeOK, ListsAreCurrent, HoldsLists, ProbeComesFirst, PortFollowsStage, LostOnlyToOverlap
  <1>7. LostOnlyToOverlap'
    BY DEF TypeOK, LostOnlyToOverlap, ListsAreCurrent, HoldsLists, PortFollowsStage
  <1> QED BY <1>1, <1>2, <1>3, <1>4, <1>5, <1>6, <1>7

\* StartServer keeps the invariant.
LEMMA StartServerInv == ASSUME Inv, NEW i \in Mounts, StartServer(i) PROVE Inv'
  <1> USE FreeIsNoMount, MountsTyping DEF Inv, StartServer, GoTo
  <1>1. TypeOK'
    BY DEF TypeOK, Stages
  <1>2. PortFollowsStage'
    BY DEF TypeOK, PortFollowsStage
  <1>3. AdvertFollowsStage'
    BY DEF TypeOK, AdvertFollowsStage, PortFollowsStage
  <1>4. ProbeComesFirst'
    BY DEF TypeOK, ProbeComesFirst
  <1>5. FlagFollowsStage'
    BY DEF TypeOK, FlagFollowsStage
  <1>6. ListsAreCurrent'
    BY DEF TypeOK, ListsAreCurrent, HoldsLists, ProbeComesFirst, PortFollowsStage, LostOnlyToOverlap
  <1>7. LostOnlyToOverlap'
    BY DEF TypeOK, LostOnlyToOverlap, ListsAreCurrent, HoldsLists, PortFollowsStage
  <1> QED BY <1>1, <1>2, <1>3, <1>4, <1>5, <1>6, <1>7

\* StartServerFails keeps the invariant.
LEMMA StartServerFailsInv == ASSUME Inv, NEW i \in Mounts, StartServerFails(i) PROVE Inv'
  <1> USE FreeIsNoMount, MountsTyping DEF Inv, StartServerFails, GoTo
  <1>1. TypeOK'
    BY DEF TypeOK, Stages
  <1>2. PortFollowsStage'
    BY DEF TypeOK, PortFollowsStage
  <1>3. AdvertFollowsStage'
    BY DEF TypeOK, AdvertFollowsStage, PortFollowsStage
  <1>4. ProbeComesFirst'
    BY DEF TypeOK, ProbeComesFirst
  <1>5. FlagFollowsStage'
    BY DEF TypeOK, FlagFollowsStage
  <1>6. ListsAreCurrent'
    BY DEF TypeOK, ListsAreCurrent, HoldsLists, ProbeComesFirst, PortFollowsStage, LostOnlyToOverlap
  <1>7. LostOnlyToOverlap'
    BY DEF TypeOK, LostOnlyToOverlap, ListsAreCurrent, HoldsLists, PortFollowsStage
  <1> QED BY <1>1, <1>2, <1>3, <1>4, <1>5, <1>6, <1>7

\* Advertise keeps the invariant.
LEMMA AdvertiseInv == ASSUME Inv, NEW i \in Mounts, Advertise(i) PROVE Inv'
  <1> USE FreeIsNoMount, MountsTyping DEF Inv, Advertise, GoTo
  <1>1. TypeOK'
    BY DEF TypeOK, Stages
  <1>2. PortFollowsStage'
    BY DEF TypeOK, PortFollowsStage
  <1>3. AdvertFollowsStage'
    BY DEF TypeOK, AdvertFollowsStage, PortFollowsStage
  <1>4. ProbeComesFirst'
    BY DEF TypeOK, ProbeComesFirst
  <1>5. FlagFollowsStage'
    BY DEF TypeOK, FlagFollowsStage
  <1>6. ListsAreCurrent'
    BY DEF TypeOK, ListsAreCurrent, HoldsLists, ProbeComesFirst, PortFollowsStage, LostOnlyToOverlap
  <1>7. LostOnlyToOverlap'
    BY DEF TypeOK, LostOnlyToOverlap, ListsAreCurrent, HoldsLists, PortFollowsStage
  <1> QED BY <1>1, <1>2, <1>3, <1>4, <1>5, <1>6, <1>7

\* Withdraw keeps the invariant.
LEMMA WithdrawInv == ASSUME Inv, NEW i \in Mounts, Withdraw(i) PROVE Inv'
  <1> USE FreeIsNoMount, MountsTyping DEF Inv, Withdraw, GoTo
  <1>1. TypeOK'
    BY DEF TypeOK, Stages
  <1>2. PortFollowsStage'
    BY DEF TypeOK, PortFollowsStage
  <1>3. AdvertFollowsStage'
    BY DEF TypeOK, AdvertFollowsStage, PortFollowsStage
  <1>4. ProbeComesFirst'
    BY DEF TypeOK, ProbeComesFirst
  <1>5. FlagFollowsStage'
    BY DEF TypeOK, FlagFollowsStage
  <1>6. ListsAreCurrent'
    BY DEF TypeOK, ListsAreCurrent, HoldsLists, ProbeComesFirst, PortFollowsStage, LostOnlyToOverlap
  <1>7. LostOnlyToOverlap'
    BY DEF TypeOK, LostOnlyToOverlap, ListsAreCurrent, HoldsLists, PortFollowsStage
  <1> QED BY <1>1, <1>2, <1>3, <1>4, <1>5, <1>6, <1>7

\* WithdrawFails keeps the invariant.
LEMMA WithdrawFailsInv == ASSUME Inv, NEW i \in Mounts, WithdrawFails(i) PROVE Inv'
  <1> USE FreeIsNoMount, MountsTyping DEF Inv, WithdrawFails, GoTo
  <1>1. TypeOK'
    BY DEF TypeOK, Stages
  <1>2. PortFollowsStage'
    BY DEF TypeOK, PortFollowsStage
  <1>3. AdvertFollowsStage'
    BY DEF TypeOK, AdvertFollowsStage, PortFollowsStage
  <1>4. ProbeComesFirst'
    BY DEF TypeOK, ProbeComesFirst
  <1>5. FlagFollowsStage'
    BY DEF TypeOK, FlagFollowsStage
  <1>6. ListsAreCurrent'
    BY DEF TypeOK, ListsAreCurrent, HoldsLists, ProbeComesFirst, PortFollowsStage, LostOnlyToOverlap
  <1>7. LostOnlyToOverlap'
    BY DEF TypeOK, LostOnlyToOverlap, ListsAreCurrent, HoldsLists, PortFollowsStage
  <1> QED BY <1>1, <1>2, <1>3, <1>4, <1>5, <1>6, <1>7

\* StopServer keeps the invariant.
LEMMA StopServerInv == ASSUME Inv, NEW i \in Mounts, StopServer(i) PROVE Inv'
  <1> USE FreeIsNoMount, MountsTyping DEF Inv, StopServer, GoTo
  <1>1. TypeOK'
    BY DEF TypeOK, Stages
  <1>2. PortFollowsStage'
    BY DEF TypeOK, PortFollowsStage
  <1>3. AdvertFollowsStage'
    BY DEF TypeOK, AdvertFollowsStage, PortFollowsStage
  <1>4. ProbeComesFirst'
    BY DEF TypeOK, ProbeComesFirst
  <1>5. FlagFollowsStage'
    BY DEF TypeOK, FlagFollowsStage
  <1>6. ListsAreCurrent'
    BY DEF TypeOK, ListsAreCurrent, HoldsLists, ProbeComesFirst, PortFollowsStage, LostOnlyToOverlap
  <1>7. LostOnlyToOverlap'
    BY DEF TypeOK, LostOnlyToOverlap, ListsAreCurrent, HoldsLists, PortFollowsStage
  <1> QED BY <1>1, <1>2, <1>3, <1>4, <1>5, <1>6, <1>7

\* AdvertExpires keeps the invariant.
LEMMA AdvertExpiresInv == ASSUME Inv, NEW i \in Mounts, AdvertExpires(i) PROVE Inv'
  <1> USE FreeIsNoMount, MountsTyping DEF Inv, AdvertExpires
  <1>1. TypeOK'
    BY DEF TypeOK, Stages
  <1>2. PortFollowsStage'
    BY DEF TypeOK, PortFollowsStage
  <1>3. AdvertFollowsStage'
    BY DEF TypeOK, AdvertFollowsStage, PortFollowsStage
  <1>4. ProbeComesFirst'
    BY DEF TypeOK, ProbeComesFirst
  <1>5. FlagFollowsStage'
    BY DEF TypeOK, FlagFollowsStage
  <1>6. ListsAreCurrent'
    BY DEF TypeOK, ListsAreCurrent, HoldsLists, ProbeComesFirst, PortFollowsStage, LostOnlyToOverlap
  <1>7. LostOnlyToOverlap'
    BY DEF TypeOK, LostOnlyToOverlap, ListsAreCurrent, HoldsLists, PortFollowsStage
  <1> QED BY <1>1, <1>2, <1>3, <1>4, <1>5, <1>6, <1>7

\* Accept keeps the invariant.
LEMMA AcceptInv == ASSUME Inv, NEW i \in Mounts, NEW e \in Entries, Accept(i, e) PROVE Inv'
  <1> USE FreeIsNoMount, MountsTyping DEF Inv, Accept
  <1>1. TypeOK'
    BY DEF TypeOK, Stages
  <1>2. PortFollowsStage'
    BY DEF TypeOK, PortFollowsStage
  <1>3. AdvertFollowsStage'
    BY DEF TypeOK, AdvertFollowsStage, PortFollowsStage
  <1>4. ProbeComesFirst'
    BY DEF TypeOK, ProbeComesFirst
  <1>5. FlagFollowsStage'
    BY DEF TypeOK, FlagFollowsStage
  <1>6. ListsAreCurrent'
    BY DEF TypeOK, ListsAreCurrent, HoldsLists, ProbeComesFirst, PortFollowsStage, LostOnlyToOverlap
  <1>7. LostOnlyToOverlap'
    BY DEF TypeOK, LostOnlyToOverlap, ListsAreCurrent, HoldsLists, PortFollowsStage
  <1> QED BY <1>1, <1>2, <1>3, <1>4, <1>5, <1>6, <1>7

\* End keeps the invariant.
LEMMA EndInv == ASSUME Inv, NEW s \in Sessions, End(s) PROVE Inv'
  <1> USE FreeIsNoMount, MountsTyping DEF Inv, End, GoTo
  <1>1. TypeOK'
    BY DEF TypeOK, Stages
  <1>2. PortFollowsStage'
    BY DEF TypeOK, PortFollowsStage
  <1>3. AdvertFollowsStage'
    BY DEF TypeOK, AdvertFollowsStage, PortFollowsStage
  <1>4. ProbeComesFirst'
    BY DEF TypeOK, ProbeComesFirst
  <1>5. FlagFollowsStage'
    BY DEF TypeOK, FlagFollowsStage
  <1>6. ListsAreCurrent'
    BY DEF TypeOK, ListsAreCurrent, HoldsLists, ProbeComesFirst, PortFollowsStage, LostOnlyToOverlap
  <1>7. LostOnlyToOverlap'
    BY DEF TypeOK, LostOnlyToOverlap, ListsAreCurrent, HoldsLists, PortFollowsStage
  <1> QED BY <1>1, <1>2, <1>3, <1>4, <1>5, <1>6, <1>7

\* Kill keeps the invariant.
LEMMA KillInv == ASSUME Inv, NEW s \in Sessions, Kill(s) PROVE Inv'
  <1> USE FreeIsNoMount, MountsTyping DEF Inv, Kill
  <1>1. TypeOK'
    BY DEF TypeOK, Stages
  <1>2. PortFollowsStage'
    BY DEF TypeOK, PortFollowsStage
  <1>3. AdvertFollowsStage'
    BY DEF TypeOK, AdvertFollowsStage, PortFollowsStage
  <1>4. ProbeComesFirst'
    BY DEF TypeOK, ProbeComesFirst
  <1>5. FlagFollowsStage'
    BY DEF TypeOK, FlagFollowsStage
  <1>6. ListsAreCurrent'
    BY DEF TypeOK, ListsAreCurrent, HoldsLists, ProbeComesFirst, PortFollowsStage, LostOnlyToOverlap
  <1>7. LostOnlyToOverlap'
    BY DEF TypeOK, LostOnlyToOverlap, ListsAreCurrent, HoldsLists, PortFollowsStage
  <1> QED BY <1>1, <1>2, <1>3, <1>4, <1>5, <1>6, <1>7

\* Every step keeps the invariant.
LEMMA InvStep == Inv /\ [Next]_vars => Inv'
  <1> SUFFICES ASSUME Inv, [Next]_vars PROVE Inv'
    OBVIOUS
  <1>1. ASSUME NEW i \in Mounts, Mount(i) \/ StartCleanup(i) \/ StopServer(i) \/ AdvertExpires(i)
        PROVE  Inv'
    BY <1>1, LoadInv, StartServerInv, StartServerFailsInv, AdvertiseInv, WithdrawInv,
       WithdrawFailsInv, StopServerInv, AdvertExpiresInv DEF Mount, StartCleanup
  <1>2. ASSUME NEW i \in Mounts, NEW e \in Entries, Accept(i, e) PROVE Inv'
    BY <1>2, AcceptInv
  <1>3. ASSUME NEW s \in Sessions, End(s) \/ Kill(s) PROVE Inv'
    BY <1>3, EndInv, KillInv
  <1>4. CASE UNCHANGED vars
    BY <1>4 DEF vars, Inv, TypeOK, PortFollowsStage, AdvertFollowsStage, ProbeComesFirst,
       FlagFollowsStage, ListsAreCurrent, HoldsLists, LostOnlyToOverlap
  <1> QED BY <1>1, <1>2, <1>3, <1>4 DEF Next

\* The inductive invariant holds in every reachable state.
THEOREM InvAlways == Spec => []Inv
  BY InitInv, InvStep, PTL DEF Spec

\* Every variable keeps its type.
THEOREM TypeCorrect == Spec => []TypeOK
  <1>1. Inv => TypeOK
    BY DEF Inv
  <1> QED BY <1>1, InvAlways, PTL

\* Only a death or a failed withdrawal leaves an advert without its server: between
\* the advert and its withdrawal the mount holds the port.
THEOREM AdvertisedAlwaysServed == Spec => []AdvertisedIsServed
  <1>1. Inv => AdvertisedIsServed
    BY DEF Inv, TypeOK, AdvertisedIsServed, AdvertFollowsStage, PortFollowsStage
  <1> QED BY <1>1, InvAlways, PTL

\* whoami says that the server runs exactly when it does.
THEOREM WhoamiAlwaysTruthful == Spec => []WhoamiIsTruthful
  <1>1. Inv => WhoamiIsTruthful
    BY MountsTyping DEF Inv, WhoamiIsTruthful, FlagFollowsStage, PortFollowsStage
  <1> QED BY <1>1, InvAlways, PTL

\* Only an overlap of sessions loses entries.
THEOREM LostOnlyToOverlapAlways == Spec => []LostOnlyToOverlap
  <1>1. Inv => LostOnlyToOverlap
    BY DEF Inv
  <1> QED BY <1>1, InvAlways, PTL

\* A session finds the port taken only by another session.
LEMMA ProbeStep ==
    ASSUME Inv, [Next]_vars, NEW s \in Sessions,
           stage[<<s, "real">>] = "loaded", stage'[<<s, "real">>] = "unserved"
    PROVE  port = Free \/ port[1] # s
  <1> DEFINE r == <<s, "real">>
  <1>1. StartServerFails(r)
    BY MountsTyping DEF Inv, TypeOK, Next, Mount, Load, StartServer, StartServerFails, Advertise,
       StartCleanup, Withdraw, WithdrawFails, StopServer, AdvertExpires, Accept, End, Kill, GoTo, vars
  <1>2. SUFFICES ASSUME port \in Mounts PROVE port[1] # s
    BY DEF Inv, TypeOK
  <1>3. stage[port] \in {"bound", "mounted", "withdrawn"}
    BY <1>2 DEF Inv, PortFollowsStage
  <1>4. stage[<<s, "probe">>] \in {"unserved", "stopped"}
    BY DEF Inv, ProbeComesFirst
  <1> QED BY <1>2, <1>3, <1>4, MountsTyping

\* The validator's mount never takes the port from the session it validates.
THEOREM ProbeAlwaysMakesWay == Spec => ProbeMakesWay
  <1>1. Inv /\ [Next]_vars =>
          [\A s \in Sessions :
             stage[<<s, "real">>] = "loaded" /\ stage'[<<s, "real">>] = "unserved" =>
                 port = Free \/ port[1] # s]_vars
    BY ProbeStep
  <1> QED BY <1>1, InvAlways, PTL DEF Spec, ProbeMakesWay
=============================================================================
