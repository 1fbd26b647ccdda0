---------------------------- MODULE A2ASessions ----------------------------
(***************************************************************************)
(* Several sessions of one user: what mount and its cleanup (hooks         *)
(* __init__.py), the server's start and stop, and the stores' files do     *)
(* when the sessions are configured with one port and, as they always are, *)
(* with the files of ~/.amplifier/a2a.                                     *)
(*                                                                         *)
(* The module loader (external) mounts the hook twice in each session: the *)
(* validator's mount, undone by the cleanup it returns, and then the real  *)
(* one.  Sessions where the hook is disabled, and child sessions, mount    *)
(* nothing and are left out.  Contacts, messages and contact requests are  *)
(* one list of entries here: each is read whole by the constructor and     *)
(* written whole by every change.                                          *)
(***************************************************************************)
CONSTANTS Sessions,
          Entries   \* what users and remote agents may add to the stores, each once

Mounts == Sessions \X {"probe", "real"}

Free == <<"none", "free">>

VARIABLES stage,     \* how far each mount has got
          running,   \* server_running of its registry
          list,      \* what its stores hold in memory
          port,      \* the mount whose server is bound to the port
          adverts,   \* the mounts advertised over mDNS
          file,      \* what the stores' files hold
          accepted,  \* history: the entries added so far
          exposed,   \* history: those added while another session had older lists
          unwithdrawn  \* history: the mounts whose advert could not be withdrawn

vars == <<stage, running, list, port, adverts, file, accepted, exposed, unwithdrawn>>

Stages == {"none", "loaded", "bound", "mounted", "unserved", "withdrawn", "stopped", "killed"}

TypeOK ==
    /\ stage \in [Mounts -> Stages]
    /\ running \in [Mounts -> BOOLEAN]
    /\ list \in [Mounts -> SUBSET Entries]
    /\ port \in Mounts \union {Free}
    /\ adverts \subseteq Mounts
    /\ file \subseteq Entries
    /\ exposed \subseteq accepted /\ accepted \subseteq Entries
    /\ unwithdrawn \subseteq Mounts

Init ==
    /\ stage = [i \in Mounts |-> "none"]
    /\ running = [i \in Mounts |-> TRUE]
    /\ list = [i \in Mounts |-> {}]
    /\ port = Free
    /\ adverts = {}
    /\ file = {} /\ accepted = {} /\ exposed = {} /\ unwithdrawn = {}

GoTo(i, next) == stage' = [stage EXCEPT ![i] = next]

-----------------------------------------------------------------------------
(* mount.                                                                  *)

\* Fault: mount returns no cleanup, so the validator's server stays up.
MayLoadBesideProbe(i) == i[2] = "probe" \/ stage[<<i[1], "probe">>] \in {"unserved", "mounted"}

\* The loader mounts for real when the validator's mount has failed or is undone.
MayLoad(i) == i[2] = "probe" \/ stage[<<i[1], "probe">>] \in {"unserved", "stopped"}

\* Fault: the constructors do not read the files.
LoadNothing(i) ==
    /\ stage[i] = "none" /\ MayLoad(i)
    /\ GoTo(i, "loaded")
    /\ UNCHANGED <<running, list, port, adverts, file, accepted, exposed, unwithdrawn>>

\* The constructors of the stores read their files.
Load(i) ==
    /\ stage[i] = "none" /\ MayLoad(i)
    /\ GoTo(i, "loaded")
    /\ list' = [list EXCEPT ![i] = file]
    /\ UNCHANGED <<running, port, adverts, file, accepted, exposed, unwithdrawn>>

StartServer(i) ==
    /\ stage[i] = "loaded" /\ port = Free
    /\ GoTo(i, "bound")
    /\ port' = i
    /\ UNCHANGED <<running, list, adverts, file, accepted, exposed, unwithdrawn>>

\* Fault: the failure is only logged.
StartServerFailsUnmarked(i) ==
    /\ stage[i] = "loaded"
    /\ GoTo(i, "unserved")
    /\ UNCHANGED <<running, list, port, adverts, file, accepted, exposed, unwithdrawn>>

\* The port is taken, or the system refuses it for another reason (any OSError):
\* mount ends there, with the registry registered and without a cleanup.
StartServerFails(i) ==
    /\ stage[i] = "loaded"
    /\ GoTo(i, "unserved")
    /\ running' = [running EXCEPT ![i] = FALSE]
    /\ UNCHANGED <<list, port, adverts, file, accepted, exposed, unwithdrawn>>

\* Advertising may be switched off, impossible, or fail without an exception.
Advertise(i) ==
    /\ stage[i] = "bound"
    /\ GoTo(i, "mounted")
    /\ adverts' \in {adverts, adverts \union {i}}
    /\ UNCHANGED <<running, list, port, file, accepted, exposed, unwithdrawn>>

-----------------------------------------------------------------------------
(* cleanup: the validator calls it after its mount, the coordinator at the *)
(* end of the session (a second time to no effect: _cleaned).              *)

\* Fault: the server stops first.
WithdrawLast(i) ==
    /\ stage[i] = "mounted"
    /\ GoTo(i, "withdrawn")
    /\ port' = Free
    /\ UNCHANGED <<running, list, adverts, file, accepted, exposed, unwithdrawn>>

Withdraw(i) ==
    /\ stage[i] = "mounted"
    /\ GoTo(i, "withdrawn")
    /\ adverts' = adverts \ {i}
    /\ UNCHANGED <<running, list, port, file, accepted, exposed, unwithdrawn>>

\* The failure is logged and the advert stays up; cleanup goes on, and does not
\* come back to it.
WithdrawFails(i) ==
    /\ stage[i] = "mounted" /\ i \in adverts
    /\ GoTo(i, "withdrawn")
    /\ unwithdrawn' = unwithdrawn \union {i}
    /\ UNCHANGED <<running, list, port, adverts, file, accepted, exposed>>

\* Fault: stop is not reached.
KeepServer(i) ==
    /\ stage[i] = "withdrawn"
    /\ GoTo(i, "stopped")
    /\ UNCHANGED <<running, list, port, adverts, file, accepted, exposed, unwithdrawn>>

StopServer(i) ==
    /\ stage[i] = "withdrawn"
    /\ GoTo(i, "stopped")
    /\ port' = Free
    /\ UNCHANGED <<running, list, adverts, file, accepted, exposed, unwithdrawn>>

\* A session without a server just ends.
End(s) ==
    /\ stage[<<s, "real">>] = "unserved"
    /\ GoTo(<<s, "real">>, "stopped")
    /\ UNCHANGED <<running, list, port, adverts, file, accepted, exposed, unwithdrawn>>

\* The process dies: the system frees the port, nobody withdraws the advert.
Kill(s) ==
    LET own == {i \in Mounts : i[1] = s} IN
    /\ \E i \in own : stage[i] # "none"
    /\ \E i \in own : stage[i] \notin {"stopped", "killed"}
    /\ stage' = [i \in Mounts |-> IF i \in own THEN "killed" ELSE stage[i]]
    /\ port' = IF port \in own THEN Free ELSE port
    /\ UNCHANGED <<running, list, adverts, file, accepted, exposed, unwithdrawn>>

\* Other hosts forget the advert of a dead process after a while (external); the
\* process of a session that has ended may be dead, too.
AdvertExpires(i) ==
    /\ i \in adverts
    /\ stage[i] = "killed" \/ stage[<<i[1], "real">>] = "stopped"
    /\ adverts' = adverts \ {i}
    /\ UNCHANGED <<stage, running, list, port, file, accepted, exposed, unwithdrawn>>

-----------------------------------------------------------------------------
(* The stores.                                                             *)

\* The mounts whose lists may be written; that of a failed validation is gone.
HoldsLists(i) ==
    \/ stage[i] \in {"loaded", "bound", "mounted", "withdrawn"}
    \/ i[2] = "real" /\ stage[i] = "unserved"

\* A remote message reaches the mount's server, or the session's user adds a
\* contact: the list in memory grows and replaces the file.
Accept(i, e) ==
    /\ e \notin accepted
    /\ port = i \/ (i[2] = "real" /\ stage[i] \in {"mounted", "unserved"})
    /\ list' = [list EXCEPT ![i] = @ \union {e}]
    /\ file' = list'[i]
    /\ accepted' = accepted \union {e}
    /\ exposed' = IF \E j \in Mounts : j[1] # i[1] /\ HoldsLists(j)
                  THEN exposed \union {e} ELSE exposed
    /\ UNCHANGED <<stage, running, port, adverts, unwithdrawn>>

-----------------------------------------------------------------------------
Mount(i) == Load(i) \/ StartServer(i) \/ StartServerFails(i) \/ Advertise(i)

StartCleanup(i) == Withdraw(i) \/ WithdrawFails(i)

Next ==
    \/ \E i \in Mounts : Mount(i) \/ StartCleanup(i) \/ StopServer(i) \/ AdvertExpires(i)
    \/ \E i \in Mounts, e \in Entries : Accept(i, e)
    \/ \E s \in Sessions : End(s) \/ Kill(s)

Spec == Init /\ [][Next]_vars

\* mount and cleanup run to their end, and the validator undoes its mount; the
\* session itself may last for ever.
FairSpec ==
    /\ Spec
    /\ \A i \in Mounts : WF_vars(Mount(i)) /\ WF_vars(StopServer(i))
    /\ \A s \in Sessions : WF_vars(StartCleanup(<<s, "probe">>))

-----------------------------------------------------------------------------
(* Properties.                                                             *)

\* An advert that leads nowhere, or to another session's server, is left over from
\* a process that died or from a withdrawal that failed; no order of mounts and
\* cleanups leaves another, as each advert comes after its server and goes before it.
AdvertisedIsServed == \A i \in adverts : port = i \/ stage[i] = "killed" \/ i \in unwithdrawn

\* What whoami says of the server is so, though the flag is set in mount alone
\* and never looked at again.
WhoamiIsTruthful ==
    \A s \in Sessions : stage[<<s, "real">>] \in {"mounted", "unserved"} =>
        (running[<<s, "real">>] <=> port = <<s, "real">>)

\* The mount that the validator made and undid never takes the port away from
\* the session it validated: only another session can.
ProbeMakesWay ==
    [][\A s \in Sessions :
          stage[<<s, "real">>] = "loaded" /\ stage'[<<s, "real">>] = "unserved" =>
              port = Free \/ port[1] # s]_vars

\* An entry is lost from the files only if another session held older lists when
\* it was added.  So one session after the other loses nothing, and neither does
\* a session to its own validation, which may have taken messages.
LostOnlyToOverlap == accepted \ file \subseteq exposed

-----------------------------------------------------------------------------
(* The inductive invariant behind the properties above.                    *)

\* The port is bound by the mount that is past starting its server and has not
\* stopped it: there is one such mount at most.
PortFollowsStage ==
    \A i \in Mounts : port = i <=> stage[i] \in {"bound", "mounted", "withdrawn"}

AdvertFollowsStage ==
    \A i \in adverts : stage[i] \in {"mounted", "killed"} \/ i \in unwithdrawn

\* The validator's mount is undone, or has failed, when the real one starts.
ProbeComesFirst ==
    \A s \in Sessions : stage[<<s, "real">>] \notin {"none", "killed"} =>
        stage[<<s, "probe">>] \in {"unserved", "stopped"}

FlagFollowsStage ==
    \A i \in Mounts :
        /\ stage[i] \in {"none", "loaded", "bound", "mounted"} => running[i]
        /\ stage[i] = "unserved" => ~running[i]

\* A list that may still replace the file lacks nothing but exposed entries.
ListsAreCurrent ==
    \A i \in Mounts : HoldsLists(i) => accepted \ list[i] \subseteq exposed

Inv ==
    /\ TypeOK
    /\ PortFollowsStage /\ AdvertFollowsStage /\ ProbeComesFirst /\ FlagFollowsStage
    /\ ListsAreCurrent /\ LostOnlyToOverlap

-----------------------------------------------------------------------------
\* No server outlives its purpose: the validator's server and that of a session
\* that ends give the port back.
PortIsGivenBack ==
    \A i \in Mounts : port = i /\ (i[2] = "probe" \/ stage[i] = "withdrawn") ~> port # i
=============================================================================
