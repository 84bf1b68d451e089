----------------------------- MODULE EsxUpdates -----------------------------
(***************************************************************************)
(* The ESX back end (virtwho/virt/esx/esx.py): a virt thread that logs in  *)
(* to a vCenter, creates a property filter, asks for the versioned stream  *)
(* of updates of that filter, keeps a copy of the inventory and makes a    *)
(* mapping of it; and stop(), with which the executor's thread cancels the *)
(* wait, destroys the filter and logs out: requests on the client, the     *)
(* filter and the service content that the virt thread may replace while   *)
(* they are under way.                                                     *)
(*                                                                         *)
(* What the server has told and what it has not is kept as the inventory   *)
(* that the last accepted answer leads to: the next answer holds what is   *)
(* different now, all of it, or a part (a truncated update).  Properties   *)
(* of a host that are always there (names, numbers of CPUs) are left out;  *)
(* so is the status mode.                                                  *)
(***************************************************************************)
EXTENDS Naturals, FiniteSets

CONSTANTS
    EsxHosts, EsxVms, EsxClusters, \* managed object references
    ClusterNames, PowerStates,
    ExcludedParents, FilterParents, \* exclude_host_parents, filter_host_parents
    Gone,          \* not in the inventory
    Bare,          \* there, but without its properties
    Worlds,        \* inventories to begin with
    NoReport, ErrorReport, \* in the datastore: nothing yet, a failure
    Truncates,     \* answers may be truncated
    EsxModes,      \* the values of esxOneshot
    MaxEsxChanges, \* bound: changes of the inventory
    MaxEsxFaults   \* bound: time-outs and faults

VARIABLES
    esxOneshot,  \* the option
    world,       \* the inventory
    known,       \* the server: what the answers up to the client's version told
    copy,        \* hosts, vms and clusters
    version,     \* "", or is it the one of the last mapping, or a newer one
    due,         \* time() > next_update
    esxAt,       \* where the virt thread is
    sc,          \* the service content is there
    session,     \* the session of the client object: "none", "open", "closed"
    filter,      \* the property filter, if there is one
    stopper,     \* where stop() is
    esxTold,     \* the executor's terminate event
    esxPut,      \* what is in the datastore
    esxChanges, esxFaults,
    renamed,     \* history: clusters that got a new name in this stream
    excused      \* history: the logout of stop() failed, or missed a later login

inventory == <<esxOneshot, world, esxChanges>>
stream    == <<known, copy, version, renamed>>
timing    == <<due, esxPut>>
login     == <<sc, session, filter>>
stopping  == <<stopper, esxTold>>
esxVars   == <<inventory, stream, timing, login, stopping, esxAt, esxFaults, excused>>

Objects  == EsxHosts \cup EsxVms \cup EsxClusters
\* A host has a parent and the virtual machines that run on it.
HostData == [parent : EsxClusters, vms : SUBSET EsxVms]
DataOf(o) == IF o \in EsxHosts THEN HostData \cup {Bare}
             ELSE IF o \in EsxVms THEN PowerStates \cup {Bare} ELSE ClusterNames
Empty == [o \in Objects |-> Gone]

\* What can be seen at one moment: a host's cluster is there, and a virtual
\* machine runs on one host at most.
Consistent(w) ==
    /\ \A h \in EsxHosts : w[h] \notin {Gone, Bare} => w[w[h].parent] # Gone
    /\ \A h, g \in EsxHosts : h # g /\ {w[h], w[g]} \cap {Gone, Bare} = {} =>
            w[h].vms \cap w[g].vms = {}

ASSUME EsxAssumption ==
    /\ EsxModes \cup {Truncates} \subseteq BOOLEAN
    /\ {MaxEsxChanges, MaxEsxFaults} \subseteq Nat
    /\ Gone # Bare /\ {Gone, Bare} \cap (HostData \cup ClusterNames \cup PowerStates) = {}
    /\ EsxClusters \cap (EsxHosts \cup EsxVms) = {}
    /\ \A w \in Worlds : /\ DOMAIN w = Objects /\ Consistent(w)
                         /\ \A o \in Objects : w[o] \in DataOf(o) \cup {Gone}

EsxInit ==
    /\ esxOneshot \in EsxModes
    /\ world \in Worlds
    /\ known = Empty /\ copy = Empty
    /\ version = "" /\ due = TRUE
    /\ esxAt \in {"start", "ended"} \* there may be no such thread
    /\ sc = FALSE /\ session = "none" /\ filter = FALSE
    /\ stopper = "none" /\ esxTold = FALSE /\ esxPut = NoReport
    /\ esxChanges = 0 /\ esxFaults = 0 /\ renamed = {} /\ excused = FALSE

EsxGoto(at) == esxAt' = at
EsxFaulty   == esxFaults < MaxEsxFaults /\ esxFaults' = esxFaults + 1

-----------------------------------------------------------------------------
(* The mapping.                                                            *)

\* skip_for_parent
Skipped(w, h) ==
    \/ w[h].parent \in ExcludedParents
    \/ FilterParents # {} /\ w[h].parent \notin FilterParents

Inside(w) == {h \in EsxHosts : w[h] # Gone}
Shown(w)  == {h \in Inside(w) : ~Skipped(w, h)}

\* host['parent'] of a host without properties, or the name of a cluster that is
\* not known: KeyError.
MappingRaises(w) ==
    \/ \E h \in Inside(w) : w[h] = Bare
    \/ \E h \in Shown(w) : w[w[h].parent] = Gone

GuestsOf(w, h) == {<<v, w[v]>> : v \in {u \in w[h].vms : w[u] \notin {Gone, Bare}}}
getHostGuestMapping(w) ==
    {[hypervisor |-> h, guests |-> GuestsOf(w, h), cluster |-> w[w[h].parent]] : h \in Shown(w)}

-----------------------------------------------------------------------------
(* The server.                                                             *)

Change(o, x) ==
    /\ esxChanges < MaxEsxChanges
    /\ world[o] # x
    /\ world' = [world EXCEPT ![o] = x] /\ Consistent(world')
    /\ esxChanges' = esxChanges + 1
    /\ renamed' = IF o \in EsxClusters /\ known[o] \notin {Gone, x} /\ x # Gone
                  THEN renamed \cup {o} ELSE renamed
    /\ UNCHANGED <<esxOneshot, known, copy, version, timing, login, stopping, esxAt,
                   esxFaults, excused>>

Expire ==
    /\ session = "open" /\ EsxFaulty
    /\ session' = "closed"
    /\ UNCHANGED <<inventory, stream, timing, sc, filter, stopping, esxAt, excused>>

Different == {o \in Objects : world[o] # known[o]}

\* applyUpdates: an object enters, leaves, or is modified.  A modified cluster is
\* an unknown update; a host keeps what indirectRemove says it has no more.
Ignored(o) ==
    /\ known[o] # Gone /\ world[o] # Gone
    /\ o \in EsxClusters \/ (o \in EsxHosts /\ world[o] = Bare)
applyUpdates(os) ==
    copy' = [o \in Objects |-> IF o \in os /\ ~Ignored(o) THEN world[o] ELSE copy[o]]

-----------------------------------------------------------------------------
(* The virt thread: run of IntervalThread around _run.                     *)

\* An exception leaves _run without cleanup; run puts an ErrorReport unless the
\* thread was told to stop, and begins _run again after the interval.
Raise ==
    /\ esxAt' = IF esxTold \/ esxOneshot THEN "ended" ELSE "start"
    /\ esxPut' = IF esxTold THEN esxPut ELSE ErrorReport

EsxStart ==
    /\ esxAt = "start"
    /\ IF esxTold THEN EsxGoto("ended") ELSE EsxGoto("connect")
    /\ version' = "" /\ copy' = Empty /\ due' = TRUE
    /\ UNCHANGED <<inventory, known, renamed, esxPut, login, stopping, esxFaults, excused>>

\* login: a new client object, its service content, and a session; then the
\* filter.  stop() may take the service content away in between; a request of its
\* logout that is under way goes to the client that was there before.
NewClient ==
    /\ esxAt = "connect"
    /\ \/ /\ session' = "none" /\ EsxGoto("content")
          /\ stopper' = IF stopper = "leave" THEN "leaveOld" ELSE stopper
          /\ UNCHANGED <<esxFaults, esxPut>>
       \/ EsxFaulty /\ Raise /\ UNCHANGED <<session, stopper>>
    /\ UNCHANGED <<inventory, stream, due, sc, filter, esxTold, excused>>

Content ==
    /\ esxAt = "content"
    /\ \/ sc' = TRUE /\ EsxGoto("login") /\ UNCHANGED <<esxFaults, esxPut>>
       \/ EsxFaulty /\ Raise /\ UNCHANGED sc
    /\ UNCHANGED <<inventory, stream, due, session, filter, stopping, excused>>

\* self.sc.sessionManager is there, and the request goes out.
AskLogin ==
    /\ esxAt = "login"
    /\ IF sc THEN EsxGoto("logging") /\ UNCHANGED esxPut ELSE Raise
    /\ UNCHANGED <<inventory, stream, due, login, stopping, esxFaults, excused>>

Missed == {"leaveOld", "forget", "over"}
Login ==
    /\ esxAt = "logging"
    /\ \/ /\ session' = "open" /\ EsxGoto("filter") /\ UNCHANGED <<esxFaults, esxPut>>
          /\ excused' = (excused \/ stopper \in Missed)
       \/ EsxFaulty /\ Raise /\ UNCHANGED <<session, excused>>
    /\ UNCHANGED <<inventory, stream, due, sc, filter, stopping>>

CreateFilter ==
    /\ esxAt = "filter"
    /\ \/ sc /\ session = "open" /\ filter' = TRUE /\ EsxGoto("loop")
          /\ UNCHANGED <<esxFaults, esxPut>>
       \/ ~(sc /\ session = "open") /\ Raise /\ UNCHANGED <<filter, esxFaults>>
       \/ EsxFaulty /\ Raise /\ UNCHANGED filter
    /\ UNCHANGED <<inventory, stream, due, sc, session, stopping, excused>>

\* The head of the loop.  Without a version the stream starts over: hosts and
\* virtual machines are cleared, clusters are not.
LoopOnAlways == TRUE
LoopOn == esxOneshot \/ ~esxTold
KeptAll(o) == TRUE
Kept(o) == o \in EsxClusters
EsxLoop ==
    /\ esxAt = "loop"
    /\ IF LoopOn THEN EsxGoto("call") ELSE EsxGoto("cancel")
    /\ IF LoopOn /\ version = ""
       THEN /\ copy' = [o \in Objects |-> IF Kept(o) THEN copy[o] ELSE Gone]
            /\ known' = Empty /\ renamed' = {}
       ELSE UNCHANGED <<copy, known, renamed>>
    /\ UNCHANGED <<inventory, version, timing, login, stopping, esxFaults, excused>>

\* WaitForUpdatesEx: stop() may have taken the service content away.
Ask ==
    /\ esxAt = "call"
    /\ IF sc THEN EsxGoto("waiting") /\ UNCHANGED esxPut ELSE Raise
    /\ UNCHANGED <<inventory, stream, due, login, stopping, esxFaults, excused>>

\* It answers with what is different, in one or in several parts.
Answered ==
    /\ esxAt = "waiting" /\ session = "open"
    /\ \E part \in SUBSET Different :
        /\ part # Different => Truncates /\ part # {}
        /\ applyUpdates(part)
        /\ known' = [o \in Objects |-> IF o \in part THEN world[o] ELSE known[o]]
        /\ version' \in IF version = "" THEN {"last", "newer"}
                       ELSE IF part = {} THEN {version} ELSE {"newer"}
        /\ IF part = Different THEN EsxGoto("report") ELSE EsxGoto("loop")
    /\ UNCHANGED <<inventory, renamed, timing, login, stopping, esxFaults, excused>>

\* Time-outs and connection errors: the stream starts over in the same session.
NewStream == version' = ""
TimedOut ==
    /\ esxAt = "waiting" /\ EsxFaulty
    /\ NewStream /\ EsxGoto("loop")
    /\ UNCHANGED <<inventory, known, copy, renamed, timing, login, stopping, excused>>

\* "The task was canceled by a user": by stop().
Canceled ==
    /\ esxAt = "canceled"
    /\ EsxGoto("loop")
    /\ UNCHANGED <<inventory, stream, timing, login, stopping, esxFaults, excused>>

\* Any other fault, "The session is not authenticated" for one: _prepare again.
Faulted ==
    /\ esxAt = "waiting"
    /\ (session # "open" /\ UNCHANGED esxFaults) \/ EsxFaulty
    /\ NewStream /\ EsxGoto("connect")
    /\ UNCHANGED <<inventory, known, copy, renamed, timing, login, stopping, excused>>

WantedNewer == version = "newer"
Wanted == version = "newer" \/ due
Report ==
    /\ esxAt = "report"
    /\ CASE ~Wanted -> EsxGoto("wait") /\ UNCHANGED <<version, timing>>
         [] Wanted /\ MappingRaises(copy) -> Raise /\ UNCHANGED <<version, due>>
         [] OTHER ->
              /\ esxPut' = IF esxTold THEN esxPut ELSE getHostGuestMapping(copy)
              /\ version' = "last" /\ due' = FALSE
              /\ IF esxOneshot THEN EsxGoto("cancel") ELSE EsxGoto("wait")
    /\ UNCHANGED <<inventory, known, copy, renamed, login, stopping, esxFaults, excused>>

WaitInterval ==
    /\ esxAt = "wait"
    /\ due' = TRUE
    /\ IF esxOneshot THEN EsxGoto("cancel") ELSE EsxGoto("loop")
    /\ UNCHANGED <<inventory, stream, esxPut, login, stopping, esxFaults, excused>>

-----------------------------------------------------------------------------
(* cleanup, on the virt thread and in stop().                              *)

\* CancelWaitForUpdates fails or not: nobody knows.
CancelWait(at, next) == at = "cancel" /\ next = "destroy" /\ UNCHANGED login

\* Only a WebFault is caught: any other error leaves cleanup, and stop().
DestroyFilter(at, next) ==
    /\ at = "destroy" /\ next = IF filter THEN "drop" ELSE "logout"
    /\ UNCHANGED login
DestroyRaises(at) == at = "destroy" /\ filter /\ EsxFaulty

DropFilter(at, next) ==
    /\ at = "drop" /\ next = "logout"
    /\ filter' = FALSE
    /\ UNCHANGED <<sc, session>>

\* logout: the request goes to the client that is there now ...
AskLogout(at, next) ==
    /\ at = "logout" /\ next = IF sc THEN "leave" ELSE "over"
    /\ UNCHANGED login

\* ... and closes its session; without one, or without an answer, the error is
\* caught, and the service content stays.
LogoutOnlyHere(at, next) ==
    /\ at \in {"leave", "leaveOld"} /\ next = "forget"
    /\ UNCHANGED login
Logout(at, next) ==
    /\ \/ /\ at = "leave" /\ session = "open"
          /\ next = "forget" /\ session' = "closed"
       \/ /\ at = "leave" /\ session # "open"
          /\ next = "over" /\ UNCHANGED session
       \/ /\ at = "leaveOld"
          /\ next \in {"forget", "over"} /\ UNCHANGED session
    /\ UNCHANGED <<sc, filter>>
LogoutFails(at) ==
    /\ at \in {"leave", "leaveOld"} /\ EsxFaulty
    /\ session' \in IF at = "leave" /\ session = "open" THEN {"open", "closed"} ELSE {session}
    /\ UNCHANGED <<sc, filter>>

\* self.sc = None, whoever has set it in the meantime.
ForgetContent(at, next) ==
    /\ at = "forget" /\ next = "over"
    /\ sc' = FALSE
    /\ UNCHANGED <<session, filter>>

Cleanup(at, next) ==
    \/ CancelWait(at, next) \/ DestroyFilter(at, next) \/ DropFilter(at, next)
    \/ AskLogout(at, next) \/ Logout(at, next) \/ ForgetContent(at, next)
Nexts == {"destroy", "drop", "logout", "leave", "forget", "over"}

\* After its cleanup _run ends, and run with it: terminated, or oneshot.
CleanThread ==
    /\ \E next \in Nexts :
        /\ Cleanup(esxAt, next)
        /\ esxAt' = IF next = "over" THEN "ended" ELSE next
    /\ UNCHANGED <<inventory, stream, timing, stopping, esxFaults, excused>>
CleanThreadRaises ==
    /\ DestroyRaises(esxAt)
    /\ Raise
    /\ UNCHANGED <<inventory, stream, due, login, stopping, excused>>
ThreadLogoutFails ==
    /\ LogoutFails(esxAt) /\ EsxGoto("ended")
    /\ UNCHANGED <<inventory, stream, timing, stopping, excused>>

\* Executor.stop_threads: the event, then stop() in the executor's thread.
TellEsx ==
    /\ stopper = "none" /\ ~esxTold
    /\ esxTold' = TRUE /\ stopper' = "cancel"
    /\ UNCHANGED <<inventory, stream, timing, login, esxAt, esxFaults, excused>>

StopEsx ==
    /\ \E next \in Nexts : Cleanup(stopper, next) /\ stopper' = next
    /\ \/ UNCHANGED esxAt
       \/ /\ stopper = "cancel" /\ esxAt = "waiting" /\ sc /\ session = "open"
          /\ EsxGoto("canceled")
    /\ UNCHANGED <<inventory, stream, timing, esxTold, esxFaults, excused>>
StopEsxRaises ==
    /\ DestroyRaises(stopper)
    /\ stopper' = "raised"
    /\ UNCHANGED <<inventory, stream, timing, login, esxTold, esxAt, excused>>
StopLogoutFails ==
    /\ LogoutFails(stopper) /\ stopper' = "over" /\ excused' = TRUE
    /\ UNCHANGED <<inventory, stream, timing, esxTold, esxAt>>

RunEsx == \/ EsxStart \/ NewClient \/ Content \/ AskLogin \/ Login \/ CreateFilter \/ EsxLoop
          \/ Ask \/ Answered \/ Canceled \/ Faulted \/ Report \/ WaitInterval \/ CleanThread
EsxNext ==
    \/ RunEsx \/ TimedOut \/ CleanThreadRaises
    \/ TellEsx \/ StopEsx \/ StopEsxRaises \/ Expire \/ ThreadLogoutFails \/ StopLogoutFails
    \/ \E o \in Objects : \E x \in DataOf(o) \cup {Gone} : Change(o, x)

EsxSpec == EsxInit /\ [][EsxNext]_esxVars
FairEsx == EsxSpec /\ WF_esxVars(RunEsx) /\ WF_esxVars(StopEsx)

-----------------------------------------------------------------------------
(* Properties.                                                             *)

EsxTypeOK ==
    /\ {DOMAIN world, DOMAIN known, DOMAIN copy} = {Objects}
    /\ \A o \in Objects : {world[o], known[o], copy[o]} \subseteq DataOf(o) \cup {Gone}
    /\ Consistent(world)
    /\ {esxChanges, esxFaults} \subseteq Nat
    /\ {due, sc, filter, esxTold, excused} \subseteq BOOLEAN
    /\ version \in {"", "last", "newer"} /\ session \in {"none", "open", "closed"}
    /\ esxAt \in {"start", "connect", "content", "login", "logging", "filter", "loop",
                  "call", "waiting", "canceled", "report", "wait", "cancel", "ended"}
                 \cup (Nexts \ {"over"})
    /\ stopper \in {"none", "cancel", "leaveOld", "raised"} \cup Nexts
    /\ renamed \subseteq EsxClusters

\* The copy is what the server told: after time-outs, new sessions and truncated
\* answers no host, guest or cluster is left that the inventory had lost before
\* the last answer, and none is missing; but for the names of clusters that
\* changed, and the properties that a host lost.
InStream == esxAt \in {"call", "waiting", "canceled", "report", "wait"} \/ (esxAt = "loop" /\ version # "")
Follows ==
    InStream =>
        /\ \A o \in EsxHosts \cup EsxVms :
             copy[o] = known[o] \/ (o \in EsxHosts /\ known[o] = Bare /\ copy[o] # Gone)
        /\ \A c \in EsxClusters \ renamed : known[c] # Gone => copy[c] = known[c]

\* ... because a new session begins a new stream, and because a cluster has
\* another name than the server told only when it was renamed in this stream.
NewSession == esxAt \in {"connect", "content", "login", "logging", "filter"} => version = ""
Renames ==
    \A c \in EsxClusters : known[c] # Gone /\ world[c] \notin {Gone, known[c]} => c \in renamed
EsxInv == EsxTypeOK /\ Follows /\ NewSession /\ Renames

\* When stop() returned, the session of the client is closed, wherever the virt
\* thread was in its login, loop or cleanup and whatever failed there; but for a
\* logout that failed itself, and for a login after the request of the logout was
\* answered, or with a client that is newer than that request.
LoggedOut == stopper = "over" /\ ~excused => session # "open"

\* What stays in the inventory is reported in the end, after whatever time-outs,
\* expired sessions and restarts of the stream: unless a host has no properties
\* (its mapping fails), or a cluster was renamed.
EsxConverges ==
    <>[](\/ esxAt = "ended" \/ MappingRaises(world) \/ renamed # {}
         \/ esxPut = getHostGuestMapping(world))

=============================================================================
