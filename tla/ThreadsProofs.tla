---------------------------- MODULE ThreadsProofs ----------------------------
(***************************************************************************)
(* Proofs about the back ends, ESX, libvirt, AHV, Hyper-V and KubeVirt,    *)
(* for any inventories, options and bounds; and that what is proved of     *)
(* each kind of thread holds of a configuration of MCThreads.              *)
(***************************************************************************)
EXTENDS MCThreads, Satellite5Proofs, SequenceTheorems, FunctionTheorems

USE EsxAssumption

-----------------------------------------------------------------------------
(* ESX.                                                                    *)

\* An object is there or not, and Bare or not, but not both.
LEMMA Markers ==
    /\ Gone # Bare
    /\ \A o \in Objects : Gone \notin DataOf(o)
BY DEF EsxAssumption, DataOf, Objects

\* Nothing else depends on the step.
LEMMA Rigid ==
    /\ Objects' = Objects /\ Empty' = Empty
    /\ \A o : DataOf(o)' = DataOf(o)
BY DEF Objects, Empty, DataOf, HostData

-----------------------------------------------------------------------------
(* The types, variable by variable.                                        *)

\* Flags are Boolean.
LEMMA EsxFlagsStep ==
    ASSUME EsxTypeOK, [EsxNext]_esxVars
    PROVE  {due', sc', filter', esxTold', excused'} \subseteq BOOLEAN
<1> USE Zenon DEF EsxTypeOK, esxVars, inventory, stream, timing, login, stopping
<1>1. ASSUME NEW o \in Objects, NEW x \in DataOf(o) \cup {Gone}, Change(o, x)
      PROVE  {due', sc', filter', esxTold', excused'} \subseteq BOOLEAN
  BY <1>1 DEF Change
<1>2. CASE EsxStart \/ NewClient \/ Content \/ AskLogin \/ Login \/ CreateFilter
  BY <1>2 DEF EsxStart, NewClient, Content, AskLogin, Login, CreateFilter
<1>3. CASE EsxLoop \/ Ask \/ Answered \/ Canceled \/ Faulted \/ TimedOut
  BY <1>3 DEF EsxLoop, Ask, Answered, Canceled, Faulted, TimedOut
<1>4. CASE Report \/ WaitInterval
  BY <1>4 DEF Report, WaitInterval
<1>5. CASE CleanThread \/ StopEsx
  BY <1>5 DEF CleanThread, StopEsx, Cleanup, CancelWait, DestroyFilter,
     DropFilter, AskLogout, Logout, ForgetContent, Nexts
<1>6. CASE CleanThreadRaises \/ TellEsx \/ StopEsxRaises \/ Expire
           \/ ThreadLogoutFails \/ StopLogoutFails
  BY <1>6 DEF CleanThreadRaises, TellEsx, StopEsxRaises, Expire, ThreadLogoutFails,
     StopLogoutFails, LogoutFails
<1>7. CASE UNCHANGED esxVars
  BY <1>7
<1> QED
  BY <1>1, <1>2, <1>3, <1>4, <1>5, <1>6, <1>7 DEF EsxNext, RunEsx

\* The places of the thread, of stop(), and of the session; the version.
LEMMA EsxPlacesStep ==
    ASSUME EsxTypeOK, [EsxNext]_esxVars
    PROVE  /\ version' \in {"", "last", "newer"} /\ session' \in {"none", "open", "closed"}
           /\ esxAt' \in {"start", "connect", "content", "login", "logging", "filter", "loop",
                          "call", "waiting", "canceled", "report", "wait", "cancel", "ended"}
                         \cup (Nexts \ {"over"})
           /\ stopper' \in {"none", "cancel", "leaveOld", "raised"} \cup Nexts
<1> USE DEF EsxTypeOK, esxVars, inventory, stream, timing, login, stopping, EsxGoto, Raise
<1>1. ASSUME NEW o \in Objects, NEW x \in DataOf(o) \cup {Gone}, Change(o, x)
      PROVE  UNCHANGED <<version, session, esxAt, stopper>>
  BY <1>1 DEF Change
<1>2. CASE EsxStart \/ NewClient \/ Content \/ AskLogin \/ Login \/ CreateFilter \/ EsxLoop
  BY <1>2 DEF EsxStart, NewClient, Content, AskLogin, Login, CreateFilter, EsxLoop
<1>3. CASE Ask \/ Answered \/ Canceled \/ Faulted \/ TimedOut
  BY <1>3 DEF Ask, Answered, Canceled, Faulted, TimedOut, NewStream
<1>4. CASE Report \/ WaitInterval
  BY <1>4 DEF Report, WaitInterval
<1>5. CASE CleanThread \/ StopEsx
  <2>1. ASSUME NEW at, NEW next \in Nexts, Cleanup(at, next)
        PROVE  session' \in {session, "closed"}
    BY <2>1 DEF Cleanup, CancelWait, DestroyFilter, DropFilter, AskLogout, Logout,
       ForgetContent
  <2>2. CASE CleanThread
    <3>1. PICK next \in Nexts : /\ Cleanup(esxAt, next)
                               /\ esxAt' = IF next = "over" THEN "ended" ELSE next
      BY <2>2 DEF CleanThread
    <3>2. session' \in {"none", "open", "closed"}
      BY <3>1, <2>1
    <3>3. esxAt' \in {"ended"} \cup (Nexts \ {"over"})
      BY <3>1
    <3>4. UNCHANGED <<version, stopper>>
      BY <2>2 DEF CleanThread
    <3> QED BY <3>2, <3>3, <3>4
  <2>3. CASE StopEsx
    <3>1. PICK next \in Nexts : Cleanup(stopper, next) /\ stopper' = next
      BY <2>3 DEF StopEsx
    <3>2. session' \in {"none", "open", "closed"}
      BY <3>1, <2>1
    <3>3. version' = version /\ esxAt' \in {esxAt, "canceled"}
      BY <2>3 DEF StopEsx
    <3> QED BY <3>1, <3>2, <3>3
  <2> QED BY <1>5, <2>2, <2>3
<1>6. CASE CleanThreadRaises \/ TellEsx \/ StopEsxRaises \/ Expire
  BY <1>6 DEF CleanThreadRaises, TellEsx, StopEsxRaises, Expire
<1>8. CASE ThreadLogoutFails \/ StopLogoutFails
  <2>1. version' = version /\ session' \in {"none", "open", "closed"}
    BY <1>8 DEF ThreadLogoutFails, StopLogoutFails, LogoutFails
  <2>2. /\ esxAt' = "ended" \/ esxAt' = esxAt
        /\ stopper' = stopper \/ stopper' = "over"
    BY <1>8 DEF ThreadLogoutFails, StopLogoutFails
  <2> QED BY <2>1, <2>2 DEF Nexts
<1>7. CASE UNCHANGED esxVars
  BY <1>7
<1> QED
  BY <1>1, <1>2, <1>3, <1>4, <1>5, <1>6, <1>7, <1>8 DEF EsxNext, RunEsx

\* The bounds are counted in natural numbers.
LEMMA EsxBoundsStep ==
    ASSUME EsxTypeOK, [EsxNext]_esxVars
    PROVE  {esxChanges', esxFaults'} \subseteq Nat
<1>9. esxChanges \in Nat /\ esxFaults \in Nat
  BY Zenon DEF EsxTypeOK
<1>0. /\ esxChanges \in Nat /\ esxFaults \in Nat
      /\ esxChanges + 1 \in Nat /\ esxFaults + 1 \in Nat
  BY <1>9
<1> USE <1>0 DEF esxVars, inventory, EsxFaulty
<1>1. ASSUME NEW o \in Objects, NEW x \in DataOf(o) \cup {Gone}, Change(o, x)
      PROVE  {esxChanges', esxFaults'} \subseteq Nat
  <2>1. esxChanges' = esxChanges + 1 /\ esxFaults' = esxFaults
    BY <1>1 DEF Change
  <2> QED BY <2>1
<1>2. CASE EsxStart \/ NewClient \/ Content \/ AskLogin \/ Login \/ CreateFilter \/ EsxLoop
  BY <1>2, Zenon DEF EsxStart, NewClient, Content, AskLogin, Login, CreateFilter, EsxLoop
<1>3. CASE Ask \/ Answered \/ Canceled \/ Faulted \/ TimedOut
  BY <1>3, Zenon DEF Ask, Answered, Canceled, Faulted, TimedOut
<1>4. CASE Report \/ WaitInterval \/ CleanThread \/ StopEsx \/ TellEsx \/ Expire
  BY <1>4 DEF Report, WaitInterval, CleanThread, StopEsx, TellEsx, Expire
<1>5. CASE CleanThreadRaises \/ StopEsxRaises \/ ThreadLogoutFails \/ StopLogoutFails
  BY <1>5 DEF CleanThreadRaises, StopEsxRaises, DestroyRaises, ThreadLogoutFails,
     StopLogoutFails, LogoutFails
<1>6. CASE UNCHANGED esxVars
  BY <1>6
<1> QED
  BY <1>1, <1>2, <1>3, <1>4, <1>5, <1>6 DEF EsxNext, RunEsx

-----------------------------------------------------------------------------
(* The three inventories: the server's, what it told, and the copy.        *)

\* One inventory has, at every object, data of its kind.
Typed(w) == DOMAIN w = Objects /\ \A o \in Objects : w[o] \in DataOf(o) \cup {Gone}

LEMMA EsxTypeSplit ==
    ASSUME EsxTypeOK
    PROVE  Typed(world) /\ Typed(known) /\ Typed(copy)
BY DEF EsxTypeOK, Typed

\* Only these steps touch the inventories or the history of names.
LEMMA Steps ==
    ASSUME NewSession, [EsxNext]_esxVars
    PROVE  \/ \E o \in Objects : \E x \in DataOf(o) \cup {Gone} : Change(o, x)
           \/ EsxStart \/ EsxLoop \/ Answered
           \/ /\ UNCHANGED <<world, known, copy, renamed>>
              /\ InStream' => InStream
              /\ NewSession'
<1> USE DEF esxVars, inventory, stream, timing, login, stopping, EsxGoto, Raise, InStream,
            NewSession
<1>1. CASE NewClient \/ Content \/ AskLogin \/ Login \/ CreateFilter
  BY <1>1 DEF NewClient, Content, AskLogin, Login, CreateFilter
<1>2. CASE Ask \/ Canceled \/ Faulted \/ TimedOut
  BY <1>2 DEF Ask, Canceled, Faulted, TimedOut, NewStream
<1>3. CASE Report
  <2>1. UNCHANGED <<world, known, copy, renamed>> /\ esxAt = "report"
    BY <1>3 DEF Report
  <2>2. esxAt' \in {"wait", "start", "ended", "cancel"}
    BY <1>3 DEF Report
  <2> QED BY <2>1, <2>2
<1>4. CASE WaitInterval
  <2>1. UNCHANGED <<world, known, copy, renamed>> /\ esxAt = "wait"
    BY <1>4 DEF WaitInterval
  <2>2. esxAt' \in {"cancel", "loop"}
    BY <1>4 DEF WaitInterval
  <2> QED BY <2>1, <2>2
<1>5. CASE CleanThread \/ StopEsx
  BY <1>5 DEF CleanThread, StopEsx, Cleanup, CancelWait, DestroyFilter,
     DropFilter, AskLogout, Logout, ForgetContent, Nexts
<1>6. CASE CleanThreadRaises \/ TellEsx \/ StopEsxRaises \/ Expire
           \/ ThreadLogoutFails \/ StopLogoutFails
  BY <1>6 DEF CleanThreadRaises, TellEsx, StopEsxRaises, Expire, ThreadLogoutFails,
     StopLogoutFails, LogoutFails
<1>7. CASE UNCHANGED esxVars
  BY <1>7
<1> QED
  BY <1>1, <1>2, <1>3, <1>4, <1>5, <1>6, <1>7 DEF EsxNext, RunEsx

\* A new inventory of the server is one that can be seen.
LEMMA ChangeStep ==
    ASSUME EsxInv, NEW o \in Objects, NEW x \in DataOf(o) \cup {Gone}, Change(o, x)
    PROVE  /\ Typed(world)' /\ Consistent(world)'
           /\ UNCHANGED <<known, copy>> /\ renamed' \subseteq EsxClusters
           /\ Follows' /\ NewSession' /\ Renames'
<1>1. /\ world' = [world EXCEPT ![o] = x] /\ Consistent(world)'
      /\ UNCHANGED <<known, copy, version, esxAt>>
      /\ renamed' = IF o \in EsxClusters /\ known[o] \notin {Gone, x} /\ x # Gone
                    THEN renamed \cup {o} ELSE renamed
  BY DEF Change, Consistent, stream
<1>2. Typed(world)'
  <2>1. Typed(world)
    BY EsxTypeSplit DEF EsxInv
  <2>2. DOMAIN world' = Objects /\ \A p \in Objects : world'[p] \in DataOf(p) \cup {Gone}
    BY <1>1, <2>1 DEF Typed
  <2> QED BY <2>2, Rigid DEF Typed
<1>3. renamed \subseteq renamed' /\ renamed' \subseteq EsxClusters
  <2>1. renamed \subseteq EsxClusters
    BY DEF EsxInv, EsxTypeOK
  <2> QED BY <1>1, <2>1
<1>4. Follows'
  BY <1>1, <1>3 DEF EsxInv, Follows, InStream
<1>5. NewSession'
  BY <1>1 DEF EsxInv, NewSession
<1>6. Renames'
  <2>1. ASSUME NEW c \in EsxClusters, known[c] # Gone, world'[c] \notin {Gone, known[c]}
        PROVE  c \in renamed'
    BY <1>1, <1>3, <2>1, EsxTypeSplit DEF EsxInv, Renames, Typed
  <2> QED BY <1>1, <2>1 DEF Renames
<1> QED BY <1>1, <1>2, <1>3, <1>4, <1>5, <1>6

\* The stream starts over: with nothing, but for clusters of which nothing was told.
LEMMA StartStep ==
    ASSUME EsxInv, EsxStart \/ EsxLoop
    PROVE  /\ Typed(known)' /\ Typed(copy)' /\ world' = world /\ renamed' \subseteq EsxClusters
           /\ Follows' /\ NewSession' /\ Renames'
<1> USE DEF inventory, timing, EsxGoto
<1>1. Typed(Empty) /\ \A o \in Objects : Empty[o] = Gone
  BY DEF Typed, Empty
<1>2. CASE EsxStart
  <2>1. /\ copy' = Empty /\ UNCHANGED <<known, world, renamed>>
        /\ version' = "" /\ esxAt' \in {"ended", "connect"}
    BY <1>2 DEF EsxStart
  <2>2. Typed(known)' /\ Typed(copy)'
    BY <1>1, <2>1, EsxTypeSplit, Rigid DEF EsxInv, Typed
  <2> QED
    BY <2>1, <2>2 DEF EsxInv, EsxTypeOK, Follows, InStream, NewSession, Renames
<1>3. CASE EsxLoop /\ esxAt' = "call" /\ version = ""
  <2>1. /\ copy' = [o \in Objects |-> IF Kept(o) THEN copy[o] ELSE Gone]
        /\ known' = Empty /\ renamed' = {} /\ world' = world
    BY <1>3 DEF EsxLoop
  <2>2. Typed(known)' /\ Typed(copy)'
    BY <1>1, <2>1, EsxTypeSplit, Rigid DEF EsxInv, Typed
  <2>3. \A o \in EsxHosts \cup EsxVms : copy'[o] = Gone /\ known'[o] = Gone
    BY <1>1, <2>1 DEF Kept, Objects, EsxAssumption
  <2>4. \A c \in EsxClusters : known'[c] = Gone
    BY <1>1, <2>1 DEF Objects
  <2>5. Follows' /\ NewSession' /\ Renames'
    BY <1>3, <2>3, <2>4 DEF Follows, NewSession, Renames
  <2> QED BY <2>1, <2>2, <2>5
<1>4. CASE EsxLoop /\ ~(esxAt' = "call" /\ version = "")
  <2>1. /\ UNCHANGED <<copy, known, renamed, world, version>>
        /\ esxAt = "loop"
        /\ esxAt' = "cancel" \/ (esxAt' = "call" /\ version # "")
    BY <1>4 DEF EsxLoop
  <2>2. Typed(known)' /\ Typed(copy)'
    BY <2>1, EsxTypeSplit, Rigid DEF EsxInv, Typed
  <2> QED
    BY <2>1, <2>2 DEF EsxInv, EsxTypeOK, Follows, InStream, NewSession, Renames
<1> QED BY <1>2, <1>3, <1>4

\* An answer, or a part of one, tells what the copy becomes; what of a cluster
\* the copy ignores was renamed.
LEMMA AnswerStep ==
    ASSUME EsxInv, Answered
    PROVE  /\ Typed(known)' /\ Typed(copy)' /\ world' = world /\ renamed' = renamed
           /\ Follows' /\ NewSession' /\ Renames'
<1>1. PICK part \in SUBSET Different :
        /\ applyUpdates(part)
        /\ known' = [o \in Objects |-> IF o \in part THEN world[o] ELSE known[o]]
        /\ esxAt' \in {"report", "loop"}
  BY DEF Answered, EsxGoto
<1>2. /\ esxAt = "waiting" /\ world' = world /\ renamed' = renamed
  BY DEF Answered, inventory
<1>3. copy' = [o \in Objects |-> IF o \in part /\ ~Ignored(o) THEN world[o] ELSE copy[o]]
  BY <1>1 DEF applyUpdates
<1>4. Typed(known)' /\ Typed(copy)'
  BY <1>1, <1>3, EsxTypeSplit, Rigid DEF EsxInv, Typed
<1>5. /\ \A o \in EsxHosts \cup EsxVms :
             copy[o] = known[o] \/ (o \in EsxHosts /\ known[o] = Bare /\ copy[o] # Gone)
      /\ \A c \in EsxClusters \ renamed : known[c] # Gone => copy[c] = known[c]
  BY <1>2 DEF EsxInv, Follows, InStream
<1>6. \A o \in EsxHosts \cup EsxVms :
          copy'[o] = known'[o] \/ (o \in EsxHosts /\ known'[o] = Bare /\ copy'[o] # Gone)
  <2>1. ASSUME NEW o \in EsxHosts \cup EsxVms
        PROVE  copy'[o] = known'[o]
               \/ (o \in EsxHosts /\ known'[o] = Bare /\ copy'[o] # Gone)
    <3>1. o \in Objects /\ o \notin EsxClusters
      BY DEF Objects, EsxAssumption
    <3>2. CASE o \in part /\ Ignored(o)
      <4>1. o \in EsxHosts /\ world[o] = Bare /\ known[o] # Gone
        BY <3>1, <3>2 DEF Ignored
      <4> QED BY <1>1, <1>3, <1>5, <3>1, <3>2, <4>1, Markers
    <3>3. CASE ~(o \in part /\ Ignored(o))
      BY <1>1, <1>3, <1>5, <3>1, <3>3
    <3> QED BY <3>2, <3>3
  <2> QED BY <2>1
<1>7. ASSUME NEW c \in EsxClusters \ renamed, known'[c] # Gone
      PROVE  copy'[c] = known'[c]
  <2>1. c \in Objects
    BY DEF Objects
  <2>2. CASE c \in part
    <3>1. world[c] # Gone /\ world[c] # known[c]
      BY <1>1, <1>7, <2>1, <2>2 DEF Different
    <3>2. ~Ignored(c)
      BY <3>1 DEF EsxInv, Renames, Ignored
    <3> QED BY <1>1, <1>3, <2>1, <2>2, <3>2
  <2>3. CASE c \notin part
    BY <1>1, <1>3, <1>5, <1>7, <2>1, <2>3
  <2> QED BY <2>2, <2>3
<1>8. Follows'
  BY <1>2, <1>6, <1>7 DEF Follows
<1>9. NewSession'
  BY <1>1 DEF NewSession
<1>10. Renames'
  <2>1. ASSUME NEW c \in EsxClusters, known'[c] # Gone, world[c] \notin {Gone, known'[c]}
        PROVE  c \in renamed
    BY <1>1, <2>1 DEF EsxInv, Renames, Objects
  <2> QED BY <1>2, <2>1 DEF Renames
<1> QED BY <1>2, <1>4, <1>8, <1>9, <1>10

-----------------------------------------------------------------------------
(* The theorem.                                                            *)

\* Before the first session nothing was told and nothing is copied.
LEMMA EsxInitial == ASSUME EsxInit PROVE EsxInv
<1>1. {due, sc, filter, esxTold, excused} \subseteq BOOLEAN
  BY Zenon DEF EsxInit
<1>2. Typed(Empty) /\ \A o \in Objects : Empty[o] = Gone
  BY DEF Typed, Empty
<1>3. Typed(world) /\ Typed(known) /\ Typed(copy) /\ Consistent(world)
  BY <1>2 DEF EsxInit, EsxAssumption, Typed
<1>4. /\ {DOMAIN world, DOMAIN known, DOMAIN copy} = {Objects}
      /\ \A o \in Objects : {world[o], known[o], copy[o]} \subseteq DataOf(o) \cup {Gone}
  BY <1>3 DEF Typed
<1>5. esxChanges = 0 /\ esxFaults = 0
  BY Zenon DEF EsxInit
<1>6. {esxChanges, esxFaults} \subseteq Nat
  BY <1>5
<1>7. /\ version \in {"", "last", "newer"} /\ session \in {"none", "open", "closed"}
      /\ esxAt \in {"start", "connect", "content", "login", "logging", "filter", "loop",
                    "call", "waiting", "canceled", "report", "wait", "cancel", "ended"}
                   \cup (Nexts \ {"over"})
      /\ stopper \in {"none", "cancel", "leaveOld", "raised"} \cup Nexts
      /\ renamed \subseteq EsxClusters
  BY Zenon DEF EsxInit
<1>8. EsxTypeOK
  BY <1>1, <1>3, <1>4, <1>7, <1>6, Zenon DEF EsxTypeOK
<1>9. Follows /\ NewSession
  BY DEF EsxInit, Follows, InStream, NewSession
<1>10. Renames
  BY <1>2 DEF EsxInit, Renames, Objects
<1> QED BY <1>9, <1>10, <1>8 DEF EsxInv

\* No step makes the copy differ from what the server told.
LEMMA EsxInductive == ASSUME EsxInv, [EsxNext]_esxVars PROVE EsxInv'
<1>1. /\ Typed(world)' /\ Typed(known)' /\ Typed(copy)' /\ Consistent(world)'
      /\ renamed' \subseteq EsxClusters /\ Follows' /\ NewSession' /\ Renames'
  <2>0. /\ Typed(world) /\ Typed(known) /\ Typed(copy) /\ Consistent(world)
        /\ renamed \subseteq EsxClusters
    BY EsxTypeSplit DEF EsxInv, EsxTypeOK
  <2>1. CASE \E o \in Objects : \E x \in DataOf(o) \cup {Gone} : Change(o, x)
    BY <2>0, <2>1, ChangeStep, Rigid DEF Typed
  <2>2. CASE EsxStart \/ EsxLoop
    BY <2>0, <2>2, StartStep, Rigid DEF Typed, Consistent
  <2>3. CASE Answered
    BY <2>0, <2>3, AnswerStep, Rigid DEF Typed, Consistent
  <2>4. CASE /\ UNCHANGED <<world, known, copy, renamed>>
             /\ InStream' => InStream
             /\ NewSession'
    BY <2>0, <2>4, Rigid DEF EsxInv, Follows, Renames, Typed, Consistent
  <2> QED BY <2>1, <2>2, <2>3, <2>4, Steps DEF EsxInv
<1>2. /\ {DOMAIN world', DOMAIN known', DOMAIN copy'} = {Objects}
      /\ \A o \in Objects : {world'[o], known'[o], copy'[o]} \subseteq DataOf(o) \cup {Gone}
  BY <1>1, Rigid DEF Typed
<1>3. EsxTypeOK
  BY DEF EsxInv
<1>4. EsxTypeOK'
  BY <1>1, <1>2, <1>3, Rigid, EsxFlagsStep, EsxPlacesStep, EsxBoundsStep DEF EsxTypeOK
<1> QED BY <1>1, <1>4 DEF EsxInv

\* The copy that a mapping is made of is what the answers up to the client's
\* version told, after whatever truncated answers, time-outs and new sessions;
\* but for clusters that were renamed and hosts that lost their properties.
THEOREM EsxInvariance == EsxSpec => []EsxInv
<1>1. EsxInit => EsxInv
  BY EsxInitial
<1>2. EsxInv /\ [EsxNext]_esxVars => EsxInv'
  BY EsxInductive
<1> QED BY <1>1, <1>2, PTL DEF EsxSpec

\* Until stop() asks for a logout a session that is open, or is being opened, has
\* its service content; when the request is answered, or goes to an old client, a
\* session that is open is a later one.
Early == {"none", "cancel", "destroy", "drop", "logout"}
SessionKnown ==
    /\ stopper \in Early /\ (session = "open" \/ esxAt = "logging") => sc
    /\ esxAt = "forget" => session # "open"
    /\ stopper \in Missed /\ session = "open" => excused

\* A step of stop() on its way out.
LEMMA StopStep ==
    ASSUME SessionKnown, StopEsx
    PROVE  SessionKnown'
<1>1. PICK next \in Nexts : Cleanup(stopper, next) /\ stopper' = next
  BY DEF StopEsx
<1>2. UNCHANGED excused /\ (esxAt' = esxAt \/ (esxAt = "waiting" /\ esxAt' = "canceled"))
  BY DEF StopEsx, EsxGoto
<1>3. CASE CancelWait(stopper, next) \/ DestroyFilter(stopper, next) \/ DropFilter(stopper, next)
  <2>1. UNCHANGED <<sc, session>> /\ stopper \in Early /\ next \in Early
    BY <1>3 DEF CancelWait, DestroyFilter, DropFilter, login, Early
  <2> QED BY <1>1, <1>2, <2>1 DEF SessionKnown, Early, Missed
<1>4. CASE AskLogout(stopper, next)
  <2>1. /\ UNCHANGED <<sc, session>> /\ stopper \in Early
        /\ next = "leave" \/ (next = "over" /\ ~sc)
    BY <1>4 DEF AskLogout, login, Early
  <2> QED BY <1>1, <1>2, <2>1 DEF SessionKnown, Early, Missed
<1>5. CASE Logout(stopper, next)
  <2>1. /\ stopper \in {"leave", "leaveOld"} /\ next \in {"forget", "over"}
        /\ stopper = "leave" => session' # "open"
        /\ stopper = "leaveOld" => session' = session
        /\ session' = "open" => session = "open"
    BY <1>5 DEF Logout
  <2> QED BY <1>1, <1>2, <2>1 DEF SessionKnown, Early, Missed
<1>6. CASE ForgetContent(stopper, next)
  <2>1. stopper = "forget" /\ next = "over" /\ session' = session
    BY <1>6 DEF ForgetContent
  <2> QED BY <1>1, <1>2, <2>1 DEF SessionKnown, Early, Missed
<1> QED BY <1>1, <1>3, <1>4, <1>5, <1>6 DEF Cleanup

\* A step of the virt thread's own cleanup.
LEMMA CleanStep ==
    ASSUME EsxTypeOK, SessionKnown, CleanThread
    PROVE  SessionKnown'
<1>1. PICK next \in Nexts : Cleanup(esxAt, next) /\ esxAt' = IF next = "over" THEN "ended" ELSE next
  BY DEF CleanThread
<1>2. UNCHANGED <<stopper, excused>>
  BY DEF CleanThread, stopping
<1>3. CASE CancelWait(esxAt, next) \/ DestroyFilter(esxAt, next) \/ DropFilter(esxAt, next)
           \/ AskLogout(esxAt, next)
  <2>1. /\ UNCHANGED <<sc, session>> /\ next \in {"destroy", "drop", "logout", "leave", "over"}
    BY <1>3 DEF CancelWait, DestroyFilter, DropFilter, AskLogout, login
  <2> QED BY <1>1, <1>2, <2>1 DEF SessionKnown
<1>4. CASE Logout(esxAt, next)
  <2>1. /\ sc' = sc /\ next \in {"forget", "over"} /\ (session' = "open" => session = "open")
        /\ next = "forget" /\ esxAt = "leave" => session' = "closed"
        /\ esxAt \in {"leave", "leaveOld"}
    BY <1>4 DEF Logout
  <2>2. esxAt # "leaveOld"
    BY DEF EsxTypeOK, Nexts
  <2> QED BY <1>1, <1>2, <2>1, <2>2 DEF SessionKnown
<1>5. CASE ForgetContent(esxAt, next)
  <2>1. esxAt = "forget" /\ next = "over" /\ session' = session
    BY <1>5 DEF ForgetContent
  <2> QED BY <1>1, <1>2, <2>1 DEF SessionKnown
<1> QED BY <1>1, <1>3, <1>4, <1>5 DEF Cleanup

LEMMA SessionKnownStep ==
    ASSUME SessionKnown, EsxTypeOK, [EsxNext]_esxVars
    PROVE  SessionKnown'
<1> USE DEF SessionKnown, Early, Missed, inventory, stream, timing, login, stopping, EsxGoto,
            Raise
<1>1. ASSUME NEW o \in Objects, NEW x \in DataOf(o) \cup {Gone}, Change(o, x)
      PROVE  UNCHANGED <<session, sc, stopper, excused, esxAt>>
  BY <1>1 DEF Change
<1>2. CASE EsxStart \/ NewClient \/ Content \/ AskLogin
  BY <1>2 DEF EsxStart, NewClient, Content, AskLogin
<1>3. CASE Login \/ CreateFilter \/ EsxLoop
  BY <1>3 DEF Login, CreateFilter, EsxLoop
<1>4. CASE Ask \/ Answered \/ Canceled \/ Faulted \/ TimedOut \/ Report \/ WaitInterval
  BY <1>4 DEF Ask, Answered, Canceled, Faulted, TimedOut, Report, WaitInterval
<1>5. CASE CleanThread \/ StopEsx
  BY <1>5, CleanStep, StopStep
<1>6. CASE CleanThreadRaises \/ TellEsx \/ StopEsxRaises \/ Expire
  BY <1>6 DEF CleanThreadRaises, TellEsx, StopEsxRaises, Expire, DestroyRaises
<1>7. CASE ThreadLogoutFails \/ StopLogoutFails
  BY <1>7 DEF ThreadLogoutFails, StopLogoutFails, LogoutFails
<1>8. CASE UNCHANGED esxVars
  BY <1>8 DEF esxVars
<1> QED
  BY <1>1, <1>2, <1>3, <1>4, <1>5, <1>6, <1>7, <1>8 DEF EsxNext, RunEsx

\* When stop() returned, the session of the client is closed, wherever it came upon
\* the thread: also if the thread made a new client or logged in while stop() was
\* under way, but for a login that came after the request of its logout was
\* answered, or with a client newer than that request.
THEOREM LoggedOutAlways == EsxSpec => []LoggedOut
<1>1. EsxInit => SessionKnown
  BY DEF EsxInit, SessionKnown, Missed
<1>2. EsxTypeOK /\ SessionKnown /\ [EsxNext]_esxVars => SessionKnown'
  BY SessionKnownStep
<1>3. SessionKnown => LoggedOut
  BY DEF SessionKnown, Missed, LoggedOut
<1>4. EsxInv => EsxTypeOK
  BY DEF EsxInv
<1> QED BY <1>1, <1>2, <1>3, <1>4, EsxInvariance, PTL DEF EsxSpec

-----------------------------------------------------------------------------
(* libvirt.                                                                *)

HIDE EsxAssumption

\* What can be read is a set of domains with their states.
LEMMA InTyped ==
    /\ In("active") \in SUBSET (Domains \X States)
    /\ In("defined") \in SUBSET (Domains \X States)
<1>1. ASSUME NEW s \in States PROVE In(s) \in SUBSET (Domains \X States)
  BY DEF In
<1> QED BY <1>1 DEF States

\* What there is to be read depends on the domains only.
LEMMA SameTruth ==
    ASSUME domain' = domain
    PROVE  Truth' = Truth /\ In("active")' = In("active") /\ In("defined")' = In("defined")
BY DEF Truth, In

\* What the two readers know stands while nothing that they read changes.
LEMMA SnapshotsStay ==
    ASSUME LvInv,
           UNCHANGED <<domain, seen, cbSeen, moved>>,
           lvAt' \in {"defined", "put"} => lvAt' = lvAt,
           cbAt' \in {"defined", "put"} => cbAt' = cbAt
    PROVE  (Snapshots /\ Halves)'
<1>1. Truth' = Truth /\ In("active")' = In("active")
  BY SameTruth
<1>2. Snapshots'
  BY <1>1 DEF LvInv, Snapshots
<1>3. Halves'
  BY <1>1 DEF LvInv, Halves
<1> QED BY <1>2, <1>3

\* The invariant holds at the start: nobody reads.
LEMMA LvInitial == ASSUME LvAssumption, LvInit PROVE LvInv
<1>1. {event, initial, lvDue, lvTold} \subseteq BOOLEAN
  BY Zenon DEF LvInit
<1>2. {seen, cbSeen} \subseteq SUBSET (Domains \X States)
  BY DEF LvInit
<1>3. {lvChanges, lvFaults} \subseteq Nat /\ moved \subseteq {"thread", "callback"}
  BY DEF LvInit
<1>4. LvTypeOK
  BY <1>1, <1>2, <1>3 DEF LvInit, LvTypeOK
<1>5. Snapshots /\ Halves
  BY DEF LvInit, Snapshots, Halves
<1> QED BY <1>4, <1>5 DEF LvInv

\* No step makes a report of a reader untrue whose reading saw no change.
LEMMA LvInductive ==
    ASSUME LvAssumption, LvInv, [LvNext]_lvVars
    PROVE  LvInv'
<1> USE DEF lvWorld, reading, calling
<1>0. LvTypeOK /\ Snapshots /\ Halves
  BY DEF LvInv
<1>1. ASSUME NEW d \in Domains, NEW s \in States \cup {"gone"}, ChangeDomain(d, s)
      PROVE  LvInv'
  <2>1. LvTypeOK'
    BY <1>0, <1>1 DEF LvTypeOK, ChangeDomain
  <2>2. (Snapshots /\ Halves)'
    BY <1>1 DEF ChangeDomain, Snapshots, Halves
  <2> QED BY <2>1, <2>2 DEF LvInv
<1>2. CASE LoseConnection \/ TellLv \/ PassInterval
  <2>1. LvTypeOK'
    <3>1. {event', initial', lvDue', lvTold'} \subseteq BOOLEAN
      BY <1>0, <1>2, Zenon DEF LvTypeOK, LoseConnection, TellLv, PassInterval,
         LvFaulty
    <3>2. {seen', cbSeen'} \subseteq SUBSET (Domains \X States) /\ moved' = moved
      BY <1>0, <1>2 DEF LvTypeOK, LoseConnection, TellLv, PassInterval, LvFaulty
    <3>3. {lvChanges', lvFaults'} \subseteq Nat
      BY <1>0, <1>2 DEF LvTypeOK, LoseConnection, TellLv, PassInterval, LvFaulty
    <3>4. lvOneshot' = lvOneshot /\ domain' = domain /\ conn' \in {"none", "up", "dead"}
      BY <1>0, <1>2 DEF LvTypeOK, LoseConnection, TellLv, PassInterval, LvFaulty
    <3>5. /\ lvAt' \in {"start", "top", "active", "defined", "put", "ended"}
          /\ cbAt' \in {"idle", "active", "defined", "put"}
      BY <1>0, <1>2 DEF LvTypeOK, LoseConnection, TellLv, PassInterval, LvFaulty
    <3> QED BY <1>0, <3>1, <3>2, <3>3, <3>4, <3>5 DEF LvTypeOK
  <2>2. (Snapshots /\ Halves)'
    BY <1>2, SnapshotsStay DEF LoseConnection, TellLv, PassInterval
  <2> QED BY <2>1, <2>2 DEF LvInv
<1>3. CASE LvStart \/ Connect \/ Disconnect \/ LvTop \/ LvStop \/ ReadFails \/ LvPut
  <2>1. LvTypeOK'
    <3>1. {event', initial', lvDue', lvTold'} \subseteq BOOLEAN
      BY <1>0, <1>3, Zenon DEF LvTypeOK, LvStart, Connect, Disconnect, LvTop,
         LvStop, ReadFails, LvPut, LvRaise, LvFaulty
    <3>2. {seen', cbSeen'} \subseteq SUBSET (Domains \X States) /\ moved' = moved
      BY <1>0, <1>3 DEF LvTypeOK, LvStart, Connect, Disconnect, LvTop, LvStop,
         ReadFails, LvPut, LvRaise, LvFaulty
    <3>3. {lvChanges', lvFaults'} \subseteq Nat
      BY <1>0, <1>3 DEF LvTypeOK, LvStart, Connect, Disconnect, LvTop, LvStop,
         ReadFails, LvPut, LvRaise, LvFaulty
    <3>4. lvOneshot' = lvOneshot /\ domain' = domain /\ conn' \in {"none", "up", "dead"}
      BY <1>0, <1>3 DEF LvTypeOK, LvStart, Connect, Disconnect, LvTop, LvStop,
         ReadFails, LvPut, LvRaise, LvFaulty
    <3>5. /\ lvAt' \in {"start", "top", "active", "defined", "put", "ended"}
          /\ cbAt' \in {"idle", "active", "defined", "put"}
      BY <1>0, <1>3 DEF LvTypeOK, LvStart, Connect, Disconnect, LvTop, LvStop,
         ReadFails, LvPut, LvRaise, LvFaulty
    <3> QED BY <1>0, <3>1, <3>2, <3>3, <3>4, <3>5 DEF LvTypeOK
  <2>2. (Snapshots /\ Halves)'
    BY <1>3, SnapshotsStay DEF LvStart, Connect, Disconnect, LvTop, LvStop, ReadFails,
                               LvPut, LvRaise
  <2> QED BY <2>1, <2>2 DEF LvInv
<1>4. CASE ReadActive
  <2>1. LvTypeOK'
    BY <1>0, <1>4, InTyped DEF LvTypeOK, ReadActive
  <2>2. (Snapshots /\ Halves)'
    BY <1>0, <1>4, SameTruth DEF ReadActive, Snapshots, Halves, Truth
  <2> QED BY <2>1, <2>2 DEF LvInv
<1>5. CASE ReadDefined
  <2>1. LvTypeOK'
    BY <1>0, <1>5, InTyped DEF LvTypeOK, ReadDefined, AlsoDefined
  <2>2. (Snapshots /\ Halves)'
    BY <1>0, <1>5, SameTruth DEF ReadDefined, AlsoDefined, Snapshots, Halves, Truth
  <2> QED BY <2>1, <2>2 DEF LvInv
<1>6. CASE Callback \/ CallbackFails \/ CallbackPuts
  <2>1. LvTypeOK'
    <3>1. {event', initial', lvDue', lvTold'} \subseteq BOOLEAN
      BY <1>0, <1>6, Zenon DEF LvTypeOK, Callback, CallbackFails, CallbackPuts,
         LvFaulty
    <3>2. {seen', cbSeen'} \subseteq SUBSET (Domains \X States) /\ moved' = moved
      BY <1>0, <1>6 DEF LvTypeOK, Callback, CallbackFails, CallbackPuts, LvFaulty
    <3>3. {lvChanges', lvFaults'} \subseteq Nat
      BY <1>0, <1>6 DEF LvTypeOK, Callback, CallbackFails, CallbackPuts, LvFaulty
    <3>4. lvOneshot' = lvOneshot /\ domain' = domain /\ conn' \in {"none", "up", "dead"}
      BY <1>0, <1>6 DEF LvTypeOK, Callback, CallbackFails, CallbackPuts, LvFaulty
    <3>5. /\ lvAt' \in {"start", "top", "active", "defined", "put", "ended"}
          /\ cbAt' \in {"idle", "active", "defined", "put"}
      BY <1>0, <1>6 DEF LvTypeOK, Callback, CallbackFails, CallbackPuts, LvFaulty
    <3> QED BY <1>0, <3>1, <3>2, <3>3, <3>4, <3>5 DEF LvTypeOK
  <2>2. (Snapshots /\ Halves)'
    BY <1>6, SnapshotsStay DEF Callback, CallbackFails, CallbackPuts
  <2> QED BY <2>1, <2>2 DEF LvInv
<1>7. CASE CallbackReads
  <2>1. LvTypeOK'
    <3>1. /\ UNCHANGED <<lvOneshot, domain, lvChanges, conn, event, lvAt, initial, seen>>
          /\ UNCHANGED <<lvDue, lvTold, lvFaults>>
      BY <1>7 DEF CallbackReads
    <3>2. cbSeen' \in SUBSET (Domains \X States)
      BY <1>0, <1>7, InTyped DEF LvTypeOK, CallbackReads, AlsoDefined
    <3>3. /\ moved' \subseteq moved
          /\ cbAt' \in {"idle", "active", "defined", "put"}
      BY <1>7 DEF CallbackReads
    <3> QED BY <1>0, <3>1, <3>2, <3>3 DEF LvTypeOK
  <2>2. (Snapshots /\ Halves)'
    BY <1>0, <1>7, SameTruth DEF CallbackReads, AlsoDefined, Snapshots, Halves, Truth
  <2> QED BY <2>1, <2>2 DEF LvInv
<1>8. CASE UNCHANGED lvVars
  <2>1. LvTypeOK'
    BY <1>0, <1>8 DEF LvTypeOK, lvVars
  <2>2. (Snapshots /\ Halves)'
    BY <1>8, SnapshotsStay DEF lvVars
  <2> QED BY <2>1, <2>2 DEF LvInv
<1> QED BY <1>1, <1>2, <1>3, <1>4, <1>5, <1>6, <1>7, <1>8 DEF LvNext, RunLv, LoopLv

\* A reader during whose two calls no domain changed puts every domain, in its
\* state, whatever the connection and the other reader do meanwhile.
THEOREM LvInvariance == LvAssumption /\ LvSpec => []LvInv
<1> SUFFICES ASSUME LvAssumption PROVE LvSpec => []LvInv
  OBVIOUS
<1>1. LvInit => LvInv
  BY LvInitial
<1>2. LvInv /\ [LvNext]_lvVars => LvInv'
  BY LvInductive
<1> QED BY <1>1, <1>2, PTL DEF LvSpec

-----------------------------------------------------------------------------
(* AHV.                                                                    *)

USE AhvAssumption

\* What a virtual machine is listed as.
ListedVms == AhvVms \X (AhvHosts \cup {"off"})

\* A finite set can be listed, each element once.
LEMMA SetToSeqLists ==
    ASSUME NEW S, IsFiniteSet(S)
    PROVE  /\ SetToSeq(S) \in [1..Cardinality(S) -> S]
           /\ \A i, j \in 1..Cardinality(S) : SetToSeq(S)[i] = SetToSeq(S)[j] => i = j
           /\ Cardinality(S) \in Nat
<1>1. Cardinality(S) \in Nat /\ ExistsBijection(1..Cardinality(S), S)
  BY FS_CardinalityType
<1>2. PICK f \in [1..Cardinality(S) -> S] : IsInjective(f)
  BY <1>1 DEF ExistsBijection, Bijection, Injection, IsInjective
<1>3. SetToSeq(S) \in [1..Cardinality(S) -> S] /\ IsInjective(SetToSeq(S))
  BY <1>2 DEF SetToSeq
<1> QED BY <1>1, <1>3 DEF IsInjective

\* The server lists every virtual machine it has once, with its host.
LEMMA ListedOnce ==
    ASSUME NEW w \in [AhvVms -> AhvHosts \cup {"off", "gone"}]
    PROVE  /\ Listed(w) \in Seq(ListedVms)
           /\ \A i, j \in DOMAIN Listed(w) : Listed(w)[i][1] = Listed(w)[j][1] => i = j
<1> DEFINE S == {v \in AhvVms : w[v] # "gone"}
           ids == SetToSeq(S)
<1>1. IsFiniteSet(S)
  BY FS_Subset
<1>2. /\ ids \in [1..Cardinality(S) -> S] /\ Cardinality(S) \in Nat
      /\ \A i, j \in 1..Cardinality(S) : ids[i] = ids[j] => i = j
  BY <1>1, SetToSeqLists
<1>3. Listed(w) = [i \in 1..Cardinality(S) |-> <<ids[i], w[ids[i]]>>]
  BY <1>2 DEF Listed
<1> HIDE DEF S, ids
<1>4. \A i \in 1..Cardinality(S) : Listed(w)[i] \in ListedVms /\ Listed(w)[i][1] = ids[i]
  BY <1>2, <1>3 DEF ListedVms, S
<1>5. Listed(w) \in [1..Cardinality(S) -> ListedVms]
  BY <1>3, <1>4
<1> QED BY <1>2, <1>3, <1>4, <1>5, SeqDef

\* What is listed once is once in the mapping.
LEMMA EachOnce ==
    ASSUME NEW w \in [AhvVms -> AhvHosts \cup {"off", "gone"}], NEW h,
           NEW v \in DOMAIN GuestList(Listed(w), h)
    PROVE  GuestList(Listed(w), h)[v] = 1
<1> DEFINE list == Listed(w)
<1>1. PICK i \in OnHost(list, h) : list[i][1] = v
  BY DEF GuestList
<1>2. {j \in OnHost(list, h) : list[j][1] = v} = {i}
  BY <1>1, ListedOnce DEF OnHost
<1>3. GuestList(list, h)[v] = Cardinality({j \in OnHost(list, h) : list[j][1] = v})
  BY DEF GuestList
<1> QED BY <1>2, <1>3, FS_Singleton

\* The next page.
LEMMA PageProperties ==
    ASSUME NEW w \in [AhvVms -> AhvHosts \cup {"off", "gone"}], vmHost = w, offset \in Nat
    PROVE  /\ Page \in Seq(ListedVms)
           /\ offset <= Len(Listed(w)) =>
                  /\ offset + Len(Page) <= Len(Listed(w))
                  /\ SubSeq(Listed(w), 1, offset) \o Page =
                         SubSeq(Listed(w), 1, offset + Len(Page))
           /\ offset <= Len(Listed(w)) /\ Page = <<>> => offset = Len(Listed(w))
<1> DEFINE all == Listed(w)
           end == IF offset + PageSize < Len(all) THEN offset + PageSize ELSE Len(all)
<1>1. all \in Seq(ListedVms) /\ Len(all) \in Nat
  BY ListedOnce, LenProperties
<1>2. Page = SubSeq(all, offset + 1, end) /\ end \in Nat /\ end <= Len(all)
  BY <1>1 DEF Page
<1>3. \A i \in offset + 1 .. end : all[i] \in ListedVms
  BY <1>1, <1>2, ElementOfSeq
<1> HIDE DEF end, all
<1>4. /\ Page \in Seq(ListedVms)
      /\ Len(Page) = IF offset + 1 <= end THEN end - (offset + 1) + 1 ELSE 0
  BY <1>2, <1>3, SubSeqProperties
<1>5. ASSUME offset <= Len(all)
      PROVE  /\ end >= offset /\ (end = offset => offset = Len(all))
             /\ SubSeq(all, 1, offset) \o Page = SubSeq(all, 1, end)
  <2>1. end >= offset /\ (end = offset => offset = Len(all))
    BY <1>1, <1>5 DEF end
  <2>2. SubSeq(all, 1, offset) \o SubSeq(all, offset + 1, end) = SubSeq(all, 1, end)
    BY <1>1, <1>2, <1>5, <2>1, ConcatAdjacentSubSeq
  <2> QED BY <1>2, <2>1, <2>2
<1>6. Len(<<>>) = 0
  OBVIOUS
<1>7. ASSUME offset <= Len(all)
      PROVE  Len(Page) = end - offset
  BY <1>2, <1>4, <1>5, <1>7
<1>8. ASSUME offset <= Len(all)
      PROVE  offset + Len(Page) = end
  BY <1>2, <1>5, <1>7, <1>8
<1>9. ASSUME offset <= Len(all), Page = <<>>
      PROVE  offset = Len(all)
  <2>1. Len(Page) = 0 /\ offset + Len(Page) = end
    BY <1>6, <1>8, <1>9
  <2> QED BY <1>5, <1>9, <2>1
<1> QED BY <1>2, <1>4, <1>5, <1>8, <1>9 DEF all

\* At the start nothing was asked for.
LEMMA AhvInitial == ASSUME AhvInit PROVE AhvInv
<1>1. {ahvTold, touched, cutShort} \subseteq BOOLEAN
  BY Zenon DEF AhvInit
<1>2. AhvTypeOK
  BY <1>1 DEF AhvInit, AhvTypeOK
<1>3. MappingIsWhole /\ PagesInOrder
  BY DEF AhvInit, MappingIsWhole, PagesInOrder
<1> QED BY <1>2, <1>3 DEF AhvInv

\* The types of the flags.
LEMMA AhvFlagsStep ==
    ASSUME AhvTypeOK, [AhvNext]_ahvVars
    PROVE  {ahvTold', touched', cutShort'} \subseteq BOOLEAN
BY Zenon DEF AhvTypeOK, AhvNext, RunAhv, ahvVars, ahvServer, gathered, ahvHistory, AhvStart,
   HostsAnswered, VmsAnswered, MappingFails, ClustersAnswered, Refresh, RequestFails,
   RequestRefused, NoAnswer, TellAhv, MoveVm, ToggleHost

\* The types of the rest.
LEMMA AhvTypeStep ==
    ASSUME AhvTypeOK, [AhvNext]_ahvVars
    PROVE  AhvTypeOK'
<1> USE DEF ahvVars, ahvServer, gathered, ahvHistory
<1>1. {ahvTold', touched', cutShort'} \subseteq BOOLEAN
  BY AhvFlagsStep
<1>2. ahvOneshot' \in AhvModes /\ ahvVersion' \in AhvVersions /\ hosts' \subseteq AhvHosts
  BY DEF AhvTypeOK, AhvNext, RunAhv, AhvStart, HostsAnswered, VmsAnswered, MappingFails,
     ClustersAnswered, Refresh, RequestFails, RequestRefused, NoAnswer, TellAhv, MoveVm,
     ToggleHost
<1>3. /\ vmHost' \in [AhvVms -> AhvHosts \cup {"off", "gone"}]
      /\ {ahvChanges', ahvFaults'} \subseteq Nat
  BY DEF AhvTypeOK, AhvNext, RunAhv, AhvStart, HostsAnswered, VmsAnswered, MappingFails,
     ClustersAnswered, Refresh, RequestFails, RequestRefused, NoAnswer, TellAhv, MoveVm,
     ToggleHost
<1>4. /\ ahvAt' \in {"start", "hosts", "vms", "clusters", "wait", "ended"}
      /\ hostList' \subseteq AhvHosts
  BY DEF AhvTypeOK, AhvNext, RunAhv, AhvStart, HostsAnswered, VmsAnswered, MappingFails,
     ClustersAnswered, Refresh, RequestFails, RequestRefused, NoAnswer, TellAhv, MoveVm,
     ToggleHost, AhvRaise
<1>5. tries' \in 0..AhvRetries - 1
  BY DEF AhvTypeOK, AhvNext, RunAhv, AhvStart, HostsAnswered, VmsAnswered, MappingFails,
     ClustersAnswered, Refresh, RequestFails, RequestRefused, NoAnswer, TellAhv, MoveVm,
     ToggleHost, AhvRaise
<1>6. /\ offset' \in Nat
      /\ entities' \in Seq(AhvVms \X (AhvHosts \cup {"off"}))
  <2>1. vmHost \in [AhvVms -> AhvHosts \cup {"off", "gone"}] /\ offset \in Nat
    BY DEF AhvTypeOK
  <2>2. CASE VmsAnswered
    <3>1. Page \in Seq(ListedVms) /\ Listed(vmHost) \in Seq(ListedVms)
      BY <2>1, ListedOnce, PageProperties
    <3>2. /\ entities' \in {Listed(vmHost), entities \o Page}
          /\ offset' \in {offset, offset + Len(Page)}
      BY <2>2 DEF VmsAnswered, NextOffset
    <3>3. entities \o Page \in Seq(ListedVms) /\ Len(Page) \in Nat
      BY <3>1, ConcatProperties, LenProperties DEF AhvTypeOK, ListedVms
    <3>4. offset' \in Nat
      BY <2>1, <3>2, <3>3
    <3>5. entities' \in Seq(ListedVms)
      BY <3>1, <3>2, <3>3
    <3> QED BY <3>4, <3>5 DEF ListedVms
  <2>3. CASE ~VmsAnswered
    <3>1. \/ UNCHANGED <<offset, entities>>
          \/ offset' = 0 /\ entities' = <<>>
      BY <2>3 DEF AhvNext, RunAhv, AhvStart, HostsAnswered, MappingFails, ClustersAnswered,
         Refresh, RequestFails, RequestRefused, NoAnswer, TellAhv, MoveVm, ToggleHost
    <3>2. <<>> \in Seq(ListedVms)
      BY EmptySeq
    <3>3. offset \in Nat /\ entities \in Seq(ListedVms)
      BY DEF AhvTypeOK, ListedVms
    <3>4. offset' \in Nat
      BY <3>1, <3>3
    <3>5. entities' \in Seq(ListedVms)
      <4>1. CASE UNCHANGED <<offset, entities>>
        BY <3>3, <4>1
      <4>2. CASE entities' = <<>>
        BY <3>2, <4>2
      <4> QED BY <3>1, <4>1, <4>2
    <3> QED BY <3>4, <3>5 DEF ListedVms
  <2> QED BY <2>2, <2>3
<1> QED BY <1>1, <1>2, <1>3, <1>4, <1>5, <1>6 DEF AhvTypeOK

\* The pages go on where they ended, and the list of hosts is the server's, until
\* something changes.
LEMMA PagesStep ==
    ASSUME AhvTypeOK, PagesInOrder, [AhvNext]_ahvVars
    PROVE  PagesInOrder'
<1> USE DEF PagesInOrder, ahvVars, ahvServer, gathered, ahvHistory
<1>1. /\ vmHost \in [AhvVms -> AhvHosts \cup {"off", "gone"}] /\ offset \in Nat
      /\ Listed(vmHost) \in Seq(ListedVms) /\ Len(Listed(vmHost)) \in Nat
  BY ListedOnce, LenProperties DEF AhvTypeOK
<1>2. vmHost' = vmHost => Listed(vmHost)' = Listed(vmHost)
  OBVIOUS
<1>3. CASE AhvStart
  <2>1. SubSeq(Listed(vmHost), 1, 0) = <<>>
    BY SubSeqEmpty
  <2>2. ahvAt' \in {"ended", "hosts"} /\ offset' = 0 /\ entities' = <<>> /\ vmHost' = vmHost
    BY <1>3 DEF AhvStart
  <2> QED BY <1>1, <1>2, <2>1, <2>2
<1>4. CASE HostsAnswered
  BY <1>2, <1>4 DEF HostsAnswered
<1>5. CASE VmsAnswered
  <2>1. /\ ahvAt = "vms" /\ UNCHANGED <<vmHost, hosts, hostList, touched, cutShort>>
    BY <1>5 DEF VmsAnswered
  <2>2. CASE ahvVersion = 2
    BY <1>2, <1>5, <2>1, <2>2 DEF VmsAnswered
  <2>3. CASE ahvVersion # 2
    <3>1. /\ entities' = entities \o Page /\ offset' = offset + Len(Page)
          /\ ahvAt' = IF Page = <<>> THEN "clusters" ELSE "vms"
      BY <1>5, <2>3 DEF VmsAnswered, NextOffset
    <3>2. ASSUME ~touched
          PROVE  /\ offset' <= Len(Listed(vmHost))
                 /\ entities' = SubSeq(Listed(vmHost), 1, offset')
      BY <1>1, <2>1, <3>1, <3>2, PageProperties
    <3>3. ASSUME ~touched, Page = <<>>
          PROVE  entities' = Listed(vmHost)
      <4>1. offset = Len(Listed(vmHost)) /\ Len(Page) = 0
        BY <1>1, <2>1, <3>3, PageProperties
      <4>2. offset' = Len(Listed(vmHost))
        BY <1>1, <3>1, <4>1
      <4> QED BY <1>1, <3>2, <3>3, <4>2, SubSeqFull
    <3> QED BY <1>2, <2>1, <3>1, <3>2, <3>3
  <2> QED BY <2>2, <2>3
<1>6. CASE touched'
  BY <1>6
<1>7. CASE NoAnswer
  BY <1>2, <1>7 DEF NoAnswer, AhvRaise
<1>8. CASE RequestRefused \/ MappingFails \/ ClustersAnswered \/ Refresh
  BY <1>8 DEF RequestRefused, MappingFails, ClustersAnswered, Refresh, AhvRaise
<1>9. CASE RequestFails \/ TellAhv \/ UNCHANGED ahvVars
  BY <1>2, <1>9 DEF RequestFails, TellAhv
<1> QED
  BY <1>3, <1>4, <1>5, <1>6, <1>7, <1>8, <1>9 DEF AhvNext, RunAhv, MoveVm, ToggleHost

\* Of the pages comes the mapping.
LEMMA PagesAreWhole ==
    ASSUME AhvTypeOK, PagesInOrder
    PROVE  MappingIsWhole
<1> SUFFICES ASSUME ahvAt = "clusters", ~touched, ~cutShort
             PROVE  /\ build_host_to_uvm_map(hostList, entities) =
                           build_host_to_uvm_map(hosts, Listed(vmHost))
                    /\ \A h \in AhvHosts : \A v \in DOMAIN GuestList(entities, h) :
                           GuestList(entities, h)[v] = 1
  BY DEF MappingIsWhole
<1>1. hostList = hosts /\ entities = Listed(vmHost)
  BY DEF PagesInOrder
<1> QED BY <1>1, EachOnce DEF AhvTypeOK

\* What is put while nothing changes is every host with every guest of it, each
\* once, whichever pages the server gave it in.
THEOREM AhvInvariance == AhvSpec => []AhvInv
<1>1. AhvInit => AhvInv
  BY AhvInitial
<1>2. AhvInv /\ [AhvNext]_ahvVars => AhvInv'
  <2> SUFFICES ASSUME AhvInv, [AhvNext]_ahvVars PROVE AhvInv'
    OBVIOUS
  <2>1. AhvTypeOK' /\ PagesInOrder'
    BY AhvTypeStep, PagesStep DEF AhvInv
  <2>2. AhvTypeOK' /\ PagesInOrder' => MappingIsWhole'
    BY PagesAreWhole, PTL
  <2> QED BY <2>1, <2>2 DEF AhvInv
<1> QED BY <1>1, <1>2, PTL DEF AhvSpec

HIDE AhvAssumption

-----------------------------------------------------------------------------
(* Hyper-V.                                                                *)

USE HvAssumption, KvAssumption

\* At the start nothing is enumerated and nothing pulled.
LEMMA HvInitial == ASSUME HvInit PROVE HvInv
<1>1. {useNewApi, hvTold, misled} \subseteq BOOLEAN
  BY Zenon DEF HvInit
<1>2. HvTypeOK
  BY <1>1 DEF HvInit, HvTypeOK
<1>3. HvWhole /\ HvStated /\ HvClean
  BY DEF HvInit, HvWhole, HvStated, HvClean
<1> QED BY <1>2, <1>3 DEF HvInv

\* The flags and the bounds.
LEMMA HvFlagsStep ==
    ASSUME HvTypeOK, [HvNext]_hvVars
    PROVE  {useNewApi', hvTold', misled'} \subseteq BOOLEAN
BY Zenon DEF HvTypeOK, HvNext, RunHv, hvVars, hvServer, hvReads, hvPast, Latch, HvStart,
   EnumerateOld, OldFails, EnumerateNew, GetStates, PullOne, HvReport, HvFails, TellHv,
   ChangeGuest

\* What is read: guests, their states, and guests with a state or without one.
LEMMA HvReadsStep ==
    ASSUME HvTypeOK, [HvNext]_hvVars
    PROVE  /\ context' \subseteq HvGuests /\ guestStates' \subseteq HvGuests \X HvStates
           /\ pulled' \subseteq HvGuests \X (HvStates \cup {Unstated})
<1> USE DEF HvTypeOK, hvVars, hvServer, hvReads, hvPast
<1>1. Existing \subseteq HvGuests /\ HvTruth \subseteq HvGuests \X HvStates
  BY DEF Existing, HvTruth
<1>2. ASSUME NEW g \in HvGuests PROVE StateOf(g) \in HvStates \cup {Unstated}
  BY DEF StateOf
<1>3. CASE HvStart \/ EnumerateOld \/ OldFails \/ EnumerateNew \/ GetStates
  BY <1>1, <1>3 DEF HvStart, EnumerateOld, OldFails, EnumerateNew, GetStates
<1>4. CASE PullOne
  BY <1>2, <1>4 DEF PullOne
<1>5. CASE UNCHANGED <<context, guestStates, pulled>>
  BY <1>5
<1> QED
  BY <1>3, <1>4, <1>5 DEF HvNext, RunHv, HvReport, HvFails, TellHv, ChangeGuest

\* The rest of the types.
LEMMA HvRestStep ==
    ASSUME HvTypeOK, [HvNext]_hvVars
    PROVE  /\ hvOneshot' \in HvModes /\ namespaces' \in HvServers
           /\ hvGuest' \in [HvGuests -> HvStates \cup {HvAbsent}]
           /\ hvAt' \in {"start", "old", "new", "states", "pull", "ended"}
           /\ {hvChanges', hvFaults'} \subseteq Nat
BY DEF HvTypeOK, HvNext, RunHv, hvVars, hvServer, hvReads, hvPast, Latch, HvStart, HvRaise,
   EnumerateOld, OldFails, EnumerateNew, GetStates, PullOne, HvReport, HvFails, TellHv,
   ChangeGuest

\* Who is there since the mapping began is there, and is never left out.
LEMMA HvWholeStep ==
    ASSUME HvInv, [HvNext]_hvVars
    PROVE  HvWhole' /\ HvStated' /\ HvClean'
<1> USE DEF HvInv, hvVars, hvServer, hvReads, hvPast
<1>0. present \subseteq Existing
  BY DEF HvWhole
<1>1. ASSUME NEW g \in HvGuests, NEW s \in HvStates \cup {HvAbsent}, ChangeGuest(g, s)
      PROVE  HvWhole' /\ HvStated' /\ HvClean'
  <2>1. UNCHANGED <<hvAt, context, guestStates, pulled>> /\ present' \subseteq present
    BY <1>1 DEF ChangeGuest
  <2>2. present' \subseteq Existing'
    <3>1. ASSUME NEW x \in present' PROVE x \in HvGuests /\ hvGuest'[x] # HvAbsent
      BY <1>0, <1>1, <2>1, <3>1 DEF ChangeGuest, Existing, HvTypeOK
    <3> QED BY <3>1 DEF Existing
  <2> QED BY <2>1, <2>2 DEF HvWhole, HvStated, HvClean
<1>2. ASSUME hvGuest' = hvGuest PROVE Existing' = Existing
  BY <1>2 DEF Existing
<1>3. CASE HvStart
  <2>1. /\ hvAt' \in {"ended", "new", "old"} /\ pulled' = {}
        /\ present' = Existing /\ hvGuest' = hvGuest
    BY <1>3 DEF HvStart
  <2> QED BY <1>2, <2>1 DEF HvWhole, HvStated, HvClean
<1>4. CASE EnumerateOld \/ EnumerateNew
  <2>1. pulled = {} /\ UNCHANGED <<pulled, hvGuest, present>>
    BY <1>4 DEF EnumerateOld, EnumerateNew, HvClean
  <2>2. \/ hvAt' = "states" /\ context' = Existing
        \/ hvAt' \in {"ended", "start"}
    BY <1>4 DEF EnumerateOld, EnumerateNew, HvRaise
  <2> QED BY <1>0, <1>2, <2>1, <2>2 DEF HvWhole, HvStated, HvClean
<1>5. CASE OldFails
  <2>1. hvAt = "old" /\ hvAt' = "new" /\ UNCHANGED <<pulled, hvGuest, present>>
    BY <1>5 DEF OldFails, Latch
  <2> QED BY <1>0, <1>2, <2>1 DEF HvWhole, HvStated, HvClean
<1>6. CASE GetStates
  <2>1. /\ hvAt = "states" /\ hvAt' = "pull" /\ guestStates' = HvTruth
        /\ UNCHANGED <<hvGuest, context, pulled, present>>
    BY <1>6 DEF GetStates
  <2>2. pulled' = {}
    BY <2>1 DEF HvClean
  <2>3. ASSUME NEW g \in present PROVE hvGuest[g] \in HvStates /\ <<g, hvGuest[g]>> \in HvTruth
    BY <1>0 DEF Existing, HvTruth, HvTypeOK
  <2> QED BY <1>2, <2>1, <2>2, <2>3 DEF HvWhole, HvStated, HvClean
<1>7. CASE PullOne
  <2>1. PICK g \in context :
            /\ context' = context \ {g}
            /\ pulled' = IF g \in Existing THEN pulled \cup {<<g, StateOf(g)>>} ELSE pulled
    BY <1>7 DEF PullOne
  <2>2. hvAt = "pull" /\ UNCHANGED <<hvAt, hvGuest, guestStates, present>>
    BY <1>7 DEF PullOne
  <2>3. present \subseteq context' \cup {p[1] : p \in pulled'}
    <3>1. ASSUME NEW x \in present, x # g PROVE x \in context' \cup {p[1] : p \in pulled'}
      BY <2>1, <2>2, <3>1 DEF HvWhole
    <3>2. ASSUME g \in present PROVE g \in {p[1] : p \in pulled'}
      <4>1. <<g, StateOf(g)>> \in pulled'
        BY <1>0, <2>1, <3>2
      <4>2. <<g, StateOf(g)>>[1] = g
        OBVIOUS
      <4> HIDE DEF StateOf
      <4> QED BY <4>1, <4>2
    <3> QED BY <3>1, <3>2
  <2>4. ASSUME NEW p \in pulled', p[1] \in present PROVE p[2] # Unstated
    <3>1. CASE p \in pulled
      BY <2>2, <2>4, <3>1 DEF HvStated
    <3>2. CASE p = <<g, StateOf(g)>>
      <4>1. g \in present
        BY <2>4, <3>2
      <4>2. StateOf(g) \in HvStates
        BY <2>2, <4>1 DEF HvStated, StateOf
      <4> QED BY <3>2, <4>2 DEF HvAssumption
    <3> QED BY <2>1, <3>1, <3>2
  <2>5. \A x \in present' : \E s \in HvStates : <<x, s>> \in guestStates'
    BY <2>2 DEF HvStated
  <2> QED BY <1>0, <1>2, <2>2, <2>3, <2>4, <2>5 DEF HvWhole, HvStated, HvClean
<1>8. CASE HvReport \/ HvFails
  <2>1. hvAt' \in {"start", "ended"} /\ UNCHANGED <<hvGuest, present>>
    BY <1>8 DEF HvReport, HvFails, HvRaise
  <2> QED BY <1>0, <1>2, <2>1 DEF HvWhole, HvStated, HvClean
<1>9. CASE TellHv \/ UNCHANGED hvVars
  <2>1. UNCHANGED <<hvAt, hvGuest, context, guestStates, pulled, present>>
    BY <1>9 DEF TellHv
  <2> QED BY <1>0, <1>2, <2>1 DEF HvWhole, HvStated, HvClean
<1> QED
  BY <1>1, <1>3, <1>4, <1>5, <1>6, <1>7, <1>8, <1>9 DEF HvNext, RunHv

\* A guest that is there from the first request of a mapping on is in it, with its
\* state, whatever comes and goes between the requests.
THEOREM HvInvariance == HvSpec => []HvInv
<1>1. HvInit => HvInv
  BY HvInitial
<1>2. HvInv /\ [HvNext]_hvVars => HvInv'
  BY HvFlagsStep, HvReadsStep, HvRestStep, HvWholeStep DEF HvInv, HvTypeOK
<1> QED BY <1>1, <1>2, PTL DEF HvSpec

-----------------------------------------------------------------------------
(* KubeVirt.                                                               *)

\* At the start nothing was answered.
LEMMA KvInitial == ASSUME KvInit PROVE KvInv
<1>1. {kvTold, stirred} \subseteq BOOLEAN
  BY Zenon DEF KvInit
<1>2. KvTypeOK
  BY <1>1 DEF KvInit, KvTypeOK
<1>3. KvWhole /\ KvAnswers
  BY DEF KvInit, KvWhole, KvAnswers
<1> QED BY <1>2, <1>3 DEF KvInv

\* The types of the flags.
LEMMA KvFlagsStep ==
    ASSUME KvTypeOK, [KvNext]_kvVars
    PROVE  {kvTold', stirred'} \subseteq BOOLEAN
BY Zenon DEF KvTypeOK, KvNext, RunKv, kvVars, kvCluster, kvReads, KvStart, VersionAnswered,
   KvTop, NodesAnswered, InstancesAnswered, KvRequestFails, KvReport, TellKv, Schedule,
   ToggleNode

\* The types of the rest.
LEMMA KvRestStep ==
    ASSUME KvTypeOK, [KvNext]_kvVars
    PROVE  /\ kvOneshot' \in KvModes
           /\ nodes' \subseteq KvNodes /\ nodeList' \subseteq KvNodes
           /\ vmNode' \in [KvVms -> KvNodes \cup {"none", "gone"}]
           /\ vmList' \subseteq KvVms \X (KvNodes \cup {"none"})
           /\ kvAt' \in {"start", "version", "top", "nodes", "vms", "map", "ended"}
           /\ {kvChanges', kvFaults'} \subseteq Nat
<1>1. Instances \subseteq KvVms \X (KvNodes \cup {"none"})
  BY DEF Instances, KvTypeOK
<1> QED
  BY <1>1 DEF KvTypeOK, KvNext, RunKv, kvVars, kvCluster, kvReads, KvStart,
     VersionAnswered, KvTop, NodesAnswered, InstancesAnswered, KvRequestFails, KvReport,
     KvRaise, TellKv, Schedule, ToggleNode

\* The answers are what the cluster has, until it changes.
LEMMA KvAnswersStep ==
    ASSUME KvAnswers, [KvNext]_kvVars
    PROVE  KvAnswers'
<1> USE DEF KvAnswers, kvVars, kvCluster, kvReads
<1>1. ASSUME vmNode' = vmNode PROVE Instances' = Instances
  BY <1>1 DEF Instances
<1>2. CASE NodesAnswered \/ InstancesAnswered
  BY <1>1, <1>2 DEF NodesAnswered, InstancesAnswered
<1>3. CASE stirred'
  BY <1>3
<1>4. CASE /\ UNCHANGED <<vmNode, nodes, nodeList, vmList, stirred>>
           /\ kvAt' \in {"vms", "map"} => kvAt' = kvAt
  BY <1>1, <1>4
<1>5. CASE KvStart \/ VersionAnswered \/ KvTop \/ KvRequestFails \/ KvReport \/ TellKv
           \/ UNCHANGED kvVars
  BY <1>4, <1>5 DEF KvStart, VersionAnswered, KvTop, KvRequestFails, KvReport, KvRaise,
     TellKv
<1> QED
  BY <1>2, <1>3, <1>5 DEF KvNext, RunKv, Schedule, ToggleNode

\* Of the answers comes the mapping.
LEMMA KvAnswersAreWhole ==
    ASSUME KvTypeOK, KvAnswers
    PROVE  KvWhole
<1> SUFFICES ASSUME kvAt = "map", ~stirred
             PROVE  (UnknownNode <=> Orphaned) /\ (~Orphaned => KvMapping = KvTruth)
  BY DEF KvWhole
<1>1. nodeList = nodes /\ vmList = Instances
  BY DEF KvAnswers
<1>2. /\ \A p \in Scheduled : /\ p[1] \in KvVms /\ vmNode[p[1]] = p[2]
                              /\ p[2] \notin {"none", "gone"}
      /\ \A v \in KvVms : vmNode[v] \notin {"none", "gone"} => <<v, vmNode[v]>> \in Scheduled
  BY <1>1 DEF Scheduled, Instances
<1>3. UnknownNode <=> Orphaned
  <2>1. ASSUME NEW p \in Scheduled, p[2] \notin nodeList PROVE Orphaned
    BY <1>1, <1>2, <2>1 DEF Orphaned
  <2>2. ASSUME NEW v \in KvVms, vmNode[v] \notin nodes \cup {"none", "gone"}
        PROVE  UnknownNode
    <3>1. <<v, vmNode[v]>> \in Scheduled /\ <<v, vmNode[v]>>[2] = vmNode[v]
      BY <1>2, <2>2
    <3> QED BY <1>1, <2>2, <3>1 DEF UnknownNode
  <2> QED BY <2>1, <2>2 DEF UnknownNode, Orphaned
<1>4. ASSUME NEW n \in nodes
      PROVE  {p[1] : p \in {q \in Scheduled : q[2] = n}} = {v \in KvVms : vmNode[v] = n}
  <2>1. n \notin {"none", "gone"}
    BY DEF KvTypeOK, KvAssumption
  <2>2. ASSUME NEW v \in KvVms, vmNode[v] = n
        PROVE  v \in {p[1] : p \in {q \in Scheduled : q[2] = n}}
    <3>1. /\ <<v, n>> \in {q \in Scheduled : q[2] = n}
          /\ <<v, n>>[1] = v
      BY <1>2, <2>1, <2>2
    <3> QED BY <3>1
  <2>3. ASSUME NEW p \in {q \in Scheduled : q[2] = n}
        PROVE  p[1] \in {v \in KvVms : vmNode[v] = n}
    BY <1>2
  <2> QED BY <2>2, <2>3
<1>5. ~Orphaned => KvMapping = KvTruth
  BY <1>1, <1>4 DEF KvMapping, KvTruth, HostsAll
<1> QED BY <1>3, <1>5

\* A mapping that is put while nothing changes is the cluster, and fails only when
\* an instance is on a node that is gone.
THEOREM KvInvariance == KvSpec => []KvInv
<1> DEFINE Held == KvTypeOK /\ KvAnswers
<1>1. KvInit => Held
  BY KvInitial DEF KvInv
<1>2. Held /\ [KvNext]_kvVars => Held'
  <2> SUFFICES ASSUME KvTypeOK, KvAnswers, [KvNext]_kvVars PROVE Held'
    OBVIOUS
  <2>1. {kvTold', stirred'} \subseteq BOOLEAN
    BY KvFlagsStep
  <2>2. /\ kvOneshot' \in KvModes
        /\ nodes' \subseteq KvNodes /\ nodeList' \subseteq KvNodes
        /\ vmNode' \in [KvVms -> KvNodes \cup {"none", "gone"}]
        /\ vmList' \subseteq KvVms \X (KvNodes \cup {"none"})
        /\ kvAt' \in {"start", "version", "top", "nodes", "vms", "map", "ended"}
        /\ {kvChanges', kvFaults'} \subseteq Nat
    BY KvRestStep
  <2>3. KvTypeOK'
    BY <2>1, <2>2, Zenon DEF KvTypeOK
  <2>4. KvAnswers'
    BY KvAnswersStep
  <2> QED BY <2>3, <2>4
<1>3. Held => KvInv
  BY KvAnswersAreWhole DEF KvInv
<1> QED BY <1>1, <1>2, <1>3, PTL DEF KvSpec

-----------------------------------------------------------------------------
(* The configuration.                                                      *)

\* A step of one thread leaves the others alone.
LEMMA ThreadsApart ==
    ASSUME [ThreadsNext]_threadVars
    PROVE  /\ [SatNext]_satVars /\ [EsxNext]_esxVars /\ [LvNext]_lvVars
           /\ [AhvNext]_ahvVars /\ [HvNext]_hvVars /\ [KvNext]_kvVars
BY DEF ThreadsNext, threadVars, NoOther, Satellite, Esx, Libvirt, Prism, Hyper, Kube

\* What is proved of a thread of each kind holds in a configuration, whichever
\* kind it is for.
THEOREM ThreadsInvariance ==
    ThreadsSpec =>
        /\ []SatInv /\ []Remembered /\ []OneSystem
        /\ []EsxInv /\ []LoggedOut /\ []LvInv /\ []AhvInv /\ []PollersInv
<1>1. ThreadsInit => SatInit /\ EsxInit /\ LvInit /\ AhvInit /\ HvInit /\ KvInit
  BY DEF ThreadsInit
<1>2. [ThreadsNext]_threadVars =>
          /\ [SatNext]_satVars /\ [EsxNext]_esxVars /\ [LvNext]_lvVars
          /\ [AhvNext]_ahvVars /\ [HvNext]_hvVars /\ [KvNext]_kvVars
  BY ThreadsApart
<1>3. ThreadsSpec => SatSpec /\ EsxSpec /\ LvSpec /\ AhvSpec /\ HvSpec /\ KvSpec
  BY <1>1, <1>2, PTL DEF ThreadsSpec, SatSpec, EsxSpec, LvSpec, AhvSpec, HvSpec,
     KvSpec
<1>4. HvInv /\ KvInv => PollersInv
  BY DEF PollersInv
<1>5. LvSpec => []LvInv
  BY LvInvariance, LvAssumption
<1>6. AhvSpec => []AhvInv
  BY AhvInvariance, AhvAssumption
<1>7. EsxSpec => []EsxInv /\ []LoggedOut
  BY EsxInvariance, LoggedOutAlways, EsxAssumption, PTL
<1> QED
  BY <1>3, <1>4, <1>5, <1>6, <1>7, SatInvariance, SentIsThere, NoSecondSystem, HvInvariance,
     KvInvariance, PTL
=============================================================================
