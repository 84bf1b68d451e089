------------------------------ MODULE Libvirtd ------------------------------
(***************************************************************************)
(* The libvirt back end (virtwho/virt/libvirtd/libvirtd.py).  Two threads  *)
(* gather and put reports through one connection: the virt thread when it  *)
(* begins and after every interval, and the thread of libvirt's event loop *)
(* at every event of a domain.  The domains are read in two calls, first   *)
(* the active ones, then those that are only defined.                      *)
(*                                                                         *)
(* A report is what was read: domains with their states.  Host facts and   *)
(* their caches do not change and are left out, and so is status mode.     *)
(***************************************************************************)
EXTENDS Naturals, FiniteSets

CONSTANTS
    Domains,
    LvModes,      \* the values of lvOneshot
    NoDomains,    \* nothing was put yet
    LvError,      \* an ErrorReport
    MaxLvChanges, \* bound: changes of domains
    MaxLvFaults   \* bound: lost connections and errors

ASSUME LvAssumption ==
    /\ LvModes \subseteq BOOLEAN /\ {MaxLvChanges, MaxLvFaults} \subseteq Nat
    /\ NoDomains # LvError

VARIABLES
    lvOneshot,
    domain,     \* the state of each domain
    conn,       \* self.virt: "none", "up", or "dead"
    event,      \* an event waits for the event loop
    lvAt,       \* where the virt thread is
    initial,    \* no report in this call of _run yet
    lvDue,      \* time.time() > next_update
    seen,       \* what the virt thread has read
    cbAt,       \* where the callback is
    cbSeen,     \* what it has read
    lvTold,
    lvPut,      \* the report in the datastore
    lvChanges, lvFaults,
    moved       \* history: the readers during whose reading a domain changed

lvWorld == <<lvOneshot, domain, lvChanges>>
reading == <<lvAt, initial, seen>>
calling == <<cbAt, cbSeen>>
lvVars  == <<lvWorld, moved, conn, event, reading, calling, lvDue, lvTold, lvPut, lvFaults>>

States     == {"active", "defined"}
In(state)  == {<<d, state>> : d \in {e \in Domains : domain[e] = state}}
Truth      == In("active") \cup In("defined")

LvInit ==
    /\ lvOneshot \in LvModes
    /\ domain \in [Domains -> States \cup {"gone"}]
    /\ conn = "none" /\ event = FALSE
    /\ lvAt \in {"start", "ended"} \* there may be no such thread
    /\ initial = TRUE /\ lvDue = FALSE /\ seen = {}
    /\ cbAt = "idle" /\ cbSeen = {}
    /\ lvTold = FALSE /\ lvPut = NoDomains /\ lvChanges = 0 /\ lvFaults = 0 /\ moved = {}

LvFaulty == lvFaults < MaxLvFaults /\ lvFaults' = lvFaults + 1

-----------------------------------------------------------------------------
(* The host.                                                               *)

\* A domain is defined, started, stopped or undefined: an event for those who
\* registered for it.
ChangeDomain(d, s) ==
    /\ lvChanges < MaxLvChanges /\ domain[d] # s
    /\ domain' = [domain EXCEPT ![d] = s]
    /\ lvChanges' = lvChanges + 1
    /\ event' = (event \/ conn = "up")
    /\ moved' = {"thread", "callback"}
    /\ UNCHANGED <<lvOneshot, conn, reading, calling, lvDue, lvTold, lvPut, lvFaults>>

\* keepalive gives up: the connection is dead, its events are lost.
LoseConnection ==
    /\ conn = "up" /\ LvFaulty
    /\ conn' = "dead" /\ event' = FALSE
    /\ UNCHANGED <<lvWorld, moved, reading, calling, lvDue, lvTold, lvPut>>

TellLv ==
    /\ ~lvTold /\ lvAt # "ended"
    /\ lvTold' = TRUE
    /\ UNCHANGED <<lvWorld, moved, conn, event, reading, calling, lvDue, lvPut, lvFaults>>

PassInterval ==
    /\ ~lvDue
    /\ lvDue' = TRUE
    /\ UNCHANGED <<lvWorld, moved, conn, event, reading, calling, lvTold, lvPut, lvFaults>>

-----------------------------------------------------------------------------
(* The virt thread.                                                        *)

\* An exception ends _run: run puts an ErrorReport, unless the thread is told to
\* stop, and begins _run again after the interval.
LvRaise ==
    /\ lvAt' = IF lvTold \/ lvOneshot THEN "ended" ELSE "start"
    /\ lvPut' = IF lvTold THEN lvPut ELSE LvError

LvStart ==
    /\ lvAt = "start"
    /\ IF lvTold THEN lvAt' = "ended" /\ UNCHANGED <<conn, event, initial>>
       ELSE lvAt' = "top" /\ conn' = "none" /\ event' = FALSE /\ initial' = TRUE
    /\ UNCHANGED <<lvWorld, moved, seen, calling, lvDue, lvTold, lvPut, lvFaults>>

\* The head of the loop: connect, or drop a dead connection and connect.
Connect ==
    /\ lvAt = "top" /\ ~lvTold /\ conn # "up"
    /\ \/ conn' = "up" /\ UNCHANGED <<lvAt, lvPut, lvFaults>>
       \/ conn' = "none" /\ LvFaulty /\ LvRaise
    /\ event' = FALSE
    /\ UNCHANGED <<lvWorld, moved, initial, seen, calling, lvDue, lvTold>>

\* _disconnect sets self.virt to None before _connect sets it again.
Disconnect ==
    /\ lvAt = "top" /\ ~lvTold /\ conn = "dead"
    /\ conn' = "none"
    /\ UNCHANGED <<lvWorld, moved, event, reading, calling, lvDue, lvTold, lvPut, lvFaults>>

LvWantsNever == initial
LvWants      == initial \/ lvDue
LvTop ==
    /\ lvAt = "top" /\ ~lvTold /\ conn = "up"
    /\ lvAt' = IF LvWants THEN "active" ELSE "top"
    /\ UNCHANGED <<lvWorld, moved, conn, event, initial, seen, calling, lvDue, lvTold, lvPut,
                   lvFaults>>

LvStop ==
    /\ lvAt = "top" /\ lvTold
    /\ lvAt' = "ended" /\ conn' = "none" /\ event' = FALSE
    /\ UNCHANGED <<lvWorld, moved, initial, seen, calling, lvDue, lvTold, lvPut, lvFaults>>

\* listDomainsID, then listDefinedDomains, with a lookup for each.
ReadActive ==
    /\ lvAt = "active" /\ conn = "up"
    /\ seen' = In("active") /\ lvAt' = "defined" /\ moved' = moved \ {"thread"}
    /\ UNCHANGED <<lvWorld, conn, event, initial, calling, lvDue, lvTold, lvPut, lvFaults>>

AlsoDefinedOnly(read) == In("defined")
AlsoDefined(read)     == read \cup In("defined")
ReadDefined ==
    /\ lvAt = "defined" /\ conn = "up"
    /\ seen' = AlsoDefined(seen) /\ lvAt' = "put"
    /\ UNCHANGED <<lvWorld, moved, conn, event, initial, calling, lvDue, lvTold, lvPut,
                   lvFaults>>

\* libvirtError: the connection is closed; without one, AttributeError.
ReadFails ==
    /\ lvAt \in {"active", "defined"}
    /\ (conn # "up" /\ UNCHANGED lvFaults) \/ (conn = "up" /\ LvFaulty)
    /\ conn' = IF conn = "up" THEN "dead" ELSE conn
    /\ event' = FALSE
    /\ LvRaise
    /\ UNCHANGED <<lvWorld, moved, initial, seen, calling, lvDue, lvTold>>

\* In oneshot mode the loop is left after the first report.
LvPut ==
    /\ lvAt = "put"
    /\ lvPut' = IF lvTold THEN lvPut ELSE seen
    /\ initial' = FALSE /\ lvDue' = FALSE
    /\ IF lvOneshot THEN lvAt' = "ended" /\ conn' = "none" /\ event' = FALSE
                    ELSE lvAt' = "top" /\ UNCHANGED <<conn, event>>
    /\ UNCHANGED <<lvWorld, moved, seen, calling, lvTold, lvFaults>>

-----------------------------------------------------------------------------
(* The event loop's thread: _callback.                                     *)

Callback ==
    /\ cbAt = "idle" /\ event /\ conn = "up"
    /\ event' = FALSE
    /\ cbAt' = "active"
    /\ UNCHANGED <<lvWorld, moved, conn, reading, cbSeen, lvDue, lvTold, lvPut, lvFaults>>

CallbackReads ==
    /\ conn = "up"
    /\ \/ /\ cbAt = "active" /\ cbAt' = "defined"
          /\ cbSeen' = In("active") /\ moved' = moved \ {"callback"}
       \/ /\ cbAt = "defined" /\ cbAt' = "put"
          /\ cbSeen' = AlsoDefined(cbSeen) /\ UNCHANGED moved
    /\ UNCHANGED <<lvWorld, conn, event, reading, lvDue, lvTold, lvPut, lvFaults>>

\* libvirt drops what a callback raises; a libvirtError closes the connection.
CallbackFails ==
    /\ cbAt \in {"active", "defined"}
    /\ (conn # "up" /\ UNCHANGED lvFaults) \/ (conn = "up" /\ LvFaulty)
    /\ conn' = IF conn = "up" THEN "dead" ELSE conn
    /\ event' = FALSE
    /\ cbAt' = "idle"
    /\ UNCHANGED <<lvWorld, moved, reading, cbSeen, lvDue, lvTold, lvPut>>

CallbackPuts ==
    /\ cbAt = "put"
    /\ cbAt' = "idle"
    /\ lvPut' = IF lvTold THEN lvPut ELSE cbSeen
    /\ lvDue' = FALSE
    /\ UNCHANGED <<lvWorld, moved, conn, event, reading, cbSeen, lvTold, lvFaults>>

RunLv == \/ LvStart \/ Connect \/ Disconnect \/ LvTop \/ LvStop
         \/ ReadActive \/ ReadDefined \/ LvPut \/ (ReadFails /\ conn # "up")
LoopLv == Callback \/ CallbackReads \/ CallbackPuts \/ (CallbackFails /\ conn # "up")
LvNext ==
    \/ RunLv \/ LoopLv \/ ReadFails \/ CallbackFails
    \/ LoseConnection \/ TellLv \/ PassInterval
    \/ \E d \in Domains, s \in States \cup {"gone"} : ChangeDomain(d, s)

LvSpec == LvInit /\ [][LvNext]_lvVars
FairLv == LvSpec /\ WF_lvVars(RunLv) /\ WF_lvVars(LoopLv) /\ WF_lvVars(PassInterval)

-----------------------------------------------------------------------------
(* Properties.                                                             *)

LvTypeOK ==
    /\ lvOneshot \in LvModes
    /\ domain \in [Domains -> States \cup {"gone"}]
    /\ conn \in {"none", "up", "dead"}
    /\ lvAt \in {"start", "top", "active", "defined", "put", "ended"}
    /\ cbAt \in {"idle", "active", "defined", "put"}
    /\ {event, initial, lvDue, lvTold} \subseteq BOOLEAN
    /\ {seen, cbSeen} \subseteq SUBSET (Domains \X States)
    /\ {lvChanges, lvFaults} \subseteq Nat /\ moved \subseteq {"thread", "callback"}

\* A reader whose two calls saw no domain change puts the truth: every domain
\* once, in its state, whatever the other reader does to the connection.
Snapshots == /\ lvAt = "put" /\ "thread" \notin moved => seen = Truth
             /\ cbAt = "put" /\ "callback" \notin moved => cbSeen = Truth
\* ... because after its first call it has every active domain.
Halves == /\ lvAt = "defined" /\ "thread" \notin moved => seen = In("active")
          /\ cbAt = "defined" /\ "callback" \notin moved => cbSeen = In("active")
LvInv == LvTypeOK /\ Snapshots /\ Halves

\* The threads may overwrite a newer report by an older one, and may read a
\* domain twice or not at all while it changes state; what stays is reported in
\* the end, although no event comes any more.
LvConverges == <>[](lvAt = "ended" \/ lvPut = Truth)

=============================================================================
