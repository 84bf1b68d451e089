------------------------------- MODULE HyperV -------------------------------
(***************************************************************************)
(* The Hyper-V back end (virtwho/virt/hyperv/hyperv.py).  For a mapping    *)
(* the thread opens a session, enumerates the virtual machines in the old  *)
(* or in the new namespace of the server, asks for their states, pulls     *)
(* the enumerated machines one by one, and asks for the names of the host. *)
(* That the old namespace fails is kept for the life of the thread.        *)
(*                                                                         *)
(* The requests for the version and for the names of the host come to the  *)
(* same: an answer that does not change, or an exception.  Authentication  *)
(* is one of the ways in which a request fails.  The loop around it is the *)
(* one of IntervalThread.                                                  *)
(***************************************************************************)
EXTENDS Naturals, FiniteSets, Sequences

CONSTANTS
    HvGuests,
    HvStates,
    HvServers,    \* the namespaces that servers have: sets of "old", "new"
    HvModes,      \* the values of hvOneshot
    Unstated,     \* STATE_UNKNOWN
    HvAbsent,     \* no such guest
    HvNothing,    \* nothing was put
    HvError,      \* an ErrorReport
    MaxHvChanges, \* bound: changes of guests
    MaxHvFaults   \* bound: requests that fail

ASSUME HvAssumption ==
    /\ HvServers \subseteq SUBSET {"old", "new"}
    /\ HvModes \subseteq BOOLEAN /\ {MaxHvChanges, MaxHvFaults} \subseteq Nat
    /\ {Unstated, HvAbsent} \cap HvStates = {}

VARIABLES
    hvOneshot,
    namespaces, \* the server's
    hvGuest,    \* the state of each guest
    useNewApi,
    hvAt,       \* where the thread is
    context,    \* the enumeration: the guests that are still to be pulled
    guestStates, \* the answer to GetSummaryInformation
    pulled,
    hvTold,
    hvPut,      \* what is in the datastore
    hvChanges, hvFaults,
    misled,     \* history: a failure was taken for a missing namespace
    present     \* history: the guests that are there since the mapping began

hvServer == <<hvOneshot, namespaces, hvGuest, hvChanges>>
hvPast   == <<misled, present>>
hvReads  == <<context, guestStates, pulled>>
hvVars   == <<hvServer, useNewApi, hvAt, hvReads, hvTold, hvPut, hvFaults, hvPast>>

Existing == {g \in HvGuests : hvGuest[g] # HvAbsent}
HvTruth  == {<<g, hvGuest[g]>> : g \in Existing}

HvInit ==
    /\ hvOneshot \in HvModes /\ namespaces \in HvServers
    /\ hvGuest \in [HvGuests -> HvStates \cup {HvAbsent}]
    /\ useNewApi = FALSE
    /\ hvAt \in {"start", "ended"} \* there may be no such thread
    /\ context = {} /\ guestStates = {} /\ pulled = {}
    /\ hvTold = FALSE /\ hvPut = HvNothing /\ hvChanges = 0 /\ hvFaults = 0
    /\ misled = FALSE /\ present = {}

ChangeGuest(g, s) ==
    /\ hvChanges < MaxHvChanges /\ hvGuest[g] # s
    /\ hvGuest' = [hvGuest EXCEPT ![g] = s]
    /\ hvChanges' = hvChanges + 1
    /\ present' = IF s = HvAbsent THEN present \ {g} ELSE present
    /\ UNCHANGED <<hvOneshot, namespaces, useNewApi, hvAt, hvReads, hvTold, hvPut, hvFaults,
                   misled>>

TellHv ==
    /\ ~hvTold /\ hvAt # "ended"
    /\ hvTold' = TRUE
    /\ UNCHANGED <<hvServer, useNewApi, hvAt, hvReads, hvPut, hvFaults, hvPast>>

-----------------------------------------------------------------------------
(* getHostGuestMapping, and run of IntervalThread around it.               *)

HvRaise ==
    /\ hvAt' = IF hvTold \/ hvOneshot THEN "ended" ELSE "start"
    /\ hvPut' = IF hvTold THEN hvPut ELSE HvError

HvStart ==
    /\ hvAt = "start"
    /\ hvAt' = IF hvTold THEN "ended" ELSE IF useNewApi THEN "new" ELSE "old"
    /\ context' = {} /\ guestStates' = {} /\ pulled' = {}
    /\ present' = Existing
    /\ UNCHANGED <<hvServer, useNewApi, hvTold, hvPut, hvFaults, misled>>

EnumerateOld ==
    /\ hvAt = "old" /\ "old" \in namespaces
    /\ context' = Existing /\ hvAt' = "states"
    /\ UNCHANGED <<hvServer, useNewApi, guestStates, pulled, hvTold, hvPut, hvFaults, hvPast>>

\* HyperVCallFailed: any answer but 200 and 401, an unknown namespace or not.
LatchNot == UNCHANGED useNewApi
Latch == useNewApi' = TRUE
OldFails ==
    /\ hvAt = "old"
    /\ \/ "old" \notin namespaces /\ UNCHANGED hvFaults
       \/ hvFaults < MaxHvFaults /\ hvFaults' = hvFaults + 1
    /\ misled' = (misled \/ "old" \in namespaces)
    /\ Latch
    /\ hvAt' = IF useNewApi' THEN "new" ELSE "states"
    /\ UNCHANGED <<hvServer, hvReads, hvTold, hvPut, present>>

EnumerateNew ==
    /\ hvAt = "new"
    /\ IF "new" \in namespaces
       THEN context' = Existing /\ hvAt' = "states" /\ UNCHANGED hvPut
       ELSE HvRaise /\ UNCHANGED context
    /\ UNCHANGED <<hvServer, useNewApi, guestStates, pulled, hvTold, hvFaults, hvPast>>

\* The states are those of now, not of the enumeration.
GetStates ==
    /\ hvAt = "states"
    /\ guestStates' = HvTruth /\ hvAt' = "pull"
    /\ UNCHANGED <<hvServer, useNewApi, context, pulled, hvTold, hvPut, hvFaults, hvPast>>

\* A pull gives one machine, if the server still has it.
StateOf(g) ==
    IF \E s \in HvStates : <<g, s>> \in guestStates
    THEN CHOOSE s \in HvStates : <<g, s>> \in guestStates ELSE Unstated
PullOne ==
    /\ hvAt = "pull" /\ context # {}
    /\ \E g \in context :
        /\ context' = context \ {g}
        /\ pulled' = IF g \in Existing THEN pulled \cup {<<g, StateOf(g)>>} ELSE pulled
    /\ UNCHANGED <<hvServer, useNewApi, hvAt, guestStates, hvTold, hvPut, hvFaults, hvPast>>

HvReport ==
    /\ hvAt = "pull" /\ context = {}
    /\ hvPut' = IF hvTold THEN hvPut ELSE pulled
    /\ hvAt' = IF hvOneshot THEN "ended" ELSE "start"
    /\ UNCHANGED <<hvServer, useNewApi, hvReads, hvTold, hvFaults, hvPast>>

\* Any request may fail, for whatever reason, with another exception.
HvFails ==
    /\ hvAt \in {"old", "new", "states", "pull"} /\ hvFaults < MaxHvFaults
    /\ hvFaults' = hvFaults + 1
    /\ HvRaise
    /\ UNCHANGED <<hvServer, useNewApi, hvReads, hvTold, hvPast>>

RunHv == \/ HvStart \/ EnumerateOld \/ (OldFails /\ UNCHANGED hvFaults) \/ EnumerateNew
         \/ GetStates \/ PullOne \/ HvReport
HvNext ==
    \/ RunHv \/ OldFails \/ HvFails \/ TellHv
    \/ \E g \in HvGuests, s \in HvStates \cup {HvAbsent} : ChangeGuest(g, s)

HvSpec == HvInit /\ [][HvNext]_hvVars
FairHv == HvSpec /\ WF_hvVars(RunHv)

-----------------------------------------------------------------------------
(* Properties.                                                             *)

HvTypeOK ==
    /\ hvOneshot \in HvModes /\ namespaces \in HvServers
    /\ hvGuest \in [HvGuests -> HvStates \cup {HvAbsent}]
    /\ hvAt \in {"start", "old", "new", "states", "pull", "ended"}
    /\ context \subseteq HvGuests /\ guestStates \subseteq HvGuests \X HvStates
    /\ pulled \subseteq HvGuests \X (HvStates \cup {Unstated})
    /\ {useNewApi, hvTold, misled} \subseteq BOOLEAN
    /\ {hvChanges, hvFaults} \subseteq Nat

\* Nobody's guests are taken for none, whatever comes and goes between the
\* requests: a guest that is there from the first request on is still to be pulled
\* or was pulled, and with its state, although enumeration and states come from
\* two requests, and the namespace may be found out in the middle.
HvWhole ==
    /\ present \subseteq Existing
    /\ hvAt \in {"states", "pull"} => present \subseteq context \cup {p[1] : p \in pulled}
HvStated ==
    hvAt = "pull" =>
        /\ \A g \in present : \E s \in HvStates : <<g, s>> \in guestStates
        /\ \A p \in pulled : p[1] \in present => p[2] # Unstated
\* ... and nothing is left of the mapping before.
HvClean == hvAt \in {"old", "new", "states"} => pulled = {}
HvInv == HvTypeOK /\ HvWhole /\ HvStated /\ HvClean

\* Whatever namespace the server has, whatever fails and changes, what stays is
\* reported in the end: unless a server that has only the old namespace failed
\* when it was asked for it, after which it is never asked again.
HvConverges ==
    <>[](hvAt = "ended" \/ (misled /\ "new" \notin namespaces) \/ hvPut = HvTruth)
=============================================================================
