-------------------------------- MODULE Ahv --------------------------------
(***************************************************************************)
(* The AHV back end (virtwho/virt/ahv/ahv.py and ahv_interface.py).  The   *)
(* thread asks for the hosts, for the virtual machines (with version 2 of  *)
(* the API at once, with version 3 page by page) and for the clusters,     *)
(* makes a mapping of what it got and puts it; after every interval it     *)
(* puts a status report.  Every request is tried a number of times.        *)
(*                                                                         *)
(* Hosts always have a name and a cluster, the lists of hosts and clusters *)
(* are whole, and the names of clusters do not change: these parts of the  *)
(* mapping are left out, and so is status mode.                            *)
(***************************************************************************)
EXTENDS Integers, Sequences, FiniteSets, SequencesExt

CONSTANTS
    AhvHosts,
    AhvVms,
    PageSize,      \* NUM_OF_REQUESTED_VMS
    AhvRetries,    \* how often _send tries a request
    AhvVersions,   \* of 2, 3
    AhvModes,      \* the values of ahvOneshot
    AhvNothing,    \* nothing was put
    AhvError,      \* an ErrorReport
    AhvStatus,     \* a StatusReport
    MaxAhvChanges, \* bound: changes of virtual machines
    MaxAhvFaults   \* bound: requests that fail

ASSUME AhvAssumption ==
    /\ IsFiniteSet(AhvVms) /\ {MaxAhvChanges, MaxAhvFaults} \subseteq Nat
    /\ {PageSize, AhvRetries} \subseteq Nat \ {0}
    /\ AhvVersions \subseteq {2, 3} /\ AhvModes \subseteq BOOLEAN
    /\ {"off", "gone"} \cap AhvHosts = {}

VARIABLES
    ahvOneshot, ahvVersion, \* the options
    vmHost,    \* the server: the host of each virtual machine, "off" or "gone"
    hosts,     \* ... the hosts it has
    ahvAt,     \* where the thread is
    tries,     \* the requests that _send has tried in vain
    hostList,  \* the answer to the request for hosts
    offset,    \* the next page
    entities,  \* the virtual machines so far, each with its host
    ahvTold,
    ahvPut,    \* what is in the datastore
    ahvChanges, ahvFaults,
    touched,   \* history: something changed since the hosts were asked for
    cutShort   \* history: the list of virtual machines ended in a failure

ahvServer  == <<ahvOneshot, ahvVersion, vmHost, hosts, ahvChanges>>
gathered   == <<hostList, offset, entities>>
ahvHistory == <<touched, cutShort>>
ahvVars == <<ahvServer, ahvAt, tries, gathered, ahvTold, ahvPut, ahvFaults, ahvHistory>>

\* What the server lists: the virtual machines with their hosts, in some order.
Listed(w) == LET ids == SetToSeq({v \in AhvVms : w[v] # "gone"})
             IN  [i \in DOMAIN ids |-> <<ids[i], w[ids[i]]>>]

\* build_host_to_uvm_map: the hosts of the virtual machines, or all of them if no
\* virtual machine has one.  A virtual machine may be listed twice.
OnHost(list, h) == {i \in DOMAIN list : list[i][2] = h}
GuestList(list, h) ==
    [v \in {list[i][1] : i \in OnHost(list, h)} |->
        Cardinality({i \in OnHost(list, h) : list[i][1] = v})]
UsedHosts(list) == {list[i][2] : i \in DOMAIN list} \ {"off"}
build_host_to_uvm_map(hs, list) ==
    [h \in IF UsedHosts(list) = {} THEN hs ELSE UsedHosts(list) |-> GuestList(list, h)]

AhvInit ==
    /\ ahvOneshot \in AhvModes /\ ahvVersion \in AhvVersions
    /\ hosts = AhvHosts
    /\ vmHost \in [AhvVms -> AhvHosts \cup {"off", "gone"}]
    /\ ahvAt \in {"start", "ended"} \* there may be no such thread
    /\ tries = 0
    /\ hostList = {} /\ offset = 0 /\ entities = <<>>
    /\ ahvTold = FALSE /\ ahvPut = AhvNothing
    /\ ahvChanges = 0 /\ ahvFaults = 0
    /\ touched = FALSE /\ cutShort = FALSE

-----------------------------------------------------------------------------
(* The server.                                                             *)

MoveVm(v, h) ==
    /\ ahvChanges < MaxAhvChanges /\ vmHost[v] # h /\ h \in hosts \cup {"off", "gone"}
    /\ vmHost' = [vmHost EXCEPT ![v] = h]
    /\ ahvChanges' = ahvChanges + 1 /\ touched' = TRUE
    /\ UNCHANGED <<ahvOneshot, ahvVersion, hosts, ahvAt, tries, gathered, ahvTold, ahvPut,
                   ahvFaults, cutShort>>

\* A host comes or goes; it has no virtual machine then.
ToggleHost(h) ==
    /\ ahvChanges < MaxAhvChanges
    /\ \A v \in AhvVms : vmHost[v] # h
    /\ hosts' = (hosts \ {h}) \cup ({h} \ hosts)
    /\ ahvChanges' = ahvChanges + 1 /\ touched' = TRUE
    /\ UNCHANGED <<ahvOneshot, ahvVersion, vmHost, ahvAt, tries, gathered, ahvTold, ahvPut,
                   ahvFaults, cutShort>>

TellAhv ==
    /\ ~ahvTold /\ ahvAt # "ended"
    /\ ahvTold' = TRUE
    /\ UNCHANGED <<ahvServer, ahvAt, tries, gathered, ahvPut, ahvFaults, ahvHistory>>

-----------------------------------------------------------------------------
(* The thread.                                                             *)

AhvRaise ==
    /\ ahvAt' = IF ahvTold \/ ahvOneshot THEN "ended" ELSE "start"
    /\ ahvPut' = IF ahvTold THEN ahvPut ELSE AhvError
    /\ tries' = 0

AhvStart ==
    /\ ahvAt = "start"
    /\ ahvAt' = IF ahvTold THEN "ended" ELSE "hosts"
    /\ touched' = FALSE /\ cutShort' = FALSE
    /\ hostList' = {} /\ offset' = 0 /\ entities' = <<>>
    /\ UNCHANGED <<ahvServer, tries, ahvTold, ahvPut, ahvFaults>>

\* A virtual machine on a host that is not in the list: KeyError, before the
\* clusters are asked for.
UnknownHost == UsedHosts(entities) \ hostList # {}
Asking == ahvAt \in {"hosts", "vms"} \/ (ahvAt = "clusters" /\ ~UnknownHost)

\* _send: an error that is worth another try, unless it was the last one.
RequestFails ==
    /\ Asking /\ ahvFaults < MaxAhvFaults /\ tries < AhvRetries - 1
    /\ ahvFaults' = ahvFaults + 1 /\ tries' = tries + 1
    /\ UNCHANGED <<ahvServer, ahvAt, gathered, ahvTold, ahvPut, ahvHistory>>

\* 401, 403 or 409: VirtError.
RequestRefused ==
    /\ Asking /\ ahvFaults < MaxAhvFaults
    /\ ahvFaults' = ahvFaults + 1
    /\ AhvRaise
    /\ UNCHANGED <<ahvServer, gathered, ahvTold, ahvHistory>>

\* The last try failed, or an error that is not worth another one: no answer.
\* Without hosts or clusters there is an AttributeError; without virtual
\* machines, or without more of them, the list is taken as it is.
NoAnswer ==
    /\ Asking /\ ahvFaults < MaxAhvFaults
    /\ ahvFaults' = ahvFaults + 1
    /\ IF ahvAt = "vms" THEN /\ ahvAt' = "clusters" /\ tries' = 0 /\ cutShort' = TRUE
                             /\ UNCHANGED ahvPut
                        ELSE AhvRaise /\ UNCHANGED cutShort
    /\ UNCHANGED <<ahvServer, gathered, ahvTold, touched>>

HostsAnswered ==
    /\ ahvAt = "hosts"
    /\ hostList' = hosts /\ ahvAt' = "vms" /\ tries' = 0
    /\ UNCHANGED <<ahvServer, offset, entities, ahvTold, ahvPut, ahvFaults, ahvHistory>>

\* Version 3 goes on until a page is empty, from where the last one ended.
Page == LET all == Listed(vmHost)
            end == offset + PageSize
        IN  SubSeq(all, offset + 1, IF end < Len(all) THEN end ELSE Len(all))
NextOffsetSame(page) == offset
NextOffsetOff(page)  == offset + Len(page) + 1
NextOffset(page)     == offset + Len(page)
VmsAnswered ==
    /\ ahvAt = "vms" /\ tries' = 0
    /\ IF ahvVersion = 2
       THEN entities' = Listed(vmHost) /\ ahvAt' = "clusters" /\ UNCHANGED offset
       ELSE /\ entities' = entities \o Page /\ offset' = NextOffset(Page)
            /\ ahvAt' = IF Page = <<>> THEN "clusters" ELSE "vms"
    /\ UNCHANGED <<ahvServer, hostList, ahvTold, ahvPut, ahvFaults, ahvHistory>>

MappingFails ==
    /\ ahvAt = "clusters" /\ UnknownHost
    /\ AhvRaise
    /\ UNCHANGED <<ahvServer, gathered, ahvTold, ahvFaults, ahvHistory>>

ClustersAnswered ==
    /\ ahvAt = "clusters" /\ ~UnknownHost
    /\ ahvPut' = IF ahvTold THEN ahvPut ELSE build_host_to_uvm_map(hostList, entities)
    /\ ahvAt' = IF ahvOneshot THEN "ended" ELSE "wait"
    /\ tries' = 0
    /\ UNCHANGED <<ahvServer, gathered, ahvTold, ahvFaults, ahvHistory>>

\* The interval is over: a status report, which destinations ignore, takes the
\* place of the mapping.
Refresh ==
    /\ ahvAt = "wait"
    /\ IF ahvTold THEN ahvAt' = "ended" /\ UNCHANGED ahvPut
                  ELSE ahvPut' = AhvStatus /\ UNCHANGED ahvAt
    /\ UNCHANGED <<ahvServer, tries, gathered, ahvTold, ahvFaults, ahvHistory>>

RunAhv == \/ AhvStart \/ HostsAnswered \/ VmsAnswered \/ MappingFails \/ ClustersAnswered
          \/ Refresh
AhvNext ==
    \/ RunAhv \/ RequestFails \/ RequestRefused \/ NoAnswer \/ TellAhv
    \/ \E v \in AhvVms, h \in AhvHosts \cup {"off", "gone"} : MoveVm(v, h)
    \/ \E h \in AhvHosts : ToggleHost(h)

AhvSpec == AhvInit /\ [][AhvNext]_ahvVars
FairAhv == AhvSpec /\ WF_ahvVars(RunAhv)

-----------------------------------------------------------------------------
(* Properties.                                                             *)

AhvTypeOK ==
    /\ ahvOneshot \in AhvModes /\ ahvVersion \in AhvVersions
    /\ hosts \subseteq AhvHosts /\ hostList \subseteq AhvHosts
    /\ vmHost \in [AhvVms -> AhvHosts \cup {"off", "gone"}]
    /\ ahvAt \in {"start", "hosts", "vms", "clusters", "wait", "ended"}
    /\ tries \in 0..AhvRetries - 1 /\ offset \in Nat
    /\ entities \in Seq(AhvVms \X (AhvHosts \cup {"off"}))
    /\ {ahvTold, touched, cutShort} \subseteq BOOLEAN
    /\ {ahvChanges, ahvFaults} \subseteq Nat

\* What is put is the whole mapping: when nothing changed at the server from the
\* first request to the last, and no request for virtual machines failed for
\* good, it has every host and every guest of it, and each once.
MappingIsWhole ==
    ahvAt = "clusters" /\ ~touched /\ ~cutShort =>
        /\ build_host_to_uvm_map(hostList, entities) =
               build_host_to_uvm_map(hosts, Listed(vmHost))
        /\ \A h \in AhvHosts : \A v \in DOMAIN GuestList(entities, h) :
               GuestList(entities, h)[v] = 1
\* ... because the pages are one part of the server's list after the other.
PagesInOrder ==
    ~touched =>
        /\ ahvAt \in {"hosts", "vms"} =>
               /\ offset <= Len(Listed(vmHost))
               /\ entities = SubSeq(Listed(vmHost), 1, offset)
        /\ ahvAt \in {"vms", "clusters"} => hostList = hosts
        /\ ahvAt = "clusters" /\ ~cutShort => entities = Listed(vmHost)
AhvInv == AhvTypeOK /\ MappingIsWhole /\ PagesInOrder

\* The mapping that is there in the end is the one that destinations are given.
AhvFollows ==
    <>[](ahvAt = "ended" \/ ahvPut = build_host_to_uvm_map(hosts, Listed(vmHost)))
=============================================================================
