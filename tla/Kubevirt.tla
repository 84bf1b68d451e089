------------------------------ MODULE Kubevirt ------------------------------
(***************************************************************************)
(* The KubeVirt back end (virtwho/virt/kubevirt).  The thread asks the     *)
(* cluster for the version of the KubeVirt API unless it is configured,    *)
(* and then, once in every interval, for the nodes and, in a second        *)
(* request, for the virtual machine instances, each with the node it is    *)
(* scheduled on, if any.  Nodes and instances may change in between.       *)
(*                                                                         *)
(* A node stands for its names and facts.  Status mode and the loading of  *)
(* the kubeconfig file, which fails like a request, are left out.          *)
(***************************************************************************)
EXTENDS Naturals, FiniteSets

CONSTANTS
    KvNodes, KvVms,
    KvModes,      \* the values of kvOneshot
    Configured,   \* is kubeversion configured
    KvNothing,    \* nothing was put
    KvError,      \* an ErrorReport
    MaxKvChanges, \* bound: changes of the cluster
    MaxKvFaults   \* bound: requests that fail

ASSUME KvAssumption ==
    /\ KvModes \cup {Configured} \subseteq BOOLEAN
    /\ {MaxKvChanges, MaxKvFaults} \subseteq Nat
    /\ {"none", "gone"} \cap KvNodes = {} /\ KvNothing # KvError

VARIABLES
    kvOneshot,
    nodes,    \* the cluster: its nodes
    vmNode,   \* ... the node of each instance, "none" or "gone"
    kvAt,     \* where the thread is
    nodeList, \* the answer to the first request
    vmList,   \* the answer to the second: instances with their nodes
    kvTold,
    kvPut,    \* what is in the datastore
    kvChanges, kvFaults,
    stirred   \* history: something changed since the nodes were asked for

kvCluster == <<kvOneshot, nodes, vmNode, kvChanges>>
kvReads   == <<nodeList, vmList>>
kvVars    == <<kvCluster, kvAt, kvReads, kvTold, kvPut, kvFaults, stirred>>

Instances == {<<v, vmNode[v]>> : v \in {w \in KvVms : vmNode[w] # "gone"}}

KvInit ==
    /\ kvOneshot \in KvModes
    /\ nodes \in SUBSET KvNodes
    /\ vmNode \in [KvVms -> nodes \cup {"none", "gone"}]
    /\ kvAt \in {"start", "ended"} \* there may be no such thread
    /\ nodeList = {} /\ vmList = {}
    /\ kvTold = FALSE /\ kvPut = KvNothing
    /\ kvChanges = 0 /\ kvFaults = 0 /\ stirred = FALSE

-----------------------------------------------------------------------------
(* The cluster.                                                            *)

\* An instance is created, scheduled, moved to another node, or deleted.
Schedule(v, n) ==
    /\ kvChanges < MaxKvChanges /\ vmNode[v] # n /\ n \in nodes \cup {"none", "gone"}
    /\ vmNode' = [vmNode EXCEPT ![v] = n]
    /\ kvChanges' = kvChanges + 1 /\ stirred' = TRUE
    /\ UNCHANGED <<kvOneshot, nodes, kvAt, kvReads, kvTold, kvPut, kvFaults>>

\* A node joins, or leaves; its instances are deleted some time later only.
ToggleNode(n) ==
    /\ kvChanges < MaxKvChanges
    /\ nodes' = (nodes \ {n}) \cup ({n} \ nodes)
    /\ kvChanges' = kvChanges + 1 /\ stirred' = TRUE
    /\ UNCHANGED <<kvOneshot, vmNode, kvAt, kvReads, kvTold, kvPut, kvFaults>>

TellKv ==
    /\ ~kvTold /\ kvAt # "ended"
    /\ kvTold' = TRUE
    /\ UNCHANGED <<kvCluster, kvAt, kvReads, kvPut, kvFaults, stirred>>

-----------------------------------------------------------------------------
(* The thread.                                                             *)

\* An exception leaves _run: an ErrorReport is put, and after the interval _run
\* begins again, with a new client.
KvRaise ==
    /\ kvAt' = IF kvTold \/ kvOneshot THEN "ended" ELSE "start"
    /\ kvPut' = IF kvTold THEN kvPut ELSE KvError

KvStart ==
    /\ kvAt = "start"
    /\ kvAt' = IF kvTold THEN "ended" ELSE IF Configured THEN "top" ELSE "version"
    /\ UNCHANGED <<kvCluster, kvReads, kvTold, kvPut, kvFaults, stirred>>

VersionAnswered ==
    /\ kvAt = "version"
    /\ kvAt' = "top"
    /\ UNCHANGED <<kvCluster, kvReads, kvTold, kvPut, kvFaults, stirred>>

KvTop ==
    /\ kvAt = "top"
    /\ kvAt' = IF kvTold THEN "ended" ELSE "nodes"
    /\ UNCHANGED <<kvCluster, kvReads, kvTold, kvPut, kvFaults, stirred>>

NodesAnswered ==
    /\ kvAt = "nodes"
    /\ nodeList' = nodes /\ kvAt' = "vms" /\ stirred' = FALSE
    /\ UNCHANGED <<kvCluster, vmList, kvTold, kvPut, kvFaults>>

InstancesAnswered ==
    /\ kvAt = "vms"
    /\ vmList' = Instances
    /\ kvAt' = "map"
    /\ UNCHANGED <<kvCluster, nodeList, kvTold, kvPut, kvFaults, stirred>>

KvRequestFails ==
    /\ kvAt \in {"version", "nodes", "vms"} /\ kvFaults < MaxKvFaults
    /\ kvFaults' = kvFaults + 1
    /\ KvRaise
    /\ UNCHANGED <<kvCluster, kvReads, kvTold, stirred>>

\* An instance that is not scheduled is passed over; one on a node that is not
\* in the list is a KeyError.
Scheduled   == {p \in vmList : p[2] # "none"}
UnknownNode == {p[2] : p \in Scheduled} \ nodeList # {}
HostsUsed   == {p[2] : p \in Scheduled}
HostsAll    == nodeList
KvMapping == [n \in HostsAll |-> {p[1] : p \in {q \in Scheduled : q[2] = n}}]
KvReport ==
    /\ kvAt = "map"
    /\ IF UnknownNode THEN KvRaise
       ELSE /\ kvPut' = IF kvTold THEN kvPut ELSE KvMapping
            /\ kvAt' = IF kvOneshot THEN "ended" ELSE "top"
    /\ UNCHANGED <<kvCluster, kvReads, kvTold, kvFaults, stirred>>

RunKv == \/ KvStart \/ VersionAnswered \/ KvTop \/ NodesAnswered \/ InstancesAnswered
         \/ KvReport
KvNext ==
    \/ RunKv \/ KvRequestFails \/ TellKv
    \/ \E v \in KvVms, n \in KvNodes \cup {"none", "gone"} : Schedule(v, n)
    \/ \E n \in KvNodes : ToggleNode(n)

KvSpec == KvInit /\ [][KvNext]_kvVars
FairKv == KvSpec /\ WF_kvVars(RunKv)

-----------------------------------------------------------------------------
(* Properties.                                                             *)

KvTypeOK ==
    /\ kvOneshot \in KvModes
    /\ nodes \subseteq KvNodes /\ nodeList \subseteq KvNodes
    /\ vmNode \in [KvVms -> KvNodes \cup {"none", "gone"}]
    /\ vmList \subseteq KvVms \X (KvNodes \cup {"none"})
    /\ kvAt \in {"start", "version", "top", "nodes", "vms", "map", "ended"}
    /\ {kvTold, stirred} \subseteq BOOLEAN /\ {kvChanges, kvFaults} \subseteq Nat

\* The cluster as it is, when every instance is on a node that is there.
Orphaned == {vmNode[v] : v \in KvVms} \ (nodes \cup {"none", "gone"}) # {}
KvTruth  == [n \in nodes |-> {v \in KvVms : vmNode[v] = n}]

\* A mapping that is put while nothing changed is the cluster: every node, used or
\* not, every scheduled instance on its node, and no failure without a cause.
KvWhole ==
    kvAt = "map" /\ ~stirred =>
        /\ UnknownNode <=> Orphaned
        /\ ~Orphaned => KvMapping = KvTruth
\* ... because until then the answers are what the cluster has.
KvAnswers ==
    /\ kvAt \in {"vms", "map"} /\ ~stirred => nodeList = nodes
    /\ kvAt = "map" /\ ~stirred => vmList = Instances
KvInv == KvTypeOK /\ KvWhole /\ KvAnswers

\* What stays in the cluster is reported in the end, although the two requests
\* may have seen different clusters: unless an instance is left on a node that is
\* gone, for which nothing is reported at all.
KvConverges == <>[](kvAt = "ended" \/ Orphaned \/ kvPut = KvTruth)
=============================================================================
