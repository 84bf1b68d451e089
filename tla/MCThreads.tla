----------------------------- MODULE MCThreads -----------------------------
(***************************************************************************)
(* A configuration with one thread of any kind: a virt thread for ESX,     *)
(* libvirt, AHV, Hyper-V or KubeVirt, or a destination thread for          *)
(* Satellite 5.  The kinds share no state; each behaviour is one of one    *)
(* kind.  A bound of this module: the inventory of ESX changes, or stop()   *)
(* is called, but not both in one behaviour.                               *)
(***************************************************************************)
EXTENDS Satellite5, EsxUpdates, Libvirtd, Ahv, HyperV, Kubevirt, TLC

CONSTANTS Kinds,
    h1, c1, v1, n1, p1

VARIABLE kind

threadVars == <<kind, satVars, esxVars, lvVars, ahvVars, hvVars, kvVars>>

\* The mappings of Satellite 5 and the inventory of ESX in these checks.
Pairs == {[h \in {"x", "y"} |-> "g1"], [h \in {"x", "y"} |-> "g2"]}
OneGuest == {h1 :> [parent |-> c1, vms |-> {v1}] @@ v1 :> p1 @@ c1 :> n1}

\* What there is no thread for does not matter.
NoEsx == esxAt = "ended" /\ esxOneshot = FALSE
NoLv  == lvAt = "ended" /\ lvOneshot = FALSE /\ domain = [d \in Domains |-> "gone"]
NoAhv == /\ ahvAt = "ended" /\ ahvOneshot = FALSE /\ ahvVersion = 2
         /\ vmHost = [v \in AhvVms |-> "gone"]
NoHv  == /\ hvAt = "ended" /\ hvOneshot = FALSE /\ namespaces = {"old"}
         /\ hvGuest = [g \in HvGuests |-> HvAbsent]
NoKv  == /\ kvAt = "ended" /\ kvOneshot = FALSE /\ nodes = {}
         /\ vmNode = [v \in KvVms |-> "gone"]

ThreadsInit ==
    /\ kind \in Kinds
    /\ SatInit /\ EsxInit /\ LvInit /\ AhvInit /\ HvInit /\ KvInit
    /\ satAt = IF kind = "satellite" THEN "wait" ELSE "over"
    /\ IF kind = "esx" THEN esxAt = "start" ELSE NoEsx
    /\ IF kind = "libvirt" THEN lvAt = "start" ELSE NoLv
    /\ IF kind = "ahv" THEN ahvAt = "start" ELSE NoAhv
    /\ IF kind = "hyperv" THEN hvAt = "start" ELSE NoHv
    /\ IF kind = "kubevirt" THEN kvAt = "start" ELSE NoKv

NoOther(k, others) == kind = k /\ UNCHANGED <<kind, others>>
Satellite == SatNext /\ NoOther("satellite", <<esxVars, lvVars, ahvVars, hvVars, kvVars>>)
Esx       == /\ EsxNext /\ NoOther("esx", <<satVars, lvVars, ahvVars, hvVars, kvVars>>)
             /\ esxTold' => esxChanges' = 0
Libvirt   == LvNext /\ NoOther("libvirt", <<satVars, esxVars, ahvVars, hvVars, kvVars>>)
Prism     == AhvNext /\ NoOther("ahv", <<satVars, esxVars, lvVars, hvVars, kvVars>>)
Hyper     == HvNext /\ NoOther("hyperv", <<satVars, esxVars, lvVars, ahvVars, kvVars>>)
Kube      == KvNext /\ NoOther("kubevirt", <<satVars, esxVars, lvVars, ahvVars, hvVars>>)
ThreadsNext == Satellite \/ Esx \/ Libvirt \/ Prism \/ Hyper \/ Kube

ThreadsSpec ==
    /\ ThreadsInit /\ [][ThreadsNext]_threadVars
    /\ WF_satVars(Send5)
    /\ WF_esxVars(RunEsx) /\ WF_esxVars(StopEsx)
    /\ WF_lvVars(RunLv) /\ WF_lvVars(LoopLv) /\ WF_lvVars(kind = "libvirt" /\ PassInterval)
    /\ WF_ahvVars(RunAhv) /\ WF_hvVars(RunHv) /\ WF_kvVars(RunKv)

\* "Causes this thread to stop at the next idle moment" (IntervalThread.stop): a
\* virt thread that is told to stop ends, whatever its back end answers and
\* however its sessions, streams, connections and retries stand.
ThreadsStop ==
    (esxTold \/ lvTold \/ ahvTold \/ hvTold \/ kvTold)
        ~> {esxAt, lvAt, ahvAt, hvAt, kvAt} = {"ended"}

\* The back ends in the loop of IntervalThread: what they put is whole ...
PollersInv == HvInv /\ KvInv
\* ... and what stays is reported in the end.
PollersConverge == HvConverges /\ KvConverges
=============================================================================
