-------------------------- MODULE Satellite5Proofs --------------------------
(***************************************************************************)
(* Proofs about Satellite5, for any sources, hypervisors, mappings and     *)
(* bounds: no id is used for another hypervisor and a hypervisor is one    *)
(* system at the server (SatInv, OneSystem), and what counts as sent is    *)
(* there (Remembered).                                                     *)
(***************************************************************************)
EXTENDS Satellite5, FiniteSetTheorems, TLAPS

USE SatAssumption DEF SatAssumption

-----------------------------------------------------------------------------
(* Mappings, and the list of ids that the server gave.                     *)

\* A mapping has guests for some hypervisors of its source.
LEMMA MappingsOfHosts ==
    ASSUME NEW m \in SatMappings
    PROVE  /\ DOMAIN m \subseteq SatHosts
           /\ \A h \in DOMAIN m : m[h] \in SatGuests
<1>1. PICK hs \in SUBSET SatHosts : m \in [hs -> SatGuests]
  OBVIOUS
<1> QED BY <1>1

\* The report at hand has hypervisors.
LEMMA AtHand ==
    ASSUME SatTypeOK, InPlace, AtOne
    PROVE  /\ source \in SatSources /\ host \in SatHosts /\ TheHyp \in Hypervisors
           /\ batch[source] \in SatMappings /\ host \in DOMAIN batch[source]
           /\ batch[source][host] \in SatGuests
BY MappingsOfHosts DEF InPlace, AtOne, Busy, TheHyp, Hypervisors

\* A registration adds an id that is new.
LEMMA IdAdded ==
    ASSUME SatTypeOK, TheHyp \in Hypervisors, systems' = Append(systems, TheHyp)
    PROVE  /\ systems' \in Seq(Hypervisors)
           /\ DOMAIN systems' = DOMAIN systems \cup {Len(systems) + 1}
           /\ Len(systems) + 1 \in Nat \ DOMAIN systems
           /\ systems'[Len(systems) + 1] = TheHyp
           /\ \A id \in DOMAIN systems : systems'[id] = systems[id]
BY DEF SatTypeOK

\* Ids are positive numbers: neither Absent nor Torn is one.
LEMMA IdsAreNumbers ==
    ASSUME SatTypeOK
    PROVE  /\ \A id \in DOMAIN systems : id \in Nat /\ id # Absent /\ id # Torn
           /\ \A id \in DOMAIN systems : systems[id] \in Hypervisors
BY DEF SatTypeOK, Absent

\* Two hypervisors differ in their sources or in their names.
LEMMA Pairs5 ==
    ASSUME NEW s, NEW h, <<s, h>> = TheHyp
    PROVE  s = source /\ h = host
BY DEF TheHyp

-----------------------------------------------------------------------------
(* The steps, conjunct by conjunct.                                        *)

\* What the type of the state says of Boolean variables.
LEMMA FlagsStep ==
    ASSUME SatTypeOK, [SatNext]_satVars
    PROVE  {retried', satTold'} \subseteq BOOLEAN
BY Zenon DEF SatTypeOK, SatNext, Send5, satVars, satThread, satServer, satHistory,
   CycleBegins, ToldToStop, NextSource, CycleEnds, SourceSent, LoadHypervisor, Register,
   OpenFile, DumpId, VirtNotify, Refused, RegisterFails, NotifyFails, Swallow, TellSat,
   KillSat, StartSat, PutReport, DeleteSystem

\* The bounds are counted in natural numbers.
LEMMA BoundsStep ==
    ASSUME SatTypeOK, [SatNext]_satVars
    PROVE  {satPuts', satFaults', satStarts'} \subseteq Nat
BY DEF SatTypeOK, SatNext, Send5, satVars, satBounds, Faulty, NoFault,
   CycleBegins, ToldToStop, NextSource, CycleEnds, SourceSent, LoadHypervisor, Register,
   OpenFile, DumpId, VirtNotify, Refused, RegisterFails, NotifyFails, Swallow, TellSat,
   KillSat, StartSat, PutReport, DeleteSystem

\* Where the thread is, it stays within its places.
LEMMA PlaceStep ==
    ASSUME SatTypeOK, [SatNext]_satVars
    PROVE  satAt' \in {"wait", "send", "host", "register", "save", "dump", "notify", "over"}
BY DEF SatTypeOK, SatNext, Send5, satVars, Goto5, GiveUp,
   CycleBegins, ToldToStop, NextSource, CycleEnds, SourceSent, LoadHypervisor, Register,
   OpenFile, DumpId, VirtNotify, Refused, RegisterFails, NotifyFails, Swallow, TellSat,
   KillSat, StartSat, PutReport, DeleteSystem

\* The reports, in the datastore, in the cycle and remembered.
LEMMA ReportsStep ==
    ASSUME SatTypeOK, InPlace, [SatNext]_satVars
    PROVE  /\ inbox' \in [SatSources -> SatReports \cup {Nothing}]
           /\ batch' \in [SatSources -> SatReports \cup {Nothing}]
           /\ sent' \in [SatSources -> SatMappings \cup {Nothing}]
<1> USE DEF SatTypeOK, satVars, satThread
<1>1. ASSUME NEW s \in SatSources, NEW r \in SatReports, PutReport(s, r)
      PROVE  inbox' \in [SatSources -> SatReports \cup {Nothing}] /\ UNCHANGED <<batch, sent>>
  BY <1>1 DEF PutReport
<1>2. CASE SourceSent
  BY <1>2 DEF SourceSent, KeptHash, InPlace, Busy
<1>3. CASE StartSat
  BY <1>3 DEF StartSat
<1>4. CASE CycleBegins \/ CycleEnds
  BY <1>4 DEF CycleBegins, CycleEnds
<1>5. CASE UNCHANGED <<inbox, batch, sent>>
  BY <1>5
<1> QED
  BY <1>1, <1>2, <1>3, <1>4, <1>5 DEF SatNext, Send5, ToldToStop, NextSource,
     LoadHypervisor, Register, OpenFile, DumpId, VirtNotify, Refused, RegisterFails,
     NotifyFails, Swallow, TellSat, KillSat, DeleteSystem

\* What the thread has at hand.
LEMMA AtHandStep ==
    ASSUME SatTypeOK, InPlace, [SatNext]_satVars
    PROVE  /\ todo' \subseteq SatSources /\ source' \in SatSources \cup {Nothing}
           /\ left' \subseteq SatHosts /\ host' \in SatHosts \cup {Nothing}
<1> USE DEF SatTypeOK, satVars, satThread
<1>1. CASE NextSource
  BY <1>1, MappingsOfHosts DEF NextSource
<1>2. CASE StartSat \/ CycleBegins \/ CycleEnds \/ SourceSent
  BY <1>2 DEF StartSat, CycleBegins, CycleEnds, SourceSent
<1>3. CASE LoadHypervisor
  BY <1>3 DEF LoadHypervisor
<1>4. CASE UNCHANGED <<todo, source, left, host>>
  BY <1>4
<1> QED
  BY <1>1, <1>2, <1>3, <1>4 DEF SatNext, Send5, ToldToStop, PutReport,
     Register, OpenFile, DumpId, VirtNotify, Refused, RegisterFails,
     NotifyFails, Swallow, TellSat, KillSat, DeleteSystem

\* The ids: at hand, in the files, and at the server.
LEMMA IdsStep ==
    ASSUME SatTypeOK, InPlace, [SatNext]_satVars
    PROVE  /\ fresh' \in Nat /\ systems' \in Seq(Hypervisors)
           /\ DOMAIN file' = Hypervisors
           /\ \A h \in Hypervisors : file'[h] \in Nat \cup {Torn}
           /\ deleted' \subseteq DOMAIN systems'
<1> USE DEF SatTypeOK, satVars, satThread, satServer
<1>1. CASE LoadHypervisor
  <2>1. \A h \in left : <<source, h>> \in Hypervisors
    BY <1>1 DEF LoadHypervisor, InPlace, Busy, Hypervisors
  <2> QED
    BY <1>1, <2>1 DEF LoadHypervisor, Loaded
<1>2. CASE Register
  BY <1>2, AtHand, IdAdded DEF Register, AtOne
<1>3. CASE OpenFile \/ DumpId
  BY <1>3 DEF OpenFile, DumpId
<1>4. CASE SourceSent \/ StartSat
  BY <1>4 DEF SourceSent, StartSat, Absent
<1>5. ASSUME NEW id \in DOMAIN systems, DeleteSystem(id)
      PROVE  deleted' \subseteq DOMAIN systems' /\ UNCHANGED <<fresh, systems, file>>
  BY <1>5 DEF DeleteSystem
<1>6. CASE UNCHANGED <<fresh, systems, file, deleted>>
  BY <1>6
<1> QED
  BY <1>1, <1>2, <1>3, <1>4, <1>5, <1>6 DEF SatNext, Send5, ToldToStop, PutReport,
     VirtNotify, Refused, RegisterFails, NextSource, CycleBegins, CycleEnds,
     NotifyFails, Swallow, TellSat, KillSat

\* The guests at the server, and what the history says.
LEMMA GuestsStep ==
    ASSUME SatTypeOK, InPlace, [SatNext]_satVars
    PROVE  /\ guests' \in [Hypervisors -> SatGuests \cup {Nothing}]
           /\ {swallowed', orphaned'} \subseteq SUBSET Hypervisors
<1> USE DEF SatTypeOK, satVars, satThread, satServer, satHistory
<1>1. CASE VirtNotify
  BY <1>1, AtHand DEF VirtNotify, AtOne
<1>2. ASSUME NEW id \in DOMAIN systems, DeleteSystem(id)
      PROVE  guests' \in [Hypervisors -> SatGuests \cup {Nothing}]
             /\ UNCHANGED <<swallowed, orphaned>>
  BY <1>2 DEF DeleteSystem
<1>3. CASE Swallow \/ Register \/ OpenFile
  BY <1>3, AtHand DEF Swallow, Register, OpenFile, AtOne
<1>4. CASE KillSat
  BY <1>4, AtHand DEF KillSat, AtOne
<1>5. CASE UNCHANGED <<guests, swallowed, orphaned>>
  BY <1>5
<1> QED
  BY <1>1, <1>2, <1>3, <1>4, <1>5 DEF SatNext, Send5, ToldToStop, PutReport,
     Refused, RegisterFails, NextSource, CycleBegins, CycleEnds, SourceSent,
     LoadHypervisor, DumpId, NotifyFails, TellSat, StartSat

\* The types are preserved.
LEMMA TypesStep ==
    ASSUME SatTypeOK, InPlace, [SatNext]_satVars
    PROVE  SatTypeOK'
<1>1. Hypervisors' = Hypervisors /\ SatReports' = SatReports
  BY DEF Hypervisors, SatReports
<1> QED
  BY <1>1, FlagsStep, BoundsStep, PlaceStep, ReportsStep, AtHandStep, IdsStep, GuestsStep
     DEF SatTypeOK

\* The thread stays within the report at hand.
LEMMA InPlaceStep ==
    ASSUME SatTypeOK, InPlace, [SatNext]_satVars
    PROVE  InPlace'
<1> USE DEF InPlace, Busy, AtOne, satVars, satThread, Goto5, GiveUp
<1>1. CASE NextSource
  BY <1>1 DEF SatTypeOK, NextSource
<1>2. CASE LoadHypervisor
  BY <1>2 DEF LoadHypervisor
<1>3. CASE Register \/ OpenFile \/ DumpId \/ VirtNotify \/ Refused
  BY <1>3 DEF Register, OpenFile, DumpId, VirtNotify, Refused
<1>4. CASE RegisterFails \/ NotifyFails \/ Swallow \/ KillSat \/ SourceSent
  BY <1>4 DEF RegisterFails, NotifyFails, Swallow, KillSat, SourceSent
<1>5. CASE CycleBegins \/ CycleEnds \/ ToldToStop \/ StartSat
  BY <1>5 DEF CycleBegins, CycleEnds, ToldToStop, StartSat
<1>6. CASE UNCHANGED <<satAt, batch, source, left, host>>
  BY <1>6
<1> QED
  BY <1>1, <1>2, <1>3, <1>4, <1>5, <1>6 DEF SatNext, Send5, PutReport, TellSat,
     DeleteSystem

\* An id that the server gave to a hypervisor stays its own.
LEMMA GivenStep ==
    ASSUME SatTypeOK, InPlace, [SatNext]_satVars, NEW id, NEW h, Given(id, h)
    PROVE  Given(id, h)'
<1> USE DEF Given, satVars, satServer
<1>1. CASE Register
  BY <1>1, AtHand, IdAdded DEF Register, AtOne
<1>2. CASE UNCHANGED systems
  BY <1>2
<1> QED
  BY <1>1, <1>2 DEF SatNext, Send5, ToldToStop, PutReport, Refused, RegisterFails,
     NextSource, CycleBegins, CycleEnds, SourceSent, LoadHypervisor, DumpId, OpenFile,
     VirtNotify, NotifyFails, Swallow, TellSat, KillSat, StartSat, DeleteSystem

\* The files and virt_notify have ids of the hypervisor that they are for.
LEMMA OwnIdStep ==
    ASSUME SatTypeOK, InPlace, OwnId, [SatNext]_satVars
    PROVE  OwnId'
<1> USE DEF satVars, satThread, Goto5, GiveUp
<1>0. Hypervisors' = Hypervisors /\ Absent' = Absent
  BY DEF Hypervisors, Absent
<1>1. CASE Register
  <2>1. TheHyp \in Hypervisors /\ TheHyp' = TheHyp /\ file' = file
    BY <1>1, AtHand DEF Register, AtOne, TheHyp
  <2>2. satAt' = "save" => Given(fresh, TheHyp)'
    BY <1>1, <2>1, IdAdded DEF Register, Given, SatTypeOK
  <2>3. satAt' \in {"save", "over"}
    BY <1>1 DEF Register
  <2> QED BY <1>0, <2>1, <2>2, <2>3, GivenStep DEF OwnId
<1>2. CASE LoadHypervisor
  <2>1. file' = file /\ satAt' \in {"register", "over", "notify"}
    BY <1>2 DEF LoadHypervisor
  <2>2. ASSUME satAt' = "notify"
        PROVE  /\ fresh' = file[TheHyp'] /\ file[TheHyp'] \notin {Absent, Torn}
               /\ TheHyp' \in Hypervisors
    BY <1>2, <2>2
       DEF LoadHypervisor, TheHyp, Hypervisors, MustRegister, Loaded, InPlace, Busy,
           SatTypeOK
  <2>3. satAt' = "notify" => Given(fresh', TheHyp')
    BY <2>2 DEF OwnId
  <2>4. satAt' = "notify" => Given(fresh, TheHyp)'
    BY <1>2, <2>3 DEF Given, LoadHypervisor, satServer
  <2> QED BY <1>0, <2>1, <2>4, GivenStep DEF OwnId
<1>3. CASE OpenFile \/ DumpId
  <2>1. TheHyp \in Hypervisors /\ TheHyp' = TheHyp /\ fresh' = fresh
        /\ satAt \in {"save", "dump"}
    BY <1>3, AtHand DEF OpenFile, DumpId, AtOne, TheHyp
  <2>2. Given(fresh, TheHyp)'
    BY <2>1, GivenStep DEF OwnId, Given
  <2>3. \A h \in Hypervisors : file'[h] \in {file[h], Torn} \/ (h = TheHyp /\ file'[h] = fresh)
    BY <1>3, <2>1 DEF OpenFile, DumpId, SatTypeOK
  <2>4. \A h \in Hypervisors : file'[h] \in {Absent, Torn} \/ Given(file[h], h)'
    BY <2>1, <2>2, <2>3, GivenStep DEF OwnId, Given
  <2> QED BY <1>0, <2>2, <2>4 DEF OwnId
<1>4. CASE /\ file' = file
           /\ satAt' \in {"save", "dump", "notify"} => satAt' = satAt
           /\ UNCHANGED <<fresh, source, host>>
  <2>1. TheHyp' = TheHyp
    BY <1>4 DEF TheHyp
  <2> QED BY <1>0, <1>4, <2>1, GivenStep DEF OwnId, Given
<1>5. CASE file' = file /\ satAt' \in {"wait", "send", "host", "over"}
  BY <1>0, <1>5, GivenStep DEF OwnId
<1>6. CASE Refused
  BY <1>0, <1>6, GivenStep DEF Refused, OwnId
<1> QED
  BY <1>1, <1>2, <1>3, <1>4, <1>5, <1>6 DEF SatNext, Send5, ToldToStop, PutReport,
     RegisterFails, NextSource, CycleBegins, CycleEnds, SourceSent, VirtNotify,
     NotifyFails, Swallow, TellSat, KillSat, StartSat, DeleteSystem

\* A hypervisor has no second id.
LEMMA OneIdStep ==
    ASSUME SatTypeOK, InPlace, OwnId, OneId, [SatNext]_satVars
    PROVE  OneId'
<1> USE DEF satVars, satThread, satServer, satHistory, Goto5, GiveUp
<1>0. Hypervisors' = Hypervisors /\ Absent' = Absent
  BY DEF Hypervisors, Absent
<1>1. CASE Register
  <2>1. TheHyp \in Hypervisors /\ TheHyp' = TheHyp /\ file' = file /\ deleted' = deleted
    BY <1>1, AtHand DEF Register, AtOne, TheHyp
  <2>2. Live' = Live \cup {Len(systems) + 1}
    BY <1>1, <2>1, IdAdded DEF Register, Live, SatTypeOK
  <2>3. /\ systems'[Len(systems) + 1] = TheHyp
        /\ \A id \in Live : systems'[id] = systems[id]
    BY <1>1, <2>1, IdAdded DEF Register, Live
  <2>4. TheHyp \notin orphaned => \A id \in Live : systems[id] # TheHyp
    BY <1>1 DEF OneId, Register
  <2>5. \A h \in Hypervisors \ orphaned : \A id \in Live : systems[id] = h => id = file[h]
    BY <1>1 DEF OneId, Register
  <2>6. \/ satAt' = "save" /\ fresh' = Len(systems) + 1 /\ orphaned' = orphaned
        \/ satAt' = "over" /\ orphaned' = orphaned \cup {TheHyp}
    BY <1>1 DEF Register
  <2>7. ASSUME NEW h \in Hypervisors \ orphaned', NEW id \in Live', systems'[id] = h
        PROVE  id = IF satAt' \in {"save", "dump"} /\ TheHyp = h THEN fresh' ELSE file[h]
    BY <2>2, <2>3, <2>4, <2>5, <2>6, <2>7
  <2> QED BY <1>0, <2>1, <2>6, <2>7 DEF OneId
<1>2. CASE LoadHypervisor
  <2>1. file' = file /\ Live' = Live /\ systems' = systems /\ orphaned' = orphaned
    BY <1>2 DEF LoadHypervisor, Live
  <2>2. satAt = "host" /\ satAt' \in {"register", "over", "notify"}
    BY <1>2 DEF LoadHypervisor
  <2>3. satAt' = "notify" => fresh' = file[TheHyp']
    BY <1>2 DEF LoadHypervisor, TheHyp, Loaded
  <2>4. satAt' = "register" => TheHyp' \in Hypervisors /\ file[TheHyp'] = Absent
    BY <1>2 DEF LoadHypervisor, MustRegister, TheHyp, Hypervisors, InPlace, Busy, SatTypeOK
  <2>5. \A h \in Hypervisors \ orphaned : \A id \in Live : systems[id] = h => id = file[h]
    BY <2>2 DEF OneId
  <2>6. satAt' = "register" /\ TheHyp' \notin orphaned => \A id \in Live : systems[id] # TheHyp'
    BY <2>4, <2>5, IdsAreNumbers DEF Live
  <2> QED BY <1>0, <2>1, <2>2, <2>3, <2>5, <2>6 DEF OneId
<1>3. CASE OpenFile \/ DumpId
  <2>1. /\ TheHyp \in Hypervisors /\ TheHyp' = TheHyp /\ fresh' = fresh
        /\ satAt \in {"save", "dump"} /\ satAt' \in {"dump", "notify"}
        /\ systems' = systems /\ Live' = Live
    BY <1>3, AtHand DEF OpenFile, DumpId, AtOne, TheHyp, Live
  <2>2. orphaned \subseteq orphaned'
    BY <1>3 DEF OpenFile, DumpId
  <2>3. \A h \in Hypervisors : h # TheHyp => file'[h] = file[h]
    BY <1>3 DEF OpenFile, DumpId, SatTypeOK
  <2>4. satAt' = "notify" => TheHyp \in orphaned' \/ file'[TheHyp] = fresh
    BY <1>3, <2>1 DEF OpenFile, DumpId, SatTypeOK
  <2>5. \A h \in Hypervisors \ orphaned : \A id \in Live : systems[id] = h =>
            id = IF TheHyp = h THEN fresh ELSE file[h]
    BY <2>1 DEF OneId
  <2>6. ASSUME NEW h \in Hypervisors \ orphaned', NEW id \in Live, systems[id] = h
        PROVE  id = IF satAt' \in {"save", "dump"} /\ TheHyp = h THEN fresh ELSE file'[h]
    BY <2>1, <2>2, <2>3, <2>4, <2>5, <2>6
  <2> QED BY <1>0, <2>1, <2>4, <2>6 DEF OneId
<1>4. CASE Refused
  <2>1. /\ TheHyp' = TheHyp /\ fresh' = fresh /\ file' = file /\ orphaned' = orphaned
        /\ systems' = systems /\ Live' = Live
    BY <1>4 DEF Refused, TheHyp, Live
  <2>2. satAt = "notify" /\ satAt' \in {"register", "over"} /\ TheHyp \in Hypervisors
    BY <1>4, AtHand DEF Refused, AtOne
  <2>3. TheHyp \notin orphaned => \A id \in Live : systems[id] # TheHyp
    BY <1>4, <2>2 DEF OneId, Refused, IsUnknown
  <2> QED BY <1>0, <2>1, <2>2, <2>3 DEF OneId
<1>5. CASE KillSat
  <2>1. /\ file' = file /\ satAt' = "over" /\ systems' = systems /\ Live' = Live
        /\ orphaned' = IF satAt \in {"save", "dump"} THEN orphaned \cup {TheHyp} ELSE orphaned
    BY <1>5 DEF KillSat, Live
  <2> QED BY <1>0, <2>1 DEF OneId
<1>6. ASSUME NEW id \in DOMAIN systems, DeleteSystem(id)
      PROVE  OneId'
  <2>1. /\ TheHyp' = TheHyp /\ fresh' = fresh /\ file' = file /\ orphaned' = orphaned
        /\ systems' = systems /\ Live' \subseteq Live /\ satAt' = satAt
    BY <1>6 DEF DeleteSystem, TheHyp, Live
  <2> QED BY <1>0, <2>1 DEF OneId
<1>7. CASE /\ UNCHANGED <<file, systems, deleted, orphaned>>
           /\ satAt \notin {"save", "dump"}
           /\ satAt' \in {"wait", "send", "host", "over"}
  <2>1. Live' = Live
    BY <1>7 DEF Live
  <2> QED BY <1>0, <1>7, <2>1 DEF OneId
<1>8. CASE UNCHANGED <<file, systems, deleted, orphaned, satAt, source, host, fresh>>
  <2>1. Live' = Live /\ TheHyp' = TheHyp
    BY <1>8 DEF Live, TheHyp
  <2> QED BY <1>0, <1>8, <2>1 DEF OneId
<1>9. CASE VirtNotify \/ Swallow \/ NotifyFails \/ RegisterFails \/ ToldToStop \/ StartSat
  BY <1>7, <1>9 DEF VirtNotify, Swallow, NotifyFails, RegisterFails, ToldToStop, StartSat
<1>10. CASE CycleBegins \/ CycleEnds \/ SourceSent \/ NextSource
  BY <1>7, <1>10 DEF CycleBegins, CycleEnds, SourceSent, NextSource
<1> QED
  BY <1>1, <1>2, <1>3, <1>4, <1>5, <1>6, <1>8, <1>9, <1>10
     DEF SatNext, Send5, PutReport, TellSat

\* What the server has for a hypervisor is only replaced by what is sent for it.
LEMMA HasStep ==
    ASSUME SatTypeOK, InPlace, [SatNext]_satVars, NEW h \in Hypervisors, NEW gs, Has(h, gs),
           satAt = "notify" => h # TheHyp
    PROVE  Has(h, gs)'
<1> USE DEF Has, satVars, satServer, satHistory
<1>1. CASE VirtNotify
  BY <1>1 DEF VirtNotify, SatTypeOK
<1>2. CASE Swallow
  BY <1>2 DEF Swallow
<1>3. ASSUME NEW id \in DOMAIN systems, DeleteSystem(id)
      PROVE  Has(h, gs)'
  BY <1>3 DEF DeleteSystem, SatTypeOK
<1>4. CASE UNCHANGED <<guests, swallowed>>
  BY <1>4
<1> QED
  BY <1>1, <1>2, <1>3, <1>4 DEF SatNext, Send5, ToldToStop, PutReport, Refused,
     RegisterFails, NextSource, CycleBegins, CycleEnds, SourceSent, LoadHypervisor,
     Register, OpenFile, DumpId, NotifyFails, TellSat, KillSat, StartSat

\* The hypervisors of the report at hand that are done have their guests.
LEMMA ProgressStep ==
    ASSUME SatTypeOK, InPlace, Progress, [SatNext]_satVars
    PROVE  Progress'
<1> USE DEF satVars, satThread, Goto5, GiveUp, Busy, AtOne
<1>0. ASSUME Busy, NEW h \in DOMAIN batch[source]
      PROVE  <<source, h>> \in Hypervisors
  BY <1>0, MappingsOfHosts DEF InPlace, Hypervisors
<1>1. CASE NextSource
  BY <1>1 DEF NextSource, Progress
<1>2. CASE LoadHypervisor
  <2>1. /\ source' = source /\ batch' = batch /\ satAt = "host"
        /\ left' = left \ {host'}
        /\ satAt' \in {"register", "notify", "over"}
    BY <1>2 DEF LoadHypervisor
  <2>2. \A h \in DOMAIN batch[source] \ left :
            Has(<<source, h>>, batch[source][h])'
    BY <1>0, <2>1, HasStep DEF Progress, Has
  <2> QED BY <2>1, <2>2 DEF Progress, Has
<1>3. CASE /\ UNCHANGED <<batch, source, left, host>>
           /\ satAt' # satAt => AtOne /\ AtOne'
           /\ satAt # "notify"
  <2>1. ASSUME Busy, NEW h \in DOMAIN batch[source] \ left, ~(AtOne /\ h = host)
        PROVE  Has(<<source, h>>, batch[source][h])'
    <3>1. Has(<<source, h>>, batch[source][h])
      BY <2>1 DEF Progress
    <3> QED BY <1>0, <1>3, <2>1, <3>1, HasStep DEF Has
  <2>2. Busy' => Busy /\ (AtOne => AtOne')
    BY <1>3
  <2> QED BY <1>3, <2>1, <2>2 DEF Progress, Has
<1>4. CASE /\ UNCHANGED <<batch, source, left, host>>
           /\ satAt = "notify" /\ satAt' \in {"notify", "register"}
  <2>1. ASSUME NEW h \in DOMAIN batch[source] \ left, h # host
        PROVE  Has(<<source, h>>, batch[source][h])'
    <3>1. Has(<<source, h>>, batch[source][h]) /\ <<source, h>> # TheHyp
      BY <1>4, <2>1 DEF Progress, TheHyp
    <3> QED BY <1>0, <1>4, <2>1, <3>1, HasStep DEF Has
  <2> QED BY <1>4, <2>1 DEF Progress, Has
<1>5. CASE VirtNotify \/ Swallow
  <2>1. /\ UNCHANGED <<batch, source, left, host>>
        /\ satAt = "notify" /\ satAt' \in {"host", "over"}
    BY <1>5 DEF VirtNotify, Swallow
  <2>2. Has(TheHyp, batch[source][host])'
    <3>1. TheHyp \in Hypervisors /\ TheHyp' = TheHyp
      BY <2>1, AtHand DEF TheHyp
    <3>2. CASE VirtNotify
      <4>1. guests' = [guests EXCEPT ![TheHyp] = batch[source][host]]
        BY <3>2 DEF VirtNotify
      <4> QED BY <2>1, <3>1, <4>1 DEF Has, SatTypeOK
    <3>3. CASE Swallow
      <4>1. swallowed' = swallowed \cup {TheHyp}
        BY <3>3 DEF Swallow
      <4> QED BY <2>1, <3>1, <4>1 DEF Has
    <3> QED BY <1>5, <3>2, <3>3
  <2>3. ASSUME NEW h \in DOMAIN batch[source] \ left, h # host
        PROVE  Has(<<source, h>>, batch[source][h])'
    <3>1. Has(<<source, h>>, batch[source][h]) /\ <<source, h>> # TheHyp
      BY <2>1, <2>3 DEF Progress, TheHyp
    <3> QED BY <1>0, <2>1, <2>3, <3>1, HasStep DEF Has
  <2> QED BY <2>1, <2>2, <2>3 DEF Progress, Has, TheHyp
<1>6. CASE satAt' \in {"wait", "send", "over"}
  BY <1>6 DEF Progress
<1>7. CASE Register \/ OpenFile \/ DumpId
  BY <1>3, <1>6, <1>7 DEF Register, OpenFile, DumpId
<1>8. CASE Refused
  BY <1>4, <1>6, <1>8 DEF Refused
<1>9. CASE UNCHANGED <<satAt, batch, source, left, host>>
  BY <1>3, <1>4, <1>9
<1> QED
  BY <1>1, <1>2, <1>5, <1>6, <1>7, <1>8, <1>9 DEF SatNext, Send5, PutReport, TellSat,
     ToldToStop, CycleBegins, CycleEnds, SourceSent, RegisterFails, NotifyFails,
     KillSat, StartSat, DeleteSystem

\* What counts as sent stays at the server, and what comes to count as sent is there.
LEMMA RememberedStep ==
    ASSUME SatInv, Remembered, [SatNext]_satVars
    PROVE  Remembered'
<1> USE DEF SatInv, satVars, satThread, Goto5, GiveUp
<1>0. ASSUME NEW s \in SatSources, sent[s] # Nothing, NEW h \in DOMAIN sent[s]
      PROVE  <<s, h>> \in Hypervisors
  BY <1>0, MappingsOfHosts DEF SatTypeOK, Hypervisors
<1>1. CASE SourceSent
  <2>1. \A h \in DOMAIN batch[source] : Has(<<source, h>>, batch[source][h])
    BY <1>1 DEF SourceSent, Progress, Busy, AtOne
  <2>2. /\ satAt = "host" /\ satAt' = "send" /\ source \in SatSources
        /\ sent' = [sent EXCEPT ![source] = batch[source]]
        /\ UNCHANGED <<guests, swallowed>>
    BY <1>1 DEF SourceSent, KeptHash, InPlace, Busy, satServer, satHistory
  <2>3. ASSUME NEW s \in SatSources, sent'[s] # Nothing, NEW h \in DOMAIN sent'[s]
        PROVE  guests'[<<s, h>>] \in {sent'[s][h], Nothing} \/ <<s, h>> \in swallowed'
    BY <2>1, <2>2, <2>3 DEF Remembered, Has, SatTypeOK
  <2> QED BY <2>3 DEF Remembered, Has
<1>2. CASE StartSat
  BY <1>2 DEF StartSat, Remembered
<1>3. CASE /\ sent' = sent
           /\ satAt' \in {"wait", "send"} => satAt \in {"wait", "send"}
           /\ satAt' \notin {"wait", "send", "over"} =>
                 \/ satAt \in {"wait", "send"}
                 \/ satAt # "over" /\ source' = source
  <2>1. ASSUME NEW s \in SatSources, sent[s] # Nothing, NEW h \in DOMAIN sent[s],
               satAt' \in {"wait", "send"} \/ (satAt' # "over" /\ source' # s)
        PROVE  Has(<<s, h>>, sent[s][h])'
    <3>1. satAt \in {"wait", "send"} \/ (satAt # "over" /\ source # s)
      BY <1>3, <2>1
    <3>2. Has(<<s, h>>, sent[s][h]) /\ (satAt = "notify" => <<s, h>> # TheHyp)
      BY <2>1, <3>1 DEF Remembered, TheHyp
    <3> QED BY <1>0, <1>3, <2>1, <3>2, HasStep DEF Has
  <2> QED BY <1>3, <2>1 DEF Remembered, Has
<1>4. CASE CycleBegins \/ CycleEnds \/ ToldToStop \/ NextSource \/ LoadHypervisor
  BY <1>3, <1>4 DEF CycleBegins, CycleEnds, ToldToStop, NextSource, LoadHypervisor
<1>5. CASE \/ Register \/ OpenFile \/ DumpId \/ VirtNotify \/ Refused
           \/ RegisterFails \/ NotifyFails \/ Swallow \/ KillSat
  BY <1>3, <1>5 DEF Register, OpenFile, DumpId, VirtNotify, Refused, RegisterFails,
     NotifyFails, Swallow, KillSat
<1>6. CASE UNCHANGED <<sent, satAt, source>>
  BY <1>3, <1>6
<1> QED
  BY <1>1, <1>2, <1>4, <1>5, <1>6 DEF SatNext, Send5, PutReport, TellSat, DeleteSystem

-----------------------------------------------------------------------------
(* The theorems.                                                           *)

\* At the start nothing is registered, filed or sent.
LEMMA SatInitial == ASSUME SatInit PROVE SatInv /\ Remembered
<1> USE DEF SatInit, Absent, SatReports, Hypervisors
<1>1. {retried, satTold} \subseteq BOOLEAN
  BY Zenon
<1>2. {swallowed, orphaned} \subseteq SUBSET Hypervisors
  OBVIOUS
<1>3. /\ guests \in [Hypervisors -> SatGuests \cup {Nothing}]
      /\ systems \in Seq(Hypervisors) /\ deleted \subseteq DOMAIN systems
  OBVIOUS
<1>4. /\ satAt \in {"wait", "send", "host", "register", "save", "dump", "notify", "over"}
      /\ todo \subseteq SatSources /\ source \in SatSources \cup {Nothing}
      /\ left \subseteq SatHosts /\ host \in SatHosts \cup {Nothing} /\ fresh \in Nat
      /\ {satPuts, satFaults, satStarts} \subseteq Nat
  OBVIOUS
<1>5. SatTypeOK
  BY <1>1, <1>2, <1>3, <1>4 DEF SatTypeOK
<1>6. InPlace /\ OwnId /\ OneId /\ Progress
  BY DEF InPlace, OwnId, OneId, Progress, Busy, AtOne, Live
<1>7. Remembered
  BY DEF Remembered
<1> QED BY <1>5, <1>6, <1>7 DEF SatInv

\* The invariant: where the thread is, whose id it and the files have, and what of
\* the report at hand the server has.
THEOREM SatInvariance == SatSpec => []SatInv
<1>1. SatInit => SatInv
  BY SatInitial
<1>2. SatInv /\ [SatNext]_satVars => SatInv'
  BY TypesStep, InPlaceStep, OwnIdStep, OneIdStep, ProgressStep DEF SatInv
<1> QED BY <1>1, <1>2, PTL DEF SatSpec

\* A source whose report is dropped as a duplicate has its mapping at the server.
THEOREM SentIsThere == SatSpec => []Remembered
<1>1. SatInit => Remembered
  BY SatInitial
<1>2. SatInv /\ Remembered /\ [SatNext]_satVars => Remembered'
  BY RememberedStep
<1> QED BY <1>1, <1>2, SatInvariance, PTL DEF SatSpec

\* A hypervisor that was not interrupted between registration and file is at most
\* one system at the server.
THEOREM NoSecondSystem == SatSpec => []OneSystem
<1>1. SatInv => OneSystem
  <2>1. SUFFICES ASSUME SatInv, NEW h \in Hypervisors \ orphaned
                 PROVE  Cardinality({id \in Live : systems[id] = h}) <= 1
    BY DEF OneSystem
  <2> DEFINE ids == {id \in Live : systems[id] = h}
  <2>2. \A i, j \in ids : i = j
    BY <2>1 DEF SatInv, OneId
  <2>3. CASE ids = {}
    BY <2>3, FS_EmptySet
  <2>4. ASSUME NEW i \in ids PROVE Cardinality(ids) <= 1
    <3>1. ids = {i}
      BY <2>2, <2>4
    <3> QED BY <3>1, FS_Singleton
  <2> QED BY <2>3, <2>4
<1> QED BY <1>1, SatInvariance, PTL
=============================================================================
