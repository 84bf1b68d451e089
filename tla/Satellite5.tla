----------------------------- MODULE Satellite5 -----------------------------
(***************************************************************************)
(* A destination thread for Satellite 5 (Satellite5DestinationThread in    *)
(* virtwho/virt/virt.py) with its manager (virtwho/manager/satellite/      *)
(* satellite.py), the files that keep the system ids of the hypervisors,   *)
(* and the server.  Every hypervisor is a system of its own at the server: *)
(* it is registered once, its id is pickled into a file, and from then on  *)
(* its list of guests is sent with that id.  The thread gives up at the    *)
(* first error; the process may be killed and started again.               *)
(*                                                                         *)
(* How reports are gathered is the business of Destination; here it is one *)
(* step.  The manager raises neither ManagerThrottleError nor              *)
(* ManagerFatalError: their handlers are left out, and so is oneshot mode, *)
(* in which the thread ends after one cycle whatever it sent.              *)
(***************************************************************************)
EXTENDS Naturals, FiniteSets, Sequences

CONSTANTS
    SatSources,    \* the configurations this destination serves
    SatHosts,      \* the hypervisors that each of them may have
    SatGuests,     \* the possible lists of guests of a hypervisor
    SatMappings,   \* the mappings: for some hypervisors, their guests
    OtherReport,   \* an ErrorReport or a DomainListReport
    Nothing,       \* no report, no guests, no source
    Torn,          \* a file of which pickle.load raises EOFError
    MaxSatReports, \* bound: reports that are put
    MaxSatFaults,  \* bound: failures, kills and deletions
    MaxSatStarts   \* bound: starts of the process

ASSUME SatAssumption ==
    /\ SatMappings \subseteq UNION {[hs -> SatGuests] : hs \in SUBSET SatHosts}
    /\ {OtherReport, Nothing} \cap SatMappings = {} /\ OtherReport # Nothing
    /\ Nothing \notin SatSources \cup SatHosts \cup SatGuests /\ Torn \notin Nat
    /\ {MaxSatReports, MaxSatFaults, MaxSatStarts} \subseteq Nat

VARIABLES
    inbox,     \* the datastore
    sent,      \* last_report_for_source
    satAt,     \* where the thread is
    batch,     \* the reports of this cycle
    todo,      \* the sources that are left in it
    source,    \* the one whose mapping is being sent
    left,      \* the hypervisors that are left in it
    host,      \* the one at hand
    retried,   \* its id was refused and it was registered again
    fresh,     \* the id that virt_notify gets
    satTold,   \* the terminate event
    file,      \* the id in the file of each hypervisor
    systems,   \* the server: the hypervisor of each id that it gave
    deleted,   \* ... the ids that were deleted again
    guests,    \* ... the guests it has for each hypervisor
    satPuts, satFaults, satStarts,
    swallowed, \* history: a Fault of virt_notify counted as success
    orphaned   \* history: an id was given that did not get into the file

satThread  == <<sent, batch, todo, source, left, host, retried, fresh, satTold>>
satServer  == <<systems, deleted, guests>>
satBounds  == <<satPuts, satFaults, satStarts>>
satHistory == <<swallowed, orphaned>>
satVars == <<inbox, satAt, satThread, file, satServer, satBounds, satHistory>>

Hypervisors == SatSources \X SatHosts
TheHyp      == <<source, host>>
Absent      == 0
Live        == DOMAIN systems \ deleted
SatReports  == SatMappings \cup {OtherReport}

SatInit ==
    /\ inbox = [s \in SatSources |-> Nothing]
    /\ sent = [s \in SatSources |-> Nothing]
    /\ batch = [s \in SatSources |-> Nothing]
    /\ satAt \in {"wait", "over"} \* not started yet
    /\ todo = {} /\ source = Nothing /\ left = {} /\ host = Nothing
    /\ retried = FALSE /\ fresh = Absent /\ satTold = FALSE
    /\ file = [h \in Hypervisors |-> Absent]
    /\ systems = <<>> /\ deleted = {} /\ guests = [h \in Hypervisors |-> Nothing]
    /\ satPuts = 0 /\ satFaults = 0 /\ satStarts = 1
    /\ swallowed = {} /\ orphaned = {}

Faulty  == /\ satFaults < MaxSatFaults /\ satFaults' = satFaults + 1
           /\ UNCHANGED <<satPuts, satStarts>>
NoFault == UNCHANGED satBounds
Goto5(at) == satAt' = at

-----------------------------------------------------------------------------
(* Around the thread.                                                      *)

PutReport(s, r) ==
    /\ satPuts < MaxSatReports /\ inbox[s] # r
    /\ inbox' = [inbox EXCEPT ![s] = r]
    /\ satPuts' = satPuts + 1
    /\ UNCHANGED <<satAt, satThread, file, satServer, satFaults, satStarts, satHistory>>

\* An administrator removes a system at the server, and its guests with it.
DeleteSystem(id) ==
    /\ id \in Live /\ Faulty
    /\ deleted' = deleted \cup {id}
    /\ guests' = [guests EXCEPT ![systems[id]] = Nothing]
    /\ UNCHANGED <<inbox, satAt, satThread, file, systems, satHistory>>

TellSat ==
    /\ ~satTold /\ satAt # "over"
    /\ satTold' = TRUE
    /\ UNCHANGED <<inbox, satAt, sent, batch, todo, source, left, host, retried, fresh,
                   file, satServer, satBounds, satHistory>>

KillSat ==
    /\ satAt # "over" /\ Faulty
    /\ Goto5("over")
    /\ orphaned' = IF satAt \in {"save", "dump"} THEN orphaned \cup {TheHyp} ELSE orphaned
    /\ UNCHANGED <<inbox, satThread, file, satServer, swallowed>>

\* virt-who is started again: only the files are left of it.
StartSat ==
    /\ satAt = "over" /\ satStarts < MaxSatStarts
    /\ satStarts' = satStarts + 1
    /\ Goto5("wait") /\ satTold' = FALSE
    /\ sent' = [s \in SatSources |-> Nothing]
    /\ inbox' = [s \in SatSources |-> Nothing]
    /\ batch' = [s \in SatSources |-> Nothing]
    /\ todo' = {} /\ source' = Nothing /\ left' = {} /\ host' = Nothing
    /\ retried' = FALSE /\ fresh' = Absent
    /\ UNCHANGED <<file, satServer, satPuts, satFaults, satHistory>>

-----------------------------------------------------------------------------
(* The thread: _send_data of Satellite5DestinationThread.                  *)

\* SatelliteError, and any other exception: run gives the thread an ErrorReport
\* of its own, at which _send_data stops it.
GiveUp == Goto5("over")

ChangedAtFirst(s) == inbox[s] # Nothing /\ sent[s] = Nothing
Changed(s) == inbox[s] \notin {Nothing, sent[s]}

CycleBegins ==
    /\ satAt = "wait" /\ ~satTold
    /\ batch' = inbox
    /\ todo' = {s \in SatSources : Changed(s)} /\ todo' # {}
    /\ Goto5("send")
    /\ UNCHANGED <<inbox, sent, source, left, host, retried, fresh, satTold, file, satServer,
                   satBounds, satHistory>>

ToldToStop ==
    /\ satAt = "wait" /\ satTold
    /\ Goto5("over")
    /\ UNCHANGED <<inbox, satThread, file, satServer, satBounds, satHistory>>

\* A report that is no mapping is passed over, and a mapping too when the thread
\* is terminated.
NextSource ==
    /\ satAt = "send"
    /\ \E s \in todo :
        /\ todo' = todo \ {s}
        /\ IF batch[s] \in SatMappings /\ ~satTold
           THEN Goto5("host") /\ source' = s /\ left' = DOMAIN batch[s]
           ELSE UNCHANGED <<satAt, source, left>>
    /\ UNCHANGED <<inbox, sent, batch, host, retried, fresh, satTold, file, satServer,
                   satBounds, satHistory>>

CycleEnds ==
    /\ satAt = "send" /\ todo = {}
    /\ Goto5("wait")
    /\ batch' = [s \in SatSources |-> Nothing]
    /\ UNCHANGED <<inbox, sent, todo, source, left, host, retried, fresh, satTold, file,
                   satServer, satBounds, satHistory>>

\* hypervisorCheckIn came to its end: the hash of the report is kept.
KeptNewest(s) == IF inbox[s] \in SatMappings THEN inbox[s] ELSE batch[s]
KeptHash(s)   == batch[s]
SourceSent ==
    /\ satAt = "host" /\ left = {}
    /\ sent' = [sent EXCEPT ![source] = KeptHash(source)]
    /\ Goto5("send")
    /\ source' = Nothing /\ host' = Nothing /\ retried' = FALSE /\ fresh' = Absent
    /\ UNCHANGED <<inbox, batch, todo, left, satTold, file, satServer, satBounds, satHistory>>

-----------------------------------------------------------------------------
(* The manager: hypervisorCheckIn, _load_hypervisor, _register_system.     *)

MustRegisterAlways(h) == TRUE
MustRegister(h) == file[h] = Absent
LoadedOnce(h) == IF fresh = Absent THEN file[h] ELSE fresh
Loaded(h)     == file[h]
LoadHypervisor ==
    /\ satAt = "host"
    /\ \E h \in left :
        /\ left' = left \ {h} /\ host' = h /\ retried' = FALSE
        /\ IF MustRegister(<<source, h>>)
           THEN Goto5("register") /\ UNCHANGED fresh
           ELSE IF file[<<source, h>>] = Torn
           THEN GiveUp /\ UNCHANGED fresh
           ELSE Goto5("notify") /\ fresh' = Loaded(<<source, h>>)
    /\ UNCHANGED <<inbox, sent, batch, todo, source, satTold, file, satServer, satBounds,
                   satHistory>>

\* The login, the base channel and its mapping come first: nothing is registered
\* when one of them fails.
Register ==
    /\ satAt = "register"
    /\ systems' = Append(systems, TheHyp)
    /\ \/ /\ NoFault
          /\ fresh' = Len(systems) + 1 /\ Goto5("save")
          /\ UNCHANGED orphaned
       \/ /\ Faulty  \* no answer, or refresh_hw_profile fails
          /\ GiveUp /\ orphaned' = orphaned \cup {TheHyp}
          /\ UNCHANGED fresh
    /\ UNCHANGED <<inbox, sent, batch, todo, source, left, host, retried, satTold, file,
                   deleted, guests, swallowed>>

RegisterFails ==
    /\ satAt = "register" /\ Faulty
    /\ GiveUp
    /\ UNCHANGED <<inbox, satThread, file, satServer, satHistory>>

\* The file is truncated and written; if it cannot be opened, that is logged.
OpenFile ==
    /\ satAt = "save"
    /\ \/ NoFault /\ Goto5("dump") /\ file' = [file EXCEPT ![TheHyp] = Torn]
          /\ UNCHANGED orphaned
       \/ Faulty /\ Goto5("notify") /\ orphaned' = orphaned \cup {TheHyp}
          /\ UNCHANGED file
    /\ UNCHANGED <<inbox, satThread, satServer, swallowed>>

DumpId ==
    /\ satAt = "dump"
    /\ file' = [file EXCEPT ![TheHyp] = fresh]
    /\ Goto5("notify")
    /\ UNCHANGED <<inbox, satThread, satServer, satBounds, satHistory>>

VirtNotify ==
    /\ satAt = "notify" /\ fresh \in Live
    /\ guests' = [guests EXCEPT ![TheHyp] = batch[source][host]]
    /\ swallowed' = swallowed \ {TheHyp}
    /\ \/ NoFault /\ Goto5("host")
       \/ Faulty /\ GiveUp     \* the answer is lost
    /\ UNCHANGED <<inbox, satThread, file, systems, deleted, orphaned>>

NotifyFails ==
    /\ satAt = "notify" /\ Faulty
    /\ GiveUp
    /\ UNCHANGED <<inbox, satThread, file, satServer, satHistory>>

\* Fault -9, "System was deleted from Satellite 5, re-registering": once.
IsUnknown == fresh \notin Live
Refused ==
    /\ satAt = "notify" /\ IsUnknown
    /\ IF retried THEN GiveUp ELSE Goto5("register")
    /\ retried' = TRUE
    /\ UNCHANGED <<inbox, sent, batch, todo, source, left, host, fresh, satTold, file,
                   satServer,
                   satBounds, satHistory>>

\* Any other Fault of the first virt_notify is caught and forgotten.
Swallow ==
    /\ satAt = "notify" /\ ~retried /\ Faulty
    /\ swallowed' = swallowed \cup {TheHyp}
    /\ Goto5("host")
    /\ UNCHANGED <<inbox, satThread, file, satServer, orphaned>>

Send5 == \/ CycleBegins \/ ToldToStop \/ NextSource \/ CycleEnds \/ SourceSent
         \/ LoadHypervisor \/ Register \/ OpenFile \/ DumpId \/ VirtNotify \/ Refused
SatNext ==
    \/ Send5 \/ RegisterFails \/ NotifyFails \/ Swallow
    \/ TellSat \/ KillSat \/ StartSat
    \/ \E s \in SatSources, r \in SatReports : PutReport(s, r)
    \/ \E id \in DOMAIN systems : DeleteSystem(id)

SatSpec == SatInit /\ [][SatNext]_satVars
FairSat == SatSpec /\ WF_satVars(Send5)

-----------------------------------------------------------------------------
(* Properties.                                                             *)

SatTypeOK ==
    /\ inbox \in [SatSources -> SatReports \cup {Nothing}]
    /\ batch \in [SatSources -> SatReports \cup {Nothing}]
    /\ sent \in [SatSources -> SatMappings \cup {Nothing}]
    /\ satAt \in {"wait", "send", "host", "register", "save", "dump", "notify", "over"}
    /\ todo \subseteq SatSources /\ source \in SatSources \cup {Nothing}
    /\ left \subseteq SatHosts /\ host \in SatHosts \cup {Nothing}
    /\ {retried, satTold} \subseteq BOOLEAN /\ fresh \in Nat
    /\ \A h \in Hypervisors : file[h] \in Nat \cup {Torn}
    /\ systems \in Seq(Hypervisors)
    /\ deleted \subseteq DOMAIN systems
    /\ DOMAIN file = Hypervisors
    /\ {swallowed, orphaned} \subseteq SUBSET Hypervisors
    /\ {satPuts, satFaults, satStarts} \subseteq Nat
    /\ guests \in [Hypervisors -> SatGuests \cup {Nothing}]

\* Where the thread is in a report, it has one.
Busy  == satAt \in {"host", "register", "save", "dump", "notify"}
AtOne == satAt \in {"register", "save", "dump", "notify"}
InPlace ==
    /\ Busy => /\ source \in SatSources /\ batch[source] \in SatMappings
               /\ left \subseteq DOMAIN batch[source]
    /\ AtOne => host \in DOMAIN batch[source]

\* No id of one hypervisor is ever used for another: what its file has, and what
\* virt_notify is given, is an id that the server gave to it.
Given(id, h) == id \in DOMAIN systems /\ systems[id] = h
OwnId == /\ \A h \in Hypervisors : file[h] \in {Absent, Torn} \/ Given(file[h], h)
         /\ satAt \in {"save", "dump", "notify"} => Given(fresh, TheHyp)

\* The ids of a hypervisor that are alive are the one in its file, or the one
\* that is on its way there.
OneId ==
    /\ \A h \in Hypervisors \ orphaned : \A id \in Live :
         systems[id] = h =>
             id = IF satAt \in {"save", "dump"} /\ TheHyp = h THEN fresh ELSE file[h]
    /\ satAt = "register" /\ TheHyp \notin orphaned => \A id \in Live : systems[id] # TheHyp
    /\ satAt = "notify" /\ TheHyp \notin orphaned => file[TheHyp] = fresh

\* The hypervisors of the report at hand that are done have their guests.
Has(h, gs) == guests[h] \in {gs, Nothing} \/ h \in swallowed
Progress ==
    Busy => \A h \in DOMAIN batch[source] \ left :
                (AtOne /\ h = host) \/ Has(<<source, h>>, batch[source][h])
SatInv == SatTypeOK /\ InPlace /\ OwnId /\ OneId /\ Progress

\* A source whose report is dropped as a duplicate has its mapping at the server:
\* every hypervisor of the last report that counts as sent has these guests
\* there, but for systems that an administrator deleted, and for the hypervisors
\* of which a Fault was swallowed.
Remembered ==
    \A s \in SatSources :
        /\ sent[s] # Nothing
        /\ satAt \in {"wait", "send"} \/ (satAt # "over" /\ source # s)
        =>  \A h \in DOMAIN sent[s] : Has(<<s, h>>, sent[s][h])

\* A hypervisor is one system at the server, over restarts, kills and deletions,
\* unless it was interrupted between the registration and the end of the file.
OneSystem ==
    \A h \in Hypervisors \ orphaned : Cardinality({id \in Live : systems[id] = h}) <= 1

\* What changes reaches the server, or the thread has come to its end.
Settles5 ==
    \A s \in SatSources, m \in SatMappings :
        (inbox[s] = m /\ satAt # "over") ~>
            \/ sent[s] = m \/ inbox[s] # m \/ satAt = "over"
=============================================================================
