---------------------------- MODULE Destination ----------------------------
(***************************************************************************)
(* One destination thread of virt-who (DestinationThread in                *)
(* virtwho/virt/virt.py) between the datastore that the virt threads fill  *)
(* and the subscription server, reached through SubscriptionManager.       *)
(*                                                                         *)
(* The thread repeatedly reads the newest report of each of its sources,   *)
(* drops the reports it believes the server already has, sends the         *)
(* host-guest associations of all sources in one check-in and the domain   *)
(* lists one by one.  An asynchronous server only queues a check-in as a   *)
(* job; the thread asks for the job's state before it sends that source    *)
(* again.  Time is abstracted: a wait is any number of steps of others.    *)
(*                                                                         *)
(* A definition right before another one, of the same name with a suffix,  *)
(* is a mutated form of it: a plausible mistake that a property detects.   *)
(* No behaviour of Spec uses it.                                           *)
(***************************************************************************)
EXTENDS Naturals, Sequences, FiniteSets

CONSTANTS
    HgSources,       \* sources whose reports are HostGuestAssociationReports
    DlSources,       \* sources whose reports are DomainListReports
    Contents,        \* the non-empty mappings; a report's hash identifies one
    Empty,           \* the mapping without any hypervisor, the list without guest
    ErrorReport,     \* what a failed virt thread puts in the datastore
    NoReport,        \* no report, no hash
    NoSource,        \* no source: the thread is in no loop over its sources
    Oneshot,         \* --oneshot
    Async,           \* the server has the capability hypervisors_async
    Lossy,           \* answers to accepted requests, and job queries, may fail
    ThrottleForever, \* 429 answers are not limited by MaxFaults
    Interval,        \* rounds of one second the first gathering lasts
    MaxPuts,         \* bound: reports the virt threads put
    MaxFaults,       \* bound: failing requests and failing jobs
    MaxReloads       \* bound: reloads by SIGHUP

Sources == HgSources \cup DlSources
Hashes  == Contents \cup {Empty}
Reports == Hashes \cup {ErrorReport}

ASSUME ConstantsAssumption ==
    /\ HgSources \cap DlSources = {} /\ NoSource \notin Sources
    /\ Empty \notin Contents /\ ErrorReport \notin Contents /\ NoReport \notin Contents
    /\ Empty # ErrorReport /\ Empty # NoReport /\ ErrorReport # NoReport
    /\ {Oneshot, Async, Lossy, ThrottleForever} \subseteq BOOLEAN
    /\ Interval \in Nat \ {0}
    /\ {MaxPuts, MaxFaults, MaxReloads} \subseteq Nat

VARIABLES
    store,        \* Datastore: the newest report of each source
    term,         \* terminate_event, set by the executor
    pc,           \* where the thread is
    isInitial,    \* is_initial_run
    remaining,    \* source_keys_remaining
    waited,       \* time_waited
    todo,         \* the keys that the current for loop has still to visit
    reports,      \* the data that _get_data returns and _send_data is given
    cur,          \* the source the loop body is at ...
    curReport,    \* ... and the report it read for it
    firstAttempt, \* first_attempt of check_report_status
    submitted,    \* submitted_report_and_hash_for_source
    last,         \* last_report_for_source
    jobs,         \* every check-in the server accepted, in order
    server,       \* what the server records for each source
    puts, faults, reloads,
    lost          \* history: sources of which virt-who lost an accepted request

external == <<store, term, puts>>
control  == <<isInitial, remaining, waited>>
reading  == <<cur, curReport, firstAttempt>>
locals   == <<remaining, waited, todo, reports, reading>>
remote   == <<jobs, server>>
vars == <<store, term, pc, isInitial, remaining, waited, todo, reports, cur,
          curReport, firstAttempt, submitted, last, jobs, server, puts, faults,
          reloads, lost>>

None         == [s \in Sources |-> NoReport]
NoSubmission == [job |-> 0, hash |-> NoReport]
Submissions  == [job : Nat, hash : Hashes \cup {NoReport}]

\* A check-in the server accepted: what it carries, how far the server is with
\* it, and the state that virt-who's own batch report object was last given.
Jobs == [sent   : [HgSources -> Hashes \cup {NoReport}],
         status : {"RUNNING", "FINISHED", "FAILED"},
         state  : {"CREATED", "PROCESSING", "FINISHED", "FAILED"}]

NoneFound  == \A s \in Sources : reports[s] = NoReport
Tracked(s) == submitted[s].job # 0
JobOf(s)   == jobs[submitted[s].job]
Batched    == {s \in HgSources : reports[s] \in Hashes}

\* getJob's answer as a report state (STATE_MAPPING and its default).
StateOfStatusLenient(status) ==
    IF status = "RUNNING" THEN "PROCESSING" ELSE "FINISHED"
StateOfStatus(status) ==
    CASE status = "RUNNING"  -> "PROCESSING"
      [] status = "FINISHED" -> "FINISHED"
      [] OTHER               -> "FAILED"

\* The records of the server once it has applied a check-in: a check-in names
\* hypervisors, so that a source without any changes nothing.
Applied(sent) == [s \in Sources |-> IF s \in HgSources /\ sent[s] \in Contents
                                    THEN sent[s] ELSE server[s]]

\* One failing request or job, out of the run's budget.
Fault    == faults < MaxFaults /\ faults' = faults + 1
Throttle == \/ ThrottleForever /\ UNCHANGED faults
            \/ ~ThrottleForever /\ Fault

-----------------------------------------------------------------------------
(* The environment of the thread.                                          *)

\* In oneshot mode the virt threads have all ended before the destination
\* threads start, each having put one report or, unusable, none.
Init ==
    /\ store \in IF Oneshot THEN [Sources -> Reports \cup {NoReport}] ELSE {None}
    /\ term = FALSE
    /\ pc = "loop" /\ isInitial = TRUE
    /\ remaining = {} /\ waited = 0 /\ todo = {} /\ reports = None
    /\ cur = NoSource /\ curReport = NoReport /\ firstAttempt = TRUE
    /\ submitted = [s \in Sources |-> NoSubmission] /\ last = None
    /\ jobs = <<>> /\ server = None
    /\ puts = 0 /\ faults = 0 /\ reloads = 0
    /\ lost = {}

\* A virt thread puts its newest report, or an ErrorReport after a failure.
Put(s) ==
    /\ ~Oneshot /\ ~term /\ puts < MaxPuts
    /\ \E r \in Reports : store' = [store EXCEPT ![s] = r]
    /\ puts' = puts + 1
    /\ UNCHANGED <<term, pc, control, todo, reports, reading, submitted, last,
                   remote, faults, reloads, lost>>

\* SIGTERM or SIGHUP: the executor sets the event that all threads share.
Terminate ==
    /\ ~term
    /\ term' = TRUE
    /\ UNCHANGED <<store, puts, pc, control, todo, reports, reading, submitted,
                   last, remote, faults, reloads, lost>>

\* Executor.reload has joined the thread, cleared the event, replaced the
\* datastore; main then runs the executor again, with new threads.
Reload ==
    /\ pc = "dead" /\ term /\ ~Oneshot /\ reloads < MaxReloads
    /\ reloads' = reloads + 1
    /\ store' = None /\ term' = FALSE
    /\ pc' = "loop" /\ isInitial' = TRUE /\ UNCHANGED locals
    /\ submitted' = [s \in Sources |-> NoSubmission]
    /\ last' = None
    /\ lost' = lost \cup {s \in HgSources : Tracked(s) /\ JobOf(s).status = "RUNNING"}
    /\ UNCHANGED <<remote, puts, faults>>

\* The server works on the jobs it accepted, in any order.
FinishJob(j) ==
    /\ jobs[j].status = "RUNNING"
    /\ jobs' = [jobs EXCEPT ![j].status = "FINISHED"]
    /\ server' = Applied(jobs[j].sent)
    /\ UNCHANGED <<external, pc, control, todo, reports, reading, submitted, last,
                   faults, reloads, lost>>

\* A job ends FAILED or CANCELED without effect on the records.
FailJob(j) ==
    /\ jobs[j].status = "RUNNING"
    /\ Fault
    /\ jobs' = [jobs EXCEPT ![j].status = "FAILED"]
    /\ UNCHANGED <<external, pc, control, todo, reports, reading, submitted, last,
                   server, reloads, lost>>

-----------------------------------------------------------------------------
(* The thread: run, _run and _get_data.                                    *)

\* The head of the loops of run and _run.  (prepare does nothing here.)
LoopTop ==
    /\ pc = "loop"
    /\ pc' = IF term THEN "dead" ELSE IF isInitial THEN "initial" ELSE "get"
    /\ todo' = IF term \/ isInitial THEN {} ELSE Sources
    /\ UNCHANGED <<external, control, reports, reading, submitted, last, remote,
                   faults, reloads, lost>>

\* The outer loop of _get_data_initial gathers until there is any report.
KeepGatheringStubborn == NoneFound
KeepGatheringWhole    == (\E s \in Sources : reports[s] = NoReport) /\ ~term
KeepGathering         == NoneFound /\ ~term

InitialTop ==
    /\ pc = "initial"
    /\ \/ /\ KeepGathering
          /\ remaining' = Sources /\ waited' = 0 /\ pc' = "gather"
          /\ UNCHANGED isInitial
       \/ /\ ~KeepGathering
          /\ isInitial' = FALSE /\ pc' = "send"
          /\ UNCHANGED <<remaining, waited>>
    /\ UNCHANGED <<external, todo, reports, reading, submitted, last, remote,
                   faults, reloads, lost>>

\* The inner loop: rounds over the sources that had nothing yet.
RoundLeft == remaining # {} /\ waited < Interval

GatherTop ==
    /\ pc = "gather"
    /\ \/ /\ RoundLeft /\ ~term
          /\ todo' = remaining /\ pc' = "get"
       \/ /\ ~RoundLeft \/ term
          /\ pc' = "initial"
          /\ UNCHANGED todo
    /\ UNCHANGED <<external, control, reports, reading, submitted, last, remote,
                   faults, reloads, lost>>

\* A report equal to the last one the server is known to have.
IsDuplicate(s, report) == ~isInitial /\ report = last[s]

\* One turn of the loop of _get_data_common.  The datastore is locked for the
\* read of one key only, so that reports come in between two turns.
ReadNothing(s) ==
    /\ pc = "get" /\ s \in todo
    /\ store[s] = NoReport
    /\ todo' = todo \ {s}
    /\ UNCHANGED <<external, pc, control, reports, reading, submitted, last,
                   remote, faults, reloads, lost>>

ReadDuplicate(s) ==
    /\ pc = "get" /\ s \in todo
    /\ store[s] # NoReport /\ ~Tracked(s) /\ IsDuplicate(s, store[s])
    /\ todo' = todo \ {s}
    /\ UNCHANGED <<external, pc, control, reports, reading, submitted, last,
                   remote, faults, reloads, lost>>

ReadFresh(s) ==
    /\ pc = "get" /\ s \in todo
    /\ store[s] # NoReport /\ ~Tracked(s) /\ ~IsDuplicate(s, store[s])
    /\ todo' = todo \ {s}
    /\ reports' = [reports EXCEPT ![s] = store[s]]
    /\ UNCHANGED <<external, pc, control, reading, submitted, last, remote,
                   faults, reloads, lost>>

\* The source was sent in an earlier check-in: first ask for that job.
ReadTracked(s) ==
    /\ pc = "get" /\ s \in todo
    /\ store[s] # NoReport /\ Tracked(s)
    /\ todo' = todo \ {s}
    /\ cur' = s /\ curReport' = store[s] /\ firstAttempt' = TRUE
    /\ pc' = "poll"
    /\ UNCHANGED <<external, control, reports, submitted, last, remote, faults,
                   reloads, lost>>

\* The end of a round: _get_data_initial waits a second if a source is missing.
ReadAll ==
    /\ pc = "get" /\ todo = {}
    /\ IF isInitial
       THEN /\ remaining' = {s \in remaining : reports[s] = NoReport}
            /\ waited' = IF remaining' = {} THEN waited ELSE waited + 1
            /\ pc' = "gather"
       ELSE /\ pc' = "send"
            /\ UNCHANGED <<remaining, waited>>
    /\ UNCHANGED <<external, isInitial, todo, reports, reading, submitted, last,
                   remote, faults, reloads, lost>>

-----------------------------------------------------------------------------
(* check_report_status for the job of cur, and what its result means.      *)

\* The loop goes on while the job's state is unknown; a job that was found in
\* process is asked for once in every cycle.  (In oneshot mode no source is
\* ever tracked here: the thread makes one cycle.)
PollAgainOnlyCreated(state) == state = "CREATED"
PollAgain(state) == state = "CREATED" \/ (state = "PROCESSING" /\ firstAttempt)

\* The head of the loop; the wait before a request returns early when the
\* thread is told to terminate, but the loop goes on.
PollTop ==
    /\ pc = "poll"
    /\ pc' = IF PollAgain(JobOf(cur).state) THEN "ask" ELSE "settle"
    /\ UNCHANGED <<external, control, todo, reports, reading, submitted, last,
                   remote, faults, reloads, lost>>

PollAnswered ==
    /\ pc = "ask"
    /\ jobs' = [jobs EXCEPT ![submitted[cur].job].state = StateOfStatus(JobOf(cur).status)]
    /\ firstAttempt' = FALSE
    /\ pc' = "poll"
    /\ UNCHANGED <<external, control, todo, reports, cur, curReport, submitted,
                   last, server, faults, reloads, lost>>

\* A 429 answer: try again after a wait.
PollThrottled ==
    /\ pc = "ask"
    /\ Throttle
    /\ firstAttempt' = FALSE
    /\ pc' = "poll"
    /\ UNCHANGED <<external, control, todo, reports, cur, curReport, submitted,
                   last, remote, reloads, lost>>

\* ManagerError, ManagerFatalError: leave the loop with the state as it was.
PollFailed ==
    /\ pc = "ask"
    /\ Lossy \/ JobOf(cur).state # "CREATED"
    /\ Fault
    /\ pc' = "settle"
    /\ UNCHANGED <<external, control, todo, reports, reading, submitted, last,
                   remote, reloads, lost>>

\* Any other exception ends the cycle; run catches it.
PollRaised ==
    /\ pc = "ask"
    /\ Fault
    /\ pc' = "error"
    /\ UNCHANGED <<external, control, todo, reports, reading, submitted, last,
                   remote, reloads, lost>>

\* FINISHED: the submitted report is what the server has now.
SettleFinished ==
    /\ pc = "settle" /\ JobOf(cur).state = "FINISHED"
    /\ submitted' = [submitted EXCEPT ![cur] = NoSubmission]
    /\ last' = [last EXCEPT ![cur] = submitted[cur].hash]
    /\ reports' = IF ~isInitial /\ curReport = submitted[cur].hash
                  THEN reports ELSE [reports EXCEPT ![cur] = curReport]
    /\ pc' = "get"
    /\ UNCHANGED <<external, control, todo, reading, remote, faults, reloads, lost>>

\* PROCESSING: keep the submission, do not send the source in this cycle.
IsInProcessNever(state) == state = "PROCESSING" /\ firstAttempt
IsInProcess(state)      == state = "PROCESSING"

SettleProcessingForgets ==
    /\ pc = "settle" /\ IsInProcess(JobOf(cur).state)
    /\ submitted' = [submitted EXCEPT ![cur] = NoSubmission]
    /\ pc' = "get"
    /\ UNCHANGED <<external, control, todo, reports, reading, last, remote, faults,
                   reloads, lost>>

SettleProcessing ==
    /\ pc = "settle" /\ IsInProcess(JobOf(cur).state)
    /\ pc' = "get"
    /\ UNCHANGED <<external, control, todo, reports, reading, submitted, last,
                   remote, faults, reloads, lost>>

\* FAILED, CANCELED, or no answer since CREATED: forget the submission and send
\* the newest report.
SettleForgotten ==
    /\ pc = "settle"
    /\ JobOf(cur).state # "FINISHED" /\ ~IsInProcess(JobOf(cur).state)
    /\ submitted' = [submitted EXCEPT ![cur] = NoSubmission]
    /\ reports' = [reports EXCEPT ![cur] = curReport]
    /\ lost' = IF JobOf(cur).state = "CREATED" THEN lost \cup {cur} ELSE lost
    /\ pc' = "get"
    /\ UNCHANGED <<external, control, todo, reading, last, remote, faults, reloads>>

-----------------------------------------------------------------------------
(* _send_data.                                                             *)

SendNothing ==
    /\ pc = "send" /\ NoneFound
    /\ pc' = "after"
    /\ UNCHANGED <<external, control, todo, reports, reading, submitted, last,
                   remote, faults, reloads, lost>>

\* The loop over the reports: batch the associations, list the domain lists,
\* ignore ErrorReports.  A source whose hypervisors went to zero loses its
\* last hash (BZ 19443486); zero hypervisors in all are not sent.
AssociationsOnlyAlone == /\ \E s \in HgSources : reports[s] \in Contents
                         /\ \A s \in DlSources : reports[s] \notin Hashes
Associations          == \E s \in HgSources : reports[s] \in Contents

LastHashHasty(s) == IF reports[s] \in Hashes THEN reports[s] ELSE last[s]
LastHash(s)      == IF s \in HgSources /\ reports[s] = Empty THEN NoReport ELSE last[s]

Prepare ==
    /\ pc = "send" /\ ~NoneFound
    /\ last' = [s \in Sources |-> LastHash(s)]
    /\ todo' = {s \in DlSources : reports[s] \in Hashes}
    /\ pc' = IF Associations THEN "checkin" ELSE "guests"
    /\ UNCHANGED <<external, control, reports, reading, submitted, remote, faults,
                   reloads, lost>>

\* What the server does with a check-in it accepts.
BatchSent == [s \in HgSources |-> IF s \in Batched THEN reports[s] ELSE NoReport]

Accept ==
    /\ jobs' = Append(jobs, [sent   |-> BatchSent,
                             status |-> IF Async THEN "RUNNING" ELSE "FINISHED",
                             state  |-> IF Async THEN "CREATED" ELSE "FINISHED"])
    /\ server' = IF Async THEN server ELSE Applied(BatchSent)

CheckInAccepted ==
    /\ pc = "checkin" /\ ~term
    /\ Accept
    /\ submitted' = [s \in Sources |->
                        IF s \in Batched
                        THEN [job |-> Len(jobs) + 1, hash |-> reports[s]]
                        ELSE submitted[s]]
    /\ pc' = "guests"
    /\ UNCHANGED <<external, control, todo, reports, reading, last, faults,
                   reloads, lost>>

\* A 429 answer: the loop waits and tries again, but not in oneshot mode.
CheckInThrottled ==
    /\ pc = "checkin" /\ ~term
    /\ Throttle
    /\ pc' = IF Oneshot THEN "guests" ELSE "checkin"
    /\ UNCHANGED <<external, control, todo, reports, reading, submitted, last,
                   remote, reloads, lost>>

\* Refused: ManagerError leaves the loop, any other exception the cycle.
CheckInRefused ==
    /\ pc = "checkin" /\ ~term
    /\ Fault
    /\ pc' \in {"guests", "error"}
    /\ UNCHANGED <<external, control, todo, reports, reading, submitted, last,
                   remote, reloads, lost>>

\* Accepted, but the answer does not arrive (BadStatusLine, a socket error):
\* to virt-who this is a check-in that was refused.
CheckInUnanswered ==
    /\ pc = "checkin" /\ ~term
    /\ Lossy /\ Fault
    /\ Accept
    /\ lost' = lost \cup Batched
    /\ pc' \in {"guests", "error"}
    /\ UNCHANGED <<external, control, todo, reports, reading, submitted, last,
                   reloads>>

\* Told to terminate: the loop ends without a (further) request.
CheckInAbandoned ==
    /\ pc = "checkin" /\ term
    /\ pc' = "guests"
    /\ UNCHANGED <<external, control, todo, reports, reading, submitted, last,
                   remote, faults, reloads, lost>>

\* The next of the domain lists, in a loop of its own that retries after 429.
NextGuests(s) ==
    /\ pc = "guests" /\ s \in todo
    /\ todo' = todo \ {s}
    /\ cur' = s /\ pc' = "guestsOf"
    /\ UNCHANGED <<external, control, reports, curReport, firstAttempt, submitted,
                   last, remote, faults, reloads, lost>>

GuestsSent ==
    /\ pc = "guestsOf" /\ ~term
    /\ server' = [server EXCEPT ![cur] = reports[cur]]
    /\ last' = [last EXCEPT ![cur] = reports[cur]]
    /\ pc' = "guests"
    /\ UNCHANGED <<external, control, todo, reports, reading, submitted, jobs,
                   faults, reloads, lost>>

GuestsThrottled ==
    /\ pc = "guestsOf" /\ ~term
    /\ Throttle
    /\ pc' = IF Oneshot THEN "guests" ELSE "guestsOf"
    /\ UNCHANGED <<external, control, todo, reports, reading, submitted, last,
                   remote, reloads, lost>>

GuestsRefused ==
    /\ pc = "guestsOf" /\ ~term
    /\ Fault
    /\ pc' \in {"guests", "error"}
    /\ UNCHANGED <<external, control, todo, reports, reading, submitted, last,
                   remote, reloads, lost>>

GuestsUnanswered ==
    /\ pc = "guestsOf" /\ ~term
    /\ Lossy /\ Fault
    /\ server' = [server EXCEPT ![cur] = reports[cur]]
    /\ lost' = lost \cup {cur}
    /\ pc' \in {"guests", "error"}
    /\ UNCHANGED <<external, control, todo, reports, reading, submitted, last,
                   jobs, reloads>>

GuestsAbandoned ==
    /\ pc = "guestsOf" /\ term
    /\ pc' = "guests"
    /\ UNCHANGED <<external, control, todo, reports, reading, submitted, last,
                   remote, faults, reloads, lost>>

GuestsOver ==
    /\ pc = "guests" /\ todo = {}
    /\ pc' = "after"
    /\ UNCHANGED <<external, control, todo, reports, reading, submitted, last,
                   remote, faults, reloads, lost>>

\* The end of a cycle, or of run's handler of an exception: the locals go out
\* of scope and the thread waits for the interval, or ends.
CycleOver ==
    /\ pc \in {"after", "error"}
    /\ pc' = IF Oneshot \/ term THEN "dead" ELSE "loop"
    /\ todo' = {} /\ reports' = None /\ remaining' = {} /\ waited' = 0
    /\ cur' = NoSource /\ curReport' = NoReport /\ firstAttempt' = TRUE
    /\ UNCHANGED <<external, isInitial, submitted, last, remote, faults, reloads,
                   lost>>

-----------------------------------------------------------------------------
Gather == \/ LoopTop \/ InitialTop \/ GatherTop \/ ReadAll
          \/ \E s \in Sources : \/ ReadNothing(s) \/ ReadDuplicate(s)
                                \/ ReadFresh(s) \/ ReadTracked(s)
Check  == \/ PollTop \/ PollAnswered \/ PollThrottled \/ PollFailed \/ PollRaised
          \/ SettleFinished \/ SettleProcessing \/ SettleForgotten
Send   == \/ SendNothing \/ Prepare
          \/ CheckInAccepted \/ CheckInThrottled \/ CheckInRefused
          \/ CheckInUnanswered \/ CheckInAbandoned
          \/ \E s \in DlSources : NextGuests(s)
          \/ GuestsSent \/ GuestsThrottled \/ GuestsRefused
          \/ GuestsUnanswered \/ GuestsAbandoned \/ GuestsOver
Thread == Gather \/ Check \/ Send \/ CycleOver
Serve  == \E j \in DOMAIN jobs : FinishJob(j) \/ FailJob(j)
Environment == Terminate \/ Reload \/ \E s \in Sources : Put(s)

Next == Thread \/ Serve \/ Environment
Spec == Init /\ [][Next]_vars

\* The thread is scheduled, and the server gets on with its jobs.
FairSpec == Spec /\ WF_vars(Thread) /\ WF_vars(Serve)

-----------------------------------------------------------------------------
(* Properties.                                                             *)

TypeOK ==
    /\ store \in [Sources -> Reports \cup {NoReport}]
    /\ term \in BOOLEAN /\ isInitial \in BOOLEAN /\ firstAttempt \in BOOLEAN
    /\ pc \in {"loop", "initial", "gather", "get", "poll", "ask", "settle", "send",
               "checkin", "guests", "guestsOf", "after", "error", "dead"}
    /\ remaining \subseteq Sources /\ todo \subseteq Sources
    /\ waited \in 0..Interval
    /\ reports \in [Sources -> Reports \cup {NoReport}]
    /\ cur \in Sources \cup {NoSource}
    /\ curReport \in Reports \cup {NoReport}
    /\ submitted \in [Sources -> Submissions]
    /\ last \in [Sources -> Hashes \cup {NoReport}]
    /\ jobs \in Seq(Jobs)
    /\ server \in [Sources -> Hashes \cup {NoReport}]
    /\ {puts, faults, reloads} \subseteq Nat
    /\ lost \subseteq Sources

Carries(j, s) == s \in HgSources /\ jobs[j].sent[s] # NoReport
Running(j)    == jobs[j].status = "RUNNING"

\* The hash that makes virt-who ignore a report as a duplicate is the hash of
\* what the server records for that source, unless virt-who lost track of an
\* accepted request for it (lines 663 and 673 of virt.py).
Coherent ==
    \A s \in Sources \ lost :
        last[s] \in Contents /\ ~Tracked(s) => server[s] = last[s]

\* A source that is not lost is in at most one job that the server still works
\* on, so that jobs that finish in any order cannot exchange old and new.
SingleFlight ==
    \A s \in Sources \ lost : \A i, j \in DOMAIN jobs :
        Carries(i, s) /\ Carries(j, s) /\ Running(i) /\ Running(j) => i = j

\* What makes Coherent and SingleFlight inductive.  A tracked submission is the
\* check-in it came from, and the state virt-who has of it is not ahead of it.
TrackedJobs ==
    \A s \in Sources : Tracked(s) =>
        /\ s \in HgSources
        /\ submitted[s].job \in DOMAIN jobs
        /\ submitted[s].hash \in Hashes
        /\ JobOf(s).sent[s] = submitted[s].hash
        /\ JobOf(s).state \in {"FINISHED", "FAILED"} => JobOf(s).status = JobOf(s).state

\* The server works on no job for a source but the one that is tracked.
OnlyTrackedRun ==
    \A s \in Sources \ lost : \A j \in DOMAIN jobs :
        Carries(j, s) /\ Running(j) => submitted[s].job = j

\* Until the tracked job has ended, the last hash is what the server has; from
\* then on it is the submitted one, which virt-who has still to learn.
Landed(s) == Tracked(s) /\ submitted[s].hash \in Contents /\ JobOf(s).status = "FINISHED"
Recorded ==
    \A s \in Sources \ lost :
        /\ Landed(s) => server[s] = submitted[s].hash
        /\ ~Landed(s) /\ last[s] \in Contents => server[s] = last[s]

\* A report about to be sent is one of a source that is not tracked ...
Sending == {"guests", "guestsOf", "after", "error"}
FreshUntracked ==
    pc \notin Sending => \A s \in Sources : reports[s] # NoReport => ~Tracked(s)

\* ... the thread asks for the job of a tracked source ...
Asking ==
    pc \in {"poll", "ask", "settle"} =>
        cur \in Sources /\ Tracked(cur) /\ curReport \in Reports

\* ... gathers for no more rounds than the interval has ...
Rounds ==
    pc \in {"get", "poll", "ask", "settle"} /\ isInitial => waited < Interval

\* ... and lists the guests of the sources that have a domain list.
Listing ==
    /\ pc \in {"checkin", "guests"} => todo \subseteq {s \in DlSources : reports[s] \in Hashes}
    /\ pc = "guestsOf" => /\ cur \in DlSources /\ reports[cur] \in Hashes
                          /\ todo \subseteq {s \in DlSources : reports[s] \in Hashes}

Core == TrackedJobs /\ OnlyTrackedRun /\ Recorded
Place == FreshUntracked /\ Asking /\ Rounds /\ Listing
IInv == TypeOK /\ Core /\ Place

\* A report is only ever dropped as a duplicate when the server has it, as the
\* man page promises ("will send the host to guest association when it
\* changes"), however the requests before it went.
DuplicateIsRecorded ==
    [][\A s \in Sources : ReadDuplicate(s) /\ store[s] \in Contents
                          => server[s] = store[s]]_vars

\* When the reports of a source settle on a mapping and nothing of it got lost,
\* the server ends up with that mapping, whatever failed in between.
Converges ==
    \A s \in Sources, c \in Contents :
        <>[](store[s] = c /\ ~term /\ s \notin lost) => <>[](server[s] = c)

\* A submission the thread tracks is settled: it does not wait for ever for a
\* job that is done.
SubmissionSettles ==
    \A s \in HgSources : Tracked(s) ~> ~Tracked(s) \/ term

\* "Causes this thread to stop at the next idle moment" (stop), and every wait
\* "could be interrupted by setting _terminate_event" (wait).
StopsWhenTold == term ~> pc = "dead"

\* In oneshot mode a destination with a report of any source ends ...
OneshotWithReportEnds ==
    (Oneshot /\ \E s \in Sources : store[s] # NoReport) ~> pc = "dead"

\* ... and, unless a request failed or was throttled, has sent every mapping it
\* found.
Given(s) == \E j \in DOMAIN jobs : Carries(j, s) /\ jobs[j].sent[s] = store[s]
Smooth   == Oneshot /\ ~ThrottleForever /\ ~term /\ faults = 0
OneshotDelivers ==
    Smooth /\ pc = "dead" =>
        \A s \in Sources : store[s] \in Contents => server[s] = store[s] \/ Given(s)

\* What makes OneshotDelivers inductive: the thread makes one cycle, in which
\* whole rounds of the first gathering read every source, and no source gets
\* lost on the way from there to the server.
Gathering == {"loop", "initial", "gather", "get"}
AllRead   == \A s \in Sources : reports[s] = store[s]
OneCycle ==
    /\ pc \in Gathering <=> isInitial
    /\ pc \in Gathering => \A s \in Sources : ~Tracked(s)
    /\ pc \notin {"poll", "ask", "settle", "error"}
RoundsAreWhole ==
    /\ \A s \in Sources : reports[s] \in {NoReport, store[s]}
    /\ pc = "loop" => NoneFound
    /\ pc \in {"initial", "gather"} => NoneFound \/ AllRead
    /\ pc = "gather" => \A s \in Sources \ remaining : reports[s] = store[s]
    /\ pc = "get" => \A s \in Sources \ todo : reports[s] = store[s]
    /\ pc \in {"send", "checkin", "guests", "guestsOf", "after"} => AllRead
    /\ pc = "send" => ~NoneFound
AllGiven ==
    /\ pc \in {"guests", "guestsOf", "after", "dead"} =>
           \A s \in HgSources : store[s] \in Contents => Given(s)
    /\ pc \in {"checkin", "guests", "guestsOf", "after", "dead"} =>
           \A s \in DlSources : store[s] \in Contents =>
               \/ server[s] = store[s]
               \/ s \in todo /\ pc \in {"checkin", "guests", "guestsOf"}
               \/ pc = "guestsOf" /\ s = cur
OneshotInv == Smooth => OneCycle /\ RoundsAreWhole /\ AllGiven

=============================================================================
