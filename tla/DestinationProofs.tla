------------------------- MODULE DestinationProofs -------------------------
(***************************************************************************)
(* Proofs about Destination, for any sources, contents and bounds: the     *)
(* types, that a duplicate is what the server has (Coherent), and that at  *)
(* most one job per source is in process (SingleFlight), from the          *)
(* inductive invariant IInv of Destination.                                *)
(***************************************************************************)
EXTENDS Destination, SequenceTheorems, TLAPS

USE ConstantsAssumption

-----------------------------------------------------------------------------
(* The log of accepted check-ins.                                          *)

\* Changing an entry of a log of jobs changes nothing else of it.
LEMMA EntryChanged ==
    ASSUME NEW log \in Seq(Jobs), NEW j \in DOMAIN log, NEW e \in Jobs
    PROVE  LET new == [log EXCEPT ![j] = e]
           IN  /\ new \in Seq(Jobs)
               /\ DOMAIN new = DOMAIN log
               /\ new[j] = e
               /\ \A i \in DOMAIN log : i # j => new[i] = log[i]
<1>1. j \in 1..Len(log)
  BY LenProperties
<1>2. QED
  BY <1>1, ExceptSeq, LenProperties

\* A new entry follows the others.
LEMMA EntryAdded ==
    ASSUME NEW log \in Seq(Jobs), NEW e \in Jobs
    PROVE  LET new == Append(log, e)
           IN  /\ new \in Seq(Jobs)
               /\ Len(log) + 1 \in Nat \ {0}
               /\ DOMAIN new = DOMAIN log \cup {Len(log) + 1}
               /\ Len(log) + 1 \notin DOMAIN log
               /\ new[Len(log) + 1] = e
               /\ \A i \in DOMAIN log : new[i] = log[i]
  BY SMTT(30)

-----------------------------------------------------------------------------
(* The invariant holds initially.                                          *)

LEMMA InitInvariant == Init => IInv
<1> SUFFICES ASSUME Init PROVE IInv
  OBVIOUS
<1>1. TypeOK
  <2>1. store \in [Sources -> Reports \cup {NoReport}]
    BY DEF Init, None
  <2>2. jobs \in Seq(Jobs)
    BY DEF Init
  <2>3. submitted \in [Sources -> Submissions]
    BY DEF Init, NoSubmission, Submissions
  <2>4. /\ reports \in [Sources -> Reports \cup {NoReport}]
        /\ last \in [Sources -> Hashes \cup {NoReport}]
        /\ server \in [Sources -> Hashes \cup {NoReport}]
    BY DEF Init, None
  <2>5. {puts, faults, reloads} \subseteq Nat /\ waited \in 0..Interval
    BY DEF Init
  <2>6. QED
    BY <2>1, <2>2, <2>3, <2>4, <2>5 DEF Init, TypeOK
<1>2. Core
  BY DEF Init, Core, TrackedJobs, OnlyTrackedRun, Recorded, Landed, Tracked,
         NoSubmission, None
<1>3. Place
  BY DEF Init, Place, FreshUntracked, Asking, Rounds, Listing, Tracked,
         NoSubmission
<1>4. QED
  BY <1>1, <1>2, <1>3 DEF IInv

-----------------------------------------------------------------------------
(* Steps that touch neither the log, the records nor what virt-who          *)
(* remembers of them.                                                      *)

LEMMA QuietStep ==
    ASSUME Core, UNCHANGED <<submitted, last, jobs, server, lost>>
    PROVE  Core'
  BY DEF Core, TrackedJobs, OnlyTrackedRun, Recorded, Landed, Tracked, JobOf,
         Carries, Running

LEMMA EnvironmentStep ==
    ASSUME IInv, Environment PROVE IInv'
<1> USE DEF IInv
<1>1. CASE Terminate
  <2>1. TypeOK'
    BY <1>1 DEF Terminate, TypeOK, control, reading, remote
  <2>2. Core'
    BY <1>1, QuietStep DEF Terminate, remote
  <2>3. Place'
    BY <1>1 DEF Terminate, Place, FreshUntracked, Asking, Rounds, Listing, Tracked,
                control, reading, remote
  <2>4. QED
    BY <2>1, <2>2, <2>3
<1>2. ASSUME NEW s \in Sources, Put(s) PROVE IInv'
  <2>1. TypeOK'
    BY <1>2 DEF Put, TypeOK, control, reading, remote
  <2>2. Core'
    BY <1>2, QuietStep DEF Put, remote
  <2>3. Place'
    BY <1>2 DEF Put, Place, FreshUntracked, Asking, Rounds, Listing, Tracked,
                control, reading, remote
  <2>4. QED
    BY <2>1, <2>2, <2>3
<1>3. CASE Reload
  <2>1. TypeOK'
    <3>1. submitted' \in [Sources -> Submissions]
      BY <1>3 DEF Reload, NoSubmission, Submissions
    <3>2. /\ store' \in [Sources -> Reports \cup {NoReport}]
          /\ last' \in [Sources -> Hashes \cup {NoReport}]
      BY <1>3 DEF Reload, None
    <3>3. lost' \subseteq Sources /\ {puts', faults', reloads'} \subseteq Nat
      BY <1>3 DEF Reload, TypeOK, Sources
    <3>4. QED
      BY <1>3, <3>1, <3>2, <3>3 DEF Reload, TypeOK, locals, reading, remote
  <2>2. \A s \in Sources : ~Tracked(s)'
    BY <1>3 DEF Reload, Tracked, NoSubmission
  <2>3. OnlyTrackedRun'
    <3> SUFFICES ASSUME NEW s \in Sources, s \notin lost', NEW j \in DOMAIN jobs,
                        Carries(j, s), Running(j)
                 PROVE  FALSE
      BY <1>3 DEF OnlyTrackedRun, Reload, remote, Carries, Running
    <3>1. s \notin lost /\ ~(Tracked(s) /\ JobOf(s).status = "RUNNING") /\ s \in HgSources
      BY <1>3 DEF Reload, Carries
    <3>2. submitted[s].job = j
      BY <3>1 DEF Core, OnlyTrackedRun
    <3>3. j # 0
      BY LenProperties DEF TypeOK
    <3>4. QED
      BY <3>1, <3>2, <3>3 DEF Tracked, JobOf, Running
  <2>4. TrackedJobs' /\ Recorded'
    BY <1>3, <2>2 DEF Reload, TrackedJobs, Recorded, Landed, None
  <2>5. Place'
    BY <1>3, <2>2 DEF Reload, Place, FreshUntracked, Asking, Rounds, Listing
  <2>6. QED
    BY <2>1, <2>3, <2>4, <2>5 DEF Core
<1>4. QED
  BY <1>1, <1>2, <1>3 DEF Environment

-----------------------------------------------------------------------------
(* The server.                                                             *)

\* A job that ends: the log changes at that job only, and there its status.
LEMMA ServeStep ==
    ASSUME IInv, Serve PROVE IInv'
<1> USE DEF IInv
<1>1. PICK j \in DOMAIN jobs : FinishJob(j) \/ FailJob(j)
  BY DEF Serve
<1> DEFINE end == IF FinishJob(j) THEN "FINISHED" ELSE "FAILED"
           e   == [jobs[j] EXCEPT !.status = end]
<1>2. jobs[j] \in Jobs
  BY ElementOfSeq, LenProperties DEF TypeOK
<1>3. /\ e \in Jobs /\ e.sent = jobs[j].sent /\ e.state = jobs[j].state
      /\ e.status = end
  BY <1>2 DEF Jobs
<1>4. jobs[j].status = "RUNNING" /\ jobs' = [jobs EXCEPT ![j] = e]
  BY <1>1 DEF FinishJob, FailJob
<1>5. /\ jobs' \in Seq(Jobs) /\ DOMAIN jobs' = DOMAIN jobs
      /\ jobs'[j] = e /\ \A i \in DOMAIN jobs : i # j => jobs'[i] = jobs[i]
  BY <1>3, <1>4, EntryChanged DEF TypeOK
<1>6. UNCHANGED <<external, pc, control, todo, reports, reading, submitted, last,
                  reloads, lost>>
  BY <1>1 DEF FinishJob, FailJob
<1>7. \A i \in DOMAIN jobs : /\ jobs'[i].sent = jobs[i].sent
                             /\ jobs'[i].state = jobs[i].state
  BY <1>3, <1>5
<1>8. \A s \in Sources : server'[s] = IF FinishJob(j) /\ s \in HgSources /\ jobs[j].sent[s] \in Contents
                                      THEN jobs[j].sent[s] ELSE server[s]
  BY <1>1 DEF FinishJob, FailJob, Applied
<1>9. TypeOK'
  <2>1. server' \in [Sources -> Hashes \cup {NoReport}]
    BY <1>1 DEF FinishJob, FailJob, Applied, TypeOK, Hashes
  <2>2. faults' \in Nat
    BY <1>1 DEF FinishJob, FailJob, Fault, TypeOK
  <2>3. QED
    BY <1>5, <1>6, <2>1, <2>2 DEF TypeOK, external, control, reading
<1>10. TrackedJobs'
  <2> SUFFICES ASSUME NEW s \in Sources, Tracked(s)
               PROVE  /\ s \in HgSources
                      /\ submitted[s].job \in DOMAIN jobs'
                      /\ submitted[s].hash \in Hashes
                      /\ JobOf(s)'.sent[s] = submitted[s].hash
                      /\ JobOf(s)'.state \in {"FINISHED", "FAILED"}
                           => JobOf(s)'.status = JobOf(s)'.state
    BY <1>6 DEF TrackedJobs, Tracked, JobOf
  <2>1. /\ s \in HgSources /\ submitted[s].job \in DOMAIN jobs
        /\ submitted[s].hash \in Hashes /\ JobOf(s).sent[s] = submitted[s].hash
        /\ JobOf(s).state \in {"FINISHED", "FAILED"} => JobOf(s).status = JobOf(s).state
    BY DEF Core, TrackedJobs
  <2>2. CASE submitted[s].job = j
    BY <1>3, <1>4, <1>5, <1>6, <2>1, <2>2 DEF JobOf
  <2>3. CASE submitted[s].job # j
    BY <1>5, <1>6, <2>1, <2>3 DEF JobOf
  <2>4. QED
    BY <2>2, <2>3
<1>11. OnlyTrackedRun'
  <2> SUFFICES ASSUME NEW s \in Sources \ lost, NEW i \in DOMAIN jobs,
                      Carries(i, s)', Running(i)'
               PROVE  submitted[s].job = i
    BY <1>5, <1>6 DEF OnlyTrackedRun
  <2>1. Carries(i, s) /\ Running(i)
    BY <1>3, <1>4, <1>5, <1>7 DEF Carries, Running
  <2>2. QED
    BY <2>1 DEF Core, OnlyTrackedRun
<1>12. Recorded'
  <2> SUFFICES ASSUME NEW s \in Sources \ lost
               PROVE  /\ Landed(s)' => server'[s] = submitted[s].hash
                      /\ ~Landed(s)' /\ last[s] \in Contents => server'[s] = last[s]
    BY <1>6 DEF Recorded
  <2>1. /\ Landed(s) => server[s] = submitted[s].hash
        /\ ~Landed(s) /\ last[s] \in Contents => server[s] = last[s]
    BY DEF Core, Recorded
  <2>2. CASE Tracked(s) /\ submitted[s].job = j
    <3>1. jobs[j].sent[s] = submitted[s].hash /\ s \in HgSources /\ ~Landed(s)
      BY <1>4, <2>2 DEF Core, TrackedJobs, JobOf, Landed
    <3>2. CASE FinishJob(j)
      <4>1. JobOf(s)'.status = "FINISHED" /\ Tracked(s)'
        BY <1>3, <1>5, <1>6, <2>2, <3>2 DEF JobOf, Tracked
      <4>2. QED
        BY <1>6, <1>8, <2>1, <3>1, <3>2, <4>1 DEF Landed
    <3>3. CASE ~FinishJob(j)
      <4>1. JobOf(s)'.status = "FAILED"
        BY <1>3, <1>5, <1>6, <2>2, <3>3 DEF JobOf
      <4>2. QED
        BY <1>8, <2>1, <3>1, <3>3, <4>1 DEF Landed
    <3>4. QED
      BY <3>2, <3>3
  <2>3. CASE ~(Tracked(s) /\ submitted[s].job = j)
    <3>1. ~Carries(j, s)
      <4>1. j # 0
        BY LenProperties DEF TypeOK
      <4>2. QED
        BY <1>4, <2>3, <4>1 DEF Core, OnlyTrackedRun, Running, Tracked
    <3>2. server'[s] = server[s]
      BY <1>8, <3>1 DEF Carries
    <3>3. Landed(s)' <=> Landed(s)
      BY <1>5, <1>6, <2>3 DEF Landed, Tracked, JobOf, Core, TrackedJobs
    <3>4. QED
      BY <2>1, <3>2, <3>3
  <2>4. QED
    BY <2>2, <2>3
<1>13. Place'
  BY <1>6 DEF Place, FreshUntracked, Asking, Rounds, Listing, Tracked, control, reading
<1>14. QED
  BY <1>9, <1>10, <1>11, <1>12, <1>13 DEF Core

-----------------------------------------------------------------------------
(* The thread gathers the reports of its sources.                          *)

LEMMA GatherStep ==
    ASSUME IInv, Gather PROVE IInv'
<1> USE DEF IInv, control, reading, remote, external
<1>1. CASE LoopTop
  <2>1. TypeOK'
    BY <1>1 DEF LoopTop, TypeOK
  <2>2. Core'
    BY <1>1, QuietStep DEF LoopTop
  <2>3. Place'
    BY <1>1 DEF LoopTop, Place, FreshUntracked, Asking, Rounds, Listing, Tracked, Sending
  <2>4. QED
    BY <2>1, <2>2, <2>3
<1>2. CASE InitialTop
  <2>1. TypeOK'
    <3>1. waited' \in 0..Interval
      <4>1. waited' = 0 \/ waited' = waited
        BY <1>2 DEF InitialTop
      <4>2. QED
        BY <4>1 DEF TypeOK
    <3>2. remaining' \subseteq Sources /\ isInitial' \in BOOLEAN
      BY <1>2 DEF InitialTop, TypeOK
    <3>3. QED
      BY <1>2, <3>1, <3>2 DEF InitialTop, TypeOK
  <2>2. Core'
    BY <1>2, QuietStep DEF InitialTop
  <2>3. Place'
    BY <1>2 DEF InitialTop, Place, FreshUntracked, Asking, Rounds, Listing, Tracked, Sending
  <2>4. QED
    BY <2>1, <2>2, <2>3
<1>3. CASE GatherTop
  <2>1. TypeOK'
    BY <1>3 DEF GatherTop, TypeOK
  <2>2. Core'
    BY <1>3, QuietStep DEF GatherTop
  <2>3. Place'
    BY <1>3 DEF GatherTop, RoundLeft, Place, FreshUntracked, Asking, Rounds, Listing,
                Tracked, Sending
  <2>4. QED
    BY <2>1, <2>2, <2>3
<1>4. CASE ReadAll
  <2>1. waited' \in 0..Interval
    BY <1>4 DEF ReadAll, TypeOK, Place, Rounds
  <2>2. TypeOK'
    BY <1>4, <2>1 DEF ReadAll, TypeOK
  <2>3. Core'
    BY <1>4, QuietStep DEF ReadAll
  <2>4. Place'
    BY <1>4 DEF ReadAll, Place, FreshUntracked, Asking, Rounds, Listing, Tracked, Sending
  <2>5. QED
    BY <2>2, <2>3, <2>4
<1>5. ASSUME NEW s \in Sources, ReadNothing(s) \/ ReadDuplicate(s) PROVE IInv'
  <2>1. TypeOK'
    BY <1>5 DEF ReadNothing, ReadDuplicate, TypeOK
  <2>2. Core'
    BY <1>5, QuietStep DEF ReadNothing, ReadDuplicate
  <2>3. Place'
    BY <1>5 DEF ReadNothing, ReadDuplicate, Place, FreshUntracked, Asking, Rounds,
                Listing, Tracked
  <2>4. QED
    BY <2>1, <2>2, <2>3
<1>6. ASSUME NEW s \in Sources, ReadFresh(s) PROVE IInv'
  <2>1. TypeOK'
    BY <1>6 DEF ReadFresh, TypeOK
  <2>2. Core'
    BY <1>6, QuietStep DEF ReadFresh
  <2>3. FreshUntracked'
    BY <1>6 DEF ReadFresh, Place, FreshUntracked, Tracked, TypeOK, Sending
  <2>4. Asking' /\ Rounds' /\ Listing'
    BY <1>6 DEF ReadFresh, Place, Asking, Rounds, Listing
  <2>5. QED
    BY <2>1, <2>2, <2>3, <2>4 DEF Place
<1>7. ASSUME NEW s \in Sources, ReadTracked(s) PROVE IInv'
  <2>1. store[s] \in Reports
    BY <1>7 DEF ReadTracked, TypeOK
  <2>2. TypeOK'
    BY <1>7, <2>1 DEF ReadTracked, TypeOK
  <2>3. Core'
    BY <1>7, QuietStep DEF ReadTracked
  <2>4. Place'
    BY <1>7, <2>1 DEF ReadTracked, Place, FreshUntracked, Asking, Rounds, Listing,
                      Tracked, Sending
  <2>5. QED
    BY <2>2, <2>3, <2>4
<1>8. QED
  BY <1>1, <1>2, <1>3, <1>4, <1>5, <1>6, <1>7 DEF Gather

-----------------------------------------------------------------------------
(* The thread asks for the state of a job and acts on it.                  *)

\* The only step that changes the log here records the answer about the job
\* of cur, in the state virt-who keeps of it.
LEMMA AnswerStep ==
    ASSUME IInv, PollAnswered PROVE IInv'
<1> USE DEF IInv, control, reading, external
<1> DEFINE j == submitted[cur].job
           e == [jobs[j] EXCEPT !.state = StateOfStatus(jobs[j].status)]
<1>1. cur \in Sources /\ Tracked(cur) /\ j \in DOMAIN jobs
  BY DEF PollAnswered, Place, Asking, Core, TrackedJobs
<1>2. jobs[j] \in Jobs
  BY <1>1, ElementOfSeq, LenProperties DEF TypeOK
<1>3. /\ e \in Jobs /\ e.sent = jobs[j].sent /\ e.status = jobs[j].status
      /\ e.state \in {"FINISHED", "FAILED"} => e.status = e.state
  BY <1>2 DEF Jobs, StateOfStatus
<1>4. jobs' = [jobs EXCEPT ![j] = e]
  BY DEF PollAnswered, JobOf
<1>5. /\ jobs' \in Seq(Jobs) /\ DOMAIN jobs' = DOMAIN jobs
      /\ jobs'[j] = e /\ \A i \in DOMAIN jobs : i # j => jobs'[i] = jobs[i]
  BY <1>1, <1>3, <1>4, EntryChanged DEF TypeOK
<1>6. \A i \in DOMAIN jobs : jobs'[i].sent = jobs[i].sent /\ jobs'[i].status = jobs[i].status
  BY <1>3, <1>5
<1>7. UNCHANGED <<external, control, todo, reports, cur, curReport, submitted,
                  last, server, faults, reloads, lost>>
  BY DEF PollAnswered
<1>8. TypeOK'
  <2>1. firstAttempt' = FALSE /\ pc' = "poll"
    BY DEF PollAnswered
  <2>2. QED
    BY <1>5, <1>7, <2>1 DEF TypeOK
<1>9. TrackedJobs'
  <2> SUFFICES ASSUME NEW s \in Sources, Tracked(s)
               PROVE  /\ s \in HgSources
                      /\ submitted[s].job \in DOMAIN jobs'
                      /\ submitted[s].hash \in Hashes
                      /\ JobOf(s)'.sent[s] = submitted[s].hash
                      /\ JobOf(s)'.state \in {"FINISHED", "FAILED"}
                           => JobOf(s)'.status = JobOf(s)'.state
    BY <1>7 DEF TrackedJobs, Tracked, JobOf
  <2>1. /\ s \in HgSources /\ submitted[s].job \in DOMAIN jobs
        /\ submitted[s].hash \in Hashes /\ JobOf(s).sent[s] = submitted[s].hash
        /\ JobOf(s).state \in {"FINISHED", "FAILED"} => JobOf(s).status = JobOf(s).state
    BY DEF Core, TrackedJobs
  <2>2. CASE submitted[s].job = j
    BY <1>3, <1>5, <1>7, <2>1, <2>2 DEF JobOf
  <2>3. CASE submitted[s].job # j
    BY <1>5, <1>7, <2>1, <2>3 DEF JobOf
  <2>4. QED
    BY <2>2, <2>3
<1>10. OnlyTrackedRun'
  BY <1>5, <1>6, <1>7 DEF Core, OnlyTrackedRun, Carries, Running
<1>11. Recorded'
  <2> SUFFICES ASSUME NEW s \in Sources \ lost
               PROVE  Landed(s)' <=> Landed(s)
    BY <1>7 DEF Core, Recorded
  <2>1. QED
    BY <1>6, <1>7 DEF Landed, Tracked, JobOf, Core, TrackedJobs
<1>12. Place'
  BY <1>7 DEF PollAnswered, Place, FreshUntracked, Asking, Rounds, Listing, Tracked, Sending
<1>13. QED
  BY <1>8, <1>9, <1>10, <1>11, <1>12 DEF Core

LEMMA CheckStep ==
    ASSUME IInv, Check PROVE IInv'
<1> USE DEF IInv, control, reading, remote, external
<1>1. CASE PollTop \/ PollThrottled \/ PollFailed \/ PollRaised
  <2>1. faults' \in Nat
    BY <1>1 DEF PollTop, PollThrottled, PollFailed, PollRaised, Throttle, Fault, TypeOK
  <2>2. TypeOK'
    BY <1>1, <2>1 DEF PollTop, PollThrottled, PollFailed, PollRaised, TypeOK
  <2>3. Core'
    BY <1>1, QuietStep DEF PollTop, PollThrottled, PollFailed, PollRaised
  <2>4. Place'
    BY <1>1 DEF PollTop, PollThrottled, PollFailed, PollRaised, Place, FreshUntracked,
                Asking, Rounds, Listing, Tracked, Sending
  <2>5. QED
    BY <2>2, <2>3, <2>4
<1>2. CASE PollAnswered
  BY <1>2, AnswerStep
<1>3. CASE SettleProcessing
  <2>1. TypeOK'
    BY <1>3 DEF SettleProcessing, TypeOK
  <2>2. Core'
    BY <1>3, QuietStep DEF SettleProcessing
  <2>3. Place'
    BY <1>3 DEF SettleProcessing, Place, FreshUntracked, Asking, Rounds, Listing,
                Tracked, Sending
  <2>4. QED
    BY <2>1, <2>2, <2>3
<1>4. ASSUME SettleFinished \/ SettleForgotten PROVE IInv'
  <2>1. /\ cur \in Sources /\ Tracked(cur) /\ curReport \in Reports
        /\ submitted[cur].hash \in Hashes
        /\ JobOf(cur).state \in {"FINISHED", "FAILED"} => JobOf(cur).status = JobOf(cur).state
    BY <1>4 DEF SettleFinished, SettleForgotten, Place, Asking, Core, TrackedJobs
  <2>2. submitted' = [submitted EXCEPT ![cur] = NoSubmission]
    BY <1>4 DEF SettleFinished, SettleForgotten
  <2>3. \A s \in Sources : /\ Tracked(s)' <=> Tracked(s) /\ s # cur
                           /\ s # cur => submitted'[s] = submitted[s]
    BY <2>1, <2>2 DEF Tracked, NoSubmission, TypeOK
  <2>4. TypeOK'
    <3>1. submitted' \in [Sources -> Submissions]
      BY <2>1, <2>2 DEF TypeOK, Submissions, NoSubmission
    <3>2. /\ last' \in [Sources -> Hashes \cup {NoReport}]
          /\ reports' \in [Sources -> Reports \cup {NoReport}]
          /\ lost' \subseteq Sources
      BY <1>4, <2>1 DEF SettleFinished, SettleForgotten, TypeOK
    <3>3. QED
      BY <1>4, <3>1, <3>2 DEF SettleFinished, SettleForgotten, TypeOK
  <2>5. TrackedJobs'
    BY <1>4, <2>3 DEF Core, TrackedJobs, SettleFinished, SettleForgotten, JobOf
  <2>6. \A s \in Sources : s \notin lost' => s \notin lost
    BY <1>4 DEF SettleFinished, SettleForgotten
  <2>7. cur \notin lost' => JobOf(cur).status # "RUNNING"
    <3>1. JobOf(cur) \in Jobs
      BY <2>1, ElementOfSeq, LenProperties DEF TypeOK, JobOf, Core, TrackedJobs
    <3>2. QED
      BY <1>4, <2>1, <3>1 DEF SettleFinished, SettleForgotten, IsInProcess, Jobs
  <2>8. OnlyTrackedRun'
    <3> SUFFICES ASSUME NEW s \in Sources \ lost', NEW i \in DOMAIN jobs,
                        Carries(i, s), Running(i)
                 PROVE  submitted'[s].job = i
      BY <1>4 DEF SettleFinished, SettleForgotten, OnlyTrackedRun, Carries, Running
    <3>1. submitted[s].job = i
      BY <2>6 DEF Core, OnlyTrackedRun
    <3>2. s # cur
      BY <2>7, <3>1 DEF JobOf, Running
    <3>3. QED
      BY <2>3, <3>1, <3>2
  <2>9. Recorded'
    <3> SUFFICES ASSUME NEW s \in Sources \ lost'
                 PROVE  /\ Landed(s)' => server[s] = submitted'[s].hash
                        /\ ~Landed(s)' /\ last'[s] \in Contents => server[s] = last'[s]
      BY <1>4 DEF SettleFinished, SettleForgotten, Recorded
    <3>1. /\ Landed(s) => server[s] = submitted[s].hash
          /\ ~Landed(s) /\ last[s] \in Contents => server[s] = last[s]
      BY <2>6 DEF Core, Recorded
    <3>2. CASE s # cur
      <4>1. Landed(s)' <=> Landed(s)
        BY <1>4, <2>3, <3>2 DEF SettleFinished, SettleForgotten, Landed, JobOf
      <4>2. last'[s] = last[s]
        BY <1>4, <3>2 DEF SettleFinished, SettleForgotten, TypeOK
      <4>3. QED
        BY <2>3, <3>1, <3>2, <4>1, <4>2
    <3>3. CASE s = cur /\ SettleFinished
      <4>1. last'[s] = submitted[s].hash
        BY <2>1, <3>3 DEF SettleFinished, TypeOK
      <4>2. JobOf(s).status = "FINISHED"
        BY <2>1, <3>3 DEF SettleFinished
      <4>3. QED
        BY <2>1, <2>3, <3>1, <3>3, <4>1, <4>2 DEF Landed
    <3>4. CASE s = cur /\ SettleForgotten
      <4>1. JobOf(s).status # "FINISHED"
        <5>1. JobOf(s) \in Jobs
          BY <2>1, <3>4, ElementOfSeq, LenProperties DEF TypeOK, JobOf, Core, TrackedJobs
        <5>2. QED
          BY <2>1, <2>7, <3>4, <5>1 DEF SettleForgotten, IsInProcess, Jobs
      <4>2. QED
        BY <2>3, <3>1, <3>4, <4>1 DEF SettleForgotten, Landed
    <3>5. QED
      BY <1>4, <3>2, <3>3, <3>4
  <2>10. FreshUntracked'
    BY <1>4, <2>1, <2>3 DEF SettleFinished, SettleForgotten, Place, FreshUntracked,
                            Sending, TypeOK
  <2>11. Asking' /\ Rounds' /\ Listing'
    BY <1>4 DEF SettleFinished, SettleForgotten, Place, Asking, Rounds, Listing
  <2>12. QED
    BY <2>4, <2>5, <2>8, <2>9, <2>10, <2>11 DEF Core, Place
<1>5. QED
  BY <1>1, <1>2, <1>3, <1>4 DEF Check

-----------------------------------------------------------------------------
(* The thread sends what it read.                                          *)

\* A check-in the server accepts is for sources without any job in process; it
\* is tracked, or the sources count as lost.
LEMMA AcceptStep ==
    ASSUME IInv, CheckInAccepted \/ CheckInUnanswered PROVE IInv'
<1> USE DEF IInv, control, reading, external
<1> DEFINE n == Len(jobs) + 1
           e == [sent   |-> BatchSent,
                 status |-> IF Async THEN "RUNNING" ELSE "FINISHED",
                 state  |-> IF Async THEN "CREATED" ELSE "FINISHED"]
<1>1. /\ e \in Jobs /\ e.sent = BatchSent
      /\ e.status = (IF Async THEN "RUNNING" ELSE "FINISHED")
      /\ e.state \in {"FINISHED", "FAILED"} => e.status = e.state
  BY DEF Jobs, BatchSent, Batched
<1>2. jobs' = Append(jobs, e) /\ server' = IF Async THEN server ELSE Applied(BatchSent)
  BY DEF CheckInAccepted, CheckInUnanswered, Accept
<1>3. /\ jobs' \in Seq(Jobs) /\ n \in Nat \ {0}
      /\ DOMAIN jobs' = DOMAIN jobs \cup {n} /\ n \notin DOMAIN jobs
      /\ jobs'[n] = e /\ \A i \in DOMAIN jobs : jobs'[i] = jobs[i]
  BY <1>1, <1>2, EntryAdded DEF TypeOK
<1> HIDE DEF e, n
<1>4. UNCHANGED <<external, control, todo, reports, reading, last, reloads>>
  BY DEF CheckInAccepted, CheckInUnanswered
<1>5. /\ Batched \subseteq HgSources
      /\ \A s \in HgSources : BatchSent[s] = IF s \in Batched THEN reports[s] ELSE NoReport
      /\ \A s \in Batched : reports[s] \in Hashes /\ reports[s] # NoReport
  BY DEF Batched, BatchSent, Hashes
<1>6. \A s \in Batched : ~Tracked(s)
  BY <1>5 DEF CheckInAccepted, CheckInUnanswered, Place, FreshUntracked, Sending, Sources
<1>7. /\ CheckInAccepted => /\ lost' = lost
                            /\ submitted' = [s \in Sources |->
                                    IF s \in Batched THEN [job |-> n, hash |-> reports[s]]
                                    ELSE submitted[s]]
      /\ ~CheckInAccepted => lost' = lost \cup Batched /\ submitted' = submitted
  BY DEF CheckInAccepted, CheckInUnanswered, n
<1>8. \A s \in Sources \ Batched : /\ submitted'[s] = submitted[s]
                                   /\ server'[s] = server[s]
                                   /\ s \in HgSources => e.sent[s] = NoReport
  <2> TAKE s \in Sources \ Batched
  <2>1. submitted'[s] = submitted[s]
    BY <1>7
  <2>2. s \in HgSources => BatchSent[s] = NoReport
    BY <1>5
  <2>3. server'[s] = server[s]
    BY <1>2, <2>2 DEF Applied
  <2>4. QED
    BY <1>1, <2>1, <2>2, <2>3
<1>9. \A s \in Batched : s \notin lost' =>
        /\ submitted'[s].job = n /\ submitted'[s].hash = reports[s]
        /\ CheckInAccepted
  BY <1>5, <1>7 DEF Sources
<1>10. \A s \in Sources : s \notin lost' => s \notin lost
  BY <1>7
<1>11. TypeOK'
  <2>1. server' \in [Sources -> Hashes \cup {NoReport}]
    BY <1>2, <1>5 DEF Applied, TypeOK, Hashes
  <2>2. submitted' \in [Sources -> Submissions]
    BY <1>3, <1>5, <1>7 DEF TypeOK, Submissions
  <2>3. lost' \subseteq Sources
    BY <1>5, <1>7 DEF TypeOK, Sources
  <2>4. faults' \in Nat
    BY DEF CheckInAccepted, CheckInUnanswered, Fault, TypeOK
  <2>5. pc' \in {"guests", "error"} /\ puts' = puts
    BY DEF CheckInAccepted, CheckInUnanswered
  <2>6. QED
    BY <1>3, <1>4, <2>1, <2>2, <2>3, <2>4, <2>5 DEF TypeOK
<1>12. TrackedJobs'
  <2> SUFFICES ASSUME NEW s \in Sources, Tracked(s)'
               PROVE  /\ s \in HgSources
                      /\ submitted'[s].job \in DOMAIN jobs'
                      /\ submitted'[s].hash \in Hashes
                      /\ JobOf(s)'.sent[s] = submitted'[s].hash
                      /\ JobOf(s)'.state \in {"FINISHED", "FAILED"}
                           => JobOf(s)'.status = JobOf(s)'.state
    BY DEF TrackedJobs
  <2>1. CASE s \in Batched
    <3>1. submitted'[s] = [job |-> n, hash |-> reports[s]]
      BY <1>6, <1>7, <2>1 DEF Tracked
    <3>2. JobOf(s)' = e
      BY <1>3, <3>1 DEF JobOf
    <3>3. QED
      BY <1>1, <1>3, <1>5, <2>1, <3>1, <3>2
  <2>2. CASE s \notin Batched
    <3>1. submitted'[s] = submitted[s] /\ Tracked(s)
      BY <1>8, <2>2 DEF Tracked
    <3>2. submitted[s].job \in DOMAIN jobs
      BY <3>1 DEF Core, TrackedJobs
    <3>3. JobOf(s)' = JobOf(s)
      BY <1>3, <3>1, <3>2 DEF JobOf
    <3>4. QED
      BY <1>3, <3>1, <3>2, <3>3 DEF Core, TrackedJobs
  <2>3. QED
    BY <2>1, <2>2
<1>13. OnlyTrackedRun'
  <2> SUFFICES ASSUME NEW s \in Sources, s \notin lost', NEW i \in DOMAIN jobs',
                      Carries(i, s)', Running(i)'
               PROVE  submitted'[s].job = i
    BY DEF OnlyTrackedRun
  <2>1. CASE i = n
    <3>1. s \in Batched
      BY <1>3, <1>8, <2>1 DEF Carries
    <3>2. QED
      BY <1>9, <2>1, <3>1
  <2>2. CASE i \in DOMAIN jobs
    <3>1. Carries(i, s) /\ Running(i)
      BY <1>3, <2>2 DEF Carries, Running
    <3>2. submitted[s].job = i /\ i # 0
      BY <1>10, <2>2, <3>1, LenProperties DEF Core, OnlyTrackedRun, TypeOK
    <3>3. s \notin Batched
      BY <1>6, <3>2 DEF Tracked
    <3>4. QED
      BY <1>8, <3>2, <3>3
  <2>3. QED
    BY <1>3, <2>1, <2>2
<1>14. Recorded'
  <2> SUFFICES ASSUME NEW s \in Sources, s \notin lost'
               PROVE  /\ Landed(s)' => server'[s] = submitted'[s].hash
                      /\ ~Landed(s)' /\ last[s] \in Contents => server'[s] = last[s]
    BY <1>4 DEF Recorded
  <2>1. /\ Landed(s) => server[s] = submitted[s].hash
        /\ ~Landed(s) /\ last[s] \in Contents => server[s] = last[s]
    BY <1>10 DEF Core, Recorded
  <2>2. CASE s \in Batched
    <3>1. ~Landed(s) /\ s \in HgSources /\ s \in Sources
      BY <1>5, <1>6, <2>2 DEF Landed
    <3>2. JobOf(s)'.status = (IF Async THEN "RUNNING" ELSE "FINISHED")
      BY <1>1, <1>3, <1>9, <2>2 DEF JobOf
    <3>3. Tracked(s)' /\ submitted'[s].hash = reports[s]
      BY <1>3, <1>9, <2>2 DEF Tracked
    <3>4. CASE Async
      BY <1>2, <2>1, <3>1, <3>2, <3>4 DEF Landed
    <3>5. CASE ~Async
      <4>1. server'[s] = IF reports[s] \in Contents THEN reports[s] ELSE server[s]
        BY <1>2, <1>5, <2>2, <3>1, <3>5 DEF Applied
      <4>2. QED
        BY <2>1, <3>1, <3>2, <3>3, <3>5, <4>1 DEF Landed
    <3>6. QED
      BY <3>4, <3>5
  <2>3. CASE s \notin Batched
    <3>1. submitted'[s] = submitted[s] /\ server'[s] = server[s]
      BY <1>8, <2>3
    <3>2. Tracked(s) => JobOf(s)' = JobOf(s)
      BY <1>3, <3>1 DEF JobOf, Core, TrackedJobs
    <3>3. Landed(s)' <=> Landed(s)
      BY <3>1, <3>2 DEF Landed, Tracked
    <3>4. QED
      BY <2>1, <3>1, <3>3
  <2>4. QED
    BY <2>2, <2>3
<1>15. Place'
  <2>1. pc = "checkin" /\ pc' \in {"guests", "error"}
    BY DEF CheckInAccepted, CheckInUnanswered
  <2>2. QED
    BY <1>4, <2>1 DEF Place, FreshUntracked, Asking, Rounds, Listing, Sending
<1>16. QED
  BY <1>11, <1>12, <1>13, <1>14, <1>15 DEF Core

\* A domain list is recorded at once, whether or not the answer arrives.
LEMMA GuestsStep ==
    ASSUME IInv, GuestsSent \/ GuestsUnanswered PROVE IInv'
<1> USE DEF IInv, control, reading, external
<1>1. cur \in DlSources /\ reports[cur] \in Hashes /\ cur \in Sources /\ cur \notin HgSources
  BY DEF GuestsSent, GuestsUnanswered, Place, Listing, Sources
<1>2. /\ server' = [server EXCEPT ![cur] = reports[cur]]
      /\ UNCHANGED <<external, control, todo, reports, reading, submitted, jobs, reloads>>
      /\ pc' \in {"guests", "error"} /\ pc = "guestsOf"
      /\ \A s \in Sources : s # cur => /\ server'[s] = server[s] /\ last'[s] = last[s]
                                       /\ s \notin lost' => s \notin lost
      /\ cur \notin lost' => last'[cur] = reports[cur]
      /\ server'[cur] = reports[cur]
  BY <1>1 DEF GuestsSent, GuestsUnanswered, TypeOK
<1>3. TypeOK'
  <2>1. server' \in [Sources -> Hashes \cup {NoReport}]
    BY <1>1, <1>2 DEF TypeOK
  <2>2. last' \in [Sources -> Hashes \cup {NoReport}] /\ lost' \subseteq Sources
    BY <1>1 DEF GuestsSent, GuestsUnanswered, TypeOK
  <2>3. faults' \in Nat
    BY DEF GuestsSent, GuestsUnanswered, Fault, TypeOK
  <2>4. QED
    BY <1>2, <2>1, <2>2, <2>3 DEF TypeOK
<1>4. TrackedJobs'
  BY <1>2 DEF Core, TrackedJobs, Tracked, JobOf
<1>5. OnlyTrackedRun'
  BY <1>1, <1>2 DEF Core, OnlyTrackedRun, Carries, Running
<1>6. Recorded'
  <2> SUFFICES ASSUME NEW s \in Sources, s \notin lost'
               PROVE  /\ Landed(s)' => server'[s] = submitted'[s].hash
                      /\ ~Landed(s)' /\ last'[s] \in Contents => server'[s] = last'[s]
    BY DEF Recorded
  <2>1. CASE s = cur
    BY <1>1, <1>2, <2>1 DEF Landed, Tracked, Core, TrackedJobs
  <2>2. CASE s # cur
    BY <1>2, <2>2 DEF Landed, Tracked, JobOf, Core, Recorded
  <2>3. QED
    BY <2>1, <2>2
<1>7. Place'
  BY <1>2 DEF Place, FreshUntracked, Asking, Rounds, Listing, Sending
<1>8. QED
  BY <1>3, <1>4, <1>5, <1>6, <1>7 DEF Core

LEMMA SendStep ==
    ASSUME IInv, Send PROVE IInv'
<1> USE DEF IInv, control, reading, remote, external
<1>1. CASE CheckInAccepted \/ CheckInUnanswered
  BY <1>1, AcceptStep
<1>2. CASE GuestsSent \/ GuestsUnanswered
  BY <1>2, GuestsStep
<1>3. CASE SendNothing \/ CheckInAbandoned \/ GuestsAbandoned \/ GuestsOver
  <2>1. TypeOK'
    BY <1>3 DEF SendNothing, CheckInAbandoned, GuestsAbandoned, GuestsOver, TypeOK
  <2>2. Core'
    BY <1>3, QuietStep DEF SendNothing, CheckInAbandoned, GuestsAbandoned, GuestsOver
  <2>3. Place'
    BY <1>3 DEF SendNothing, CheckInAbandoned, GuestsAbandoned, GuestsOver, Place,
                FreshUntracked, Asking, Rounds, Listing, Tracked, Sending
  <2>4. QED
    BY <2>1, <2>2, <2>3
<1>4. CASE CheckInThrottled \/ CheckInRefused \/ GuestsThrottled \/ GuestsRefused
  <2>1. faults' \in Nat
    BY <1>4 DEF CheckInThrottled, CheckInRefused, GuestsThrottled, GuestsRefused,
                Throttle, Fault, TypeOK
  <2>2. TypeOK'
    BY <1>4, <2>1 DEF CheckInThrottled, CheckInRefused, GuestsThrottled,
                      GuestsRefused, TypeOK
  <2>3. Core'
    BY <1>4, QuietStep DEF CheckInThrottled, CheckInRefused, GuestsThrottled,
                           GuestsRefused
  <2>4. Place'
    BY <1>4 DEF CheckInThrottled, CheckInRefused, GuestsThrottled, GuestsRefused,
                Place, FreshUntracked, Asking, Rounds, Listing, Tracked, Sending
  <2>5. QED
    BY <2>2, <2>3, <2>4
<1>5. CASE Prepare
  <2>1. TypeOK'
    BY <1>5 DEF Prepare, LastHash, TypeOK, Sources
  <2>2. Core'
    <3>1. \A s \in Sources : last'[s] \in Contents => last'[s] = last[s]
      BY <1>5 DEF Prepare, LastHash
    <3>2. QED
      BY <1>5, <3>1 DEF Prepare, Core, TrackedJobs, OnlyTrackedRun, Recorded, Landed,
                        Tracked, JobOf, Carries, Running
  <2>3. Place'
    BY <1>5 DEF Prepare, Place, FreshUntracked, Asking, Rounds, Listing, Tracked, Sending
  <2>4. QED
    BY <2>1, <2>2, <2>3
<1>6. ASSUME NEW s \in DlSources, NextGuests(s) PROVE IInv'
  <2>1. TypeOK'
    BY <1>6 DEF NextGuests, TypeOK, Sources
  <2>2. Core'
    BY <1>6, QuietStep DEF NextGuests
  <2>3. Place'
    BY <1>6 DEF NextGuests, Place, FreshUntracked, Asking, Rounds, Listing, Tracked, Sending
  <2>4. QED
    BY <2>1, <2>2, <2>3
<1>7. QED
  BY <1>1, <1>2, <1>3, <1>4, <1>5, <1>6 DEF Send

LEMMA CycleStep ==
    ASSUME IInv, CycleOver PROVE IInv'
<1> USE DEF IInv, external, remote
<1>1. TypeOK'
  <2>1. reports' \in [Sources -> Reports \cup {NoReport}]
    BY DEF CycleOver, None
  <2>2. waited' \in 0..Interval
    BY DEF CycleOver
  <2>3. QED
    BY <2>1, <2>2 DEF CycleOver, TypeOK
<1>2. Core'
  BY QuietStep DEF CycleOver
<1>3. Place'
  BY DEF CycleOver, Place, FreshUntracked, Asking, Rounds, Listing, None
<1>4. QED
  BY <1>1, <1>2, <1>3

-----------------------------------------------------------------------------
(* The theorems.                                                           *)

\* IInv holds initially and every step preserves it.
THEOREM Invariance == Spec => []IInv
<1>1. IInv /\ [Next]_vars => IInv'
  <2> SUFFICES ASSUME IInv, [Next]_vars PROVE IInv'
    OBVIOUS
  <2>1. CASE Gather
    BY <2>1, GatherStep
  <2>2. CASE Check
    BY <2>2, CheckStep
  <2>3. CASE Send
    BY <2>3, SendStep
  <2>4. CASE CycleOver
    BY <2>4, CycleStep
  <2>5. CASE Serve
    BY <2>5, ServeStep
  <2>6. CASE Environment
    BY <2>6, EnvironmentStep
  <2>7. CASE UNCHANGED vars
    BY <2>7, QuietStep DEF IInv, vars, TypeOK, Place, FreshUntracked, Asking, Rounds,
                           Listing, Tracked
  <2>8. QED
    BY <2>1, <2>2, <2>3, <2>4, <2>5, <2>6, <2>7 DEF Next, Thread
<1>2. QED
  BY <1>1, InitInvariant, PTL DEF Spec

\* The types of all variables, the bound of the first gathering included.
THEOREM TypeCorrect == Spec => []TypeOK
  BY Invariance, PTL DEF IInv

\* The hash by which a report is ignored as a duplicate is what the server has.
THEOREM DuplicatesAreKnown == Spec => []Coherent
<1>1. IInv => Coherent
  BY DEF IInv, Core, Recorded, Coherent, Landed
<1>2. QED
  BY <1>1, Invariance, PTL

\* At most one job per source is in process at the server.
THEOREM OneJobAtATime == Spec => []SingleFlight
<1>1. IInv => SingleFlight
  BY DEF IInv, Core, OnlyTrackedRun, SingleFlight
<1>2. QED
  BY <1>1, Invariance, PTL

-----------------------------------------------------------------------------
(* One cycle without a failure.                                            *)

\* The steps that are left when nothing fails, nobody terminates, and there is
\* one cycle.
LEMMA SmoothSteps ==
    ASSUME TypeOK, OneshotInv, [Next]_vars, Smooth'
    PROVE  /\ Smooth /\ store' = store
           /\ \/ LoopTop \/ InitialTop \/ GatherTop \/ ReadAll
              \/ \E s \in Sources : ReadNothing(s) \/ ReadFresh(s)
              \/ Prepare \/ CheckInAccepted \/ GuestsSent \/ GuestsOver
              \/ \E s \in DlSources : NextGuests(s)
              \/ CycleOver
              \/ \E j \in DOMAIN jobs : FinishJob(j)
              \/ UNCHANGED vars
<1> USE DEF Smooth
<1>1. ~Fault /\ ~Throttle
  <2>1. faults \in Nat
    BY DEF TypeOK
  <2>2. ~Fault
    BY <2>1 DEF Fault
  <2> QED BY <2>2 DEF Throttle
<1>2. ~Terminate /\ ~Reload /\ \A s \in Sources : ~Put(s)
  BY DEF Terminate, Reload, Put
<1>3. faults = 0 /\ store' = store /\ term' = term
  <2>1. CASE Gather
    BY <2>1 DEF Gather, LoopTop, InitialTop, GatherTop, ReadAll, ReadNothing, ReadDuplicate,
       ReadFresh, ReadTracked, external
  <2>2. CASE Check
    BY <1>1, <2>2 DEF Check, PollTop, PollAnswered, PollThrottled, PollFailed, PollRaised,
       SettleFinished, SettleProcessing, SettleForgotten, external
  <2>3. CASE Send
    BY <1>1, <2>3 DEF Send, SendNothing, Prepare, CheckInAccepted, CheckInThrottled,
       CheckInRefused, CheckInUnanswered, CheckInAbandoned, NextGuests, GuestsSent,
       GuestsThrottled, GuestsRefused, GuestsUnanswered, GuestsAbandoned, GuestsOver,
       external
  <2>4. CASE CycleOver \/ Serve \/ UNCHANGED vars
    BY <1>1, <2>4 DEF CycleOver, Serve, FinishJob, FailJob, external, vars
  <2> QED BY <1>2, <2>1, <2>2, <2>3, <2>4 DEF Next, Thread, Environment
<1>4. Smooth /\ OneCycle /\ RoundsAreWhole
  BY <1>3 DEF OneshotInv
<1>5. CASE Gather
  <2>1. \A s \in Sources : ~ReadDuplicate(s)
    BY <1>4 DEF ReadDuplicate, IsDuplicate, OneCycle, Gathering
  <2>2. \A s \in Sources : ~ReadTracked(s)
    BY <1>4 DEF ReadTracked, OneCycle, Gathering
  <2> QED BY <1>3, <1>4, <1>5, <2>1, <2>2, Zenon DEF Gather
<1>6. ~Check
  <2>1. pc \notin {"poll", "ask", "settle"}
    BY <1>4 DEF OneCycle
  <2>2. ~PollTop /\ ~PollAnswered /\ ~PollThrottled /\ ~PollFailed /\ ~PollRaised
    BY <2>1 DEF PollTop, PollAnswered, PollThrottled, PollFailed, PollRaised
  <2>3. ~SettleFinished /\ ~SettleProcessing /\ ~SettleForgotten
    BY <2>1 DEF SettleFinished, SettleProcessing, SettleForgotten
  <2> QED BY <2>2, <2>3 DEF Check
<1>7. CASE Send
  <2>1. ~SendNothing
    BY <1>4 DEF SendNothing, RoundsAreWhole
  <2>2. ~CheckInThrottled /\ ~GuestsThrottled
    BY <1>1, Zenon DEF CheckInThrottled, GuestsThrottled
  <2>3. ~CheckInRefused /\ ~CheckInUnanswered /\ ~GuestsRefused /\ ~GuestsUnanswered
    BY <1>1, Zenon DEF CheckInRefused, CheckInUnanswered, GuestsRefused, GuestsUnanswered
  <2>4. ~CheckInAbandoned /\ ~GuestsAbandoned
    BY <1>4 DEF CheckInAbandoned, GuestsAbandoned
  <2> QED BY <1>3, <1>4, <1>7, <2>1, <2>2, <2>3, <2>4, Zenon DEF Send
<1>8. CASE Serve
  BY <1>1, <1>3, <1>4, <1>8, Zenon DEF Serve, FailJob
<1> QED
  BY <1>2, <1>3, <1>4, <1>5, <1>6, <1>7, <1>8, Zenon DEF Next, Thread, Environment

\* Gathering comes first, sending after it, and then the end.
LEMMA OneCycleStep ==
    ASSUME TypeOK, OneshotInv, [Next]_vars, Smooth'
    PROVE  OneCycle'
<1>1. Smooth /\ OneCycle /\ RoundsAreWhole
  BY SmoothSteps DEF OneshotInv
<1> USE DEF OneCycle, Gathering, Tracked, control, reading, external
<1>2. CASE LoopTop \/ InitialTop \/ GatherTop \/ ReadAll
  BY <1>1, <1>2 DEF LoopTop, InitialTop, GatherTop, ReadAll, Smooth
<1>3. ASSUME NEW s \in Sources, ReadNothing(s) \/ ReadFresh(s) PROVE OneCycle'
  BY <1>1, <1>3 DEF ReadNothing, ReadFresh
<1>4. CASE Prepare \/ CheckInAccepted \/ GuestsSent \/ GuestsOver
  BY <1>1, <1>4 DEF Prepare, CheckInAccepted, GuestsSent, GuestsOver
<1>5. ASSUME NEW s \in DlSources, NextGuests(s) PROVE OneCycle'
  BY <1>1, <1>5 DEF NextGuests
<1>6. CASE CycleOver
  BY <1>1, <1>6 DEF CycleOver, Smooth
<1>7. ASSUME NEW j \in DOMAIN jobs, FinishJob(j) PROVE OneCycle'
  BY <1>1, <1>7 DEF FinishJob
<1>8. CASE UNCHANGED vars
  BY <1>1, <1>8 DEF vars
<1> QED BY <1>2, <1>3, <1>4, <1>5, <1>6, <1>7, <1>8, SmoothSteps

\* A round reads every source that had nothing yet, and only after whole rounds
\* does the thread send.
LEMMA RoundsStep ==
    ASSUME TypeOK, OneshotInv, [Next]_vars, Smooth'
    PROVE  RoundsAreWhole'
<1>1. Smooth /\ OneCycle /\ RoundsAreWhole /\ store' = store
  BY SmoothSteps DEF OneshotInv
<1>2. reports \in [Sources -> Reports \cup {NoReport}] /\ remaining \subseteq Sources
  BY DEF TypeOK
<1> USE DEF RoundsAreWhole, AllRead, NoneFound, control, reading, external
<1>3. CASE LoopTop
  BY <1>1, <1>3 DEF LoopTop, Smooth, OneCycle, Gathering
<1>4. CASE InitialTop
  BY <1>1, <1>4 DEF InitialTop, KeepGathering, Smooth
<1>5. CASE GatherTop
  BY <1>1, <1>5 DEF GatherTop
<1>6. CASE ReadAll
  BY <1>1, <1>6 DEF ReadAll, OneCycle, Gathering
<1>7. ASSUME NEW s \in Sources, ReadNothing(s) \/ ReadFresh(s) PROVE RoundsAreWhole'
  <2>1. pc = "get" /\ pc' = "get" /\ todo' = todo \ {s}
    BY <1>7 DEF ReadNothing, ReadFresh
  <2>2. \A r \in Sources : r # s => reports'[r] = reports[r]
    BY <1>2, <1>7 DEF ReadNothing, ReadFresh
  <2>3. reports'[s] = store[s]
    <3>1. CASE ReadNothing(s)
      <4>1. store[s] = NoReport /\ reports' = reports
        BY <3>1 DEF ReadNothing
      <4> QED BY <1>1, <4>1
    <3>2. CASE ReadFresh(s)
      BY <1>2, <3>2 DEF ReadFresh
    <3> QED BY <1>7, <3>1, <3>2
  <2>4. \A r \in Sources : reports'[r] \in {NoReport, store'[r]}
    BY <1>1, <2>2, <2>3
  <2>5. \A r \in Sources \ todo' : reports'[r] = store'[r]
    BY <1>1, <2>1, <2>2, <2>3
  <2> QED BY <2>1, <2>4, <2>5
<1>8. CASE Prepare \/ CheckInAccepted \/ GuestsSent \/ GuestsOver
  BY <1>1, <1>8 DEF Prepare, CheckInAccepted, GuestsSent, GuestsOver
<1>9. ASSUME NEW s \in DlSources, NextGuests(s) PROVE RoundsAreWhole'
  BY <1>1, <1>9 DEF NextGuests
<1>10. CASE CycleOver
  BY <1>1, <1>10 DEF CycleOver, Smooth, None
<1>11. ASSUME NEW j \in DOMAIN jobs, FinishJob(j) PROVE RoundsAreWhole'
  BY <1>1, <1>11 DEF FinishJob
<1>12. CASE UNCHANGED vars
  BY <1>1, <1>12 DEF vars
<1> QED
  BY <1>3, <1>4, <1>5, <1>6, <1>7, <1>8, <1>9, <1>10, <1>11, <1>12, SmoothSteps

\* A check-in that is accepted carries every association, and the domain lists
\* are sent one after the other.
LEMMA GivenStep ==
    ASSUME IInv, OneshotInv, [Next]_vars, Smooth'
    PROVE  AllGiven'
<1>1. /\ Smooth /\ OneCycle /\ RoundsAreWhole /\ AllGiven /\ store' = store
      /\ TypeOK /\ jobs \in Seq(Jobs)
  BY SmoothSteps DEF OneshotInv, IInv, TypeOK
<1>2. \A s \in DlSources : s \in Sources /\ s \notin HgSources
  BY DEF Sources
<1>3. \A s \in Sources : store[s] \in Contents => store[s] \in Hashes /\ store[s] # NoReport
  BY DEF Hashes
<1> USE DEF AllGiven, control, reading, external
<1>4. ASSUME UNCHANGED <<jobs, server>>, pc' \in {"guests", "guestsOf", "after", "dead"} =>
                                              pc \in {"guests", "guestsOf", "after"}
      PROVE  \A s \in HgSources : (pc' \in {"guests", "guestsOf", "after", "dead"}
                                   /\ store[s] \in Contents => Given(s)')
  BY <1>1, <1>4 DEF Given, Carries
<1>5. CASE LoopTop \/ InitialTop \/ GatherTop \/ ReadAll
  BY <1>5 DEF LoopTop, InitialTop, GatherTop, ReadAll, Smooth
<1>6. ASSUME NEW s \in Sources, ReadNothing(s) \/ ReadFresh(s) PROVE AllGiven'
  BY <1>6 DEF ReadNothing, ReadFresh
<1>7. CASE Prepare
  <2>1. /\ todo' = {s \in DlSources : reports[s] \in Hashes}
        /\ pc' = IF Associations THEN "checkin" ELSE "guests"
        /\ \A s \in Sources : reports[s] = store[s]
    BY <1>1, <1>7 DEF Prepare, RoundsAreWhole, AllRead
  <2>2. ~Associations => \A s \in HgSources : store[s] \notin Contents
    BY <2>1 DEF Associations, Sources
  <2> QED BY <1>1, <1>2, <1>3, <2>1, <2>2
<1>8. CASE CheckInAccepted
  <2> DEFINE n == Len(jobs) + 1
             e == [sent   |-> BatchSent,
                   status |-> IF Async THEN "RUNNING" ELSE "FINISHED",
                   state  |-> IF Async THEN "CREATED" ELSE "FINISHED"]
  <2>1. e \in Jobs /\ e.sent = BatchSent
    BY DEF Jobs, BatchSent, Batched
  <2>2. jobs' = Append(jobs, e) /\ pc = "checkin" /\ pc' = "guests" /\ todo' = todo
        /\ server' = (IF Async THEN server ELSE Applied(BatchSent))
    BY <1>8 DEF CheckInAccepted, Accept
  <2>3. n \in DOMAIN jobs' /\ jobs'[n] = e
    BY <1>1, <2>1, <2>2, EntryAdded
  <2>4. \A s \in Sources : reports[s] = store[s]
    BY <1>1, <2>2 DEF RoundsAreWhole, AllRead
  <2> HIDE DEF e, n
  <2>5. ASSUME NEW s \in HgSources, store[s] \in Contents PROVE Given(s)'
    <3>1. s \in Batched /\ BatchSent[s] = store[s] /\ s \in Sources
      BY <1>3, <2>4, <2>5 DEF Batched, BatchSent, Sources
    <3>2. jobs'[n].sent[s] = store'[s] /\ store'[s] # NoReport
      BY <1>1, <1>3, <2>1, <2>3, <2>5, <3>1
    <3> QED BY <2>3, <3>2 DEF Given, Carries
  <2>6. \A s \in DlSources : server'[s] = server[s]
    BY <1>2, <2>2 DEF Applied
  <2> QED BY <1>1, <2>2, <2>5, <2>6
<1>9. CASE GuestsSent
  <2>1. /\ pc = "guestsOf" /\ pc' = "guests" /\ UNCHANGED <<jobs, todo>>
        /\ server' = [server EXCEPT ![cur] = reports[cur]]
    BY <1>9 DEF GuestsSent
  <2>2. cur \in DlSources /\ reports[cur] = store[cur]
    BY <1>1, <1>2, <2>1 DEF IInv, Place, Listing, RoundsAreWhole, AllRead
  <2>3. \A s \in Sources : server'[s] = IF s = cur THEN store[s] ELSE server[s]
    BY <1>1, <2>1, <2>2 DEF TypeOK
  <2>4. \A s \in HgSources : store'[s] \in Contents => Given(s)'
    BY <1>1, <2>1 DEF Given, Carries
  <2> QED BY <1>1, <1>2, <2>1, <2>3, <2>4
<1>10. CASE GuestsOver
  <2>1. pc = "guests" /\ todo = {} /\ pc' = "after" /\ UNCHANGED <<jobs, server>>
    BY <1>10 DEF GuestsOver, remote
  <2> QED BY <1>1, <1>4, <2>1
<1>11. ASSUME NEW s \in DlSources, NextGuests(s) PROVE AllGiven'
  <2>1. /\ pc = "guests" /\ todo' = todo \ {s} /\ cur' = s /\ pc' = "guestsOf"
        /\ UNCHANGED <<jobs, server>>
    BY <1>11 DEF NextGuests, remote
  <2> QED BY <1>1, <1>4, <2>1
<1>12. CASE CycleOver
  <2>1. pc = "after" /\ pc' = "dead" /\ UNCHANGED <<jobs, server>>
    BY <1>1, <1>12 DEF CycleOver, remote, OneCycle, Smooth
  <2> QED BY <1>1, <1>4, <2>1
<1>13. ASSUME NEW j \in DOMAIN jobs, FinishJob(j) PROVE AllGiven'
  <2>1. /\ UNCHANGED <<pc, todo, cur>> /\ server' = Applied(jobs[j].sent)
        /\ jobs' = [jobs EXCEPT ![j].status = "FINISHED"]
    BY <1>13 DEF FinishJob
  <2>2. DOMAIN jobs' = DOMAIN jobs /\ \A i \in DOMAIN jobs : jobs'[i].sent = jobs[i].sent
    <3>1. jobs[j] \in Jobs
      BY <1>1, ElementOfSeq, LenProperties
    <3>2. [jobs[j] EXCEPT !.status = "FINISHED"] \in Jobs
          /\ [jobs[j] EXCEPT !.status = "FINISHED"].sent = jobs[j].sent
      BY <3>1 DEF Jobs
    <3> QED BY <1>1, <2>1, <3>2, EntryChanged
  <2>3. \A s \in Sources : Given(s) => Given(s)'
    BY <1>1, <2>2 DEF Given, Carries
  <2>4. \A s \in DlSources : server'[s] = server[s]
    BY <1>2, <2>1 DEF Applied
  <2> QED BY <1>1, <2>1, <2>3, <2>4 DEF Sources
<1>14. CASE UNCHANGED vars
  BY <1>1, <1>14 DEF vars, Given, Carries
<1> QED
  BY <1>5, <1>6, <1>7, <1>8, <1>9, <1>10, <1>11, <1>12, <1>13, <1>14, <1>1, SmoothSteps

\* At the start nothing was read, and nothing is tracked.
LEMMA OneshotInitial == Init => OneshotInv
BY DEF Init, OneshotInv, OneCycle, RoundsAreWhole, AllGiven, Gathering, Tracked, NoneFound,
   NoSubmission, None

\* In oneshot mode, when nothing fails and nobody terminates, no mapping that was
\* there at the start is left out of what the server is given.
THEOREM OneshotIsComplete == Spec => []OneshotDelivers
<1>1. IInv /\ OneshotInv /\ [Next]_vars => OneshotInv'
  BY OneCycleStep, RoundsStep, GivenStep DEF OneshotInv, IInv
<1>2. OneshotInv => OneshotDelivers
  BY DEF OneshotInv, OneshotDelivers, AllGiven, Sources
<1> QED
  BY <1>1, <1>2, OneshotInitial, Invariance, PTL DEF Spec

=============================================================================
