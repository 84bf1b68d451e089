--------------------------- MODULE DeliveryProofs ---------------------------
(***************************************************************************)
(* The destination thread implements Delivery: proofs.  Every step is one  *)
(* of the abstract moves for every source that is not lost; the inductive  *)
(* invariant of DestinationProofs says where each source's requests are.   *)
(***************************************************************************)
EXTENDS DestinationProofs, DestinationDelivers

USE ConstantsAssumption

-----------------------------------------------------------------------------
(* The abstract moves, in terms of the thread's state.                     *)

Hand(s) == Value(InHand(s))

LEMMA MovePublish ==
    ASSUME NEW s \in Sources, Hand(s)' = Hand(s), InFlight(s)' = InFlight(s),
           server'[s] = server[s]
    PROVE  Abstract!Step(s)
  BY DEF Hand, Abstract!Step, Abstract!Publish, Abstract!Same

LEMMA MoveTake ==
    ASSUME NEW s \in Sources, Hand(s)' \in {Value(store[s]), NoReport},
           store'[s] = store[s], InFlight(s)' = InFlight(s), server'[s] = server[s]
    PROVE  Abstract!Step(s)
<1>1. Value(store[s])' = Value(store[s])
  BY DEF Value
<1>2. QED
  BY <1>1 DEF Hand, Abstract!Step, Abstract!Take, Abstract!Same

LEMMA MoveRequest ==
    ASSUME NEW s \in Sources, InFlight(s) = {}, Hand(s) \in Hashes,
           InFlight(s)' = {Hand(s)}, store'[s] = store[s], Hand(s)' = Hand(s),
           server'[s] = server[s]
    PROVE  Abstract!Step(s)
<1>1. Value(store[s])' = Value(store[s])
  BY DEF Value
<1>2. QED
  BY <1>1 DEF Hand, Abstract!Step, Abstract!Request, Abstract!Same

LEMMA MoveDeliver ==
    ASSUME NEW s \in Sources, InFlight(s) = {}, Hand(s) \in Hashes,
           server'[s] = Hand(s), store'[s] = store[s], Hand(s)' = Hand(s),
           InFlight(s)' = InFlight(s)
    PROVE  Abstract!Step(s)
<1>1. Value(store[s])' = Value(store[s])
  BY DEF Value
<1>2. QED
  BY <1>1 DEF Hand, Abstract!Step, Abstract!Deliver, Abstract!Same

LEMMA MoveLand ==
    ASSUME NEW s \in Sources, InFlight(s) # {}, InFlight(s)' = {},
           server'[s] \in InFlight(s) \cup {server[s]}, store'[s] = store[s],
           Hand(s)' = Hand(s)
    PROVE  Abstract!Step(s)
<1>1. Value(store[s])' = Value(store[s])
  BY DEF Value
<1>2. QED
  BY <1>1 DEF Hand, Abstract!Step, Abstract!Land, Abstract!Same

-----------------------------------------------------------------------------
(* The requests in flight.                                                 *)

LEMMA InFlightSame ==
    ASSUME NEW s, DOMAIN jobs' = DOMAIN jobs,
           \A i \in DOMAIN jobs : /\ jobs'[i].sent = jobs[i].sent
                                  /\ jobs'[i].status = jobs[i].status
    PROVE  InFlight(s)' = InFlight(s)
  BY DEF InFlight, Carries, Running

\* A source that is not lost is in flight in its tracked job only.
LEMMA InFlightTracked ==
    ASSUME IInv, NEW s \in Sources \ lost, NEW j \in DOMAIN jobs, Carries(j, s),
           Running(j)
    PROVE  /\ InFlight(s) = {jobs[j].sent[s]}
           /\ \A i \in DOMAIN jobs : Carries(i, s) /\ Running(i) => i = j
<1>1. \A i \in DOMAIN jobs : Carries(i, s) /\ Running(i) => i = j
  BY DEF IInv, Core, OnlyTrackedRun
<1>2. QED
  BY <1>1 DEF InFlight

LEMMA InFlightUntracked ==
    ASSUME IInv, NEW s \in Sources \ lost, ~Tracked(s)
    PROVE  InFlight(s) = {}
<1>1. \A i \in DOMAIN jobs : i # 0
  BY LenProperties DEF IInv, TypeOK
<1>2. \A i \in DOMAIN jobs : ~(Carries(i, s) /\ Running(i))
  BY <1>1 DEF IInv, Core, OnlyTrackedRun, Tracked
<1>3. QED
  BY <1>2 DEF InFlight

\* A domain list has no job.
LEMMA InFlightGuests ==
    ASSUME NEW s \in Sources, s \notin HgSources PROVE InFlight(s) = {}
  BY DEF InFlight, Carries

-----------------------------------------------------------------------------
(* Steps.                                                                  *)

LEMMA AbstractInit == Init => Abstract!Init
<1> SUFFICES ASSUME Init PROVE Abstract!Init
  OBVIOUS
<1>1. [s \in Sources |-> Value(store[s])] \in [Sources -> Hashes \cup {NoReport}]
  BY DEF Value
<1>2. \A s \in Sources : Value(InHand(s)) = NoReport
  BY DEF Init, Value, InHand, None
<1>3. \A s \in Sources : InFlight(s) = {}
  BY DEF Init, InFlight
<1>4. server = [s \in Sources |-> NoReport] /\ lost = {}
  BY DEF Init, None
<1>5. QED
  BY <1>1, <1>2, <1>3, <1>4 DEF Abstract!Init, Abstract!Optional

\* A step after which every source has in hand what it had moves nothing.
LEMMA StillStep ==
    ASSUME NEW s \in Sources, UNCHANGED <<jobs, server>>, InHand(s)' = InHand(s)
    PROVE  Abstract!Step(s)
<1>1. InFlight(s)' = InFlight(s)
  BY InFlightSame
<1>2. Hand(s)' = Hand(s)
  BY DEF Hand, Value
<1>3. QED
  BY <1>1, <1>2, MovePublish

\* A step that takes the newest report, or drops the one in hand.
LEMMA TakeStep ==
    ASSUME NEW s \in Sources, UNCHANGED <<jobs, server, store>>,
           InHand(s)' \in {store[s], NoReport}
    PROVE  Abstract!Step(s)
<1>1. InFlight(s)' = InFlight(s)
  BY InFlightSame
<1>2. Hand(s)' \in {Value(store[s]), NoReport}
  BY DEF Hand, Value
<1>3. QED
  BY <1>1, <1>2, MoveTake

LEMMA EnvironmentMoves ==
    ASSUME IInv, Environment, NEW s \in Sources PROVE Abstract!Step(s)
<1>1. UNCHANGED <<jobs, server, reports, reading>>
  BY DEF Environment, Terminate, Reload, Put, locals, remote
<1>2. InHand(s)' = InHand(s)
  BY <1>1 DEF Environment, Terminate, Reload, Put, InHand, reading
<1>3. QED
  BY <1>1, <1>2, StillStep

LEMMA ServeMoves ==
    ASSUME IInv, Serve, NEW s \in Sources \ lost PROVE Abstract!Step(s)
<1> USE DEF IInv
<1>1. PICK j \in DOMAIN jobs : FinishJob(j) \/ FailJob(j)
  BY DEF Serve
<1> DEFINE end == IF FinishJob(j) THEN "FINISHED" ELSE "FAILED"
           e   == [jobs[j] EXCEPT !.status = end]
<1>2. jobs[j] \in Jobs
  BY ElementOfSeq, LenProperties DEF TypeOK
<1>3. e \in Jobs /\ e.sent = jobs[j].sent /\ e.status # "RUNNING"
  BY <1>2 DEF Jobs
<1>4. jobs[j].status = "RUNNING" /\ jobs' = [jobs EXCEPT ![j] = e]
  BY <1>1 DEF FinishJob, FailJob
<1>5. /\ DOMAIN jobs' = DOMAIN jobs
      /\ jobs'[j] = e /\ \A i \in DOMAIN jobs : i # j => jobs'[i] = jobs[i]
  BY <1>3, <1>4, EntryChanged DEF TypeOK
<1> HIDE DEF e
<1>6. UNCHANGED <<store, pc, reports, cur, curReport>>
  BY <1>1 DEF FinishJob, FailJob, external, reading
<1>7. Hand(s)' = Hand(s)
  BY <1>6 DEF Hand, InHand, Value
<1>8. CASE Carries(j, s)
  <2>1. /\ InFlight(s) = {jobs[j].sent[s]}
        /\ \A i \in DOMAIN jobs : Carries(i, s) /\ Running(i) => i = j
    BY <1>4, <1>8, InFlightTracked DEF Running
  <2>2. \A i \in DOMAIN jobs' : ~(Carries(i, s)' /\ Running(i)')
    BY <1>3, <1>5, <2>1 DEF Carries, Running
  <2>3. InFlight(s)' = {}
    BY <2>2 DEF InFlight
  <2>4. server'[s] \in {jobs[j].sent[s], server[s]}
    BY <1>1, <1>8 DEF FinishJob, FailJob, Applied, Carries
  <2>5. QED
    BY <1>6, <1>7, <2>1, <2>3, <2>4, MoveLand
<1>9. CASE ~Carries(j, s)
  <2>1. \A i \in DOMAIN jobs : /\ Carries(i, s)' <=> Carries(i, s)
                               /\ Carries(i, s) => jobs'[i] = jobs[i]
    BY <1>3, <1>5, <1>9 DEF Carries
  <2>2. InFlight(s)' = InFlight(s)
    BY <1>5, <2>1 DEF InFlight, Running
  <2>3. server'[s] = server[s]
    BY <1>1, <1>9 DEF FinishJob, FailJob, Applied, Carries, Hashes
  <2>4. QED
    BY <1>7, <2>2, <2>3, MovePublish
<1>10. QED
  BY <1>8, <1>9

LEMMA GatherMoves ==
    ASSUME IInv, Gather, NEW s \in Sources PROVE Abstract!Step(s)
<1> USE DEF remote, reading, external
<1>1. UNCHANGED <<jobs, server, store>>
  BY DEF Gather, LoopTop, InitialTop, GatherTop, ReadAll, ReadNothing, ReadDuplicate,
         ReadFresh, ReadTracked
<1>2. CASE LoopTop \/ InitialTop \/ GatherTop \/ ReadAll
  <2>1. InHand(s)' = InHand(s)
    BY <1>2 DEF LoopTop, InitialTop, GatherTop, ReadAll, InHand
  <2>2. QED
    BY <1>1, <2>1, StillStep
<1>3. ASSUME NEW x \in Sources, ReadNothing(x) \/ ReadDuplicate(x)
      PROVE  Abstract!Step(s)
  <2>1. InHand(s)' = InHand(s)
    BY <1>3 DEF ReadNothing, ReadDuplicate, InHand
  <2>2. QED
    BY <1>1, <2>1, StillStep
<1>4. ASSUME NEW x \in Sources, ReadFresh(x) \/ ReadTracked(x)
      PROVE  Abstract!Step(s)
  <2>1. s # x => InHand(s)' = InHand(s)
    BY <1>4 DEF ReadFresh, ReadTracked, InHand, IInv, TypeOK
  <2>2. s = x => InHand(s)' = store[s]
    BY <1>4 DEF ReadFresh, ReadTracked, InHand, IInv, TypeOK
  <2>3. QED
    BY <1>1, <2>1, <2>2, StillStep, TakeStep
<1>5. QED
  BY <1>2, <1>3, <1>4 DEF Gather

LEMMA CheckMoves ==
    ASSUME IInv, Check, NEW s \in Sources PROVE Abstract!Step(s)
<1> USE DEF IInv, remote, reading, external
<1>1. store' = store /\ server' = server
  BY DEF Check, PollTop, PollAnswered, PollThrottled, PollFailed, PollRaised,
         SettleFinished, SettleProcessing, SettleForgotten
<1>2. pc \in {"poll", "ask", "settle"} /\ cur \in Sources /\ reports[cur] = NoReport
  BY DEF Check, PollTop, PollAnswered, PollThrottled, PollFailed, PollRaised,
         SettleFinished, SettleProcessing, SettleForgotten, Place, Asking,
         FreshUntracked, Sending
<1>3. CASE PollTop \/ PollThrottled \/ PollFailed
  <2>1. InHand(s)' = InHand(s) /\ jobs' = jobs
    BY <1>3 DEF PollTop, PollThrottled, PollFailed, InHand
  <2>2. QED
    BY <1>1, <2>1, StillStep
<1>4. CASE PollAnswered
  <2> DEFINE j == submitted[cur].job
             e == [jobs[j] EXCEPT !.state = StateOfStatus(jobs[j].status)]
  <2>1. j \in DOMAIN jobs
    BY <1>2, <1>4 DEF Place, Asking, Core, TrackedJobs
  <2>2. jobs[j] \in Jobs
    BY <2>1, ElementOfSeq, LenProperties DEF TypeOK
  <2>3. e \in Jobs /\ e.sent = jobs[j].sent /\ e.status = jobs[j].status
    BY <2>2 DEF Jobs, StateOfStatus
  <2>4. jobs' = [jobs EXCEPT ![j] = e]
    BY <1>4 DEF PollAnswered, JobOf
  <2>5. /\ DOMAIN jobs' = DOMAIN jobs
        /\ jobs'[j] = e /\ \A i \in DOMAIN jobs : i # j => jobs'[i] = jobs[i]
    BY <2>1, <2>3, <2>4, EntryChanged DEF TypeOK
  <2>6. \A i \in DOMAIN jobs : /\ jobs'[i].sent = jobs[i].sent
                               /\ jobs'[i].status = jobs[i].status
    BY <2>3, <2>5
  <2>7. InFlight(s)' = InFlight(s)
    BY <2>5, <2>6, InFlightSame
  <2>8. Hand(s)' = Hand(s)
    BY <1>4 DEF PollAnswered, Hand, InHand, Value
  <2>9. QED
    BY <1>1, <2>7, <2>8, MovePublish
<1>5. CASE PollRaised \/ SettleFinished \/ SettleProcessing \/ SettleForgotten
  <2>1. jobs' = jobs
    BY <1>5 DEF PollRaised, SettleFinished, SettleProcessing, SettleForgotten
  <2>2. s # cur => InHand(s)' = InHand(s)
    BY <1>2, <1>5 DEF PollRaised, SettleFinished, SettleProcessing, SettleForgotten,
                      InHand, TypeOK
  <2>3. s = cur => InHand(s)' \in {InHand(s), NoReport}
    BY <1>2, <1>5 DEF PollRaised, SettleFinished, SettleProcessing, SettleForgotten,
                      InHand, TypeOK
  <2>4. QED
    BY <1>1, <2>1, <2>2, <2>3, StillStep, TakeStep
<1>6. QED
  BY <1>3, <1>4, <1>5 DEF Check

\* An accepted check-in: the sources in the batch had nothing in flight.
LEMMA AcceptMoves ==
    ASSUME IInv, CheckInAccepted \/ CheckInUnanswered, NEW s \in Sources \ lost'
    PROVE  Abstract!Step(s)
<1> USE DEF IInv, reading, external
<1> DEFINE n == Len(jobs) + 1
           e == [sent   |-> BatchSent,
                 status |-> IF Async THEN "RUNNING" ELSE "FINISHED",
                 state  |-> IF Async THEN "CREATED" ELSE "FINISHED"]
<1>1. /\ e \in Jobs /\ e.sent = BatchSent
      /\ e.status = (IF Async THEN "RUNNING" ELSE "FINISHED")
  BY DEF Jobs, BatchSent, Batched
<1>2. jobs' = Append(jobs, e) /\ server' = IF Async THEN server ELSE Applied(BatchSent)
  BY DEF CheckInAccepted, CheckInUnanswered, Accept
<1>3. /\ DOMAIN jobs' = DOMAIN jobs \cup {n} /\ n \notin DOMAIN jobs
      /\ jobs'[n] = e /\ \A i \in DOMAIN jobs : jobs'[i] = jobs[i]
  BY <1>1, <1>2, EntryAdded DEF TypeOK
<1> HIDE DEF e, n
<1>4. /\ UNCHANGED <<store, reports, cur, curReport>>
      /\ pc = "checkin" /\ pc' \in {"guests", "error"}
  BY DEF CheckInAccepted, CheckInUnanswered
<1>5. Hand(s) = Value(reports[s]) /\ Hand(s)' = Hand(s)
  BY <1>4 DEF Hand, InHand, Value
<1>6. CASE s \in Batched
  <2>1. CheckInAccepted /\ lost' = lost
    BY <1>6 DEF CheckInAccepted, CheckInUnanswered
  <2>2. s \in HgSources /\ reports[s] \in Hashes /\ reports[s] # NoReport
    BY <1>6 DEF Batched, Hashes
  <2>3. ~Tracked(s)
    BY <1>4, <2>2 DEF Place, FreshUntracked, Sending
  <2>4. InFlight(s) = {}
    BY <2>1, <2>3, InFlightUntracked
  <2>5. Hand(s) = reports[s] /\ BatchSent[s] = reports[s]
    BY <1>5, <1>6, <2>2 DEF Value, BatchSent
  <2>6. CASE Async
    <3>1. \A i \in DOMAIN jobs' : Carries(i, s)' /\ Running(i)' <=> i = n
      BY <1>1, <1>3, <2>2, <2>4, <2>5, <2>6 DEF Carries, Running, InFlight
    <3>2. InFlight(s)' = {reports[s]}
      BY <1>1, <1>3, <2>5, <3>1 DEF InFlight
    <3>3. QED
      BY <1>2, <1>4, <1>5, <2>2, <2>4, <2>5, <2>6, <3>2, MoveRequest
  <2>7. CASE ~Async
    <3>1. \A i \in DOMAIN jobs' : ~(Carries(i, s)' /\ Running(i)')
      BY <1>1, <1>3, <2>4, <2>7 DEF Carries, Running, InFlight
    <3>2. InFlight(s)' = InFlight(s)
      BY <2>4, <3>1 DEF InFlight
    <3>3. server'[s] \in {reports[s], server[s]}
      BY <1>2, <2>2, <2>5, <2>7 DEF Applied
    <3>4. QED
      BY <1>4, <1>5, <2>2, <2>4, <2>5, <3>2, <3>3, MoveDeliver, MovePublish
  <2>8. QED
    BY <2>6, <2>7
<1>7. CASE s \notin Batched
  <2>1. s \in HgSources => BatchSent[s] = NoReport
    BY <1>7 DEF BatchSent
  <2>2. \A i \in DOMAIN jobs' : Carries(i, s)' => i \in DOMAIN jobs
    BY <1>1, <1>3, <2>1 DEF Carries
  <2>3. InFlight(s)' = InFlight(s)
    BY <1>3, <2>2 DEF InFlight, Carries, Running
  <2>4. server'[s] = server[s]
    BY <1>2, <2>1 DEF Applied, Hashes
  <2>5. QED
    BY <1>5, <2>3, <2>4, MovePublish
<1>8. QED
  BY <1>6, <1>7

LEMMA SendMoves ==
    ASSUME IInv, Send, NEW s \in Sources \ lost' PROVE Abstract!Step(s)
<1> USE DEF IInv, remote, reading, external
<1>1. CASE CheckInAccepted \/ CheckInUnanswered
  BY <1>1, AcceptMoves
<1>2. CASE \/ SendNothing \/ Prepare \/ CheckInThrottled \/ CheckInRefused
           \/ CheckInAbandoned \/ GuestsThrottled \/ GuestsRefused
           \/ GuestsAbandoned \/ GuestsOver
  <2>1. InHand(s)' = InHand(s) /\ UNCHANGED <<jobs, server>>
    BY <1>2 DEF SendNothing, Prepare, CheckInThrottled, CheckInRefused,
                CheckInAbandoned, GuestsThrottled, GuestsRefused, GuestsAbandoned,
                GuestsOver, InHand
  <2>2. QED
    BY <2>1, StillStep
<1>3. ASSUME NEW x \in DlSources, NextGuests(x) PROVE Abstract!Step(s)
  <2>1. InHand(s)' = InHand(s) /\ UNCHANGED <<jobs, server>>
    BY <1>3 DEF NextGuests, InHand
  <2>2. QED
    BY <2>1, StillStep
<1>4. CASE GuestsSent \/ GuestsUnanswered
  <2>1. cur \in DlSources /\ reports[cur] \in Hashes /\ cur \notin HgSources
    BY <1>4 DEF GuestsSent, GuestsUnanswered, Place, Listing, Sources
  <2>2. /\ UNCHANGED <<store, jobs, reports, cur, curReport>>
        /\ pc = "guestsOf" /\ pc' \in {"guests", "error"}
    BY <1>4 DEF GuestsSent, GuestsUnanswered
  <2>3. Hand(s) = Value(reports[s]) /\ Hand(s)' = Hand(s)
    BY <2>2 DEF Hand, InHand, Value
  <2>4. InFlight(s)' = InFlight(s)
    BY <2>2, InFlightSame
  <2>5. server'[s] = IF s = cur THEN reports[cur] ELSE server[s]
    BY <1>4 DEF GuestsSent, GuestsUnanswered, TypeOK
  <2>6. CASE s = cur
    <3>1. InFlight(s) = {}
      BY <2>1, <2>6, InFlightGuests
    <3>2. QED
      BY <2>1, <2>2, <2>3, <2>4, <2>5, <2>6, <3>1, MoveDeliver DEF Value
  <2>7. CASE s # cur
    BY <2>3, <2>4, <2>5, <2>7, MovePublish
  <2>8. QED
    BY <2>6, <2>7
<1>5. QED
  BY <1>1, <1>2, <1>3, <1>4 DEF Send

LEMMA CycleMoves ==
    ASSUME IInv, CycleOver, NEW s \in Sources PROVE Abstract!Step(s)
<1>1. UNCHANGED <<jobs, server, store>> /\ InHand(s)' = NoReport
  BY DEF CycleOver, remote, external, InHand, None
<1>2. QED
  BY <1>1, TakeStep

\* Every step of the thread, the server and the executor is an abstract one.
LEMMA AbstractStep ==
    ASSUME IInv, [Next]_vars
    PROVE  [Abstract!Next]_(Abstract!vars)
<1>1. CASE UNCHANGED vars
  <2>1. UNCHANGED Abstract!vars
    BY <1>1 DEF vars, Abstract!vars, Value, InHand, InFlight, Carries, Running
  <2>2. QED
    BY <2>1
<1>2. CASE Next
  <2>1. lost \subseteq lost'
    BY <1>2 DEF Next, Thread, Serve, Environment, Gather, Check, Send, CycleOver,
         Terminate, Reload, Put, FinishJob, FailJob,
         LoopTop, InitialTop, GatherTop, ReadAll, ReadNothing, ReadDuplicate,
         ReadFresh, ReadTracked, PollTop, PollAnswered, PollThrottled, PollFailed,
         PollRaised, SettleFinished, SettleProcessing, SettleForgotten,
         SendNothing, Prepare, CheckInAccepted, CheckInThrottled, CheckInRefused,
         CheckInUnanswered, CheckInAbandoned, NextGuests, GuestsSent,
         GuestsThrottled, GuestsRefused, GuestsUnanswered, GuestsAbandoned, GuestsOver
  <2>2. \A s \in Sources \ lost' : Abstract!Step(s)
    BY <1>2, <2>1, EnvironmentMoves, ServeMoves, GatherMoves, CheckMoves, SendMoves,
       CycleMoves DEF Next, Thread
  <2>3. QED
    BY <2>1, <2>2 DEF Abstract!Next
<1>3. QED
  BY <1>1, <1>2

\* Reports reach the server in the order in which they were made and one at a
\* time, for any sources, contents and bounds, unless an accepted request of
\* the source was lost.
THEOREM Implements == Spec => Delivers
<1>1. Spec => []IInv
  BY Invariance
<1>2. QED
  BY <1>1, AbstractInit, AbstractStep, PTL DEF Spec, Delivers, Abstract!Spec

=============================================================================
