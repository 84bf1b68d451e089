--------------------------- MODULE PidLockProofs ---------------------------
(***************************************************************************)
(* Proofs about PidLock: what the PID file does guarantee.  Whatever runs, *)
(* the file is removed unless somebody was killed.  If processes start one *)
(* after the other, as systemd starts them, and virt-who is never run as a *)
(* helper beside the daemon, at most one daemon runs, for any processes    *)
(* and any kills.                                                          *)
(***************************************************************************)
EXTENDS PidLock, TLAPS

USE PidLockAssumption

\* PidInv holds initially.
LEMMA PidInitial == PidInit => PidInv
<1> SUFFICES ASSUME PidInit PROVE PidInv
  OBVIOUS
<1> USE DEF PidInit
<1>1. PidTypeOK /\ Unstarted /\ FirstStart /\ OwnedInv
  BY DEF PidTypeOK, Unstarted, FirstStart, OwnedInv
<1>2. OneStarts /\ FileNamesRunner /\ CheckIsFresh /\ FileIsClear
  BY DEF OneStarts, FileNamesRunner, CheckIsFresh, FileIsClear, Starting, Running
<1>3. QED
  BY <1>1, <1>2 DEF PidInv, AloneInv

\* Every step keeps the types, and a process that never started is off.
LEMMA TypeStep == PidTypeOK /\ Unstarted /\ [PidNext]_pidVars => PidTypeOK' /\ Unstarted'
<1> SUFFICES ASSUME PidTypeOK, Unstarted, [PidNext]_pidVars PROVE PidTypeOK' /\ Unstarted'
  OBVIOUS
<1> USE DEF PidTypeOK, Unstarted
<1>1. ASSUME NEW p \in Procs, StartPid(p) PROVE PidTypeOK' /\ Unstarted'
  BY <1>1 DEF StartPid
<1>2. ASSUME NEW p \in Procs, Look(p) PROVE PidTypeOK' /\ Unstarted'
  BY <1>2 DEF Look
<1>3. ASSUME NEW p \in Procs, Probe(p) PROVE PidTypeOK' /\ Unstarted'
  BY <1>3 DEF Probe
<1>4. ASSUME NEW p \in Procs, RemoveStale(p) PROVE PidTypeOK' /\ Unstarted'
  BY <1>4 DEF RemoveStale, Unlink
<1>5. ASSUME NEW p \in Procs, Open(p) PROVE PidTypeOK' /\ Unstarted'
  BY <1>5 DEF Open
<1>6. ASSUME NEW p \in Procs, Write(p) PROVE PidTypeOK' /\ Unstarted'
  BY <1>6 DEF Write, Overwritten
<1>7. ASSUME NEW p \in Procs, End(p) PROVE PidTypeOK' /\ Unstarted'
  BY <1>7 DEF End, Unlink, Running
<1>8. ASSUME NEW p \in Procs, Refuse(p) \/ KillPid(p) PROVE PidTypeOK' /\ Unstarted'
  BY <1>8 DEF Refuse, KillPid
<1>9. CASE UNCHANGED pidVars
  BY <1>9 DEF pidVars
<1>10. QED
  BY <1>1, <1>2, <1>3, <1>4, <1>5, <1>6, <1>7, <1>8, <1>9 DEF PidNext

\* Every step leaves somebody who removes the file, unless there was a kill:
\* whoever creates the file is about to write it, whoever wrote it runs.
LEMMA OwnedStep == PidTypeOK /\ OwnedInv /\ [PidNext]_pidVars => OwnedInv'
<1> SUFFICES ASSUME PidTypeOK, OwnedInv, [PidNext]_pidVars PROVE OwnedInv'
  OBVIOUS
<1> USE DEF PidTypeOK, OwnedInv
<1>1. ASSUME NEW p \in Procs, StartPid(p) \/ Look(p) \/ Probe(p) \/ Refuse(p)
      PROVE  OwnedInv'
  <2>1. /\ UNCHANGED <<file, pidKills>> /\ pidAt[p] \notin {"write", "run"}
        /\ \A q \in Procs \ {p} : pidAt'[q] = pidAt[q]
    BY <1>1 DEF StartPid, Look, Probe, Refuse
  <2>2. QED
    BY <2>1
<1>2. ASSUME NEW p \in Procs, RemoveStale(p) \/ End(p) PROVE OwnedInv'
  BY <1>2 DEF RemoveStale, End, Unlink
<1>3. ASSUME NEW p \in Procs, Open(p) PROVE OwnedInv'
  BY <1>3 DEF Open
<1>4. ASSUME NEW p \in Procs, Write(p) PROVE OwnedInv'
  BY <1>4 DEF Write
<1>5. ASSUME NEW p \in Procs, KillPid(p) PROVE OwnedInv'
  BY <1>5 DEF KillPid
<1>6. CASE UNCHANGED pidVars
  BY <1>6 DEF pidVars
<1>7. QED
  BY <1>1, <1>2, <1>3, <1>4, <1>5, <1>6 DEF PidNext

\* A process writes its PID when its first start is over.
LEMMA FirstStep ==
    ASSUME PidTypeOK, Unstarted, FirstStart, [PidNext]_pidVars, PidTypeOK'
    PROVE  FirstStart'
<1> USE DEF FirstStart, Starting, PidTypeOK
<1>1. ASSUME NEW p \in Procs, StartPid(p) PROVE FirstStart'
  BY <1>1 DEF StartPid
<1>2. ASSUME NEW p \in Procs, Look(p) PROVE FirstStart'
  BY <1>2 DEF Look
<1>3. ASSUME NEW p \in Procs, Probe(p) \/ Refuse(p) \/ KillPid(p) PROVE FirstStart'
  BY <1>3 DEF Probe, Refuse, KillPid
<1>4. ASSUME NEW p \in Procs, RemoveStale(p) \/ End(p) PROVE FirstStart'
  BY <1>4 DEF RemoveStale, End, Unlink, Running
<1>5. ASSUME NEW p \in Procs, Open(p) PROVE FirstStart'
  BY <1>5 DEF Open
<1>6. ASSUME NEW p \in Procs, Write(p) PROVE FirstStart'
  <2>1. starts[p] # 0 /\ file' \in {file, p, Garbage}
    BY <1>6 DEF Write, Overwritten, Unstarted
  <2>2. pidAt' = [pidAt EXCEPT ![p] = "run"] /\ UNCHANGED <<seen, starts>>
    BY <1>6 DEF Write
  <2> QED BY <2>1, <2>2
<1>7. CASE UNCHANGED pidVars
  BY <1>7 DEF pidVars
<1> QED
  BY <1>1, <1>2, <1>3, <1>4, <1>5, <1>6, <1>7 DEF PidNext

\* Every step of processes that are used alone keeps what the check relies on.
LEMMA AloneStep ==
    ASSUME PidTypeOK, Unstarted, AloneInv, [PidNext]_pidVars, PidTypeOK', Alone'
    PROVE  OneStarts' /\ FileNamesRunner' /\ CheckIsFresh' /\ FileIsClear'
<1> DEFINE Rest == OneStarts /\ FileNamesRunner /\ CheckIsFresh /\ FileIsClear
<1> SUFFICES Rest'
  OBVIOUS
<1>a. Alone
  <2> USE DEF Alone
  <2>1. ASSUME NEW p \in Procs, StartPid(p) PROVE Alone
    <3>1. ~overlap
      BY <2>1 DEF StartPid, PidTypeOK
    <3>2. \A h \in Helpers : starts[h] = 0
      BY <2>1, Helpers \subseteq Procs DEF StartPid, PidTypeOK, Procs
    <3>3. QED
      BY <3>1, <3>2
  <2>2. CASE UNCHANGED <<overlap, starts>>
    BY <2>2
  <2>3. QED
    BY <2>1, <2>2 DEF PidNext, pidVars, Look, Probe, RemoveStale, Open, Write, End, Refuse,
                      KillPid
<1>b. Rest
  BY <1>a DEF AloneInv
<1> USE DEF Starting, Running
<1>1. ASSUME NEW p \in Procs, StartPid(p) PROVE Rest'
  <2>1. p \in Daemons
    BY <1>1 DEF StartPid, Alone, PidTypeOK, Procs
  <2>2. \A q \in Procs : ~Starting(q)
    BY <1>1, Zenon DEF StartPid, Alone
  <2>3. QED
    BY <1>1, <1>b, <2>1, <2>2 DEF StartPid, PidTypeOK, OneStarts, FileNamesRunner, CheckIsFresh,
                            FileIsClear, Procs
<1>2. ASSUME NEW p \in Procs, Look(p) PROVE Rest'
  <2>1. OneStarts' /\ FileNamesRunner' /\ FileIsClear'
    BY <1>2, <1>b DEF Look, PidTypeOK, OneStarts, FileNamesRunner, FileIsClear
  <2>2. CheckIsFresh'
    BY <1>2, <1>b DEF Look, PidTypeOK, OneStarts, FileNamesRunner, CheckIsFresh
  <2>3. QED
    BY <2>1, <2>2
<1>3. ASSUME NEW p \in Procs, Probe(p) PROVE Rest'
  <2>1. OneStarts' /\ FileNamesRunner' /\ FileIsClear'
    BY <1>3, <1>b DEF Probe, PidTypeOK, OneStarts, FileNamesRunner, FileIsClear
  <2>2. CheckIsFresh'
    BY <1>3, <1>b DEF Probe, FoundAlive, Alive, PidTypeOK, OneStarts, CheckIsFresh
  <2>3. QED
    BY <2>1, <2>2
<1>4. ASSUME NEW p \in Procs, RemoveStale(p) PROVE Rest'
  <2>1. \A q \in Procs : pidAt'[q] = IF q = p THEN "open" ELSE pidAt[q]
    BY <1>4, <1>b DEF RemoveStale, Unlink, OneStarts
  <2>2. QED
    BY <1>4, <1>b, <2>1 DEF RemoveStale, Unlink, OneStarts, FileNamesRunner,
                            CheckIsFresh, FileIsClear
<1>5. ASSUME NEW p \in Procs, Open(p) PROVE Rest'
  BY <1>5, <1>b DEF Open, PidTypeOK, OneStarts, FileNamesRunner, CheckIsFresh, FileIsClear
<1>6. ASSUME NEW p \in Procs, Write(p) PROVE Rest'
  <2>1. pidAt[p] = "write" /\ file = Unwritten
    BY <1>6, <1>b DEF Write, FileIsClear
  <2>2. file' = p
    BY <1>6, <2>1 DEF Write, Overwritten
  <2>3. QED
    BY <1>6, <1>b, <2>1, <2>2 DEF Write, PidTypeOK, OneStarts, FileNamesRunner,
                                  CheckIsFresh, FileIsClear
<1>7. ASSUME NEW p \in Procs, End(p) PROVE Rest'
  <2>1. \A q \in Procs : pidAt[q] # "write" /\ pidAt[q] # "open"
    BY <1>7, <1>b DEF End, CheckIsFresh
  <2>2. \A q \in Procs : pidAt'[q] = IF q = p THEN "off" ELSE pidAt[q]
    BY <1>7, <2>1 DEF End, Unlink
  <2>3. QED
    BY <1>7, <1>b, <2>1, <2>2 DEF End, Unlink, OneStarts, FileNamesRunner,
                                  CheckIsFresh, FileIsClear
<1>8. ASSUME NEW p \in Procs, Refuse(p) \/ KillPid(p) PROVE Rest'
  <2>1. \A q \in Procs : pidAt'[q] = IF q = p THEN "off" ELSE pidAt[q]
    BY <1>8 DEF Refuse, KillPid, PidTypeOK
  <2>2. QED
    BY <1>8, <1>b, <2>1 DEF Refuse, KillPid, OneStarts, FileNamesRunner, CheckIsFresh,
                            FileIsClear
<1>9. CASE UNCHANGED pidVars
  BY <1>9, <1>b DEF pidVars, OneStarts, FileNamesRunner, CheckIsFresh, FileIsClear
<1>10. QED
  BY <1>1, <1>2, <1>3, <1>4, <1>5, <1>6, <1>7, <1>8, <1>9 DEF PidNext

\* PidInv is an invariant, for any processes, starts and kills.
THEOREM PidInvariance == PidSpec => []PidInv
<1>1. PidInv /\ [PidNext]_pidVars => PidInv'
  BY TypeStep, FirstStep, OwnedStep, AloneStep DEF PidInv, AloneInv
<1>2. QED
  BY <1>1, PidInitial, PTL DEF PidSpec

\* Used alone, no second daemon runs.
THEOREM StartsExclude == PidSpec => []AtMostOneDaemon
<1>1. PidInv => AtMostOneDaemon
  BY DEF PidInv, AloneInv, FileNamesRunner, AtMostOneDaemon, OneDaemon, Procs
<1>2. QED
  BY <1>1, PidInvariance, PTL

\* Whoever runs beside whom, the file is gone when all have ended by themselves.
THEOREM FileIsRemoved == PidSpec => []NothingLeftBehind
<1>1. PidInv => NothingLeftBehind
  BY DEF PidInv, PidTypeOK, OwnedInv, NothingLeftBehind, Alive
<1>2. QED
  BY <1>1, PidInvariance, PTL

\* Used alone and each process started once, a daemon is refused only beside
\* another one that runs.
THEOREM RefusalsAreRight == PidSpec => RefusedOnlyIfRunning
<1>1. PidInv /\ [PidNext]_pidVars => RefusedBeside
  <2> SUFFICES ASSUME PidInv, [PidNext]_pidVars, NEW p \in Daemons, Alone, NoneAgain,
                      pidAt[p] = "probe", pidAt'[p] = "refused"
               PROVE  \E q \in Daemons \ {p} : Running(q)
    BY DEF RefusedBeside
  <2>1. PidTypeOK /\ Unstarted /\ FirstStart /\ OneStarts /\ p \in Procs
    BY DEF PidInv, AloneInv, Procs
  <2>2. Probe(p) /\ FoundAlive(seen[p])
    <3>1. PICK q \in Procs : \/ StartPid(q) \/ Look(q) \/ Probe(q) \/ RemoveStale(q)
                             \/ Open(q) \/ Write(q) \/ End(q) \/ Refuse(q) \/ KillPid(q)
      BY <2>1 DEF PidNext, pidVars
    <3> QED
      BY <2>1, <3>1 DEF PidTypeOK, StartPid, Look, Probe, RemoveStale, Open, Write, End, Unlink,
         Refuse, KillPid
  <2> DEFINE q == seen[p]
  <2>3. q \in Procs /\ pidAt[q] \notin {"off", "refused"}
    BY <2>2 DEF FoundAlive, Alive
  <2>4. q # p
    BY <2>1 DEF FirstStart, NoneAgain, PidTypeOK, Starting, Unstarted
  <2>5. Running(q)
    BY <2>1, <2>3, <2>4 DEF OneStarts, Starting, Running, PidTypeOK
  <2>6. q \in Daemons
    BY <2>1, <2>3 DEF Alone, Unstarted, Procs
  <2> QED BY <2>4, <2>5, <2>6
<1> QED
  BY <1>1, PidInvariance, PTL DEF PidSpec, RefusedOnlyIfRunning

=============================================================================
