------------------------------ MODULE PidLock ------------------------------
(***************************************************************************)
(* The PID file that keeps a second virt-who daemon from running (PIDLock  *)
(* in virtwho/lock.py and its use by main in virtwho/main.py).             *)
(*                                                                         *)
(* Every process writes its PID into the file before it runs and removes   *)
(* the file when it ends.  Only a daemon looks at the file before that; a  *)
(* helper (--oneshot, --print, --status) does not.  A process that is      *)
(* killed leaves the file behind.                                          *)
(*                                                                         *)
(* A definition right before another one, of the same name with a suffix,  *)
(* is a mutated form of it: a plausible mistake that a property detects.   *)
(***************************************************************************)
EXTENDS Naturals, FiniteSets

CONSTANTS
    Daemons,    \* processes started as daemon; a process stands for its PID
    Helpers,    \* processes started with --oneshot, --print or --status
    ShortPids,  \* the processes whose PID has fewer digits than the others'
    NoFile,     \* there is no PID file
    Unwritten,  \* the file was created and nothing is written yet
    Garbage,    \* digits of two PIDs: the file is not truncated when opened
    MaxStarts,  \* bound: starts of one process (more than one: PIDs are reused)
    MaxPidKills \* bound: processes killed

Procs == Daemons \cup Helpers

ASSUME PidLockAssumption ==
    /\ Daemons \cap Helpers = {} /\ ShortPids \subseteq Procs
    /\ {NoFile, Unwritten, Garbage} \cap Procs = {}
    /\ NoFile # Unwritten /\ NoFile # Garbage /\ Unwritten # Garbage
    /\ MaxStarts \in Nat /\ MaxPidKills \in Nat

VARIABLES
    file,   \* what the PID file holds
    pidAt,  \* where each process is
    seen,   \* the PID that is_locked of each process read
    starts, pidKills,
    overlap \* history: a process was started while another one was starting

pidVars == <<file, pidAt, seen, starts, pidKills, overlap>>

Alive(p)    == p \in Procs /\ pidAt[p] \notin {"off", "refused"}
Starting(p) == pidAt[p] \in {"look", "probe", "remove", "open", "write", "orphan"}
Running(p)  == pidAt[p] = "run"

PidInit ==
    /\ file = NoFile
    /\ pidAt = [p \in Procs |-> "off"]
    /\ seen = [p \in Procs |-> NoFile]
    /\ starts = [p \in Procs |-> 0] /\ pidKills = 0 /\ overlap = FALSE

\* p removes the file and goes on at place.  A process that has it open will
\* write its PID to a file that has no name any more.
Unlink(p, place) ==
    /\ file' = NoFile
    /\ pidAt' = [q \in Procs |-> IF q = p THEN place
                              ELSE IF pidAt[q] = "write" THEN "orphan" ELSE pidAt[q]]

\* main: only a daemon asks is_locked.
StartPid(p) ==
    /\ pidAt[p] = "off" /\ starts[p] < MaxStarts
    /\ overlap' = (overlap \/ \E q \in Procs : Starting(q))
    /\ starts' = [starts EXCEPT ![p] = @ + 1]
    /\ pidAt' = [pidAt EXCEPT ![p] = IF p \in Daemons THEN "look" ELSE "open"]
    /\ UNCHANGED <<file, seen, pidKills>>

\* is_locked reads the file; without one, or without a number, it is not locked.
Look(p) ==
    /\ pidAt[p] = "look"
    /\ seen' = [seen EXCEPT ![p] = file]
    /\ pidAt' = [pidAt EXCEPT ![p] = IF file \in {NoFile, Unwritten} THEN "open" ELSE "probe"]
    /\ UNCHANGED <<file, starts, pidKills, overlap>>

\* os.kill(pid, 0): refuse to start if that process exists, whatever it is.
FoundAliveNever(pid) == FALSE
FoundAliveAny(pid)   == TRUE
FoundAlive(pid)      == Alive(pid)
Probe(p) ==
    /\ pidAt[p] = "probe"
    /\ pidAt' = [pidAt EXCEPT ![p] = IF FoundAlive(seen[p]) THEN "refused" ELSE "remove"]
    /\ UNCHANGED <<file, seen, starts, pidKills, overlap>>

\* ... and otherwise remove the file of the process that is gone.
RemoveStale(p) ==
    /\ pidAt[p] = "remove"
    /\ Unlink(p, "open")
    /\ UNCHANGED <<seen, starts, pidKills, overlap>>

\* __enter__: open without O_TRUNC and O_EXCL ...
Open(p) ==
    /\ pidAt[p] = "open"
    /\ file' = IF file = NoFile THEN Unwritten ELSE file
    /\ pidAt' = [pidAt EXCEPT ![p] = "write"]
    /\ UNCHANGED <<seen, starts, pidKills, overlap>>

\* ... and write over the first digits of what is there.
Overwritten(p, q) == IF p \in ShortPids /\ q \in (Procs \ ShortPids) \cup {Garbage}
                     THEN Garbage ELSE p
Write(p) ==
    /\ pidAt[p] \in {"write", "orphan"}
    /\ file' = IF pidAt[p] = "write" THEN Overwritten(p, file) ELSE file
    /\ pidAt' = [pidAt EXCEPT ![p] = "run"]
    /\ UNCHANGED <<seen, starts, pidKills, overlap>>

\* __exit__: remove the file, whosever it is.
EndOwnOnly(p) ==
    /\ Running(p)
    /\ IF file = p THEN Unlink(p, "off")
                   ELSE pidAt' = [pidAt EXCEPT ![p] = "off"] /\ UNCHANGED file
    /\ UNCHANGED <<seen, starts, pidKills, overlap>>
End(p) ==
    /\ Running(p)
    /\ Unlink(p, "off")
    /\ UNCHANGED <<seen, starts, pidKills, overlap>>

\* A process refused ends with exit code 1.
Refuse(p) ==
    /\ pidAt[p] = "refused"
    /\ pidAt' = [pidAt EXCEPT ![p] = "off"]
    /\ UNCHANGED <<file, seen, starts, pidKills, overlap>>

KillPid(p) ==
    /\ Alive(p) /\ pidKills < MaxPidKills
    /\ pidKills' = pidKills + 1
    /\ pidAt' = [pidAt EXCEPT ![p] = "off"]
    /\ UNCHANGED <<file, seen, starts, overlap>>

PidNext == \E p \in Procs : \/ StartPid(p) \/ Look(p) \/ Probe(p) \/ RemoveStale(p)
                            \/ Open(p) \/ Write(p) \/ End(p) \/ Refuse(p) \/ KillPid(p)

PidSpec == PidInit /\ [][PidNext]_pidVars

-----------------------------------------------------------------------------
PidTypeOK ==
    /\ file \in Procs \cup {NoFile, Unwritten, Garbage}
    /\ pidAt \in [Procs -> {"off", "look", "probe", "remove", "open", "write",
                     "orphan", "run", "refused"}]
    /\ seen \in [Procs -> Procs \cup {NoFile, Unwritten, Garbage}]
    /\ starts \in [Procs -> Nat] /\ pidKills \in Nat /\ overlap \in BOOLEAN

OneDaemon == \A p, q \in Daemons : Running(p) /\ Running(q) => p = q

\* The use that systemd makes of virt-who: no two starts at once, no helper.
Alone     == ~overlap /\ \A h \in Helpers : starts[h] = 0
NoneAgain == \A p \in Procs : starts[p] <= 1

\* "virt-who seems to be already running" (main, main.py): started one after the
\* other and without a helper, no daemon runs while another one does.
AtMostOneDaemon == Alone => OneDaemon

\* ... and a running daemon is also the only reason to refuse one, unless the
\* PID of a killed daemon is in use again.
RefusedBeside ==
    \A p \in Daemons : pidAt[p] = "probe" /\ pidAt'[p] = "refused" /\ Alone /\ NoneAgain
                       => \E q \in Daemons \ {p} : Running(q)
RefusedOnlyIfRunning == [][RefusedBeside]_pidVars

\* When nobody lives and nobody was killed, the file is gone.
NothingLeftBehind ==
    (\A p \in Procs : ~Alive(p)) /\ pidKills = 0 => file = NoFile

\* What makes NothingLeftBehind inductive: a file has somebody to remove it.
OwnedInv ==
    pidKills = 0 /\ file # NoFile => \E p \in Procs : pidAt[p] \in {"write", "run"}

\* What makes AtMostOneDaemon inductive when virt-who is used alone: the running
\* daemon is the one the file names, a process that got past the check finds
\* nobody running.
OneStarts == \A p, q \in Procs : Starting(p) /\ Starting(q) => p = q
FileNamesRunner == \A p \in Procs : Running(p) => file = p
CheckIsFresh ==
    \A p, q \in Procs :
        /\ pidAt[p] = "probe" /\ Running(q) => seen[p] = q
        /\ pidAt[p] \in {"remove", "open", "write", "orphan"} => ~Running(q)
FileIsClear ==
    \A p \in Procs : /\ pidAt[p] = "open" => file \in {NoFile, Unwritten}
                     /\ pidAt[p] = "write" => file = Unwritten
                     /\ pidAt[p] # "orphan"
Unstarted == \A p \in Procs : starts[p] = 0 => pidAt[p] = "off"
AloneInv == Alone => OneStarts /\ FileNamesRunner /\ CheckIsFresh /\ FileIsClear
\* What RefusedOnlyIfRunning needs: a process in its first start finds other PIDs.
FirstStart ==
    \A p \in Procs : starts[p] = 0 \/ (starts[p] = 1 /\ Starting(p)) => p \notin {file, seen[p]}
PidInv == PidTypeOK /\ Unstarted /\ FirstStart /\ OwnedInv /\ AloneInv

=============================================================================
