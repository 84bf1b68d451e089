------------------------------ MODULE RunData ------------------------------
(***************************************************************************)
(* The file run_data.json, in which virt-who keeps when each source was    *)
(* last read and each destination last sent to, and the FileLock that      *)
(* guards it (virtwho/lock.py).  The destination threads of every process  *)
(* write to it (DestinationThread.record_status), each process completes   *)
(* it when it starts (Executor._init_run_status), and virt-who --status    *)
(* reads it (DestinationThread.merge_run_data).  The file is truncated     *)
(* and written again in place, and a process may be killed in between.     *)
(*                                                                         *)
(* A definition right before another one, of the same name with a suffix,  *)
(* is a mutated form of it: a plausible mistake that a property detects.   *)
(***************************************************************************)
EXTENDS Naturals, FiniteSets

CONSTANTS
    Processes,   \* the virt-who processes: a daemon, a --status or --oneshot one
    StatusRuns,  \* those started with --status
    Threads,     \* destination threads of these processes
    ProcessOf,   \* the process of each thread
    Keys,        \* the entries: a configuration, as a source or a destination
    KeysOf,      \* the entries of the configurations that a process uses
    Values,      \* what is recorded
    JobLess,     \* those that have no last_job_id: guests were sent, no check-in
    NoValue,     \* the entry that _init_run_status makes
    NoEntry,     \* the file has no such entry
    Blank,       \* the file is empty: truncated and not yet written
    Missing,     \* there is no file
    Nobody,      \* nobody holds the lock
    MaxRecords, MaxKills   \* bounds

ASSUME RunDataAssumption ==
    /\ Processes \cap Threads = {} /\ Nobody \notin Processes \cup Threads
    /\ StatusRuns \subseteq Processes
    /\ ProcessOf \in [Threads -> Processes]
    /\ KeysOf \in [Processes -> SUBSET Keys]
    /\ JobLess \subseteq Values
    /\ Blank # Missing /\ {Blank, Missing} \cap [Keys -> Values \cup {NoValue, NoEntry}] = {}
    /\ NoValue \notin Values /\ NoEntry \notin Values /\ NoValue # NoEntry
    /\ MaxRecords \in Nat /\ MaxKills \in Nat

\* The main thread of a process acts under the name of the process.
Actors       == Processes \cup Threads
Process(a)   == IF a \in Processes THEN a ELSE ProcessOf[a]
Dicts        == [Keys -> Values \cup {NoValue, NoEntry}]
EmptyDict    == [k \in Keys |-> NoEntry]

VARIABLES
    data,      \* the content of the file
    lock,      \* who holds the lock on STATUS_LOCK
    pc,        \* where each actor is
    dict,      \* status_dict of each actor
    entry,     \* the key and value that an actor records
    records, kills,
    recorded,  \* history: the value last written for each key
    complete   \* history: processes whose start completed the file since the last kill

vars == <<data, lock, pc, dict, entry, records, kills, recorded, complete>>

Goto(a, place) == pc' = [pc EXCEPT ![a] = place]

Init ==
    /\ data = Missing /\ lock = Nobody
    /\ pc = [a \in Actors |-> "off"]
    /\ dict = [a \in Actors |-> EmptyDict]
    /\ entry \in [Actors -> Keys \X Values] /\ \A a, b \in Actors : entry[a] = entry[b]
    /\ records = 0 /\ kills = 0
    /\ recorded = [k \in Keys |-> NoEntry] /\ complete = {}

\* A process starts: _create_virt_backends calls _init_run_status.
Start(p) ==
    /\ pc[p] = "off"
    /\ Goto(p, "acquire")
    /\ UNCHANGED <<data, lock, dict, entry, records, kills, recorded, complete>>

\* A destination thread has something to record.
Record(t) ==
    /\ pc[t] = "idle" /\ ProcessOf[t] \notin StatusRuns /\ records < MaxRecords
    /\ records' = records + 1
    /\ \E k \in KeysOf[ProcessOf[t]], v \in Values : entry' = [entry EXCEPT ![t] = <<k, v>>]
    /\ Goto(t, "acquire")
    /\ UNCHANGED <<data, lock, dict, kills, recorded, complete>>

\* A thread of --status wants the entries of its configuration.
Merge(t) ==
    /\ pc[t] = "idle" /\ ProcessOf[t] \in StatusRuns
    /\ Goto(t, "acquireMerge")
    /\ UNCHANGED <<data, lock, dict, entry, records, kills, recorded, complete>>

\* FileLock.__enter__: flock without blocking, every 0.2 s ...
Acquire(a) ==
    /\ pc[a] \in {"acquire", "acquireMerge"} /\ lock = Nobody
    /\ lock' = a
    /\ Goto(a, IF pc[a] = "acquire" THEN "read" ELSE "readMerge")
    /\ UNCHANGED <<data, dict, entry, records, kills, recorded, complete>>

\* The end of a with block, and where the actor goes on: the threads of a
\* process start when its main thread has completed the file, or given up.
Continue(a) ==
    pc' = [b \in Actors |-> IF b = a THEN (IF a \in Processes THEN "on" ELSE "idle")
                            ELSE IF a \in Processes /\ b \in Threads /\ Process(b) = a
                            THEN "idle" ELSE pc[b]]

\* ... until the timeout: IOError, which every caller logs and ignores.
TimeOut(a) ==
    /\ pc[a] \in {"acquire", "acquireMerge"} /\ lock # Nobody
    /\ Continue(a)
    /\ UNCHANGED <<data, lock, dict, entry, records, kills, recorded, complete>>

\* The read of _init_run_status: an empty or a missing file is an empty dict.
\* What is missing is added, and the file written if anything was.
NeedsWriteOnlyNew(full, found) == data \in {Missing, Blank}
NeedsWrite(full, found)        == full # found \/ data \in {Missing, Blank}
ReadAtStart(p) ==
    /\ pc[p] = "read" /\ p \in Processes
    /\ LET found == IF data \in {Missing, Blank} THEN EmptyDict ELSE data
           full  == [k \in Keys |-> IF k \in KeysOf[p] /\ found[k] = NoEntry
                                    THEN NoValue ELSE found[k]]
       IN  /\ dict' = [dict EXCEPT ![p] = full]
           /\ Goto(p, IF NeedsWrite(full, found) THEN "truncate" ELSE "release")
    /\ UNCHANGED <<data, lock, entry, records, kills, recorded, complete>>

\* The read of record_status.  No file is an IOError; an empty file is not, and
\* the exception ends the sending of the reports.
HeldAfterReadNot(t) == Nobody
HeldAfterRead(t)    == lock
ReadToRecord(t) ==
    /\ pc[t] = "read" /\ t \in Threads
    /\ IF data \in {Missing, Blank}
       THEN /\ Goto(t, IF data = Missing THEN "release" ELSE "fail")
            /\ UNCHANGED <<dict, lock>>
       ELSE /\ dict' = [dict EXCEPT ![t] = [data EXCEPT ![entry[t][1]] = entry[t][2]]]
            /\ lock' = HeldAfterRead(t)
            /\ Goto(t, "truncate")
    /\ UNCHANGED <<data, entry, records, kills, recorded, complete>>

\* The read of merge_run_data: a missing entry, and one without the job id that
\* only a check-in records, raise as well (KeyError).
ReadToMerge(t) ==
    /\ pc[t] = "readMerge"
    /\ Goto(t, IF data = Missing THEN "release"
               ELSE IF data = Blank \/ \E k \in KeysOf[ProcessOf[t]] :
                                          data[k] \in JobLess \cup {NoEntry}
               THEN "fail" ELSE "release")
    /\ UNCHANGED <<data, lock, dict, entry, records, kills, recorded, complete>>

\* open(..., 'w')
Truncate(a) ==
    /\ pc[a] = "truncate"
    /\ data' = Blank
    /\ Goto(a, "dump")
    /\ UNCHANGED <<lock, dict, entry, records, kills, recorded, complete>>

\* json.dump and the close of the file
Dump(a) ==
    /\ pc[a] = "dump"
    /\ data' = dict[a]
    /\ recorded' = IF a \in Threads THEN [recorded EXCEPT ![entry[a][1]] = entry[a][2]]
                   ELSE recorded
    /\ Goto(a, "release")
    /\ UNCHANGED <<lock, dict, entry, records, kills, complete>>

\* FileLock.__exit__, after an exception too.  An exception of a thread is
\* caught in IntervalThread.run, which starts over.
Release(a) ==
    /\ pc[a] \in {"release", "fail"}
    /\ lock' = Nobody
    /\ dict' = [dict EXCEPT ![a] = EmptyDict]
    /\ complete' = IF a \in Processes THEN complete \cup {a} ELSE complete
    /\ Continue(a)
    /\ UNCHANGED <<data, entry, records, kills, recorded>>

\* A process ends: its threads have been joined.
Exit(p) ==
    /\ pc[p] = "on" /\ \A t \in Threads : ProcessOf[t] = p => pc[t] = "idle"
    /\ pc' = [a \in Actors |-> IF Process(a) = p THEN "off" ELSE pc[a]]
    /\ complete' = complete \ {p}
    /\ UNCHANGED <<data, lock, dict, entry, records, kills, recorded>>

\* A process is killed: its locks go, the file stays as it is.
Kill(p) ==
    /\ pc[p] # "off" /\ kills < MaxKills
    /\ kills' = kills + 1
    /\ pc' = [a \in Actors |-> IF Process(a) = p THEN "off" ELSE pc[a]]
    /\ dict' = [a \in Actors |-> IF Process(a) = p THEN EmptyDict ELSE dict[a]]
    /\ lock' = IF lock # Nobody /\ Process(lock) = p THEN Nobody ELSE lock
    /\ complete' = {}
    /\ UNCHANGED <<data, entry, records, recorded>>

Next == \/ \E p \in Processes : Start(p) \/ ReadAtStart(p) \/ Exit(p) \/ Kill(p)
        \/ \E t \in Threads : Record(t) \/ Merge(t) \/ ReadToRecord(t) \/ ReadToMerge(t)
        \/ \E a \in Actors : Acquire(a) \/ TimeOut(a) \/ Truncate(a) \/ Dump(a) \/ Release(a)

Spec == Init /\ [][Next]_vars

-----------------------------------------------------------------------------
TypeOK ==
    /\ data \in Dicts \cup {Blank, Missing}
    /\ lock \in Actors \cup {Nobody}
    /\ pc \in [Actors -> {"off", "acquire", "acquireMerge", "read", "readMerge", "truncate",
                          "dump", "release", "fail", "idle", "on"}]
    /\ dict \in [Actors -> Dicts]
    /\ entry \in [Actors -> Keys \X Values]
    /\ records \in Nat /\ kills \in Nat
    /\ recorded \in [Keys -> Values \cup {NoEntry}]
    /\ complete \subseteq Processes

\* Types, and: an actor is inside a with block exactly while it holds the lock,
\* also across the kill of a process and the exceptions of its threads, so that
\* the lock is never left behind (FileLock.__enter__ and __exit__).
Exclusive ==
    /\ TypeOK
    /\ \A a \in Actors : lock = a <=> pc[a] \in {"read", "readMerge", "truncate", "dump",
                                                "release", "fail"}

\* An update is never lost to another thread or process: as long as nobody is
\* killed, the file holds what was written last for every key whenever the lock
\* is free ("Gains exclusive access to the run data file", record_status).
NothingLost ==
    kills = 0 /\ lock = Nobody =>
        \A k \in Keys : recorded[k] \in Values => data \in Dicts /\ data[k] = recorded[k]

\* A process that got the lock when it started finds the entries of its own
\* configurations from then on, also when the file was cut short before: until
\* somebody is killed, none of its threads meets an unreadable file or misses
\* an entry; what is left to fail on is an entry without a job id
\* (_init_run_status, record_status, merge_run_data).
StartRepairs ==
    \A p \in complete :
        /\ lock = Nobody => data \in Dicts /\ \A k \in KeysOf[p] : data[k] # NoEntry
        /\ \A t \in Threads : ProcessOf[t] = p /\ pc[t] = "fail" =>
               data \in Dicts /\ \E k \in KeysOf[p] : data[k] \in JobLess

\* What makes these inductive.  The threads of a process live while its main
\* thread is past the start; only the holder of the lock may have truncated the
\* file, and what it is about to write is the file with its own entry replaced.
Places ==
    \A p \in Processes :
        /\ pc[p] \in {"off", "acquire", "read", "truncate", "dump", "release", "on"}
        /\ pc[p] # "on" => \A t \in Threads : ProcessOf[t] = p => pc[t] = "off"
Writing(a) == pc[a] \in {"truncate", "dump"}
Replaces ==
    kills = 0 => \A k \in Keys : recorded[k] \in Values =>
        /\ (\A a \in Actors : pc[a] # "dump") => data \in Dicts /\ data[k] = recorded[k]
        /\ \A a \in Actors : Writing(a) =>
               \/ dict[a][k] = recorded[k]
               \/ a \in Threads /\ entry[a][1] = k
ReplacesOwn ==
    \A t \in Threads : Writing(t) => dict[t][entry[t][1]] = entry[t][2]
Has(d, p) == d \in Dicts /\ \A k \in KeysOf[p] : d[k] # NoEntry
Keeps ==
    \A p \in complete :
        /\ (\A a \in Actors : pc[a] # "dump") => Has(data, p)
        /\ \A a \in Actors : Writing(a) => Has(dict[a], p)
Completes ==
    \A p \in Processes : /\ Writing(p) => Has(dict[p], p)
                         /\ pc[p] = "release" => Has(data, p)
Fails ==
    \A t \in Threads : pc[t] = "fail" /\ ProcessOf[t] \in complete =>
        data \in Dicts /\ \E k \in KeysOf[ProcessOf[t]] : data[k] \in JobLess
RInv == Exclusive /\ Places /\ Replaces /\ ReplacesOwn /\ Keeps /\ Completes /\ Fails

\* virt-who --status merges the run data into its report ("incorporate the run
\* data into the report for the next step", virt.py:750), unless somebody was
\* killed or its start did not get the lock.
StatusMerges == \A t \in Threads : pc[t] = "fail" => ProcessOf[t] \notin complete

=============================================================================
