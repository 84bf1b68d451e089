--------------------------- MODULE RunDataProofs ---------------------------
(***************************************************************************)
(* Proofs for RunData: the inductive invariant RInv, and from it that no   *)
(* update of run_data.json is lost, that the lock is never left behind,    *)
(* and that a start repairs the file.                                      *)
(***************************************************************************)
EXTENDS RunData, TLAPS

-----------------------------------------------------------------------------
(* Steps of the main threads.                                              *)

\* Start: a process asks for the lock first.
LEMMA StartKeeps ==
    ASSUME RInv, NEW p \in Processes, Start(p)
    PROVE  RInv'
<1> USE RunDataAssumption DEF RunDataAssumption
<1>1. TypeOK'
  BY DEF Start, Goto, RInv, Exclusive, TypeOK, Actors
<1>2. Exclusive'
  BY <1>1 DEF Start, Goto, RInv, Exclusive, TypeOK, Actors
<1>3. Places'
  BY DEF Start, Goto, RInv, Exclusive, TypeOK, Actors, Places
<1>4. Replaces'
  BY DEF Start, Goto, RInv, Exclusive, TypeOK, Actors, Writing, Replaces
<1>5. ReplacesOwn'
  BY DEF Start, Goto, RInv, Exclusive, TypeOK, Actors, Writing, ReplacesOwn
<1>6. Keeps'
  BY DEF Start, Goto, RInv, Exclusive, TypeOK, Actors, Writing, Keeps, Places
<1>7. Completes'
  BY DEF Start, Goto, RInv, Exclusive, TypeOK, Actors, Writing, Completes,
    Places
<1>8. Fails'
  BY DEF Start, Goto, RInv, Exclusive, TypeOK, Actors, Fails
<1>9. QED
  BY <1>2, <1>3, <1>4, <1>5, <1>6, <1>7, <1>8 DEF RInv

\* ReadAtStart: what the start will write is the file with what was missing.
LEMMA ReadAtStartKeeps ==
    ASSUME RInv, NEW p \in Processes, ReadAtStart(p)
    PROVE  RInv'
<1> USE RunDataAssumption DEF RunDataAssumption
<1>1. TypeOK'
  BY DEF ReadAtStart, Goto, RInv, Exclusive, TypeOK, Actors, Dicts,
    EmptyDict, NeedsWrite
<1>2. Exclusive'
  BY <1>1 DEF ReadAtStart, Goto, RInv, Exclusive, TypeOK, Actors, NeedsWrite
<1>3. Places'
  BY DEF ReadAtStart, Goto, RInv, Exclusive, TypeOK, Actors, Places,
    NeedsWrite
<1>4. Replaces'
  BY DEF ReadAtStart, Goto, RInv, Exclusive, TypeOK, Actors, Writing,
    Replaces, NeedsWrite, EmptyDict, Dicts
<1>5. ReplacesOwn'
  BY DEF ReadAtStart, Goto, RInv, Exclusive, TypeOK, Actors, Writing,
    ReplacesOwn, NeedsWrite, EmptyDict, Dicts
<1>6. Keeps'
  BY DEF ReadAtStart, Goto, RInv, Exclusive, TypeOK, Actors, Writing, Keeps,
    NeedsWrite, EmptyDict, Dicts, Has, Places
<1>7. Completes'
  BY DEF ReadAtStart, Goto, RInv, Exclusive, TypeOK, Actors, Writing,
    Completes, NeedsWrite, EmptyDict, Dicts, Has, Places
<1>8. Fails'
  BY DEF ReadAtStart, Goto, RInv, Exclusive, TypeOK, Actors, Fails
<1>9. QED
  BY <1>2, <1>3, <1>4, <1>5, <1>6, <1>7, <1>8 DEF RInv

\* Exit: only a process whose threads are idle ends.
LEMMA ExitKeeps ==
    ASSUME RInv, NEW p \in Processes, Exit(p)
    PROVE  RInv'
<1> USE RunDataAssumption DEF RunDataAssumption
<1>1. TypeOK'
  BY DEF Exit, RInv, Exclusive, TypeOK, Actors, Process
<1>2. Exclusive'
  BY <1>1 DEF Exit, RInv, Exclusive, TypeOK, Actors, Process, Places
<1>3. Places'
  BY DEF Exit, RInv, Exclusive, TypeOK, Actors, Places, Process
<1>4. Replaces'
  BY DEF Exit, RInv, Exclusive, TypeOK, Actors, Writing, Replaces, Process
<1>5. ReplacesOwn'
  BY DEF Exit, RInv, Exclusive, TypeOK, Actors, Writing, ReplacesOwn, Process
<1>6. Keeps'
  BY DEF Exit, RInv, Exclusive, TypeOK, Actors, Writing, Keeps, Process
<1>7. Completes'
  BY DEF Exit, RInv, Exclusive, TypeOK, Actors, Writing, Completes, Process
<1>8. Fails'
  BY DEF Exit, RInv, Exclusive, TypeOK, Actors, Fails, Process, Places
<1>9. QED
  BY <1>2, <1>3, <1>4, <1>5, <1>6, <1>7, <1>8 DEF RInv

\* Kill: a kill frees the lock and voids what was promised of starts.
LEMMA KillKeeps ==
    ASSUME RInv, NEW p \in Processes, Kill(p)
    PROVE  RInv'
<1> USE RunDataAssumption DEF RunDataAssumption
<1>1. TypeOK'
  BY DEF Kill, RInv, Exclusive, TypeOK, Actors, Dicts, EmptyDict, Process
<1>2. Exclusive'
  BY <1>1 DEF Kill, RInv, Exclusive, TypeOK, Actors, Process, Places
<1>3. Places'
  BY DEF Kill, RInv, Exclusive, TypeOK, Actors, Places, Process
<1>4. Replaces'
  BY DEF Kill, RInv, Exclusive, TypeOK, Actors, Writing, Replaces, Process,
    Places
<1>5. ReplacesOwn'
  BY DEF Kill, RInv, Exclusive, TypeOK, Actors, Writing, ReplacesOwn,
    Process, Places
<1>6. Keeps'
  BY DEF Kill, RInv, Exclusive, TypeOK, Actors, Writing, Keeps, Process
<1>7. Completes'
  BY DEF Kill, RInv, Exclusive, TypeOK, Actors, Writing, Completes, Process,
    Places
<1>8. Fails'
  BY DEF Kill, RInv, Exclusive, TypeOK, Actors, Fails, Process, Places
<1>9. QED
  BY <1>2, <1>3, <1>4, <1>5, <1>6, <1>7, <1>8 DEF RInv

-----------------------------------------------------------------------------
(* Steps of the destination threads.                                       *)

\* Record: a thread gets a new entry to record while it writes nothing.
LEMMA RecordKeeps ==
    ASSUME RInv, NEW t \in Threads, Record(t)
    PROVE  RInv'
<1> USE RunDataAssumption DEF RunDataAssumption
<1>1. TypeOK'
  BY DEF Record, Goto, RInv, Exclusive, TypeOK, Actors
<1>2. Exclusive'
  BY <1>1 DEF Record, Goto, RInv, Exclusive, TypeOK, Actors
<1>3. Places'
  BY DEF Record, Goto, RInv, Exclusive, TypeOK, Actors, Places
<1>4. Replaces'
  BY DEF Record, Goto, RInv, Exclusive, TypeOK, Actors, Writing, Replaces
<1>5. ReplacesOwn'
  BY DEF Record, Goto, RInv, Exclusive, TypeOK, Actors, Writing, ReplacesOwn
<1>6. Keeps'
  BY DEF Record, Goto, RInv, Exclusive, TypeOK, Actors, Writing, Keeps
<1>7. Completes'
  BY DEF Record, Goto, RInv, Exclusive, TypeOK, Actors, Writing, Completes
<1>8. Fails'
  BY DEF Record, Goto, RInv, Exclusive, TypeOK, Actors, Fails
<1>9. QED
  BY <1>2, <1>3, <1>4, <1>5, <1>6, <1>7, <1>8 DEF RInv

\* Merge: a thread that will only read.
LEMMA MergeKeeps ==
    ASSUME RInv, NEW t \in Threads, Merge(t)
    PROVE  RInv'
<1> USE RunDataAssumption DEF RunDataAssumption
<1>1. TypeOK'
  BY DEF Merge, Goto, RInv, Exclusive, TypeOK, Actors
<1>2. Exclusive'
  BY <1>1 DEF Merge, Goto, RInv, Exclusive, TypeOK, Actors
<1>3. Places'
  BY DEF Merge, Goto, RInv, Exclusive, TypeOK, Actors, Places
<1>4. Replaces'
  BY DEF Merge, Goto, RInv, Exclusive, TypeOK, Actors, Writing, Replaces
<1>5. ReplacesOwn'
  BY DEF Merge, Goto, RInv, Exclusive, TypeOK, Actors, Writing, ReplacesOwn
<1>6. Keeps'
  BY DEF Merge, Goto, RInv, Exclusive, TypeOK, Actors, Writing, Keeps
<1>7. Completes'
  BY DEF Merge, Goto, RInv, Exclusive, TypeOK, Actors, Writing, Completes
<1>8. Fails'
  BY DEF Merge, Goto, RInv, Exclusive, TypeOK, Actors, Fails
<1>9. QED
  BY <1>2, <1>3, <1>4, <1>5, <1>6, <1>7, <1>8 DEF RInv

\* ReadToRecord: what the thread will write is the file with its own entry replaced.
LEMMA ReadToRecordKeeps ==
    ASSUME RInv, NEW t \in Threads, ReadToRecord(t)
    PROVE  RInv'
<1> USE RunDataAssumption DEF RunDataAssumption
<1>a. entry[t][1] \in Keys /\ entry[t][2] \in Values
  BY DEF RInv, Exclusive, TypeOK, Actors
<1>b. \A b \in Actors : b # t => ~Writing(b)
  BY DEF ReadToRecord, RInv, Exclusive, TypeOK, Actors, Writing
<1>c. ~Writing(t)
  BY DEF ReadToRecord, Writing
<1>d. ProcessOf[t] \in complete => Has(data, ProcessOf[t])
  BY <1>b, <1>c DEF RInv, Keeps, Writing, Actors
<1>1. CASE data \in {Missing, Blank}
  <2>a. UNCHANGED <<data, lock, dict, entry, records, kills, recorded, complete>>
    BY <1>1 DEF ReadToRecord
  <2>b. /\ pc' = [pc EXCEPT ![t] = pc'[t]]
        /\ pc[t] = "read" /\ pc'[t] \in {"release", "fail"}
    BY <1>1 DEF ReadToRecord, Goto, RInv, Exclusive, TypeOK, Actors
  <2>c. TypeOK'
    <3>1. pc' \in [Actors -> {"off", "acquire", "acquireMerge", "read", "readMerge",
                             "truncate", "dump", "release", "fail", "idle", "on"}]
      BY <2>b DEF RInv, Exclusive, TypeOK
    <3>2. QED
      BY <2>a, <3>1 DEF RInv, Exclusive, TypeOK
  <2>d. pc'[t] \in {"release", "fail"} /\ \A b \in Actors : b # t => pc'[b] = pc[b]
    BY <2>b DEF RInv, Exclusive, TypeOK
  <2>1. Exclusive'
    BY <2>a, <2>b, <2>c, <2>d DEF RInv, Exclusive
  <2>2. Places'
    BY <1>1 DEF ReadToRecord, Goto, RInv, Places, Exclusive, TypeOK, Actors
  <2>3. Replaces'
    BY <1>1 DEF ReadToRecord, Goto, RInv, Replaces, Exclusive, TypeOK, Writing, Actors
  <2>4. ReplacesOwn'
    BY <1>1 DEF ReadToRecord, Goto, RInv, ReplacesOwn, Exclusive, TypeOK, Writing, Actors
  <2>5. Keeps'
    BY <1>1 DEF ReadToRecord, Goto, RInv, Keeps, Exclusive, TypeOK, Writing, Actors
  <2>6. Completes'
    BY <1>1 DEF ReadToRecord, Goto, RInv, Completes, Exclusive, TypeOK, Writing, Actors
  <2>7. ProcessOf[t] \notin complete
    BY <1>1, <1>d DEF Has, Dicts
  <2>8. Fails'
    BY <1>1, <2>7 DEF ReadToRecord, Goto, RInv, Fails, Exclusive, TypeOK, Actors
  <2>9. QED
    BY <2>1, <2>2, <2>3, <2>4, <2>5, <2>6, <2>8 DEF RInv
<1>2. CASE data \notin {Missing, Blank}
  <2> DEFINE new == [data EXCEPT ![entry[t][1]] = entry[t][2]]
  <2>1. /\ data \in Dicts /\ new \in Dicts
        /\ new[entry[t][1]] = entry[t][2]
        /\ \A k \in Keys : k # entry[t][1] => new[k] = data[k]
    BY <1>2, <1>a DEF RInv, Exclusive, TypeOK, Dicts
  <2>2. dict' = [dict EXCEPT ![t] = new] /\ lock' = lock /\ Goto(t, "truncate")
    BY <1>2 DEF ReadToRecord, HeldAfterRead
  <2> HIDE DEF new
  <2>3. dict'[t] = new /\ \A b \in Actors : b # t => dict'[b] = dict[b]
    BY <2>2 DEF RInv, Exclusive, TypeOK, Actors
  <2>4. pc'[t] = "truncate" /\ \A b \in Actors : b # t => pc'[b] = pc[b]
    BY <2>2 DEF Goto, RInv, Exclusive, TypeOK, Actors
  <2>5. UNCHANGED <<data, entry, records, kills, recorded, complete>>
    BY DEF ReadToRecord
  <2>6. Exclusive'
    BY <2>1, <2>2, <2>5 DEF ReadToRecord, Goto, RInv, Exclusive, TypeOK, Actors
  <2>7. Places'
    BY <2>2, <2>5 DEF ReadToRecord, Goto, RInv, Places, Exclusive, TypeOK, Actors
  <2>8. kills = 0 => \A k \in Keys : recorded[k] \in Values => data[k] = recorded[k]
    BY <1>b, <1>c DEF RInv, Replaces, Writing, Actors
  <2>9. Replaces'
    BY <1>b, <2>1, <2>3, <2>4, <2>5, <2>8 DEF Replaces, Writing, Actors
  <2>10. ReplacesOwn'
    BY <2>1, <2>3, <2>4, <2>5 DEF RInv, ReplacesOwn, Writing, Actors
  <2>11. \A p \in complete : Has(data, p) /\ Has(new, p)
    BY <1>a, <1>b, <1>c, <2>1 DEF RInv, Exclusive, TypeOK, Keeps, Has, Writing, Actors
  <2>12. Keeps'
    BY <1>b, <2>3, <2>4, <2>5, <2>11 DEF Keeps, Writing, Actors
  <2>13. Completes'
    BY <2>3, <2>4, <2>5 DEF RInv, Completes, Writing, Actors
  <2>14. Fails'
    BY <2>4, <2>5 DEF RInv, Fails, Actors
  <2>15. QED
    BY <2>6, <2>7, <2>9, <2>10, <2>12, <2>13, <2>14 DEF RInv
<1>3. QED
  BY <1>1, <1>2

\* ReadToMerge: it fails only on an entry that has no job id.
LEMMA ReadToMergeKeeps ==
    ASSUME RInv, NEW t \in Threads, ReadToMerge(t)
    PROVE  RInv'
<1> USE RunDataAssumption DEF RunDataAssumption
<1>1. TypeOK'
  BY DEF ReadToMerge, Goto, RInv, Exclusive, TypeOK, Actors
<1>2. Exclusive'
  BY <1>1 DEF ReadToMerge, Goto, RInv, Exclusive, TypeOK, Actors
<1>3. Places'
  BY DEF ReadToMerge, Goto, RInv, Exclusive, TypeOK, Actors, Places
<1>4. Replaces'
  BY DEF ReadToMerge, Goto, RInv, Exclusive, TypeOK, Actors, Writing,
    Replaces
<1>5. ReplacesOwn'
  BY DEF ReadToMerge, Goto, RInv, Exclusive, TypeOK, Actors, Writing,
    ReplacesOwn
<1>6. Keeps'
  BY DEF ReadToMerge, Goto, RInv, Exclusive, TypeOK, Actors, Writing, Keeps
<1>7. Completes'
  BY DEF ReadToMerge, Goto, RInv, Exclusive, TypeOK, Actors, Writing,
    Completes
<1>a. ProcessOf[t] \in complete => Has(data, ProcessOf[t])
  BY DEF ReadToMerge, RInv, Exclusive, TypeOK, Keeps, Actors
<1>8. Fails'
  <2>1. pc'[t] = "fail" /\ ProcessOf[t] \in complete =>
            data \in Dicts /\ \E k \in KeysOf[ProcessOf[t]] : data[k] \in JobLess
    BY <1>a DEF ReadToMerge, Goto, RInv, Exclusive, TypeOK, Actors, Has, Dicts
  <2>2. \A u \in Threads : u # t => pc'[u] = pc[u]
    BY DEF ReadToMerge, Goto, RInv, Exclusive, TypeOK, Actors
  <2>3. QED
    BY <2>1, <2>2 DEF ReadToMerge, RInv, Fails
<1>9. QED
  BY <1>2, <1>3, <1>4, <1>5, <1>6, <1>7, <1>8 DEF RInv

-----------------------------------------------------------------------------
(* Steps of both.                                                          *)

\* Acquire: nobody else is in a block.
LEMMA AcquireKeeps ==
    ASSUME RInv, NEW a \in Actors, Acquire(a)
    PROVE  RInv'
<1> USE RunDataAssumption DEF RunDataAssumption
<1>1. TypeOK'
  BY DEF Acquire, Goto, RInv, Exclusive, TypeOK, Actors
<1>2. Exclusive'
  BY <1>1 DEF Acquire, Goto, RInv, Exclusive, TypeOK, Actors
<1>3. Places'
  BY DEF Acquire, Goto, RInv, Exclusive, TypeOK, Actors, Places
<1>4. Replaces'
  BY DEF Acquire, Goto, RInv, Exclusive, TypeOK, Actors, Writing, Replaces
<1>5. ReplacesOwn'
  BY DEF Acquire, Goto, RInv, Exclusive, TypeOK, Actors, Writing, ReplacesOwn
<1>6. Keeps'
  BY DEF Acquire, Goto, RInv, Exclusive, TypeOK, Actors, Writing, Keeps
<1>7. Completes'
  BY DEF Acquire, Goto, RInv, Exclusive, TypeOK, Actors, Writing, Completes
<1>8. Fails'
  BY DEF Acquire, Goto, RInv, Exclusive, TypeOK, Actors, Fails
<1>9. QED
  BY <1>2, <1>3, <1>4, <1>5, <1>6, <1>7, <1>8 DEF RInv

\* TimeOut: giving up touches neither the file nor the lock.
LEMMA TimeOutKeeps ==
    ASSUME RInv, NEW a \in Actors, TimeOut(a)
    PROVE  RInv'
<1> USE RunDataAssumption DEF RunDataAssumption
<1>1. TypeOK'
  BY DEF TimeOut, Continue, RInv, Exclusive, TypeOK, Actors, Process
<1>2. Exclusive'
  BY <1>1 DEF TimeOut, Continue, RInv, Exclusive, TypeOK, Actors, Process,
    Places
<1>3. Places'
  BY DEF TimeOut, Continue, RInv, Exclusive, TypeOK, Actors, Places, Process
<1>4. Replaces'
  <2>1. \A b \in Actors : Writing(b)' <=> Writing(b)
    BY DEF TimeOut, Continue, RInv, Exclusive, TypeOK, Actors, Process, Places, Writing
  <2>2. \A b \in Actors : pc'[b] = "dump" <=> pc[b] = "dump"
    BY DEF TimeOut, Continue, RInv, Exclusive, TypeOK, Actors, Process, Places
  <2>3. QED
    BY <2>1, <2>2 DEF TimeOut, RInv, Replaces
<1>5. ReplacesOwn'
  BY DEF TimeOut, Continue, RInv, Exclusive, TypeOK, Actors, Writing,
    ReplacesOwn, Process
<1>6. Keeps'
  BY DEF TimeOut, Continue, RInv, Exclusive, TypeOK, Actors, Writing, Keeps,
    Process, Places
<1>7. Completes'
  BY DEF TimeOut, Continue, RInv, Exclusive, TypeOK, Actors, Writing,
    Completes, Process, Places
<1>8. Fails'
  BY DEF TimeOut, Continue, RInv, Exclusive, TypeOK, Actors, Fails, Process,
    Places
<1>9. QED
  BY <1>2, <1>3, <1>4, <1>5, <1>6, <1>7, <1>8 DEF RInv

\* Truncate: the holder alone has the content from now on.
LEMMA TruncateKeeps ==
    ASSUME RInv, NEW a \in Actors, Truncate(a)
    PROVE  RInv'
<1> USE RunDataAssumption DEF RunDataAssumption
<1>1. TypeOK'
  BY DEF Truncate, Goto, RInv, Exclusive, TypeOK, Actors
<1>2. Exclusive'
  BY <1>1 DEF Truncate, Goto, RInv, Exclusive, TypeOK, Actors
<1>3. Places'
  BY DEF Truncate, Goto, RInv, Exclusive, TypeOK, Actors, Places
<1>4. Replaces'
  BY DEF Truncate, Goto, RInv, Exclusive, TypeOK, Actors, Writing, Replaces
<1>5. ReplacesOwn'
  BY DEF Truncate, Goto, RInv, Exclusive, TypeOK, Actors, Writing,
    ReplacesOwn
<1>6. Keeps'
  BY DEF Truncate, Goto, RInv, Exclusive, TypeOK, Actors, Writing, Keeps
<1>7. Completes'
  BY DEF Truncate, Goto, RInv, Exclusive, TypeOK, Actors, Writing, Completes
<1>8. Fails'
  BY DEF Truncate, Goto, RInv, Exclusive, TypeOK, Actors, Fails
<1>9. QED
  BY <1>2, <1>3, <1>4, <1>5, <1>6, <1>7, <1>8 DEF RInv

\* Dump: the content is back, with the entry that was recorded.
LEMMA DumpKeeps ==
    ASSUME RInv, NEW a \in Actors, Dump(a)
    PROVE  RInv'
<1> USE RunDataAssumption DEF RunDataAssumption
<1>1. TypeOK'
  BY DEF Dump, Goto, RInv, Exclusive, TypeOK, Actors, Dicts
<1>2. Exclusive'
  BY <1>1 DEF Dump, Goto, RInv, Exclusive, TypeOK, Actors
<1>3. Places'
  BY DEF Dump, Goto, RInv, Exclusive, TypeOK, Actors, Places
<1>4. Replaces'
  BY DEF Dump, Goto, RInv, Exclusive, TypeOK, Actors, Writing, Replaces,
    ReplacesOwn
<1>5. ReplacesOwn'
  BY DEF Dump, Goto, RInv, Exclusive, TypeOK, Actors, Writing, ReplacesOwn
<1>6. Keeps'
  BY DEF Dump, Goto, RInv, Exclusive, TypeOK, Actors, Writing, Keeps, Places
<1>7. Completes'
  BY DEF Dump, Goto, RInv, Exclusive, TypeOK, Actors, Writing, Completes,
    Places
<1>8. Fails'
  BY DEF Dump, Goto, RInv, Exclusive, TypeOK, Actors, Fails
<1>9. QED
  BY <1>2, <1>3, <1>4, <1>5, <1>6, <1>7, <1>8 DEF RInv

\* Release: the start of a process has completed the file by now.
LEMMA ReleaseKeeps ==
    ASSUME RInv, NEW a \in Actors, Release(a)
    PROVE  RInv'
<1> USE RunDataAssumption DEF RunDataAssumption
<1>1. TypeOK'
  BY DEF Release, Continue, RInv, Exclusive, TypeOK, Actors, Dicts,
    EmptyDict, Process
<1>2. Exclusive'
  BY <1>1 DEF Release, Continue, RInv, Exclusive, TypeOK, Actors, Process,
    Places
<1>3. Places'
  BY DEF Release, Continue, RInv, Exclusive, TypeOK, Actors, Places, Process
<1>4. Replaces'
  BY DEF Release, Continue, RInv, Exclusive, TypeOK, Actors, Writing,
    Replaces, Process, Places
<1>5. ReplacesOwn'
  BY DEF Release, Continue, RInv, Exclusive, TypeOK, Actors, Writing,
    ReplacesOwn, Process, Places
<1>6. Keeps'
  BY DEF Release, Continue, RInv, Exclusive, TypeOK, Actors, Writing, Keeps,
    Process, Places, Completes
<1>7. Completes'
  BY DEF Release, Continue, RInv, Exclusive, TypeOK, Actors, Writing,
    Completes, Process, Places
<1>8. Fails'
  BY DEF Release, Continue, RInv, Exclusive, TypeOK, Actors, Fails, Process,
    Places
<1>9. QED
  BY <1>2, <1>3, <1>4, <1>5, <1>6, <1>7, <1>8 DEF RInv

-----------------------------------------------------------------------------
\* There is no file yet.
LEMMA InitRInv == Init => RInv
<1> SUFFICES ASSUME Init PROVE RInv
  OBVIOUS
<1> USE RunDataAssumption DEF RunDataAssumption
<1>1. Exclusive
  BY DEF Init, Exclusive, TypeOK, Actors, Dicts, EmptyDict
<1>2. Places /\ Replaces /\ ReplacesOwn
  BY DEF Init, Places, Replaces, ReplacesOwn, Writing, Actors
<1>3. Keeps /\ Completes /\ Fails
  BY DEF Init, Keeps, Completes, Fails, Writing, Actors
<1>4. QED
  BY <1>1, <1>2, <1>3 DEF RInv

\* A step of somebody else.
LEMMA StutterRInv == ASSUME RInv, UNCHANGED vars PROVE RInv'
<1>1. Exclusive'
  BY DEF RInv, vars, Exclusive, TypeOK
<1>2. Places' /\ Replaces' /\ ReplacesOwn'
  BY DEF RInv, vars, Places, Replaces, ReplacesOwn, Writing
<1>3. Keeps' /\ Completes' /\ Fails'
  BY DEF RInv, vars, Keeps, Completes, Fails, Writing, Has
<1>4. QED
  BY <1>1, <1>2, <1>3 DEF RInv

\* The file, the lock and what every actor is about to write stay consistent,
\* whatever processes start, end and are killed (FileLock, record_status,
\* _init_run_status).
THEOREM RunDataInvariance == Spec => []RInv
<1>1. Init => RInv
  BY InitRInv
<1>2. RInv /\ [Next]_vars => RInv'
  BY StartKeeps, ReadAtStartKeeps, ExitKeeps, KillKeeps, RecordKeeps, MergeKeeps,
     ReadToRecordKeeps, ReadToMergeKeeps, AcquireKeeps, TimeOutKeeps,
     TruncateKeeps, DumpKeeps, ReleaseKeeps, StutterRInv DEF Next
<1>3. QED
  BY <1>1, <1>2, PTL DEF Spec

\* An actor is in a with block exactly while it holds the lock (FileLock).
THEOREM LockIsExclusive == Spec => []Exclusive
<1>1. RInv => Exclusive
  BY DEF RInv
<1>2. QED
  BY <1>1, RunDataInvariance, PTL

\* No update of the file is lost to another thread or process (record_status).
THEOREM NoUpdateIsLost == Spec => []NothingLost
<1>1. RInv => NothingLost
  BY RunDataAssumption DEF RunDataAssumption, RInv, Exclusive, TypeOK, Replaces,
     NothingLost, Actors
<1>2. QED
  BY <1>1, RunDataInvariance, PTL

\* A start repairs the file for its own entries (_init_run_status).
THEOREM StartsRepair == Spec => []StartRepairs
<1>1. RInv => StartRepairs
  BY RunDataAssumption DEF RunDataAssumption, RInv, Exclusive, TypeOK, Keeps, Has,
     Fails, StartRepairs, Actors
<1>2. QED
  BY <1>1, RunDataInvariance, PTL

=============================================================================
