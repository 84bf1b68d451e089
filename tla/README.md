# virt-who in TLA+

virt-who reads, from one or more virtualization back ends (ESX, libvirt, Hyper-V,
AHV, KubeVirt, a file), which guests run on which hypervisors, and reports it to a
subscription server (Candlepin through subscription-manager, or Satellite 5).
This directory holds TLA+ modules of the parts of it where order, failure and
concurrency decide whether that works, configurations that check them with TLC, and
proofs checked by TLAPS. `PROJECT.json` maps each definition to source lines.

## 1. The system

### Components, state, operations

| component | state | operations | what makes it correct |
|---|---|---|---|
| `Virt` threads (`virt/virt.py`, one per source; subclasses per back end) | the connection; the time of the next update | read the back end, put a report or an `ErrorReport` | what they put is a whole and the newest mapping; they stop when told |
| `Datastore` (`datastore.py`) | the newest report per source | `put`, `get`, each under a lock | a reader sees whole reports |
| `DestinationThread` (`virt/virt.py`, one per destination) | `last_report_for_source`, `submitted_report_and_hash_for_source`, `is_initial_run` | gather, drop duplicates, ask for jobs, check in, send domain lists, retry | the server ends up with the newest mapping; nothing is dropped that the server has not got; one job at a time per source; it stops when told, and once it is done in oneshot mode |
| `Satellite5DestinationThread` | `last_report_for_source` | one check-in per source | same, without batches and jobs |
| `SubscriptionManager` / `Satellite` managers | connection | `hypervisorCheckIn`, `sendVirtGuests`, `check_report_state`, heartbeat | errors reach the thread as the exception it handles |
| `Executor`, `main` (`executor.py`, `main.py`) | threads, `terminate_event`, the datastore | run, run_oneshot, reload, terminate; handlers of SIGHUP and SIGTERM | every thread is stopped and joined; a reload keeps nothing of the old generation |
| `PIDLock` (`lock.py`) | `/run/virt-who.pid` | `is_locked`, `__enter__`, `__exit__` | at most one daemon; a killed one does not block the next |
| `FileLock`, run data (`lock.py`, `virt.py`, `executor.py`) | `run_data.json`, a lock file | `_init_run_status`, `record_status`, `merge_run_data` | no update is lost; the file is readable, also after a crash |
| configuration (`config.py`, `parser.py`) | effective sections; destinations to sources | parse, validate, map | a source reaches exactly its destination |
| log queue (`log.py`) | a queue, a thread | put, terminate | no thread logs after the sentinel |
| back ends (`virt/*`) | ESX: the version of the update stream and caches; libvirt: connection and event loop; AHV, Hyper-V, KubeVirt: sessions | update, callback, paging, retry | partial or old answers never replace the mapping |
| passwords, migration, utilities | a key file | encrypt, rewrite a configuration | text processing, no concurrency |

### Interaction

The virt threads and destination threads share only the `Datastore` and the
`terminate_event`; `Executor.run` (`executor.py:232-264`) makes both kinds. A destination thread reads the newest report of each source, source by source,
and calls its manager synchronously. An asynchronous server answers a check-in with a
job; `check_report_status` asks for it in later cycles. Signals run in the main
thread: SIGHUP stops and joins all threads and starts over with an empty datastore,
SIGTERM stops them. Processes share the PID file and `run_data.json`.

### What is hard

* answers that do not arrive although the server accepted the request; jobs that fail
  or whose query fails; 429 answers at every request;
* one batch object shared by all the sources it carries;
* reads from the datastore interleaved with puts, and long waits between the
  read of a report and its sending;
* termination while in a retry loop; oneshot with a source that has nothing;
* a reload with jobs outstanding, or on top of another one;
* `stop()` on a session that the virt thread is about to replace;
* processes that are killed between two writes, and helpers next to a daemon.

`PROJECT.json`, "hazards", has each one at its line.

## 2. Modules

| module | models | kind |
|---|---|---|
| `Delivery` | what a destination thread promises each source | abstract specification |
| `Destination` | `DestinationThread` with the datastore, the server and its job queue, termination, reload | specification, properties |
| `DestinationDelivers` | the refinement mapping from `Destination` to `Delivery` | refinement |
| `MCDestination` | a symmetry set for them | TLC |
| `DestinationProofs`, `DeliveryProofs` | theorems on `Destination` and on the refinement | TLAPS |
| `Satellite5`, `Satellite5Proofs` | the destination thread for Satellite 5, its manager, the files of system ids, kills and restarts | specification, TLAPS |
| `Executor`, `ExecutorProofs` | `main`, `Executor`, the handlers of SIGHUP and SIGTERM, the end of the log queue | specification, checked directly; TLAPS |
| `PidLock`, `PidLockProofs` | the PID file over starts, ends and kills of daemons and helpers | specification, TLAPS |
| `RunData`, `RunDataProofs`, `MCRunData` | `run_data.json` and its `FileLock` over processes and threads | specification, TLAPS, TLC |
| `MCFiles` | either of the two files | composition, TLC |
| `EsxUpdates` | the ESX back end: update stream, copy of the inventory, session, `stop()` | specification |
| `Libvirtd` | the libvirt back end: interval loop and event callback on one connection | specification |
| `Ahv` | the AHV back end: pages, retries, the loop after the first mapping | specification |
| `HyperV`, `Kubevirt` | back ends asked once in an interval: namespaces and pulls, nodes and instances | specifications |
| `MCThreads` | a configuration with one thread of any of these kinds | composition, TLC |
| `ThreadsProofs` | theorems on these back ends and their composition | TLAPS |
| `Config`, `ConfigProofs`, `MCConfig` | from the files and options to the sections virt-who runs with, and the destinations they map to | specification, TLAPS, TLC |

In each specification a definition that precedes another one with the same name
and no suffix (`LastHashHasty`, `LastHash`) is a mutated form of it: a plausible mistake.
`PROJECT.json`, "mutants", says which property detects which. No behaviour of the
specification uses the mutated forms.

### Destination and Delivery

`pc` is the place in the call tree of `IntervalThread.run`: `loop` (its head and that of
`_run`), `initial` and `gather` (the two loops of `_get_data_initial`), `get` (the loop of
`_get_data_common`), `poll`, `ask` and `settle` (`check_report_status` and what follows
it), `send`, `checkin`, `guests`, `guestsOf` (`_send_data`), `after`, `error` (the
handler in `run`), `dead`. The other variables have the names of the
attributes and locals they stand for; `jobs` is the list of all check-ins the server
accepted, with what each carries, the server's own state of it and the state that the
batch report object of virt-who was last given. `submitted[s].job` is an index into it:
sources that were sent in one batch share the entry as they share the Python object.

An action covers the code between two points at which another party can act: a read
of the datastore, a look at the terminate event, a request. A request and its
acceptance are one step; that the answer is lost is an action of its own
(`CheckInUnanswered`, `GuestsUnanswered`), as is every exception the caller treats
differently: throttled (`ManagerThrottleError`), refused (`ManagerError`: the
loop ends) and raised (anything else: the cycle ends). The server ends jobs in any
order, and fails them. `Put` is all a virt thread does.

`Delivery` says the same per source, without batches, cycles and polling: a report moves
from the newest one, to the one in hand, to the request in flight, to the server's
record; it is dropped, but never overtaken, and there is one request at a time. A source
of which an accepted request was lost has no promise any more. In the refinement a
request is in flight from its acceptance to the end of its job, whether virt-who
tracks it or not.

Abstracted:

* a report is its hash (`DomainListReport.hash` is computed from the sorted content), so that equal hash means
  equal mapping;
* waits: `wait` lasts any number of steps of others; `interval_modifier`,
  `num_429_received` and the job poll intervals only set lengths and are left out;
* the heartbeat, of which every exception is caught and nothing is kept;
* `sources_sent` and `sources_erred`: in oneshot mode `run` ends the thread after the
  first cycle whatever they hold;
* the run data (module `RunData`), print mode.

`lost` is a history variable: the sources of which virt-who lost an accepted request,
because its answer or the first query for its job failed, or a reload
dropped it. It is in no guard. The properties that hold "unless lost" say so.

### Satellite5

`satAt` is the place in a cycle: `wait`, `send` (the sources of the cycle), `host`
(the hypervisors of a mapping), `register`, `save` and `dump` (`_register_system`, the opening of
the file and `pickle.dump`), `notify`, `over`. An id is the position in `systems`, the list of the
systems the server ever gave. `file` is what each pickled file holds: nothing, an id, or
`Torn`, from which `pickle.load` raises. A kill leaves the files and the server. An
administrator may delete systems; `orphaned` (an id that did not get into its file) and
`swallowed` (a Fault that counts as success) are history. Gathering is
one step, since `Destination` has it in detail.

### Executor

The main thread is a stack of frames, because signal handlers run on top of whatever
they interrupt and their exceptions throw the frames below them away. A frame says whose
code it is (`main`, `hup`, `term`), where it is and what is left of the list that it
iterates over. `guard` is the `try` around the lowest frame: main's loop, `__main__`'s,
or none. `ready` is where main is outside of its own `try`: before the first round, and in the suite of
`except ReloadRequest`; a `ReloadRequest` that is raised there is an error to `__main__` (`Propagate`), and
`TryAgain` goes back into the `try`. `Strays` is the moment of such a raise: `ReloadServes` holds of the behaviours
without one, and `RunsAgain` is violated by those with one. A thread is a kind, a number and the call of `run` that created it (its
generation); its state goes `new`, `spawned`, `work`, `down`. `wait_on_threads` removes
from the list it iterates over: a frame has `left`, that list, and `seen`, how far the iteration
is, so that `Visit` passes over the thread after a removed one, and `Sleep` begins the list again. `overtaken` is
history: an exception threw away the handler of a SIGTERM.

### PidLock

Every step of `is_locked`, `__enter__` and `__exit__` that touches the file is an action.
A process stands for its PID, so that its second start (`MaxStarts` = 2) is the reuse of a PID.
The file is opened without `O_TRUNC`: a shorter PID written over a longer one leaves
digits of both (`Garbage`), the PID of nobody. A process that has the file open while
another one removes it writes to a file without a name (place `orphan`).
`overlap` is history: a process was started while another one was starting. A permission
error of `os.kill` is not distinguished from a missing process; virt-who runs as root.

### RunData

Actors are the main threads of processes and their destination threads. The steps
are: try the lock, give up (`IOError` after a second), read, truncate (`open(..., 'w')`), dump, leave
the `with` block. A kill frees the lock (the kernel does) and leaves the file as it is;
a file cut short anywhere is `Blank`, as it cannot be parsed. `recorded` and `complete`
are history.

`MCFiles` checks the PID file and the run data in one run; as they share no state, a behaviour of it is one of one file.

### EsxUpdates

There are three inventories: `world`, the server's; `known`, what its answers up to the
client's version told; and `copy`, what `applyUpdates` made of them. An answer holds any part
of the difference between the first two when it is truncated, all of it otherwise.
`esxAt` is the place in `_run` and its cleanup, `stopper` the place of `stop()`, which the
executor's thread runs on the same client, filter and service content. Both can be at a request while the other one assigns, so
that a request and the assignments around it are steps of their own: login is `NewClient`, `Content`, `AskLogin`, `Login`,
and logout is `AskLogout` (the test of `sc`), `Logout` (the answer) and `ForgetContent` (`self.sc = None`). `session`
is that of the client there is now: when `_prepare` makes a new client, a logout that is under way goes to the old one
(place `leaveOld`) and no longer reaches the session. `logout` swallows every exception and
keeps the service content then (`ThreadLogoutFails`, `StopLogoutFails`). `renamed` and `excused` (the logout of `stop()`
failed, or the thread logged in after its answer or with a client newer than its request) are history.

### Libvirtd, Ahv, HyperV, Kubevirt

Each has the place of the thread, what it has read so far, what is in the datastore, and the
server with its changes. A mapping takes several requests, and the server may change
between any two of them. `Libvirtd` has a second reader, the event loop's callback,
with places of its own on the same connection. `Ahv` counts the tries of `_send` and keeps
the list in the server's order, any order, as paging depends on it. `HyperV` keeps
the enumeration context and the latch `useNewApi`. `moved`, `touched`, `cutShort`,
`stirred`, `misled` and `present` (the guests that are there since the first request of a Hyper-V mapping) are history.

### MCThreads

The threads of a configuration share the datastore only, under a key for each source, and the
terminate event. One behaviour has one kind of thread; the others have ended from the
start. What a kind of thread does beside the others is in
`Executor`; that a behaviour of the composition is one of each component is proved
(`ThreadsInvariance`).

### Config

`stage` is the place in `init_config` and `DestinationToSourceMapper`. A section is its class (by virt
type), its values, the options not validated yet and the invalid ones. A value is what
validation tells apart: given, empty, `sealed` (encrypted), `garbled` (cannot be decrypted).
Files of the drop directory come in any order. `Info` objects are compared as the code
does it: by the hash of their values without the keys. The configurations to start with are any
(`InputsAssumption` says only what a file is, and that a password in plain text is not ciphertext).

`Settled` compares a section before and after its validation is repeated, in all virt-who reads of it. Two things are
left out: `print_` comes back with its default in the second round (what is read is `print`), and for a
known `virt_type` beside an unknown `type` fewer options are required in the second round, since
the first one replaced the unknown type by libvirt. An empty section has nothing to validate, so that its list of options
to be validated does not tell whether it was; `WasValidated` goes by the stage as well.

`Usable` allows what the code only warns about: an encrypted password that is no ciphertext takes the place of the
password as it is. `Served` goes by the options a section gives (`Asks`), as the mapper does, and not by its `sm_type`:
a section without an owner, but with a Satellite 5 server and its credentials, is sent to that server, whatever
`sm_type` says.

## 3. Runs

| run | expects | what it shows |
|---|---|---|
| `destination_safety` | pass | three sources in shared asynchronous check-ins over faults and a reload: the inductive invariant `IInv`, `Coherent` (what is dropped as a duplicate is at the server), `SingleFlight`, and that `Delivery` is implemented (`Delivers`) |
| `destination_live` | pass | under fairness: `Converges`, `SubmissionSettles`, `StopsWhenTold` |
| `destination_oneshot` | pass | oneshot with a synchronous server: `OneshotDelivers`, `OneshotWithReportEnds` |
| `destination_stale_duplicate` | violation | a duplicate of what the server has not got (finding) |
| `files` | pass | the PID file with two daemons and a helper, overlapping starts, kills: at most one daemon and no refusal without cause while virt-who is used alone, no file left behind without a kill; or the run data with a daemon of two threads, a status process, a kill: exclusive blocks, no lost update, repair at start, the inductive invariants `PidInv` and `RInv` |
| `rundata_status` | violation | `--status` raises `KeyError` on the record of a domain list, and reports lack run data (finding) |
| `executor` | pass | all modes, two signals anywhere: one generation of threads at a time, no thread after the sentinel, the daemon exits for a reason, oneshot's order, SIGTERM ends it, a reload that main catches serves again; the inductive invariant `ExecutorInv` |
| `executor_reload` | violation | a second SIGHUP outside of main's `try` ends the daemon (finding) |
| `threads` | pass | a thread of each kind: what it puts or sends is whole and nobody else's, sessions are logged out of but for late logins, what stays is reported, and it stops when told |
| `ahv_updates` | violation | AHV reports its mapping once (finding) |
| `config` | pass | every section virt-who runs with is usable, a second validation changes nothing, every source reaches a destination of every kind that its options ask for, with its own server and owner, and no other |
| `config_destinations` | violation | two destinations become one (finding) |

### Bounds

* `Destination`: `MaxPuts` (2 reports; in oneshot mode the initial datastore is
  arbitrary), `MaxFaults` (failing requests and failing jobs), `MaxReloads`, `Interval` (rounds of the first
  gathering). Two sources share a batch and a third one is of the other kind; a job outstanding over a reload
  needs two puts. Where two contents or sources are interchangeable the run of safety properties uses
  symmetry; the runs of liveness properties do not.
* `PidLock`: two daemons and one helper, two starts each, one kill: a daemon killed,
  found gone, and replaced while another starts; a PID that is used again.
* `RunData`: two threads of one process and one of another, two entries, two records, one kill: two
  read-change-write sequences can overlap each other, a start and a kill.
* `Executor`: one virt and two destination threads (the second one is what `wait_on_threads`
  passes over), two signals: a SIGHUP inside a SIGHUP or a SIGTERM and the reverse.
* `MCThreads`: per kind one or two objects (two hypervisors for Satellite 5, one host with a
  cluster and a guest for ESX, two virtual machines on pages of one for AHV, two nodes for KubeVirt),
  one or two changes, one or two faults and, for Satellite 5, a restart: a change between
  two requests, a failure after it, and a
  recovery. The inventory of ESX changes, or `stop()` is called, but not both in one behaviour (`Esx` in `MCThreads`), which leaves room for
  two faults; with one fault the run was also made without this bound, and with two faults of Satellite 5.
  The invariants that are proved hold for all sizes; with two sources and
  two hypervisors each, `SatInv`, `Remembered` and `OneSystem` were checked as well.
* `Config`: two sections of some twenty kinds (an empty one and ones with contradicting `type` and `virt_type`
  among them) with three kinds of defaults, files in every place, global options in every place.

The constants are bounds on the environment only; the theorems hold for every value.

### Deadlock and fairness

Runs have `CHECK_DEADLOCK FALSE` where the modelled part may end: a thread or process that
is over, bounds of the environment that are used up, a configuration that is complete.

Weak fairness is assumed of threads (`Thread`, `RunMain`, `RunThread`, `Send5`, `RunEsx`, `StopEsx`,
`RunLv`, `LoopLv`, `RunAhv`, `RunHv`, `RunKv`: ordinary Python threads whose waits all have a
time-out), of time (`PassInterval`), and of the server's work on its jobs (`Serve`). In oneshot
mode a thread's only cycle ends (`StopItself`). Nothing is assumed of faults, changes,
puts or signals. Bounds make failures finite: with failures for ever nothing converges,
which is no fault of virt-who.

## 4. What is proved

TLAPS checks, for all values of the constants that satisfy the named assumptions:

* `DestinationProofs!Invariance`: `Spec => []IInv`. `Coherent` (the remembered hash is
  what the server records) is not inductive: whether recording a hash is right depends on
  the job that it came from. `IInv` adds: a tracked submission is an entry of the
  job list with the same content, and virt-who's state of it is not ahead of the
  server's (`TrackedJobs`); the server works on no job of a source but the tracked one
  (`OnlyTrackedRun`), which is what makes "the records are what the tracked job
  left" stable; before and after the tracked job ends, the records are those of `last` and
  of the submission (`Recorded`). For this to survive a new check-in, a report about to be sent must be of an
  untracked source (`FreshUntracked`), which depends on the place in the code
  (`Asking`, `Rounds`, `Listing`). `TypeCorrect`, `DuplicatesAreKnown` (`[]Coherent`) and `OneJobAtATime`
  (`[]SingleFlight`) follow.
* `DeliveryProofs!Implements`: `Destination` implements `Delivery`. Every action maps, source by
  source, to a step of `Delivery` or to none; `IInv` gives the one point that is not
  in the code's own guards, that no request of the source is in process when the next one leaves.
* `Satellite5Proofs!SatInvariance`: what the code never states: an id in a file or in hand is one the
  server gave to that hypervisor (`OwnId`), and the living ids of a hypervisor are the
  one in its file or the one on its way there (`OneId`), so that a registration, which happens only
  without a file or after the refusal of what it holds, never makes a second one. `NoSecondSystem`
  (`[]OneSystem`) follows. `SentIsThere` (`[]Remembered`) needs, of the report
  at hand, that the hypervisors that are done have their guests (`Progress`).
* `ThreadsProofs!EsxInvariance`: `Follows` is kept at every point of the stream, not only where a mapping is made;
  it needs that a new session begins a new stream (`NewSession`), and that a cluster whose name differs from
  what was told was renamed within it (`Renames`), as the copy ignores that. `LoggedOutAlways` (`[]LoggedOut`)
  rests on what holds until `stop()` asks for its logout: a session that is open, or is being opened, has its service content, since
  only a logout takes that away and the thread's own is its last act. So the request goes to the client that has the session;
  from then on only a login of the thread, which `excused` remembers, can open another one.
* `LvInvariance`, `AhvInvariance`, `HvInvariance` and `KvInvariance`, also in `ThreadsProofs`: the readers of several
  requests. Each invariant says what the first answers are worth until the last one. For AHV it is `PagesInOrder`: what was read
  is the beginning of the server's list, as long as the offset says (`SubSeq`), whatever the order
  and the size of the pages; no guest is twice in it since none is twice in the list. For Hyper-V it is `HvWhole`: a guest that is there
  since the first request is in the context still to be pulled or was pulled, and `HvStated`: what was pulled of it has a state.
* `ThreadsProofs!ThreadsInvariance`: a behaviour of `MCThreads` is one of every component, so
  that all of these hold in it.
* `ExecutorProofs!ExecutorInvariance`: `ExecutorSpec => []ExecutorInv`. `OneGeneration` and `SentinelLast` are about threads; what keeps them is
  distributed over the stack. Every thread that may work is in the executor's lists and of its last run (`Listed`); a frame
  that stops threads has in `left` all of those that may still work (`StopsAll`), also when another handler runs on
  top of it and stops them first, or when an exception throws away what was above it. That the frames below
  do not begin threads behind its back follows from the order signals nest in (`SignalsInOrder`: above a
  handler of SIGHUP that ignores further ones there is only SIGTERM's; `HupComesBack`), and from
  the time when the executor is gone (`SilentWithoutExecutor`, `SilentAtEnd`). `WaitsForAll` and
  `DestsFollow` say what `wait_on_threads` still has in its list. The step of the whole stack is put together
  from facts on a single frame (`FramesStep`, `LowestStep`, `StackStep`). `OneGenerationAlways`, `SentinelLastAlways`,
  `EndsForAReasonAlways` and `VirtsFirstAlways` follow, for any number of threads and signals.
* `ConfigProofs!ConfigInvariance`: `Spec => []ConfigInv`, for any files and options. A section has one of two forms: `Fresh`, as
  `from_dict` makes it, or `Done`: nothing is left to validate, to move, to default or to find missing. The first validation of a
  fresh section makes it done (`FirstValidation`); that of a done section keeps it and changes nothing
  (`SecondValidation`, `SettledSection`), which is `SettledAlways` (`Spec => Settled`). `Progress` says which
  form sections have at which stage. `UsableAlways` follows since a done section that is valid lacks nothing; it
  needs that a password to be decrypted is either decrypted, or kept with a warning, or makes the section invalid. `ServedAlways`
  does not follow from the sections alone, as the mapper treats two destinations as one when the hashes of their values agree: the first
  value hashed is that of the option that names the server or the owner, so that equal destinations agree in it and in their
  kind (`InfoFacts`, `Reaches`, `Belongs`); and a source is given the default destination exactly when nothing else took it (`DefaultServes`).
  The run checks these three; `ConfigInv` itself is proved only.
* `PidLockProofs!PidInvariance`: while starts do not overlap and no helper runs, the file names the running daemon and
  a process past the check finds nobody running; and somebody is always there to remove the file. `StartsExclude`
  (`[]AtMostOneDaemon`) and `FileIsRemoved` (`[]NothingLeftBehind`) follow. `RefusalsAreRight`
  (`Spec => RefusedOnlyIfRunning`) needs besides that nobody has read the PID of a process
  that starts for the first time, nor is it in the file (`FirstStart`).
* `RunDataProofs!RunDataInvariance`: `Spec => []RInv`: only the holder of the lock may have
  truncated the file (`Exclusive`), and what it is about to write is the file with its
  own entry replaced (`Replaces`, `ReplacesOwn`), with every entry that completed starts
  rely on (`Keeps`, `Completes`). `LockIsExclusive`, `NoUpdateIsLost` (`[]NothingLost`) and
  `StartsRepair` (`[]StartRepairs`) follow.
* `DestinationProofs!OneshotIsComplete`: `Spec => []OneshotDelivers`. While nothing fails a oneshot thread makes one cycle
  (`OneCycle`); the first gathering ends only after a whole round, in which every source was read
  (`RoundsAreWhole`); and a source that was read is at the server, in an accepted job, or still on the list that is
  being sent (`AllGiven`). This is `OneshotInv`, inductive together with `IInv`.

The assumptions are the named `ASSUME`s of the modules (markers are distinct from values,
bounds are natural numbers, mappings are of the hypervisors and guests there are, inventories begin consistent,
configuration files are functions to options); TLC evaluates them in the runs.

Every invariant and every action property of the passing runs is stated by one of these theorems. Only model-checked are the
properties under fairness
(`Converges`, `SubmissionSettles`, `StopsWhenTold`, `OneshotWithReportEnds`, `TermEnds`, `ReloadServes`, `Settles5`,
`EsxConverges`, `LvConverges`, `PollersConverge`, `ThreadsStop`), since
liveness and `ENABLED` are out of this prover's reach, and the five properties that the code violates.

## 5. Findings

1. `destination_stale_duplicate`: after a lost answer or a failed first query for a job,
   a source that goes back to its earlier mapping is ignored as a duplicate, and the
   server keeps the other one. It needs the source to flap; it corrects
   itself only at its next change.
2. `rundata_status`: the record of a sent domain list lacks `last_job_id`,
   and `--status` raises `KeyError`; it is caught and logged by `IntervalThread.run`, and the reports of that source and of
   the ones after it have no run data.
3. `ahv_updates`: after the first mapping the AHV thread puts a status report every interval,
   which destinations do not send: later changes are never reported.
4. `config_destinations`: `Info.__eq__` compares an object with itself and the hash leaves out the keys, so that
   two configurations whose option values agree under different keys share one destination.
5. `executor_reload`: the handler of SIGHUP is registered again before `ReloadRequest` is raised. A second SIGHUP while
   main is in the suite of `except ReloadRequest` (`main.py:152-154`) raises another one outside of the `try`,
   and virt-who exits with 1.

Not claimed as findings, but met in the code and reachable in the models:

* `check_report_status` (`virt.py:945`) does not look at the terminate event: while the server answers
  429 to every query the thread does not stop (`ThrottleForever`).
* `_get_data_initial` (`virt.py:689`) waits for ever in oneshot mode when no source has a report.
* Helpers take the daemon's PID file (`main.py:142`); after that a second daemon can start. Two daemons
  that start at the same instant both run. A PID that is used again after a kill keeps a daemon from starting.
* The `ReloadRequest` of a SIGHUP whose handler SIGTERM interrupted, or that interrupted SIGTERM's, throws the
  termination away (`overtaken` in `TermEnds`).
* `logout` sets `self.sc` to `None` after its request was answered (`esx.py:409-410`). When the virt thread has logged in
  meanwhile, `stop()` takes away the new service content: the thread's own logout is skipped and its session stays open
  after both are over (what `LoggedOut` excuses).
* Names of clusters that change are never applied: `applyUpdates` tests `kind` for 'modify' (`esx.py:450`).
* Any failure of Hyper-V's old namespace switches to the new one for good (`hyperv.py:469`).
* KubeVirt reports nothing while one instance is on a node that is not listed.
* A `sat_server` that is given but empty passes validation, and the source gets no destination; `owner` in a
  section with `sm_type=satellite` makes a Satellite 6 destination besides (`virt-who-config.5:81`). A section
  with `sm_type=sam`, without an owner and with all `sat_*` options is sent to the Satellite 5 server only (`config.py:261-277`, 325-352).
* An `rhsm_encrypted_password` that is no ciphertext is only warned about (`config.py:1070-1075`) and moved into the place of the
  password as it is (670-676). A hexadecimal one of a wrong length raises a plain `ValueError`, which 1070 does not catch, so that virt-who
  ends at its start (not modelled).
* When the files of `-c` hold no section, the log says that the files of the drop directory are ignored
  (`config.py:1543`), and they are read all the same (1546).

## 6. Plan

Done: the destinations and their abstract specification, the processes and their files, the
executor, the back ends, the configuration, and the proofs about each. Left, in this order:

1. Status mode of the threads and of `Executor`, and print mode.
2. Several threads of different kinds at once in `MCThreads`, through the stop of `Executor`.
3. Abstract specifications for the back ends (what a reader of several requests promises), as `Delivery` is for
   destinations, and their refinement.

## 7. Not modelled

* The vendored `virt/esx/suds`, more than half of the lines of the implementation: a third-party SOAP client.
  What it raises and returns is in `EsxUpdates` as the code in `esx.py` uses it. Because of it, and of the text
  processing below, the mapped lines are a small share of all lines.
* SOAP and REST text, authentication handshakes, connection set-up and registration, formatting of reports
  and logs, option parsing (`parser.py`), utilities: input, output and text, without state shared between parties.
* Password encryption and the migration script: sequential, one-time text processing.
* The fake back end: it reads one file.
* The loader of kubeconfig files, which comes from the Kubernetes client.
* Status mode, but for its use of the run data.
