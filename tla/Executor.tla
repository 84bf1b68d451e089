------------------------------ MODULE Executor ------------------------------
(***************************************************************************)
(* The main thread of virt-who: main and exit (virtwho/main.py), the       *)
(* Executor (virtwho/executor.py) and the end of the log queue             *)
(* (virtwho/log.py).  It creates the virt and destination threads, waits   *)
(* for them, and is interrupted, wherever it is, by the handlers of SIGHUP *)
(* (reload) and SIGTERM (atexit_fn), which run on its own stack, may       *)
(* interrupt one another, and may throw away the frames below them.        *)
(*                                                                         *)
(* A frame of the stack says whose code it is, where it is, what a loop in *)
(* it has left and how much of that the loop has seen. Handlers are        *)
(* registered already, a SIGINT is left out, and so are the options        *)
(* max_wait_time and kill_on_timeout of wait_on_threads, which nobody      *)
(* uses.                                                                   *)
(***************************************************************************)
EXTENDS Naturals, Sequences, SequencesExt

CONSTANTS
    Modes,        \* of "daemon", "oneshot" (or status), "print"
    NVirts,       \* virt threads that the configuration asks for
    NDests,       \* destination threads
    SelfStopping, \* a destination may stop itself (Satellite 5)
    MaxHups,      \* bound: SIGHUPs
    MaxTerms,     \* bound: SIGTERMs
    MaxSignals    \* bound: both

ASSUME ExecutorAssumption ==
    /\ Modes \subseteq {"daemon", "oneshot", "print"}
    /\ {NVirts, NDests, MaxHups, MaxTerms, MaxSignals} \subseteq Nat
    /\ SelfStopping \in BOOLEAN

VARIABLES
    mode,      \* the options
    stack,     \* the frames of the main thread; empty when it is over
    guard,     \* the try around the lowest frame: main's loop, __main__'s, none
    code,      \* the exit code
    executor,  \* the global: is there an executor
    hup,       \* the handler of SIGHUP
    event,     \* terminate_event
    virts, dests, \* the executor's lists
    gen,       \* how often run or run_oneshot created threads
    st,        \* the state of each thread
    stopped,   \* the threads whose internal terminate event is set
    sentinel,  \* the log queue was given None
    hups, terms,
    overtaken  \* history: an exception threw away a SIGTERM's handler

settings == <<mode, gen>>
signals  == <<hup, hups, terms>>
lists    == <<virts, dests, gen>>
ends     == <<guard, code, sentinel, overtaken>>
threads  == <<st, stopped, event>>
xvars == <<mode, stack, guard, code, executor, hup, event, virts, dests, gen, st,
           stopped, sentinel, hups, terms, overtaken>>

\* A thread belongs to one call of run: its kind, number and generation.
Threads == ({"virt"} \X (1..NVirts) \X (1..MaxHups + 1))
           \cup ({"dest"} \X (1..NDests) \X (1..MaxHups + 1))
ListOf(kind, n, g) == [i \in 1..n |-> <<kind, i, g>>]

Told(t)     == event \/ t \in stopped
HasIdent(t) == st[t] \in {"work", "down"}
Oneshot     == mode # "daemon"

Frame(who, at) == [who |-> who, at |-> at, left |-> <<>>, seen |-> 0]
Over           == stack = <<>>
Top            == Last(stack)
At(at)         == ~Over /\ Top.at = at
Goto(at)       == stack' = [stack EXCEPT ![Len(stack)].at = at]
GotoWith(at, left) ==
    stack' = [stack EXCEPT ![Len(stack)] =
                 [who |-> Top.who, at |-> at, left |-> left, seen |-> 0]]
Return         == stack' = Front(stack)

ExecutorInit ==
    /\ mode \in Modes
    /\ stack = <<Frame("main", "ready")>> /\ guard = "outer" /\ code = 0
    /\ executor = TRUE /\ hup = "reload" /\ event = FALSE
    /\ virts = <<>> /\ dests = <<>> /\ gen = 0
    /\ st = [t \in Threads |-> "none"] /\ stopped = {}
    /\ sentinel = FALSE /\ hups = 0 /\ terms = 0 /\ overtaken = FALSE

-----------------------------------------------------------------------------
(* Exceptions: they drop the frames above the try that catches them.       *)

\* exit is called from the lowest frame, where only what is left of the guards
\* is around it.
ExitWith(c, around) ==
    /\ stack' = <<Frame("main", "exit")>> /\ code' = c /\ guard' = around

\* ReloadRequest is caught by the try in main's loop, which goes on outside of
\* the try; any other error, and a ReloadRequest where main is outside of it, by
\* __main__, which exits with 1; there it is caught by nobody, and the main
\* thread is over.
Propagate(isReload) ==
    /\ overtaken' = (overtaken \/ \E i \in DOMAIN stack : stack[i].who = "term")
    /\ \/ /\ isReload /\ guard = "main"
          /\ stack' = <<Frame("main", "ready")>> /\ guard' = "outer" /\ UNCHANGED code
       \/ /\ guard # "none" /\ ~(isReload /\ guard = "main")
          /\ ExitWith(1, "none")
       \/ /\ guard = "none"
          /\ stack' = <<>> /\ code' = 1 /\ UNCHANGED guard

-----------------------------------------------------------------------------
(* run and run_oneshot.                                                    *)

\* Where main is outside of its loop's try: after the handlers are registered,
\* and while it logs that it reloads.
TryAgain ==
    /\ At("ready")
    /\ Goto("loop") /\ guard' = "main"
    /\ UNCHANGED <<mode, executor, signals, lists, threads, code, sentinel, overtaken>>

\* The head of main's loop; without an executor _main raises AttributeError.
Loop ==
    /\ At("loop")
    /\ IF executor THEN Goto("create") /\ UNCHANGED ends
                   ELSE Propagate(FALSE) /\ UNCHANGED sentinel
    /\ UNCHANGED <<mode, executor, signals, lists, threads>>

\* Every configuration that cannot be used is left out; at least one must stay.
CreateVirts ==
    /\ At("create")
    /\ gen' = gen + 1
    /\ \E n \in 0..NVirts :
        /\ virts' = ListOf("virt", n, gen')
        /\ st' = [t \in Threads |-> IF t \in ToSet(virts') THEN "new" ELSE st[t]]
        /\ IF n = 0 THEN ExitWith(1, "outer") /\ UNCHANGED <<sentinel, overtaken>>
                    ELSE Goto("createDests") /\ UNCHANGED ends
    /\ UNCHANGED <<mode, executor, signals, dests, stopped, event>>

CreateDests ==
    /\ At("createDests")
    /\ dests' = ListOf("dest", NDests, gen)
    /\ st' = [t \in Threads |-> IF t \in ToSet(dests') THEN "new" ELSE st[t]]
    /\ IF NDests = 0 THEN ExitWith(1, "outer") /\ UNCHANGED <<sentinel, overtaken>>
                     ELSE Goto("virts") /\ UNCHANGED ends
    /\ UNCHANGED <<mode, executor, signals, virts, gen, stopped, event>>

\* for thread in self.virts, for thread in self.destinations: the list is read
\* when the loop begins, a handler may have emptied it.
BeginStart ==
    /\ \/ At("virts") /\ GotoWith("startVirts", virts)
       \/ At("dests") /\ GotoWith("startDests", dests)
    /\ UNCHANGED <<mode, executor, signals, lists, threads, ends>>

StartsThreads == At("startVirts") \/ At("startDests")

StartNext ==
    /\ StartsThreads /\ Top.left # <<>> /\ st[Head(Top.left)] = "new"
    /\ st' = [st EXCEPT ![Head(Top.left)] = "spawned"]
    /\ UNCHANGED <<mode, executor, stack, signals, lists, stopped, event, ends>>

\* Thread.start returns when the new thread has its identity.
Started ==
    /\ StartsThreads /\ Top.left # <<>> /\ HasIdent(Head(Top.left))
    /\ GotoWith(Top.at, Tail(Top.left))
    /\ UNCHANGED <<mode, executor, signals, lists, threads, ends>>

AllStartedWaiting ==
    /\ StartsThreads /\ Top.left = <<>>
    /\ IF Top.at = "startVirts" THEN GotoWith("waitVirts", virts)
                                ELSE GotoWith("waitDests", dests)
    /\ UNCHANGED <<mode, executor, signals, lists, threads, ends>>
AllStarted ==
    /\ StartsThreads /\ Top.left = <<>>
    /\ CASE Top.at = "startVirts" /\ Oneshot  -> GotoWith("waitVirts", virts)
         [] Top.at = "startVirts" /\ ~Oneshot -> Goto("dests")
         [] OTHER                             -> GotoWith("waitDests", dests)
    /\ UNCHANGED <<mode, executor, signals, lists, threads, ends>>

\* wait_on_threads removes from the list it iterates over: the thread after a
\* removed one is seen only when the loop, after a sleep, begins again.
Waits == At("waitVirts") \/ At("waitDests")

RemovableAny(t) == TRUE
Removable(t)    == Told(t)
Visit ==
    /\ Waits /\ Top.seen < Len(Top.left)
    /\ LET next == Top.seen + 1
           left == IF Removable(Top.left[next]) THEN RemoveAt(Top.left, next)
                                                ELSE Top.left
       IN  stack' = [stack EXCEPT ![Len(stack)] =
                        [who |-> Top.who, at |-> Top.at, left |-> left, seen |-> next]]
    /\ UNCHANGED <<mode, executor, signals, lists, threads, ends>>

Sleep ==
    /\ Waits /\ Top.left # <<>> /\ Top.seen >= Len(Top.left)
    /\ GotoWith(Top.at, Top.left)
    /\ UNCHANGED <<mode, executor, signals, lists, threads, ends>>

\* run raises ExitRequest, which main's loop catches; run_oneshot goes on with
\* the destinations, or returns, so that main returns and __main__ exits.
Waited ==
    /\ Waits /\ Top.left = <<>>
    /\ CASE ~Oneshot -> ExitWith(0, "outer") /\ UNCHANGED <<sentinel, overtaken>>
         [] mode = "oneshot" /\ Top.at = "waitVirts" -> Goto("dests") /\ UNCHANGED ends
         [] OTHER -> /\ \E c \in 0..1 : ExitWith(c, "none")
                     /\ UNCHANGED <<sentinel, overtaken>>
    /\ UNCHANGED <<mode, executor, signals, lists, threads>>

-----------------------------------------------------------------------------
(* The handlers and exit.                                                  *)

Hup ==
    /\ ~Over /\ hups < MaxHups /\ hups + terms < MaxSignals
    /\ hups' = hups + 1
    /\ stack' = IF hup = "reload" THEN Append(stack, Frame("hup", "reload")) ELSE stack
    /\ UNCHANGED <<mode, executor, hup, terms, lists, threads, ends>>

Term ==
    /\ ~Over /\ terms < MaxTerms /\ hups + terms < MaxSignals
    /\ terms' = terms + 1
    /\ stack' = Append(stack, Frame("term", "atexit"))
    /\ UNCHANGED <<mode, executor, hup, hups, lists, threads, ends>>

\* if executor: ...  Without one, reload exits with 1 and atexit_fn returns.
AskExecutor ==
    /\ \/ /\ At("reload")
          /\ IF executor THEN Goto("call") /\ hup' = "ignore" /\ UNCHANGED code
                         ELSE Goto("log") /\ code' = 1 /\ UNCHANGED hup
       \/ /\ At("atexit")
          /\ IF executor THEN Goto("call") ELSE Return
          /\ UNCHANGED <<hup, code>>
       \/ /\ At("exit")
          /\ IF executor THEN Goto("call") ELSE Goto("log")
          /\ UNCHANGED <<hup, code>>
    /\ UNCHANGED <<mode, executor, hups, terms, lists, threads, guard, sentinel, overtaken>>

\* executor.reload() or executor.terminate(): both begin with stop_threads.  A
\* handler may have taken the executor away since it was asked for.
CallExecutor ==
    /\ At("call")
    /\ IF executor THEN /\ event' = TRUE /\ GotoWith("joinVirts", virts)
                        /\ UNCHANGED ends
                   ELSE /\ Propagate(FALSE) /\ UNCHANGED <<event, sentinel>>
    /\ UNCHANGED <<mode, executor, signals, lists, st, stopped>>

\* terminate_threads: stop, and join if the thread has an identity.
Joins == At("joinVirts") \/ At("joinDests")

StopNext ==
    /\ Joins /\ Top.left # <<>> /\ Head(Top.left) \notin stopped
    /\ stopped' = stopped \cup {Head(Top.left)}
    /\ UNCHANGED <<mode, executor, stack, signals, lists, st, event, ends>>

CanJoinAlways(t)   == TRUE
CanJoinOnlyDown(t) == st[t] = "down"
CanJoin(t) == HasIdent(t) => st[t] = "down"
Joined ==
    /\ Joins /\ Top.left # <<>> /\ Head(Top.left) \in stopped
    /\ CanJoin(Head(Top.left))
    /\ GotoWith(Top.at, Tail(Top.left))
    /\ UNCHANGED <<mode, executor, signals, lists, threads, ends>>

AllJoined ==
    /\ Joins /\ Top.left = <<>>
    /\ CASE Top.at = "joinVirts" -> GotoWith("joinDests", dests)
         [] Top.at = "joinDests" /\ Top.who = "hup" -> Goto("clear")
         [] OTHER -> Goto("forget")
    /\ UNCHANGED <<mode, executor, signals, lists, threads, ends>>

\* The rest of terminate, and of atexit_fn or exit that called it.
Forget ==
    /\ At("forget")
    /\ virts' = <<>> /\ dests' = <<>>
    /\ IF Top.who = "term" THEN Goto("none") ELSE Goto("log")
    /\ UNCHANGED <<mode, executor, signals, gen, threads, ends>>

NoExecutor ==
    /\ At("none")
    /\ executor' = FALSE
    /\ Return
    /\ UNCHANGED <<mode, signals, lists, threads, ends>>

\* The rest of Executor.reload, and of the handler that called it.
Clear ==
    /\ At("clear")
    /\ event' = FALSE
    /\ Goto("rearm")
    /\ UNCHANGED <<mode, executor, signals, lists, st, stopped, ends>>

RearmNot ==
    /\ At("rearm")
    /\ Goto("raise")
    /\ UNCHANGED <<mode, executor, signals, lists, threads, ends>>
Rearm ==
    /\ At("rearm")
    /\ hup' = "reload"
    /\ Goto("raise")
    /\ UNCHANGED <<mode, executor, hups, terms, lists, threads, ends>>

RaiseReload ==
    /\ At("raise")
    /\ Propagate(TRUE)
    /\ UNCHANGED <<mode, executor, signals, lists, threads, sentinel>>

\* exit's end: the sentinel goes to the log queue, the logging thread writes
\* what came before it and ends, SystemExit ends the main thread.
EndLog ==
    /\ At("log")
    /\ sentinel' = TRUE
    /\ Goto("joinLog")
    /\ UNCHANGED <<mode, executor, signals, lists, threads, guard, code, overtaken>>

LogEnded ==
    /\ At("joinLog")
    /\ stack' = <<>>
    /\ UNCHANGED <<mode, executor, signals, lists, threads, ends>>

-----------------------------------------------------------------------------
(* The threads: run of IntervalThread.                                     *)

\* The thread gets its identity and comes to the test of the loop of run.
Enter(t) ==
    /\ st[t] = "spawned"
    /\ st' = [st EXCEPT ![t] = IF Told(t) THEN "down" ELSE "work"]
    /\ UNCHANGED <<mode, executor, stack, signals, lists, stopped, event, ends>>

Leave(t) ==
    /\ st[t] = "work" /\ Told(t)
    /\ st' = [st EXCEPT ![t] = "down"]
    /\ UNCHANGED <<mode, executor, stack, signals, lists, stopped, event, ends>>

\* The end of the only cycle in oneshot mode; a destination that gives up.
StopItself(t) ==
    /\ st[t] = "work" /\ t \notin stopped
    /\ Oneshot \/ (SelfStopping /\ t[1] = "dest")
    /\ stopped' = stopped \cup {t}
    /\ UNCHANGED <<mode, executor, stack, signals, lists, st, event, ends>>

RunMain == \/ TryAgain \/ Loop \/ CreateVirts \/ CreateDests \/ BeginStart \/ StartNext \/ Started
           \/ AllStarted \/ Visit \/ Sleep \/ Waited
           \/ AskExecutor \/ CallExecutor \/ StopNext \/ Joined \/ AllJoined \/ Forget
           \/ NoExecutor \/ Clear \/ Rearm \/ RaiseReload \/ EndLog \/ LogEnded
RunThread(t) == Enter(t) \/ Leave(t)
ExecutorNext == RunMain \/ Hup \/ Term \/ \E t \in Threads : RunThread(t) \/ StopItself(t)

ExecutorSpec == ExecutorInit /\ [][ExecutorNext]_xvars
FairExecutor ==
    /\ ExecutorSpec /\ WF_xvars(RunMain)
    /\ \A t \in Threads : WF_xvars(RunThread(t)) /\ WF_xvars(Oneshot /\ StopItself(t))

-----------------------------------------------------------------------------
(* Properties.                                                             *)

LoopAts == {"ready", "loop", "create", "createDests", "virts", "startVirts", "waitVirts",
            "dests", "startDests", "waitDests"}
EndAts  == {"exit", "call", "joinVirts", "joinDests", "forget", "log", "joinLog"}
HupAts  == {"reload", "call", "joinVirts", "joinDests", "clear", "rearm", "raise",
            "log", "joinLog"}
TermAts == {"atexit", "call", "joinVirts", "joinDests", "forget", "none"}
FrameOf(who, ats) == [who : {who}, at : ats, left : Seq(Threads), seen : Nat]
Frames == FrameOf("main", LoopAts \cup EndAts) \cup FrameOf("hup", HupAts)
          \cup FrameOf("term", TermAts)

ExecutorTypeOK ==
    /\ mode \in Modes
    /\ stack \in Seq(Frames)
    /\ \A i \in DOMAIN stack : stack[i].who = "main" <=> i = 1
    /\ guard \in {"main", "outer", "none"} /\ code \in {0, 1}
    /\ executor \in BOOLEAN /\ event \in BOOLEAN /\ sentinel \in BOOLEAN
    /\ overtaken \in BOOLEAN
    /\ hup \in {"reload", "ignore"}
    /\ virts \in Seq({t \in Threads : t[1] = "virt"})
    /\ dests \in Seq({t \in Threads : t[1] = "dest"})
    /\ gen \in Nat /\ hups \in Nat /\ terms \in Nat
    /\ st \in [Threads -> {"none", "new", "spawned", "work", "down"}]
    /\ stopped \subseteq Threads

\* The lowest frame is main's, in the loop or in exit, where it stays.
MainAt(ats) == ~Over /\ stack[1].at \in ats
GuardFits ==
    ~Over => /\ guard = "main" <=> stack[1].at \in LoopAts \ {"ready"}
             /\ stack[1].at = "ready" => guard = "outer"

\* Every run but the first follows a SIGHUP.
RunsFollowHups ==
    /\ gen <= hups + 1 /\ hups <= MaxHups
    /\ MainAt({"ready", "loop", "create"}) \/ (\E i \in DOMAIN stack : stack[i].who = "hup")
           => gen <= hups
    /\ MainAt({"createDests"}) => gen # 0

\* A thread that is quiet was not created, or was told to stop and does nothing
\* ever again.
Quiet(t) == st[t] = "none" \/ (t \in stopped /\ st[t] # "work")
AllQuiet == \A t \in Threads : Quiet(t)

\* Those that may work are in the executor's lists, and of its last run.
Listed ==
    \A t \in Threads :
        /\ Quiet(t) \/ t \in ToSet(virts) \cup ToSet(dests)
        /\ Quiet(t) \/ t[3] >= gen
        /\ st[t] = "none" \/ t[3] <= gen

\* While a SIGHUP is being handled the next ones are ignored, and only then:
\* "Ignore signal SIGHUP during reloading executor" (reload).  The signal's
\* handler comes back, or the process is about to end.
Ignoring(f) ==
    f.who = "hup" /\ f.at \in {"call", "joinVirts", "joinDests", "clear", "rearm"}
HupComesBack ==
    /\ hup = "ignore" => guard = "none" \/ \E i \in DOMAIN stack : Ignoring(stack[i])
    /\ \A i \in DOMAIN stack : Ignoring(stack[i]) => hup = "ignore"
SignalsInOrder ==
    \A i, j \in DOMAIN stack : i < j =>
        /\ Ignoring(stack[i]) => stack[j].who = "term"
        /\ stack[i].who = "hup" /\ stack[i].at \in {"log", "joinLog"}
               => stack[j].at \in {"reload", "atexit", "log", "joinLog"}

\* What stop_threads has still to stop; when it is done nothing works any more.
Cleared(i) == \E j \in DOMAIN stack : j > i /\ stack[j].at \in {"rearm", "raise"}
StopsAll ==
    \A i \in DOMAIN stack :
        LET f == stack[i] IN
        /\ f.at = "joinVirts" =>
               \A t \in Threads : t[1] = "virt" => Quiet(t) \/ t \in ToSet(f.left)
        /\ f.at = "joinDests" => \A t \in Threads : Quiet(t) \/ t \in ToSet(f.left)
        /\ f.at \in {"forget", "none", "clear", "rearm", "raise"} => AllQuiet
        /\ f.at \in {"log", "joinLog"} => ~executor \/ (f.who = "main" /\ AllQuiet)
        /\ f.who = "term" /\ f.at \in {"joinVirts", "joinDests", "forget", "none"}
               => event \/ Cleared(i)
LoopStartsQuiet ==
    /\ MainAt({"ready", "loop", "create"}) => AllQuiet
    /\ MainAt({"createDests"}) => \A t \in Threads : t[1] = "dest" => Quiet(t)

\* Without an executor threads are created perhaps, but they never work.
Exiting == Over \/ stack[1].at \in EndAts
SilentWithoutExecutor ==
    ~executor => /\ \A t \in Threads : st[t] # "work"
                 /\ event \/ (AllQuiet /\ (Exiting \/ MainAt({"ready", "loop"}) \/ Cleared(0)))
SilentAtEnd == sentinel \/ Over => ~executor \/ (AllQuiet /\ Exiting)

\* What main waits for: the threads of the kind that are not told to stop.
WaitsForAll ==
    /\ MainAt({"waitVirts"}) =>
           \A t \in Threads : t[1] = "virt" =>
               st[t] = "none" \/ Told(t) \/ t \in ToSet(stack[1].left)
    /\ MainAt({"waitDests"}) =>
           \A t \in Threads : t[1] = "dest" =>
               st[t] = "none" \/ Told(t) \/ t \in ToSet(stack[1].left)
    /\ MainAt({"startVirts"}) => \A t \in ToSet(stack[1].left) : t[1] = "virt"
    /\ MainAt({"virts", "startVirts", "waitVirts", "dests", "startDests", "waitDests"})
           => \A t \in Threads : t[1] = "dest" /\ t[3] = gen => st[t] # "none"
    /\ mode = "daemon" => ~MainAt({"waitVirts"})
    /\ mode = "daemon" /\ MainAt({"exit"}) /\ code = 0 =>
           \A t \in Threads : t[1] = "dest" /\ t[3] = gen => st[t] # "none" /\ Told(t)

\* In oneshot mode no destination begins before all virt threads are told to stop.
DestsIdle == \A t \in Threads : t[1] = "dest" => Quiet(t) \/ st[t] = "new"
VirtsTold == \A t \in Threads : t[1] = "virt" => st[t] = "none" \/ Told(t)
DestsFollow ==
    Oneshot =>
        /\ DestsIdle \/ VirtsTold
        /\ MainAt({"createDests", "virts", "startVirts", "waitVirts"}) => DestsIdle
        /\ MainAt({"dests", "startDests", "waitDests"}) => VirtsTold

ExecutorInv ==
    /\ ExecutorTypeOK /\ GuardFits /\ RunsFollowHups /\ Listed
    /\ HupComesBack /\ SignalsInOrder
    /\ StopsAll /\ LoopStartsQuiet /\ SilentWithoutExecutor /\ SilentAtEnd
    /\ WaitsForAll /\ DestsFollow

Working == {t \in Threads : st[t] = "work"}
Ended   == Over /\ sentinel /\ \A t \in Threads : st[t] \in {"none", "new", "down"}

\* "Causes all threads to be terminated in preparation for running again"
\* (Executor.reload): whatever a SIGHUP interrupts, no thread of an earlier run
\* works beside one of a later run; they would write to one server.
OneGeneration == \A t, u \in Working : t[3] = u[3]

\* A record that is logged after the sentinel is lost: when exit gives it to the
\* log queue, or when the main thread is over, no thread works any more.
SentinelLast == sentinel \/ Over => Working = {}

\* The daemon exits with 0 only when all destinations are told to stop or have
\* given up.
EndsForAReason ==
    mode = "daemon" /\ At("exit") /\ code = 0 =>
        \A t \in Threads : t[1] = "dest" /\ t[3] = gen => Told(t)

\* The destinations of a oneshot run see the final data: none works before all
\* virt threads of its run have had their cycle.
VirtsFirst ==
    Oneshot => \A t, u \in Working : t[1] = "dest" /\ u[1] = "virt" => Told(u)

\* SIGTERM ends the process, unless a SIGHUP's ReloadRequest overtakes it or
\* leaves exit before the sentinel.
Uncaught == Over /\ ~sentinel
TermEnds == (terms > 0) ~> (Ended \/ overtaken \/ Uncaught)

\* After a reload the daemon serves again: the destinations of the last run work.
\* It need not when it was told to terminate, when that run found nothing it
\* could serve, or when a SIGHUP came where nobody catches the ReloadRequest
\* (RunsAgain).
Serving  == \E t \in Working : t[1] = "dest" /\ t[3] = gen
Unserved == Over /\ gen > 0 /\ \A t \in Threads : t[1] = "dest" /\ t[3] = gen => st[t] = "none"
Strays   == At("raise") /\ guard # "main"
ReloadServes ==
    []~Strays => ((At("raise") /\ mode = "daemon") ~> (Serving \/ terms > 0 \/ Unserved))

\* "Causes all threads to be terminated in preparation for running again"
\* (Executor.reload): unless main was leaving, or is told to, it runs again.
RunsAgain == (At("raise") /\ MainAt(LoopAts)) ~> (At("create") \/ terms > 0)

=============================================================================
