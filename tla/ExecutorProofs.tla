--------------------------- MODULE ExecutorProofs ---------------------------
(***************************************************************************)
(* Proofs about Executor, for any numbers of threads and any bounds on the *)
(* signals: however SIGHUP's and SIGTERM's handlers interrupt main and one *)
(* another, ExecutorInv is an invariant.                                   *)
(***************************************************************************)
EXTENDS Executor, SequenceTheorems, TLAPS

USE ExecutorAssumption DEF ExecutorAssumption

-----------------------------------------------------------------------------
(* Threads, frames and stacks.                                             *)

\* A thread is a virt thread or a destination of a run.
LEMMA ThreadKinds ==
    ASSUME NEW t \in Threads
    PROVE  /\ t[1] \in {"virt", "dest"} /\ t[2] \in Nat /\ t[3] \in 1..MaxHups + 1
           /\ t = <<t[1], t[2], t[3]>>
           /\ t[1] = "virt" => t[2] \in 1..NVirts
           /\ t[1] = "dest" => t[2] \in 1..NDests
BY DEF Threads

\* The list of the n first threads of a kind in a run.
LEMMA ListsTyped ==
    ASSUME NEW g \in 1..MaxHups + 1
    PROVE  /\ \A n \in 0..NVirts :
                  /\ ListOf("virt", n, g) \in Seq({t \in Threads : t[1] = "virt"})
                  /\ \A t \in ToSet(ListOf("virt", n, g)) : t[3] = g
           /\ ListOf("dest", NDests, g) \in Seq({t \in Threads : t[1] = "dest"})
           /\ \A t \in Threads :
                  t \in ToSet(ListOf("dest", NDests, g)) <=> t[1] = "dest" /\ t[3] = g
<1>1. ASSUME NEW n \in 0..NVirts
      PROVE  /\ ListOf("virt", n, g) \in Seq({t \in Threads : t[1] = "virt"})
             /\ \A t \in ToSet(ListOf("virt", n, g)) : t[3] = g
  <2>1. ASSUME NEW i \in 1..n PROVE <<"virt", i, g>> \in {t \in Threads : t[1] = "virt"}
    BY DEF Threads
  <2>2. ListOf("virt", n, g) \in [1..n -> {t \in Threads : t[1] = "virt"}]
    BY <2>1 DEF ListOf
  <2> QED BY <2>2 DEF ListOf, ToSet
<1>2. ListOf("dest", NDests, g) \in Seq({t \in Threads : t[1] = "dest"})
  <2>1. ASSUME NEW i \in 1..NDests
        PROVE <<"dest", i, g>> \in {t \in Threads : t[1] = "dest"}
    BY DEF Threads
  <2>2. ListOf("dest", NDests, g) \in [1..NDests -> {t \in Threads : t[1] = "dest"}]
    BY <2>1 DEF ListOf
  <2> QED BY <2>2
<1>3. ASSUME NEW t \in Threads
      PROVE  t \in ToSet(ListOf("dest", NDests, g)) <=> t[1] = "dest" /\ t[3] = g
  <2>1. ToSet(ListOf("dest", NDests, g)) = {<<"dest", i, g>> : i \in 1..NDests}
    BY DEF ToSet, ListOf
  <2> QED BY <2>1, ThreadKinds
<1> QED BY <1>1, <1>2, <1>3

\* The threads of a list.
LEMMA InList ==
    ASSUME NEW S, NEW list \in Seq(S)
    PROVE  /\ \A i \in 1..Len(list) : list[i] \in ToSet(list)
           /\ \A t \in ToSet(list) : t \in S /\ \E i \in 1..Len(list) : t = list[i]
           /\ ToSet(<<>>) = {}
BY DEF ToSet

LEMMA ListsJoined ==
    ASSUME NEW S, NEW a \in Seq(S), NEW b \in Seq(S)
    PROVE  a \o b \in Seq(S) /\ ToSet(a \o b) = ToSet(a) \cup ToSet(b)
<1>1. /\ a \o b \in Seq(S) /\ Len(a \o b) = Len(a) + Len(b)
      /\ \A i \in 1..Len(a) + Len(b) :
             (a \o b)[i] = IF i <= Len(a) THEN a[i] ELSE b[i - Len(a)]
  BY ConcatProperties
<1>2. ASSUME NEW t \in ToSet(a) PROVE t \in ToSet(a \o b)
  <2>1. PICK i \in 1..Len(a) : t = a[i]
    BY InList
  <2>2. i \in 1..Len(a \o b) /\ (a \o b)[i] = t
    BY <1>1, <2>1
  <2> QED BY <1>1, <2>2, InList
<1>3. ASSUME NEW t \in ToSet(b) PROVE t \in ToSet(a \o b)
  <2>1. PICK i \in 1..Len(b) : t = b[i]
    BY InList
  <2>2. i + Len(a) \in 1..Len(a \o b) /\ (a \o b)[i + Len(a)] = t
    BY <1>1, <2>1
  <2> QED BY <1>1, <2>2, InList
<1>4. ASSUME NEW t \in ToSet(a \o b) PROVE t \in ToSet(a) \cup ToSet(b)
  <2>1. PICK i \in 1..Len(a \o b) : t = (a \o b)[i]
    <3>1. PICK c \in Seq(S) : c = a \o b
      BY <1>1
    <3>2. t \in ToSet(c)
      BY <3>1
    <3>3. \E i \in 1..Len(c) : t = c[i]
      BY <3>2, InList
    <3> QED BY <3>1, <3>3
  <2>2. CASE i <= Len(a)
    BY <1>1, <2>1, <2>2, InList
  <2>3. CASE i > Len(a)
    <3>1. i - Len(a) \in 1..Len(b) /\ t = b[i - Len(a)]
      BY <1>1, <2>1, <2>3
    <3> QED BY <3>1, InList
  <2> QED BY <2>2, <2>3
<1> QED BY <1>1, <1>2, <1>3, <1>4

LEMMA ListShortened ==
    ASSUME NEW S, NEW list \in Seq(S), list # <<>>
    PROVE  /\ Head(list) \in ToSet(list) /\ Tail(list) \in Seq(S)
           /\ ToSet(list) = {Head(list)} \cup ToSet(Tail(list))
<1>1. /\ Tail(list) \in Seq(S) /\ Len(Tail(list)) = Len(list) - 1
      /\ \A i \in 1..Len(list) - 1 : Tail(list)[i] = list[i + 1]
      /\ 1 \in 1..Len(list) /\ Head(list) = list[1]
  BY HeadTailProperties, EmptySeq
<1>2. Head(list) \in ToSet(list)
  BY <1>1, InList
<1>3. ASSUME NEW t \in ToSet(list), t # Head(list) PROVE t \in ToSet(Tail(list))
  <2>1. PICK i \in 1..Len(list) : t = list[i]
    BY InList
  <2>2. i - 1 \in 1..Len(Tail(list)) /\ Tail(list)[i - 1] = t
    BY <1>1, <1>3, <2>1
  <2> QED BY <1>1, <2>2, InList
<1>4. ASSUME NEW t \in ToSet(Tail(list)) PROVE t \in ToSet(list)
  <2>1. PICK i \in 1..Len(Tail(list)) : t = Tail(list)[i]
    <3>1. PICK c \in Seq(S) : c = Tail(list)
      BY <1>1
    <3>2. t \in ToSet(c)
      BY <3>1
    <3>3. \E i \in 1..Len(c) : t = c[i]
      BY <3>2, InList
    <3> QED BY <3>1, <3>3
  <2>2. i + 1 \in 1..Len(list) /\ t = list[i + 1]
    BY <1>1, <2>1
  <2> QED BY <2>2, InList
<1> QED BY <1>1, <1>2, <1>3, <1>4

\* Whose frame it is can be seen from where it is, and the other way around.
LEMMA FrameKinds ==
    ASSUME NEW f \in Frames
    PROVE  /\ f.left \in Seq(Threads) /\ f.seen \in Nat
           /\ f.who \in {"main", "hup", "term"}
           /\ f.who = "main" => f.at \in LoopAts \cup EndAts
           /\ f.who = "hup" => f.at \in HupAts
           /\ f.who = "term" => f.at \in TermAts
           /\ f = [who |-> f.who, at |-> f.at, left |-> f.left, seen |-> f.seen]
BY DEF Frames, FrameOf

\* The frame that runs.
LEMMA TopTyped ==
    ASSUME ExecutorTypeOK, ~Over
    PROVE  /\ Len(stack) \in Nat \ {0} /\ DOMAIN stack = 1..Len(stack)
           /\ Top = stack[Len(stack)] /\ Top \in Frames
           /\ Top.who = "main" <=> Len(stack) = 1
<1>1. stack \in Seq(Frames) /\ (\A i \in DOMAIN stack : stack[i].who = "main" <=> i = 1)
  BY DEF ExecutorTypeOK
<1>2. Len(stack) \in Nat \ {0} /\ DOMAIN stack = 1..Len(stack)
  BY <1>1, EmptySeq DEF Over
<1>3. Top = stack[Len(stack)]
  BY DEF Top, Last
<1> QED BY <1>1, <1>2, <1>3

\* The top frame goes on at another place.
MovesTo(at, left) ==
    /\ Len(stack') = Len(stack) /\ DOMAIN stack' = DOMAIN stack /\ ~Over'
    /\ stack'[Len(stack)].who = Top.who /\ stack'[Len(stack)].at = at
    /\ stack'[Len(stack)].left = left
    /\ \A i \in DOMAIN stack : i # Len(stack) => stack'[i] = stack[i]

\* The stack is main's frame with those of handlers on it.
StackTyped ==
    /\ stack \in Seq(Frames)
    /\ \A i \in DOMAIN stack : stack[i].who = "main" <=> i = 1

\* The places where a frame may be.
Fits(who, at) ==
    /\ who = "main" => at \in LoopAts \cup EndAts
    /\ who = "hup" => at \in HupAts
    /\ who = "term" => at \in TermAts

\* What is on the stack after the top frame is replaced.
LEMMA TopReplaced ==
    ASSUME ExecutorTypeOK, ~Over, NEW f \in Frames, f.who = Top.who,
           stack' = [stack EXCEPT ![Len(stack)] = f]
    PROVE  MovesTo(f.at, f.left) /\ StackTyped'
<1>1. stack \in Seq(Frames) /\ \A i \in DOMAIN stack : stack[i].who = "main" <=> i = 1
  BY DEF ExecutorTypeOK
<1>2. /\ stack' \in Seq(Frames) /\ Len(stack') = Len(stack)
      /\ \A i \in 1..Len(stack) : stack'[i] = IF i = Len(stack) THEN f ELSE stack[i]
  BY <1>1, TopTyped
<1> QED BY <1>1, <1>2, TopTyped, EmptySeq DEF MovesTo, Over, StackTyped

\* A frame of a kind at a place that fits.
LEMMA FrameTyped ==
    ASSUME NEW who \in {"main", "hup", "term"}, NEW at, Fits(who, at),
           NEW left \in Seq(Threads), NEW seen \in Nat
    PROVE  [who |-> who, at |-> at, left |-> left, seen |-> seen] \in Frames
BY DEF Fits, Frames, FrameOf

\* What a frame becomes that goes elsewhere.
LEMMA FrameUpdated ==
    ASSUME NEW f \in Frames, NEW at
    PROVE  [f EXCEPT !.at = at]
               = [who |-> f.who, at |-> at, left |-> f.left, seen |-> f.seen]
<1>1. PICK who, old, before, seen :
          f = [who |-> who, at |-> old, left |-> before, seen |-> seen]
  BY FrameKinds
<1>2. f.who = who /\ f.at = old /\ f.left = before /\ f.seen = seen
  BY <1>1
<1> HIDE <1>2
<1>3. [f EXCEPT !.at = at] = [who |-> who, at |-> at, left |-> before, seen |-> seen]
  BY <1>1
<1> QED BY <1>2, <1>3

\* Steps of the top frame from place to place.
LEMMA Going ==
    ASSUME ExecutorTypeOK, ~Over, NEW at, Fits(Top.who, at)
    PROVE  /\ Goto(at) => MovesTo(at, Top.left) /\ StackTyped'
           /\ \A left \in Seq(Threads) :
                  GotoWith(at, left) => MovesTo(at, left) /\ StackTyped'
<1>0. stack \in Seq(Frames) /\ Top = stack[Len(stack)] /\ Top \in Frames
  BY TopTyped DEF ExecutorTypeOK
<1>1. Top = [who |-> Top.who, at |-> Top.at, left |-> Top.left, seen |-> Top.seen]
  BY <1>0, FrameKinds
<1>2. Top.who \in {"main", "hup", "term"} /\ Top.left \in Seq(Threads) /\ Top.seen \in Nat
  BY <1>0, FrameKinds
<1>3. ASSUME Goto(at) PROVE MovesTo(at, Top.left) /\ StackTyped'
  <2> DEFINE f == [who |-> Top.who, at |-> at, left |-> Top.left, seen |-> Top.seen]
  <2>1. f \in Frames
    BY <1>2, FrameTyped
  <2>2. stack' = [stack EXCEPT ![Len(stack)] = f]
    <3>1. stack' = [stack EXCEPT ![Len(stack)] = [stack[Len(stack)] EXCEPT !.at = at]]
      BY <1>3 DEF Goto
    <3>2. [stack[Len(stack)] EXCEPT !.at = at] = f
      BY <1>0, FrameUpdated
    <3> QED BY <3>1, <3>2
  <2>3. f.who = Top.who /\ f.at = at /\ f.left = Top.left
    OBVIOUS
  <2> QED BY <2>1, <2>2, <2>3, TopReplaced
<1>4. ASSUME NEW left \in Seq(Threads), GotoWith(at, left)
      PROVE  MovesTo(at, left) /\ StackTyped'
  <2> DEFINE f == [who |-> Top.who, at |-> at, left |-> left, seen |-> 0]
  <2>1. f \in Frames
    BY <1>2, FrameTyped
  <2>2. stack' = [stack EXCEPT ![Len(stack)] = f]
    BY <1>4 DEF GotoWith
  <2>3. f.who = Top.who /\ f.at = at /\ f.left = left
    OBVIOUS
  <2> QED BY <2>1, <2>2, <2>3, TopReplaced
<1> QED BY <1>3, <1>4

\* A handler begins.
Pushed(who, at) ==
    /\ Len(stack') = Len(stack) + 1 /\ ~Over'
    /\ DOMAIN stack' = DOMAIN stack \cup {Len(stack) + 1}
    /\ stack'[Len(stack) + 1].who = who /\ stack'[Len(stack) + 1].at = at
    /\ \A i \in DOMAIN stack : stack'[i] = stack[i]

LEMMA Interrupting ==
    ASSUME ExecutorTypeOK, ~Over, NEW who \in {"hup", "term"}, NEW at, Fits(who, at),
           stack' = Append(stack, Frame(who, at))
    PROVE  Pushed(who, at) /\ StackTyped'
<1>1. /\ stack \in Seq(Frames) /\ Len(stack) \in Nat \ {0} /\ DOMAIN stack = 1..Len(stack)
      /\ \A i \in DOMAIN stack : stack[i].who = "main" <=> i = 1
  BY TopTyped DEF ExecutorTypeOK
<1>2. Frame(who, at) \in Frames /\ Frame(who, at).who = who /\ Frame(who, at).at = at
  <2>1. Frame(who, at) = [who |-> who, at |-> at, left |-> <<>>, seen |-> 0]
    BY DEF Frame
  <2>2. who \in {"main", "hup", "term"} /\ <<>> \in Seq(Threads) /\ 0 \in Nat
    BY EmptySeq
  <2>3. [who |-> who, at |-> at, left |-> <<>>, seen |-> 0] \in Frames
    BY <2>2, FrameTyped
  <2> QED BY <2>1, <2>3
<1>3. /\ stack' \in Seq(Frames) /\ Len(stack') = Len(stack) + 1
      /\ \A i \in 1..Len(stack) : stack'[i] = stack[i]
      /\ stack'[Len(stack) + 1] = Frame(who, at)
  BY <1>1, <1>2, AppendProperties
<1> QED BY <1>1, <1>2, <1>3, EmptySeq DEF Pushed, StackTyped, Over

\* A handler returns.
Popped ==
    /\ Len(stack') = Len(stack) - 1 /\ ~Over'
    /\ DOMAIN stack' = DOMAIN stack \ {Len(stack)}
    /\ \A i \in DOMAIN stack' : stack'[i] = stack[i]

LEMMA Returning ==
    ASSUME ExecutorTypeOK, ~Over, Top.who # "main", Return
    PROVE  Popped /\ StackTyped'
<1>1. /\ stack \in Seq(Frames) /\ Len(stack) \in Nat \ {0} /\ DOMAIN stack = 1..Len(stack)
      /\ \A i \in DOMAIN stack : stack[i].who = "main" <=> i = 1
      /\ Len(stack) # 1
  BY TopTyped DEF ExecutorTypeOK
<1>2. stack' = SubSeq(stack, 1, Len(stack) - 1)
  BY DEF Return, Front
<1>3. /\ stack' \in Seq(Frames) /\ Len(stack') = Len(stack) - 1
      /\ \A i \in 1..Len(stack) - 1 : stack'[i] = stack[i]
  BY <1>1, <1>2, SubSeqProperties
<1>4. DOMAIN stack' = 1..Len(stack) - 1 /\ Len(stack') # 0
  BY <1>1, <1>3
<1>5. ~Over'
  BY <1>4 DEF Over
<1>6. DOMAIN stack' = DOMAIN stack \ {Len(stack)}
  BY <1>1, <1>4
<1> QED BY <1>1, <1>3, <1>4, <1>5, <1>6 DEF Popped, StackTyped

\* main begins again, or exit.
LEMMA Alone ==
    ASSUME NEW at \in LoopAts \cup EndAts, stack' = <<Frame("main", at)>>
    PROVE  /\ StackTyped' /\ ~Over' /\ Len(stack') = 1 /\ DOMAIN stack' = {1}
           /\ stack'[1].who = "main" /\ stack'[1].at = at /\ stack'[1].left = <<>>
<1>1. Frame("main", at) \in Frames
  <2>1. Fits("main", at) /\ Frame("main", at) =
            [who |-> "main", at |-> at, left |-> <<>>, seen |-> 0]
    BY DEF Frame, Fits
  <2> QED BY <2>1, FrameTyped, EmptySeq
<1> QED BY <1>1 DEF StackTyped, Over, Frame

-----------------------------------------------------------------------------
(* Where each step finds the stack, and what it makes of it.               *)

Running(who, at) ==
    /\ ~Over /\ Top.who = who /\ Top.at = at
    /\ Len(stack) \in Nat \ {0} /\ DOMAIN stack = 1..Len(stack)
    /\ Top = stack[Len(stack)] /\ Top.left \in Seq(Threads) /\ Top.seen \in Nat
    /\ who = "main" <=> Len(stack) = 1

LEMMA Place ==
    ASSUME ExecutorTypeOK, NEW at, At(at)
    PROVE  /\ Running(Top.who, at) /\ Top.who \in {"main", "hup", "term"}
           /\ at \in LoopAts \cup {"exit"} => Top.who = "main"
           /\ at \in {"reload", "clear", "rearm", "raise"} => Top.who = "hup"
           /\ at \in {"atexit", "none"} => Top.who = "term"
           /\ at = "forget" => Top.who # "hup"
           /\ at \in {"log", "joinLog"} => Top.who # "term"
<1>1. ~Over /\ Top.at = at
  BY DEF At
<1>2. /\ Len(stack) \in Nat \ {0} /\ DOMAIN stack = 1..Len(stack)
      /\ Top = stack[Len(stack)] /\ Top \in Frames
      /\ Top.who = "main" <=> Len(stack) = 1
  BY <1>1, TopTyped
<1>3. /\ Top.left \in Seq(Threads) /\ Top.who \in {"main", "hup", "term"} /\ Top.seen \in Nat
      /\ Top.who = "main" => at \in LoopAts \cup EndAts
      /\ Top.who = "hup" => at \in HupAts
      /\ Top.who = "term" => at \in TermAts
  BY <1>1, <1>2, FrameKinds
<1> QED BY <1>1, <1>2, <1>3 DEF Running, LoopAts, EndAts, HupAts, TermAts

LEMMA TryAgainStep ==
    ASSUME ExecutorTypeOK, TryAgain
    PROVE  /\ Running("main", "ready") /\ MovesTo("loop", Top.left) /\ StackTyped'
           /\ guard' = "main" /\ code' = code
BY Place, Going DEF TryAgain, Running, Fits, LoopAts

LEMMA LoopStep ==
    ASSUME ExecutorTypeOK, Loop
    PROVE  /\ Running("main", "loop")
           /\ \/ executor /\ MovesTo("create", Top.left) /\ StackTyped' /\ UNCHANGED ends
              \/ ~executor /\ Propagate(FALSE) /\ UNCHANGED sentinel
BY Place, Going DEF Loop, Running, Fits, LoopAts

LEMMA CreateVirtsStep ==
    ASSUME ExecutorTypeOK, CreateVirts
    PROVE  /\ Running("main", "create") /\ gen' = gen + 1
           /\ \E n \in 0..NVirts :
                  /\ virts' = ListOf("virt", n, gen')
                  /\ \/ n = 0 /\ ExitWith(1, "outer") /\ UNCHANGED <<sentinel, overtaken>>
                     \/ n # 0 /\ MovesTo("createDests", Top.left) /\ StackTyped'
                              /\ UNCHANGED ends
           /\ st' = [t \in Threads |-> IF t \in ToSet(virts') THEN "new" ELSE st[t]]
BY Place, Going DEF CreateVirts, Running, Fits, LoopAts

LEMMA CreateDestsStep ==
    ASSUME ExecutorTypeOK, CreateDests
    PROVE  /\ Running("main", "createDests")
           /\ \/ NDests = 0 /\ ExitWith(1, "outer") /\ UNCHANGED <<sentinel, overtaken>>
              \/ NDests # 0 /\ MovesTo("virts", Top.left) /\ StackTyped' /\ UNCHANGED ends
BY Place, Going DEF CreateDests, Running, Fits, LoopAts

LEMMA BeginStartStep ==
    ASSUME ExecutorTypeOK, BeginStart
    PROVE  /\ StackTyped'
           /\ \/ Running("main", "virts") /\ MovesTo("startVirts", virts)
              \/ Running("main", "dests") /\ MovesTo("startDests", dests)
<1>1. virts \in Seq(Threads) /\ dests \in Seq(Threads)
  BY SeqMonotonic DEF ExecutorTypeOK
<1> QED BY <1>1, Place, Going DEF BeginStart, Running, Fits, LoopAts

LEMMA StartsStep ==
    ASSUME ExecutorTypeOK, StartsThreads, Top.left # <<>>
    PROVE  /\ Running("main", Top.at) /\ Top.at \in {"startVirts", "startDests"}
           /\ Head(Top.left) \in ToSet(Top.left)
BY Place DEF StartsThreads, LoopAts, At, Running, ToSet

LEMMA StartedStep ==
    ASSUME ExecutorTypeOK, Started
    PROVE  /\ Running("main", Top.at) /\ Top.at \in {"startVirts", "startDests"}
           /\ MovesTo(Top.at, Tail(Top.left)) /\ StackTyped'
           /\ ToSet(Tail(Top.left)) \subseteq ToSet(Top.left)
<1>1. Running("main", Top.at) /\ Top.at \in {"startVirts", "startDests"}
  BY StartsStep DEF Started
<1>2. Tail(Top.left) \in Seq(Threads) /\ ToSet(Tail(Top.left)) \subseteq ToSet(Top.left)
  BY <1>1, ListShortened DEF Started, Running
<1>3. GotoWith(Top.at, Tail(Top.left))
  BY DEF Started
<1> QED BY <1>1, <1>2, <1>3, Going DEF Running, Fits, LoopAts

LEMMA AllStartedStep ==
    ASSUME ExecutorTypeOK, AllStarted
    PROVE  /\ StackTyped'
           /\ \/ Running("main", "startVirts") /\ Oneshot /\ MovesTo("waitVirts", virts)
              \/ Running("main", "startVirts") /\ ~Oneshot /\ MovesTo("dests", Top.left)
              \/ Running("main", "startDests") /\ MovesTo("waitDests", dests)
<1>1. virts \in Seq(Threads) /\ dests \in Seq(Threads)
  BY SeqMonotonic DEF ExecutorTypeOK
<1> QED BY <1>1, Place, Going DEF AllStarted, StartsThreads, Running, Fits, LoopAts

\* A list without one of its threads has the others.
LEMMA OthersStay ==
    ASSUME NEW list \in Seq(Threads), NEW k \in 1..Len(list)
    PROVE  /\ RemoveAt(list, k) \in Seq(Threads)
           /\ ToSet(list) \subseteq ToSet(RemoveAt(list, k)) \cup {list[k]}
<1>1. PICK before : before = SubSeq(list, 1, k - 1)
  OBVIOUS
<1>2. PICK after : after = SubSeq(list, k + 1, Len(list))
  OBVIOUS
<1>3. /\ before \in Seq(Threads) /\ Len(before) = k - 1
      /\ \A i \in 1..k - 1 : before[i] = list[i]
  BY <1>1, SubSeqProperties
<1>4. /\ after \in Seq(Threads) /\ Len(after) = Len(list) - k
      /\ \A i \in 1..Len(list) - k : after[i] = list[k + i]
  BY <1>2, SubSeqProperties
<1>5. RemoveAt(list, k) = before \o after
  BY <1>1, <1>2 DEF RemoveAt
<1>6. before \o after \in Seq(Threads) /\ ToSet(before \o after) = ToSet(before) \cup ToSet(after)
  BY <1>3, <1>4, ListsJoined
<1>7. ASSUME NEW i \in 1..Len(list), i # k
      PROVE  list[i] \in ToSet(before) \cup ToSet(after)
  <2>1. CASE i < k
    BY <1>3, <2>1, InList
  <2>2. CASE i > k
    <3>1. i - k \in 1..Len(after) /\ after[i - k] = list[i]
      <4>1. PICK j \in Int : j = i - k
        OBVIOUS
      <4>2. j \in 1..Len(list) - k /\ k + j = i
        BY <2>2, <4>1
      <4> QED BY <1>4, <4>1, <4>2
    <3> QED BY <1>4, <3>1, InList
  <2> QED BY <1>7, <2>1, <2>2
<1>8. \A t \in ToSet(list) : t = list[k] \/ t \in ToSet(before) \cup ToSet(after)
  BY <1>7, InList
<1> QED BY <1>5, <1>6, <1>8

LEMMA VisitStep ==
    ASSUME ExecutorTypeOK, Visit
    PROVE  /\ Running("main", Top.at) /\ Top.at \in {"waitVirts", "waitDests"}
           /\ StackTyped'
           /\ \E left \in Seq(Threads) :
                  /\ MovesTo(Top.at, left)
                  /\ \A t \in ToSet(Top.left) : t \in ToSet(left) \/ Told(t)
<1>1. Running("main", Top.at) /\ Top.at \in {"waitVirts", "waitDests"}
  BY Place DEF Visit, Waits, At, Running, LoopAts
<1> DEFINE next == Top.seen + 1
           left == IF Removable(Top.left[next]) THEN RemoveAt(Top.left, next) ELSE Top.left
<1>2. next \in 1..Len(Top.left) /\ Top.left \in Seq(Threads)
  BY <1>1 DEF Visit, Running
<1>3. left \in Seq(Threads) /\ \A t \in ToSet(Top.left) : t \in ToSet(left) \/ Told(t)
  <2>1. CASE Removable(Top.left[next])
    BY <1>2, <2>1, OthersStay DEF Removable
  <2>2. CASE ~Removable(Top.left[next])
    BY <1>2, <2>2
  <2> QED BY <2>1, <2>2
<1>4. [who |-> Top.who, at |-> Top.at, left |-> left, seen |-> next] \in Frames
  <2> HIDE DEF left, next
  <2>1. Top.who = "main" /\ Fits(Top.who, Top.at)
    BY <1>1 DEF Running, Fits, LoopAts
  <2>2. next \in Nat
    BY <1>2
  <2> QED BY <1>3, <2>1, <2>2, FrameTyped
<1>5. stack' = [stack EXCEPT ![Len(stack)] =
                    [who |-> Top.who, at |-> Top.at, left |-> left, seen |-> next]]
  BY DEF Visit
<1>6. MovesTo(Top.at, left) /\ StackTyped'
  <2> HIDE DEF left, next
  <2> DEFINE f == [who |-> Top.who, at |-> Top.at, left |-> left, seen |-> next]
  <2>1. f.who = Top.who /\ f.at = Top.at /\ f.left = left
    OBVIOUS
  <2> HIDE DEF f
  <2>2. f \in Frames /\ stack' = [stack EXCEPT ![Len(stack)] = f]
    BY <1>4, <1>5 DEF f
  <2> QED BY <1>1, <2>1, <2>2, TopReplaced DEF Running
<1> QED BY <1>1, <1>3, <1>6

LEMMA SleepStep ==
    ASSUME ExecutorTypeOK, Sleep
    PROVE  /\ Running("main", Top.at) /\ Top.at \in {"waitVirts", "waitDests"}
           /\ MovesTo(Top.at, Top.left) /\ StackTyped'
<1>1. Running("main", Top.at) /\ Top.at \in {"waitVirts", "waitDests"}
  BY Place DEF Sleep, Waits, At, Running, LoopAts
<1>2. GotoWith(Top.at, Top.left)
  BY DEF Sleep
<1> QED BY <1>1, <1>2, Going DEF Running, Fits, LoopAts

LEMMA WaitedStep ==
    ASSUME ExecutorTypeOK, Waited
    PROVE  /\ Running("main", Top.at) /\ Top.at \in {"waitVirts", "waitDests"}
           /\ Top.left = <<>> /\ UNCHANGED <<sentinel, overtaken>>
           /\ \/ ~Oneshot /\ ExitWith(0, "outer")
              \/ /\ mode = "oneshot" /\ Top.at = "waitVirts"
                 /\ MovesTo("dests", Top.left) /\ StackTyped' /\ UNCHANGED ends
              \/ /\ Oneshot /\ (mode = "oneshot" => Top.at = "waitDests")
                 /\ \E c \in 0..1 : ExitWith(c, "none")
<1>1. Running("main", Top.at) /\ Top.at \in {"waitVirts", "waitDests"}
  BY Place DEF Waited, Waits, At, Running, LoopAts
<1>2. Goto("dests") => MovesTo("dests", Top.left) /\ StackTyped'
  BY <1>1, Going DEF Running, Fits, LoopAts
<1>3. \/ ~Oneshot /\ ExitWith(0, "outer") /\ UNCHANGED <<sentinel, overtaken>>
      \/ mode = "oneshot" /\ Top.at = "waitVirts" /\ Goto("dests") /\ UNCHANGED ends
      \/ /\ Oneshot /\ ~(mode = "oneshot" /\ Top.at = "waitVirts")
         /\ \E c \in 0..1 : ExitWith(c, "none")
         /\ UNCHANGED <<sentinel, overtaken>>
  BY DEF Waited
<1>4. Top.left = <<>>
  BY DEF Waited
<1> QED BY <1>1, <1>2, <1>3, <1>4 DEF ends

LEMMA SignalStep ==
    ASSUME ExecutorTypeOK, Hup \/ Term
    PROVE  /\ ~Over /\ Len(stack) \in Nat \ {0} /\ DOMAIN stack = 1..Len(stack)
           /\ StackTyped'
           /\ \/ Hup /\ hup = "reload" /\ Pushed("hup", "reload")
              \/ Hup /\ hup # "reload" /\ stack' = stack
              \/ Term /\ Pushed("term", "atexit")
<1>1. ~Over /\ Len(stack) \in Nat \ {0} /\ DOMAIN stack = 1..Len(stack) /\ StackTyped
  BY TopTyped DEF Hup, Term, ExecutorTypeOK, StackTyped
<1>2. Fits("hup", "reload") /\ Fits("term", "atexit")
  BY DEF Fits, HupAts, TermAts
<1> QED BY <1>1, <1>2, Interrupting DEF Hup, Term, StackTyped

LEMMA AskExecutorStep ==
    ASSUME ExecutorTypeOK, AskExecutor
    PROVE  /\ StackTyped'
           /\ \/ /\ Running("hup", "reload") /\ executor /\ MovesTo("call", Top.left)
                 /\ hup' = "ignore" /\ code' = code
              \/ /\ Running("hup", "reload") /\ ~executor /\ MovesTo("log", Top.left)
                 /\ code' = 1 /\ hup' = hup
              \/ /\ Running("term", "atexit") /\ executor /\ MovesTo("call", Top.left)
                 /\ UNCHANGED <<hup, code>>
              \/ /\ Running("term", "atexit") /\ ~executor /\ Popped
                 /\ UNCHANGED <<hup, code>>
              \/ /\ Running("main", "exit") /\ executor /\ MovesTo("call", Top.left)
                 /\ UNCHANGED <<hup, code>>
              \/ /\ Running("main", "exit") /\ ~executor /\ MovesTo("log", Top.left)
                 /\ UNCHANGED <<hup, code>>
<1>1. CASE At("reload")
  BY <1>1, Place, Going DEF AskExecutor, Running, Fits, HupAts, At
<1>2. CASE At("atexit")
  BY <1>2, Place, Going, Returning DEF AskExecutor, Running, Fits, TermAts, At
<1>3. CASE At("exit")
  BY <1>3, Place, Going DEF AskExecutor, Running, Fits, EndAts, At
<1> QED BY <1>1, <1>2, <1>3 DEF AskExecutor

LEMMA CallExecutorStep ==
    ASSUME ExecutorTypeOK, CallExecutor
    PROVE  /\ Running(Top.who, "call") /\ Top.who \in {"main", "hup", "term"}
           /\ \/ /\ executor /\ event' = TRUE /\ MovesTo("joinVirts", virts) /\ StackTyped'
                 /\ UNCHANGED ends
              \/ ~executor /\ Propagate(FALSE) /\ UNCHANGED <<event, sentinel>>
<1>1. virts \in Seq(Threads)
  BY SeqMonotonic DEF ExecutorTypeOK
<1> QED
  BY <1>1, Place, Going DEF CallExecutor, Running, Fits, EndAts, HupAts, TermAts

LEMMA JoinsStep ==
    ASSUME ExecutorTypeOK, Joins
    PROVE  /\ Running(Top.who, Top.at) /\ Top.at \in {"joinVirts", "joinDests"}
           /\ Top.who \in {"main", "hup", "term"}
BY Place DEF Joins, At

LEMMA JoinedStep ==
    ASSUME ExecutorTypeOK, Joined
    PROVE  /\ Running(Top.who, Top.at) /\ Top.at \in {"joinVirts", "joinDests"}
           /\ MovesTo(Top.at, Tail(Top.left)) /\ StackTyped'
           /\ Head(Top.left) \in stopped /\ CanJoin(Head(Top.left))
           /\ \A t \in ToSet(Top.left) : t \in ToSet(Tail(Top.left)) \/ t = Head(Top.left)
<1>1. /\ Running(Top.who, Top.at) /\ Top.at \in {"joinVirts", "joinDests"}
      /\ Top.who \in {"main", "hup", "term"} /\ Top.left # <<>>
  BY JoinsStep DEF Joined
<1>2. Tail(Top.left) \in Seq(Threads) /\ GotoWith(Top.at, Tail(Top.left))
  BY <1>1 DEF Joined, Running
<1>3. \A t \in ToSet(Top.left) : t \in ToSet(Tail(Top.left)) \/ t = Head(Top.left)
  BY <1>1, ListShortened DEF Running
<1>4. Fits(Top.who, Top.at)
  BY <1>1 DEF Fits, EndAts, HupAts, TermAts
<1> QED BY <1>1, <1>2, <1>3, <1>4, Going DEF Joined, Running

LEMMA AllJoinedStep ==
    ASSUME ExecutorTypeOK, AllJoined
    PROVE  /\ StackTyped' /\ Top.left = <<>>
           /\ Top.who \in {"main", "hup", "term"}
           /\ \/ Running(Top.who, "joinVirts") /\ MovesTo("joinDests", dests)
              \/ Running("hup", "joinDests") /\ MovesTo("clear", Top.left)
              \/ /\ Running(Top.who, "joinDests") /\ Top.who # "hup"
                 /\ MovesTo("forget", Top.left)
<1>1. dests \in Seq(Threads)
  BY SeqMonotonic DEF ExecutorTypeOK
<1>2. CASE At("joinVirts")
  BY <1>1, <1>2, Place, Going DEF AllJoined, Running, Fits, EndAts, HupAts, TermAts, At
<1>3. CASE At("joinDests")
  BY <1>3, Place, Going DEF AllJoined, Running, Fits, EndAts, HupAts, TermAts, At
<1> QED BY <1>2, <1>3 DEF AllJoined, Joins

LEMMA ForgetStep ==
    ASSUME ExecutorTypeOK, Forget
    PROVE  /\ StackTyped'
           /\ \/ Running("term", "forget") /\ MovesTo("none", Top.left)
              \/ Running("main", "forget") /\ MovesTo("log", Top.left)
BY Place, Going DEF Forget, Running, Fits, EndAts, TermAts

LEMMA NoExecutorStep ==
    ASSUME ExecutorTypeOK, NoExecutor
    PROVE  Running("term", "none") /\ Popped /\ StackTyped'
BY Place, Returning DEF NoExecutor, Running

LEMMA ReloadStep ==
    ASSUME ExecutorTypeOK
    PROVE  /\ Clear => Running("hup", "clear") /\ MovesTo("rearm", Top.left) /\ StackTyped'
           /\ Rearm => Running("hup", "rearm") /\ MovesTo("raise", Top.left) /\ StackTyped'
           /\ RaiseReload => Running("hup", "raise")
BY Place, Going DEF Clear, Rearm, RaiseReload, Running, Fits, HupAts

LEMMA LogStep ==
    ASSUME ExecutorTypeOK
    PROVE  /\ EndLog => /\ Running(Top.who, "log") /\ Top.who \in {"main", "hup"}
                        /\ MovesTo("joinLog", Top.left) /\ StackTyped'
           /\ LogEnded => /\ Running(Top.who, "joinLog") /\ Top.who \in {"main", "hup"}
                          /\ Over' /\ StackTyped'
<1>1. ASSUME EndLog
      PROVE  /\ Running(Top.who, "log") /\ Top.who \in {"main", "hup"}
             /\ MovesTo("joinLog", Top.left) /\ StackTyped'
  BY <1>1, Place, Going DEF EndLog, Running, Fits, HupAts, EndAts
<1>2. ASSUME LogEnded
      PROVE  /\ Running(Top.who, "joinLog") /\ Top.who \in {"main", "hup"}
             /\ Over' /\ StackTyped'
  BY <1>2, Place DEF LogEnded, Running, Over, StackTyped
<1> QED BY <1>1, <1>2

\* After an exception main begins again, calls exit, or is over.
LEMMA Propagating ==
    ASSUME NEW isReload \in BOOLEAN, guard \in {"main", "outer", "none"},
           Propagate(isReload)
    PROVE  /\ StackTyped'
           /\ \/ /\ isReload /\ guard = "main" /\ guard' = "outer" /\ code' = code
                 /\ ~Over' /\ DOMAIN stack' = {1} /\ stack'[1].who = "main"
                 /\ stack'[1].at = "ready"
              \/ /\ guard # "none" /\ guard' = "none" /\ code' = 1
                 /\ ~Over' /\ DOMAIN stack' = {1} /\ stack'[1].who = "main"
                 /\ stack'[1].at = "exit"
              \/ /\ guard = "none" /\ guard' = guard /\ code' = 1
                 /\ Over' /\ DOMAIN stack' = {}
<1>1. CASE isReload /\ guard = "main"
  BY <1>1, Alone DEF Propagate, LoopAts, ExitWith
<1>2. CASE guard # "none" /\ ~(isReload /\ guard = "main")
  BY <1>2, Alone DEF Propagate, ExitWith, EndAts
<1>3. CASE guard = "none"
  BY <1>3, EmptySeq DEF Propagate, StackTyped, Over
<1> QED BY <1>1, <1>2, <1>3

\* exit is called from the lowest frame.
LEMMA CallingExit ==
    ASSUME NEW c, NEW around, ExitWith(c, around)
    PROVE  /\ StackTyped' /\ guard' = around /\ code' = c
           /\ ~Over' /\ DOMAIN stack' = {1} /\ stack'[1].who = "main"
           /\ stack'[1].at = "exit"
BY Alone DEF ExitWith, EndAts

-----------------------------------------------------------------------------
(* Types.                                                                  *)

\* The frames stay main's and, on it, those of handlers.
LEMMA StackTypeStep ==
    ASSUME ExecutorTypeOK, [ExecutorNext]_xvars
    PROVE  StackTyped'
<1>0. StackTyped /\ guard \in {"main", "outer", "none"}
  BY DEF ExecutorTypeOK, StackTyped
<1>1. CASE UNCHANGED stack
  BY <1>0, <1>1 DEF StackTyped
<1>2. CASE Loop \/ TryAgain
  BY <1>0, <1>2, LoopStep, TryAgainStep, Propagating
<1>3. CASE CreateVirts
  BY <1>3, CreateVirtsStep, CallingExit
<1>4. CASE CreateDests
  BY <1>4, CreateDestsStep, CallingExit
<1>5. CASE BeginStart \/ Started \/ AllStarted \/ Visit \/ Sleep
  BY <1>5, BeginStartStep, StartedStep, AllStartedStep, VisitStep, SleepStep
<1>6. CASE Waited
  BY <1>6, WaitedStep, CallingExit
<1>7. CASE Hup \/ Term
  BY <1>7, SignalStep
<1>8. CASE AskExecutor
  BY <1>8, AskExecutorStep
<1>9. CASE CallExecutor
  BY <1>0, <1>9, CallExecutorStep, Propagating
<1>10. CASE Joined \/ AllJoined \/ Forget \/ NoExecutor
  BY <1>10, JoinedStep, AllJoinedStep, ForgetStep, NoExecutorStep
<1>11. CASE Clear \/ Rearm \/ EndLog \/ LogEnded
  BY <1>11, ReloadStep, LogStep
<1>12. CASE RaiseReload
  BY <1>0, <1>12, Propagating DEF RaiseReload
<1> QED
  BY <1>1, <1>2, <1>3, <1>4, <1>5, <1>6, <1>7, <1>8, <1>9, <1>10, <1>11, <1>12
  DEF ExecutorNext, RunMain, RunThread, StartNext, StopNext, Enter, Leave, StopItself,
      xvars

\* The guards, the exit code and the flags.
LEMMA FlagsTypeStep ==
    ASSUME ExecutorTypeOK, [ExecutorNext]_xvars
    PROVE  /\ executor' \in BOOLEAN /\ event' \in BOOLEAN /\ sentinel' \in BOOLEAN
           /\ overtaken' \in BOOLEAN
           /\ guard' \in {"main", "outer", "none"} /\ code' \in {0, 1}
           /\ hup' \in {"reload", "ignore"} /\ mode' \in Modes
<1> USE DEF xvars, threads, lists, ends, signals, ExecutorTypeOK
<1>1. executor' \in BOOLEAN /\ event' \in BOOLEAN /\ sentinel' \in BOOLEAN
  BY DEF ExecutorNext, RunMain, RunThread, TryAgain, Loop, CreateVirts, CreateDests, BeginStart,
     StartNext, Started, AllStarted, Visit, Sleep, Waited, AskExecutor, CallExecutor,
     StopNext, Joined, AllJoined, Forget, NoExecutor, Clear, Rearm, RaiseReload, EndLog,
     LogEnded, Hup, Term, Enter, Leave, StopItself
<1>2. overtaken' \in BOOLEAN
  BY DEF ExecutorNext, RunMain, RunThread, TryAgain, Loop, CreateVirts, CreateDests, BeginStart,
     StartNext, Started, AllStarted, Visit, Sleep, Waited, AskExecutor, CallExecutor,
     StopNext, Joined, AllJoined, Forget, NoExecutor, Clear, Rearm, RaiseReload, EndLog,
     LogEnded, Hup, Term, Enter, Leave, StopItself, Propagate
<1>3. guard' \in {"main", "outer", "none"} /\ code' \in {0, 1}
  BY DEF ExecutorNext, RunMain, RunThread, TryAgain, Loop, CreateVirts, CreateDests, BeginStart,
     StartNext, Started, AllStarted, Visit, Sleep, Waited, AskExecutor, CallExecutor,
     StopNext, Joined, AllJoined, Forget, NoExecutor, Clear, Rearm, RaiseReload, EndLog,
     LogEnded, Hup, Term, Enter, Leave, StopItself, Propagate, ExitWith
<1>4. hup' \in {"reload", "ignore"} /\ mode' \in Modes
  BY DEF ExecutorNext, RunMain, RunThread, TryAgain, Loop, CreateVirts, CreateDests, BeginStart,
     StartNext, Started, AllStarted, Visit, Sleep, Waited, AskExecutor, CallExecutor,
     StopNext, Joined, AllJoined, Forget, NoExecutor, Clear, Rearm, RaiseReload, EndLog,
     LogEnded, Hup, Term, Enter, Leave, StopItself
<1> QED BY <1>1, <1>2, <1>3, <1>4

\* Where main is while it runs itself.
LEMMA MainRuns ==
    ASSUME NEW at, Running("main", at), NEW ats
    PROVE  /\ (MainAt(ats) <=> at \in ats) /\ stack[1] = Top /\ Len(stack) = 1
           /\ ~Over /\ DOMAIN stack = {1} /\ stack[1].who = "main" /\ stack[1].at = at
BY DEF MainAt, Running

\* The executor's lists, the threads and the counters.
LEMMA ListsTypeStep ==
    ASSUME ExecutorTypeOK, RunsFollowHups, [ExecutorNext]_xvars
    PROVE  /\ virts' \in Seq({t \in Threads : t[1] = "virt"})
           /\ dests' \in Seq({t \in Threads : t[1] = "dest"})
           /\ st' \in [Threads -> {"none", "new", "spawned", "work", "down"}]
           /\ stopped' \subseteq Threads
           /\ gen' \in Nat /\ hups' \in Nat /\ terms' \in Nat
<1> USE DEF lists, signals, threads
<1>0. /\ virts \in Seq({t \in Threads : t[1] = "virt"})
      /\ dests \in Seq({t \in Threads : t[1] = "dest"})
      /\ st \in [Threads -> {"none", "new", "spawned", "work", "down"}]
      /\ stopped \subseteq Threads
      /\ gen \in Nat /\ hups \in Nat /\ terms \in Nat /\ hups <= MaxHups
  BY DEF ExecutorTypeOK, RunsFollowHups
<1>1. CASE CreateVirts
  <2>1. Running("main", "create") /\ gen' = gen + 1
    BY <1>1, CreateVirtsStep
  <2>2. gen' \in 1..MaxHups + 1
    BY <1>0, <2>1, MainRuns DEF RunsFollowHups
  <2>3. virts' \in Seq({t \in Threads : t[1] = "virt"})
    <3>1. PICK n \in 0..NVirts : virts' = ListOf("virt", n, gen')
      BY <1>1, CreateVirtsStep
    <3> QED BY <2>2, <3>1, ListsTyped
  <2>4. st' \in [Threads -> {"none", "new", "spawned", "work", "down"}]
    BY <1>0, <1>1, CreateVirtsStep
  <2> QED BY <1>0, <1>1, <2>2, <2>3, <2>4 DEF CreateVirts
<1>2. CASE CreateDests
  <2>1. Running("main", "createDests")
    BY <1>2, CreateDestsStep
  <2>2. gen \in 1..MaxHups + 1
    BY <1>0, <2>1, MainRuns DEF RunsFollowHups
  <2>3. dests' \in Seq({t \in Threads : t[1] = "dest"})
    BY <1>2, <2>2, ListsTyped DEF CreateDests
  <2>4. st' \in [Threads -> {"none", "new", "spawned", "work", "down"}]
    BY <1>0, <1>2 DEF CreateDests
  <2> QED BY <1>0, <1>2, <2>3, <2>4 DEF CreateDests
<1>3. CASE StopNext
  <2>1. Top.left \in Seq(Threads) /\ Top.left # <<>>
    BY <1>3, JoinsStep DEF StopNext, Running
  <2>2. Head(Top.left) \in Threads
    BY <2>1, HeadTailProperties
  <2> QED BY <1>0, <1>3, <2>2 DEF StopNext
<1>4. CASE Forget
  BY <1>0, <1>4, EmptySeq DEF Forget
<1>5. CASE StartNext
  BY <1>0, <1>5 DEF StartNext
<1>6. CASE \E t \in Threads : RunThread(t) \/ StopItself(t)
  BY <1>0, <1>6 DEF RunThread, Enter, Leave, StopItself
<1>7. CASE Hup \/ Term
  BY <1>0, <1>7 DEF Hup, Term
<1>8. CASE TryAgain \/ Loop \/ BeginStart \/ Started \/ AllStarted \/ Visit \/ Sleep \/ Waited
  BY <1>0, <1>8 DEF TryAgain, Loop, BeginStart, Started, AllStarted, Visit, Sleep, Waited
<1>9. CASE AskExecutor \/ CallExecutor \/ Joined \/ AllJoined \/ NoExecutor
  BY <1>0, <1>9 DEF AskExecutor, CallExecutor, Joined, AllJoined, NoExecutor
<1>10. CASE Clear \/ Rearm \/ RaiseReload \/ EndLog \/ LogEnded \/ UNCHANGED xvars
  BY <1>0, <1>10 DEF Clear, Rearm, RaiseReload, EndLog, LogEnded, xvars
<1> QED
  BY <1>1, <1>2, <1>3, <1>4, <1>5, <1>6, <1>7, <1>8, <1>9, <1>10 DEF ExecutorNext, RunMain

\* A step leads from states of these types to others.
LEMMA TypeStep ==
    ASSUME ExecutorTypeOK, RunsFollowHups, [ExecutorNext]_xvars
    PROVE  ExecutorTypeOK'
BY StackTypeStep, FlagsTypeStep, ListsTypeStep DEF ExecutorTypeOK, StackTyped

-----------------------------------------------------------------------------
(* What every step does to main's frame and to the threads.                *)

\* A step of a frame moves main only if it is main's.
LEMMA LowestMoves ==
    ASSUME NEW who, NEW before, Running(who, before), NEW at, NEW left, MovesTo(at, left)
    PROVE  /\ ~Over' /\ 1 \in DOMAIN stack
           /\ who = "main" => /\ stack'[1].at = at /\ stack'[1].left = left
                              /\ DOMAIN stack' = {1} /\ stack'[1].who = "main"
           /\ who # "main" => stack'[1] = stack[1] /\ Len(stack) # 1
BY DEF Running, MovesTo

LEMMA LowestStep ==
    ASSUME ExecutorTypeOK, [ExecutorNext]_xvars
    PROVE  \/ UNCHANGED <<stack, guard, code>>
           \/ /\ ~Over /\ ~Over' /\ stack'[1] = stack[1] /\ guard' = guard
              /\ code' = code \/ code' = 1
           \/ /\ ~Over /\ stack[1].at \in EndAts /\ UNCHANGED <<guard, code>>
              /\ ~Over' /\ stack'[1].at \in EndAts \ {"exit"}
           \/ LogEnded /\ Over'
           \/ TryAgain \/ Loop \/ CreateVirts \/ CreateDests \/ BeginStart \/ Started
           \/ AllStarted \/ Visit \/ Sleep \/ Waited
           \/ CallExecutor /\ ~executor
           \/ RaiseReload
<1> DEFINE Stays == /\ ~Over /\ ~Over' /\ stack'[1] = stack[1] /\ guard' = guard
                    /\ code' = code \/ code' = 1
           Ends == /\ ~Over /\ stack[1].at \in EndAts /\ UNCHANGED <<guard, code>>
                   /\ ~Over' /\ stack'[1].at \in EndAts \ {"exit"}
<1>1. ASSUME NEW who, NEW before, Running(who, before), NEW at, NEW left,
             MovesTo(at, left), guard' = guard, code' = code \/ code' = 1,
             who = "main" => before \in EndAts /\ at \in EndAts \ {"exit"} /\ code' = code
      PROVE  Stays \/ Ends
  <2>1. CASE who = "main"
    <3>1. stack[1].at = before /\ ~Over
      BY <1>1, <2>1 DEF Running
    <3>2. stack'[1].at = at /\ ~Over'
      BY <1>1, <2>1, LowestMoves
    <3> QED BY <1>1, <2>1, <3>1, <3>2
  <2>2. CASE who # "main"
    <3>1. stack'[1] = stack[1] /\ ~Over'
      BY <1>1, <2>2, LowestMoves
    <3> QED BY <1>1, <3>1 DEF Running
  <2> QED BY <2>1, <2>2
<1> HIDE DEF Stays, Ends
<1>s. Stays \/ Ends =>
           \/ /\ ~Over /\ ~Over' /\ stack'[1] = stack[1] /\ guard' = guard
              /\ code' = code \/ code' = 1
           \/ /\ ~Over /\ stack[1].at \in EndAts /\ UNCHANGED <<guard, code>>
              /\ ~Over' /\ stack'[1].at \in EndAts \ {"exit"}
  BY DEF Stays, Ends
<1>2. CASE Hup \/ Term
  <2>1. \/ UNCHANGED <<stack, guard, code>>
        \/ /\ ~Over /\ ~Over' /\ 1 \in DOMAIN stack
           /\ \A i \in DOMAIN stack : stack'[i] = stack[i]
           /\ UNCHANGED <<guard, code>>
    BY <1>2, SignalStep DEF Hup, Term, ends, Pushed
  <2> QED BY <2>1 DEF Stays
<1>3. CASE AskExecutor
  <2>1. \/ /\ Running("term", "atexit") /\ Popped /\ UNCHANGED <<guard, code>>
        \/ Stays \/ Ends
    BY <1>1, <1>3, AskExecutorStep DEF AskExecutor, EndAts
  <2>2. ASSUME Running("term", "atexit"), Popped PROVE stack'[1] = stack[1] /\ ~Over /\ ~Over'
    BY <2>2 DEF Running, Popped
  <2> QED BY <2>1, <2>2 DEF Stays, Ends
<1>4. CASE CallExecutor /\ executor
  BY <1>1, <1>s, <1>4, CallExecutorStep DEF EndAts, ends
<1>5. CASE Joined
  BY <1>1, <1>s, <1>5, JoinedStep DEF EndAts, ends, Joined
<1>6. CASE AllJoined
  BY <1>1, <1>s, <1>6, AllJoinedStep DEF EndAts, ends, AllJoined
<1>7. CASE Forget
  BY <1>1, <1>s, <1>7, ForgetStep DEF EndAts, ends, Forget
<1>8. CASE NoExecutor
  <2>1. ~Over /\ ~Over' /\ stack'[1] = stack[1]
    BY <1>8, NoExecutorStep DEF Running, Popped
  <2> QED BY <1>8, <2>1 DEF NoExecutor, ends
<1>9. CASE Clear
  <2>1. /\ Running("hup", "clear") /\ MovesTo("rearm", Top.left)
        /\ guard' = guard /\ code' = code
    BY <1>9, ReloadStep DEF Clear, ends
  <2> QED BY <1>1, <1>s, <2>1
<1>10. CASE Rearm
  BY <1>1, <1>s, <1>10, ReloadStep DEF ends, Rearm
<1>11. CASE EndLog
  BY <1>1, <1>s, <1>11, LogStep DEF EndAts, EndLog
<1>12. CASE LogEnded
  BY <1>12, LogStep
<1>13. CASE UNCHANGED <<stack, guard, code>>
  BY <1>13
<1>14. CASE StartNext \/ StopNext \/ \E t \in Threads : RunThread(t) \/ StopItself(t)
  BY <1>13, <1>14 DEF StartNext, StopNext, RunThread, Enter, Leave, StopItself, ends
<1>15. CallExecutor => executor \/ ~executor
  OBVIOUS
<1>17. UNCHANGED xvars => UNCHANGED <<stack, guard, code>>
  BY DEF xvars
<1> QED
  BY <1>2, <1>3, <1>4, <1>5, <1>6, <1>7, <1>8, <1>9, <1>10, <1>11, <1>12, <1>14, <1>17,
     <1>s, Zenon DEF ExecutorNext, RunMain

\* Only main creates threads; all other steps leave quiet what is quiet, and told
\* what is told unless a reload ends.
LEMMA ThreadsStep ==
    ASSUME ExecutorTypeOK, [ExecutorNext]_xvars, ~CreateVirts, ~CreateDests
    PROVE  /\ gen' = gen /\ mode' = mode /\ stopped \subseteq stopped'
           /\ (executor' => executor) /\ (sentinel => sentinel')
           /\ UNCHANGED <<virts, dests>> \/ Forget
           /\ Clear \/ (event => event')
           /\ \A t \in Threads :
                  /\ st'[t] = "none" <=> st[t] = "none"
                  /\ st'[t] = "new" => st[t] = "new"
                  /\ st'[t] = "work" /\ st[t] # "work" => st[t] = "spawned" /\ ~Told(t)
                  /\ st'[t] = "spawned" => st[t] = "spawned" \/ StartNext
<1> USE DEF lists, signals, threads, ends, ExecutorTypeOK
<1>1. CASE StartNext
  BY <1>1 DEF StartNext
<1>2. CASE StopNext
  BY <1>2 DEF StopNext
<1>3. CASE \E t \in Threads : RunThread(t) \/ StopItself(t)
  <2>1. PICK t \in Threads : Enter(t) \/ Leave(t) \/ StopItself(t)
    BY <1>3 DEF RunThread
  <2>2. CASE Enter(t)
    <3>1. st' = [st EXCEPT ![t] = IF Told(t) THEN "down" ELSE "work"] /\ st[t] = "spawned"
      BY <2>2 DEF Enter
    <3> QED BY <2>2, <3>1 DEF Enter
  <2>3. CASE Leave(t) \/ StopItself(t)
    BY <2>3 DEF Leave, StopItself
  <2> QED BY <2>1, <2>2, <2>3
<1>4. CASE Clear \/ Forget
  BY <1>4 DEF Clear, Forget
<1>5. CASE TryAgain \/ Loop \/ BeginStart \/ Started \/ AllStarted \/ Visit \/ Sleep
           \/ Waited \/ Hup \/ Term
  <2>1. UNCHANGED <<st, stopped, event, virts, dests, gen, mode, executor>>
    BY <1>5 DEF TryAgain, Loop, BeginStart, Started, AllStarted, Visit, Sleep, Waited, Hup, Term
  <2>2. sentinel' = sentinel
    BY <1>5 DEF TryAgain, Loop, BeginStart, Started, AllStarted, Visit, Sleep, Waited, Hup, Term
  <2> QED BY <2>1, <2>2
<1>6. CASE AskExecutor \/ CallExecutor \/ Joined \/ AllJoined \/ NoExecutor \/ Rearm
           \/ RaiseReload \/ EndLog \/ LogEnded
  <2>1. UNCHANGED <<st, stopped, virts, dests, gen, mode>> /\ (event => event')
    BY <1>6 DEF AskExecutor, CallExecutor, Joined, AllJoined, NoExecutor, Rearm,
       RaiseReload, EndLog, LogEnded
  <2>2. executor' => executor
    BY <1>6 DEF AskExecutor, CallExecutor, Joined, AllJoined, NoExecutor, Rearm,
       RaiseReload, EndLog, LogEnded
  <2>3. sentinel => sentinel'
    BY <1>6 DEF AskExecutor, CallExecutor, Joined, AllJoined, NoExecutor, Rearm,
       RaiseReload, EndLog, LogEnded
  <2> QED BY <2>1, <2>2, <2>3
<1>7. CASE UNCHANGED xvars
  BY <1>7 DEF xvars
<1> QED BY <1>1, <1>2, <1>3, <1>4, <1>5, <1>6, <1>7 DEF ExecutorNext, RunMain

LEMMA QuietStays ==
    ASSUME ExecutorTypeOK, [ExecutorNext]_xvars, ~CreateVirts, ~CreateDests
    PROVE  /\ \A t \in Threads : Quiet(t) => Quiet(t)'
           /\ AllQuiet => AllQuiet'
<1>1. ASSUME NEW t \in Threads, Quiet(t) PROVE Quiet(t)'
  BY <1>1, ThreadsStep DEF Quiet, Told
<1> QED BY <1>1 DEF AllQuiet

\* A step that creates threads is one of main alone.
LEMMA CreateAlone ==
    ASSUME ExecutorTypeOK, CreateVirts \/ CreateDests
    PROVE  /\ DOMAIN stack = {1} /\ DOMAIN stack' = {1} /\ ~Over /\ ~Over'
           /\ stack[1].who = "main" /\ stack[1].at \in {"create", "createDests"}
           /\ stack'[1].who = "main" /\ stack'[1].at \in {"createDests", "virts", "exit"}
           /\ UNCHANGED <<executor, event, hup, hups, mode, stopped, sentinel>>
<1>1. CASE CreateVirts
  <2>1. Running("main", "create")
    BY <1>1, CreateVirtsStep
  <2>2. \/ MovesTo("createDests", Top.left)
        \/ ExitWith(1, "outer")
    BY <1>1, CreateVirtsStep
  <2>3. /\ DOMAIN stack' = {1} /\ ~Over' /\ stack'[1].who = "main"
        /\ stack'[1].at \in {"createDests", "exit"}
    BY <2>1, <2>2, LowestMoves, CallingExit
  <2>4. UNCHANGED <<executor, event, hup, hups, mode, stopped, sentinel>>
    BY <1>1 DEF CreateVirts, signals, ends
  <2> QED BY <2>1, <2>3, <2>4, MainRuns
<1>2. CASE CreateDests
  <2>1. Running("main", "createDests")
    BY <1>2, CreateDestsStep
  <2>2. \/ MovesTo("virts", Top.left)
        \/ ExitWith(1, "outer")
    BY <1>2, CreateDestsStep
  <2>3. /\ DOMAIN stack' = {1} /\ ~Over' /\ stack'[1].who = "main"
        /\ stack'[1].at \in {"virts", "exit"}
    BY <2>1, <2>2, LowestMoves, CallingExit
  <2>4. UNCHANGED <<executor, event, hup, hups, mode, stopped, sentinel>>
    BY <1>2 DEF CreateDests, signals, ends
  <2> QED BY <2>1, <2>3, <2>4, MainRuns
<1> QED BY <1>1, <1>2

-----------------------------------------------------------------------------
(* main's loop: its guard, its runs and their threads.                     *)

\* Where main goes that runs its loop.
LEMMA LoopMoves ==
    ASSUME ExecutorTypeOK,
           BeginStart \/ Started \/ AllStarted \/ Visit \/ Sleep
    PROVE  /\ ~Over /\ ~Over' /\ DOMAIN stack' = {1} /\ DOMAIN stack = {1}
           /\ stack'[1].who = "main"
           /\ stack[1].at \in LoopAts \ {"ready", "loop", "create", "createDests"}
           /\ stack'[1].at \in LoopAts \ {"ready", "loop", "create", "createDests"}
           /\ UNCHANGED <<guard, code, executor, hup, hups, gen, mode, sentinel, virts, dests,
                          st, stopped, event>>
<1>1. UNCHANGED <<guard, code, executor, hup, hups, gen, mode, sentinel, virts, dests,
                  st, stopped, event>>
  BY DEF BeginStart, Started, AllStarted, Visit, Sleep, ends, signals, lists, threads
<1>2. PICK at, to, left : /\ Running("main", at) /\ MovesTo(to, left)
                          /\ at \in LoopAts \ {"ready", "loop", "create", "createDests"}
                          /\ to \in LoopAts \ {"ready", "loop", "create", "createDests"}
  BY BeginStartStep, StartedStep, AllStartedStep, VisitStep, SleepStep DEF LoopAts
<1> QED BY <1>1, <1>2, LowestMoves DEF Running

LEMMA GuardStep ==
    ASSUME ExecutorTypeOK, GuardFits, [ExecutorNext]_xvars
    PROVE  GuardFits'
<1> DEFINE Inside == LoopAts \ {"ready"}
<1>0. /\ guard \in {"main", "outer", "none"}
      /\ ~Over => (guard = "main" <=> MainAt(Inside))
  BY DEF ExecutorTypeOK, GuardFits, MainAt
<1>t. CASE TryAgain
  <2>1. ~Over' /\ stack'[1].at = "loop" /\ guard' = "main"
    BY <1>t, TryAgainStep, LowestMoves
  <2> QED BY <2>1 DEF GuardFits, LoopAts
<1>1. CASE Loop
  <2>1. Running("main", "loop")
    BY <1>1, LoopStep
  <2>2. guard = "main"
    BY <1>0, <2>1, MainRuns DEF LoopAts
  <2>3. (MovesTo("create", Top.left) /\ guard' = guard) \/ Propagate(FALSE)
    BY <1>1, LoopStep DEF ends
  <2>4. CASE MovesTo("create", Top.left) /\ guard' = guard
    BY <2>1, <2>2, <2>4, LowestMoves DEF GuardFits, LoopAts
  <2>5. CASE Propagate(FALSE)
    BY <1>0, <2>5, Propagating DEF GuardFits, LoopAts
  <2> QED BY <2>3, <2>4, <2>5
<1>2. CASE CreateVirts
  <2>1. Running("main", "create")
    BY <1>2, CreateVirtsStep
  <2>2. guard = "main"
    BY <1>0, <2>1, MainRuns DEF LoopAts
  <2>3. \/ \E to, left : MovesTo(to, left) /\ to \in Inside /\ guard' = guard
        \/ ExitWith(1, "outer")
    BY <1>2, CreateVirtsStep DEF LoopAts, ends
  <2> QED BY <2>1, <2>2, <2>3, LowestMoves, CallingExit DEF GuardFits, LoopAts
<1>3. CASE CreateDests
  <2>1. Running("main", "createDests")
    BY <1>3, CreateDestsStep
  <2>2. guard = "main"
    BY <1>0, <2>1, MainRuns DEF LoopAts
  <2>3. \/ \E to, left : MovesTo(to, left) /\ to \in Inside /\ guard' = guard
        \/ ExitWith(1, "outer")
    BY <1>3, CreateDestsStep DEF LoopAts, ends
  <2> QED BY <2>1, <2>2, <2>3, LowestMoves, CallingExit DEF GuardFits, LoopAts
<1>4. CASE BeginStart \/ Started \/ AllStarted \/ Visit \/ Sleep
  BY <1>4, LoopMoves DEF GuardFits
<1>5. CASE Waited
  <2>1. Running("main", Top.at) /\ Top.at \in {"waitVirts", "waitDests"}
    BY <1>5, WaitedStep
  <2>2. guard = "main"
    BY <1>0, <2>1, MainRuns DEF LoopAts
  <2>3. \/ MovesTo("dests", Top.left) /\ guard' = guard
        \/ \E c \in 0..1, around \in {"outer", "none"} : ExitWith(c, around)
    BY <1>5, WaitedStep DEF ends
  <2> QED BY <2>1, <2>2, <2>3, LowestMoves, CallingExit DEF GuardFits, LoopAts
<1>6. CASE CallExecutor /\ ~executor
  BY <1>0, <1>6, CallExecutorStep, Propagating DEF GuardFits, LoopAts
<1>7. CASE RaiseReload
  BY <1>0, <1>7, Propagating DEF RaiseReload, GuardFits, LoopAts
<1>8. CASE Over'
  BY <1>8 DEF GuardFits
<1>9. CASE UNCHANGED <<stack, guard>>
  BY <1>9 DEF GuardFits, Over
<1>10. CASE ~Over /\ ~Over' /\ stack'[1] = stack[1] /\ guard' = guard
  BY <1>10 DEF GuardFits
<1>11. CASE /\ ~Over /\ stack[1].at \in EndAts /\ guard' = guard
            /\ ~Over' /\ stack'[1].at \in EndAts
  BY <1>11 DEF GuardFits, LoopAts, EndAts
<1> QED
  BY <1>t, <1>1, <1>2, <1>3, <1>4, <1>5, <1>6, <1>7, <1>8, <1>9, <1>10, <1>11, LowestStep

-----------------------------------------------------------------------------
(* Where frames go.                                                        *)

\* The places that follow one another in a frame, and what the handler of SIGHUP
\* makes of the signal on its way.
Goes(who, before, at) ==
    \/ who = "main" /\ before \in LoopAts /\ at \in LoopAts
    \/ /\ executor
       /\ <<who, before, at>> \in {<<"main", "exit", "call">>, <<"term", "atexit", "call">>}
    \/ executor /\ <<who, before, at>> = <<"hup", "reload", "call">> /\ hup' = "ignore"
    \/ <<who, before, at>> = <<"hup", "rearm", "raise">> /\ hup' = "reload"
    \/ /\ ~executor
       /\ <<who, before, at>> \in {<<"main", "exit", "log">>, <<"hup", "reload", "log">>}
    \/ <<who, before, at>> \in {
           <<"hup", "joinDests", "clear">>, <<"hup", "clear", "rearm">>,
           <<"term", "forget", "none">>, <<"main", "forget", "log">>}
    \/ <<before, at>> \in {<<"call", "joinVirts">>, <<"joinVirts", "joinVirts">>,
           <<"joinVirts", "joinDests">>, <<"joinDests", "joinDests">>}
    \/ who # "hup" /\ before = "joinDests" /\ at = "forget"
    \/ who # "term" /\ before = "log" /\ at = "joinLog"

\* One step of the stack: nothing, a move of the top frame, a handler that begins
\* or returns, an exception or the end.
Moves == \E who, before, at, left :
             who \in {"main", "hup", "term"} /\ Running(who, before) /\ MovesTo(at, left) /\ Goes(who, before, at)
Resets == /\ ~Over' /\ DOMAIN stack' = {1} /\ stack'[1].who = "main"
          /\ stack'[1].at \in {"ready", "exit"}
          /\ guard' = "none" \/ Running("hup", "raise") \/ Running("main", Top.at)
Returns == (Running("term", "atexit") \/ Running("term", "none")) /\ Popped

LEMMA StackStep ==
    ASSUME ExecutorTypeOK, [ExecutorNext]_xvars
    PROVE  \/ stack' = stack
           \/ Moves
           \/ Hup /\ hup = "reload" /\ Pushed("hup", "reload")
           \/ Term /\ Pushed("term", "atexit")
           \/ Returns
           \/ Resets
           \/ Over' /\ (LogEnded \/ guard = "none")
<1>0. guard \in {"main", "outer", "none"}
  BY DEF ExecutorTypeOK
<1>1. ASSUME NEW who \in {"main", "hup", "term"}, NEW before, NEW at, NEW left,
             Running(who, before), MovesTo(at, left), Goes(who, before, at)
      PROVE  Moves
  BY <1>1 DEF Moves
<1>2. ASSUME NEW r \in BOOLEAN, Propagate(r), r => Running("hup", "raise")
      PROVE  Resets \/ (Over' /\ guard = "none")
  BY <1>0, <1>2, Propagating DEF Resets
<1>3. \A c, around : ExitWith(c, around) /\ Running("main", Top.at) => Resets
  BY CallingExit DEF Resets
<1>t. CASE TryAgain
  BY <1>1, <1>t, TryAgainStep DEF Goes, LoopAts
<1>4. CASE Loop
  BY <1>1, <1>2, <1>4, LoopStep DEF Goes, LoopAts
<1>5. CASE CreateVirts
  BY <1>1, <1>3, <1>5, CreateVirtsStep DEF Goes, LoopAts, Running
<1>6. CASE CreateDests
  BY <1>1, <1>3, <1>6, CreateDestsStep DEF Goes, LoopAts, Running
<1>7. CASE BeginStart
  BY <1>1, <1>7, BeginStartStep DEF Goes, LoopAts
<1>8. CASE Started
  BY <1>1, <1>8, StartedStep DEF Goes, LoopAts
<1>9. CASE AllStarted
  BY <1>1, <1>9, AllStartedStep DEF Goes, LoopAts
<1>10. CASE Visit
  BY <1>1, <1>10, VisitStep DEF Goes, LoopAts
<1>11. CASE Sleep
  BY <1>1, <1>11, SleepStep DEF Goes, LoopAts
<1>12. CASE Waited
  BY <1>1, <1>3, <1>12, WaitedStep DEF Goes, LoopAts
<1>13. CASE Hup \/ Term
  BY <1>13, SignalStep
<1>14. CASE AskExecutor
  <2>1. \/ /\ Running("hup", "reload") /\ MovesTo("call", Top.left)
           /\ executor /\ hup' = "ignore"
        \/ Running("hup", "reload") /\ MovesTo("log", Top.left) /\ ~executor
        \/ Running("term", "atexit") /\ MovesTo("call", Top.left) /\ executor
        \/ Running("term", "atexit") /\ Popped
        \/ Running("main", "exit") /\ MovesTo("call", Top.left) /\ executor
        \/ Running("main", "exit") /\ MovesTo("log", Top.left) /\ ~executor
    BY <1>14, AskExecutorStep
  <2> QED BY <1>1, <2>1 DEF Goes, Returns
<1>15. CASE CallExecutor
  BY <1>1, <1>2, <1>15, CallExecutorStep DEF Goes
<1>16. CASE Joined
  <2>1. /\ Running(Top.who, Top.at) /\ Top.at \in {"joinVirts", "joinDests"}
        /\ MovesTo(Top.at, Tail(Top.left)) /\ Top.who \in {"main", "hup", "term"}
    BY <1>16, JoinedStep, JoinsStep DEF Joined
  <2>2. Goes(Top.who, Top.at, Top.at)
    BY <2>1 DEF Goes
  <2> QED BY <1>1, <2>1, <2>2
<1>17. CASE AllJoined
  BY <1>1, <1>17, AllJoinedStep DEF Goes
<1>18. CASE Forget
  BY <1>1, <1>18, ForgetStep DEF Goes
<1>19. CASE NoExecutor
  BY <1>19, NoExecutorStep DEF Returns
<1>20. CASE Clear \/ Rearm
  BY <1>1, <1>20, ReloadStep DEF Goes, Rearm
<1>21. CASE RaiseReload
  BY <1>2, <1>21, ReloadStep DEF RaiseReload
<1>22. CASE EndLog
  BY <1>1, <1>22, LogStep DEF Goes
<1>23. CASE LogEnded
  BY <1>23, LogStep
<1>24. CASE UNCHANGED xvars
  BY <1>24 DEF xvars
<1>25. CASE StartNext \/ StopNext \/ \E t \in Threads : RunThread(t) \/ StopItself(t)
  BY <1>25 DEF StartNext, StopNext, RunThread, Enter, Leave, StopItself
<1> QED
  BY <1>t, <1>4, <1>5, <1>6, <1>7, <1>8, <1>9, <1>10, <1>11, <1>12, <1>13, <1>14, <1>15,
     <1>16, <1>17, <1>18, <1>19, <1>20, <1>21, <1>22, <1>23, <1>24, <1>25, Zenon
  DEF ExecutorNext, RunMain

\* A frame was there before, as it is or, the top one, at another place; it is
\* that of a signal's handler; or it is main's, alone.
LEMMA FramesStep ==
    ASSUME ExecutorTypeOK, [ExecutorNext]_xvars, NEW i \in DOMAIN stack'
    PROVE  \/ i \in DOMAIN stack /\ stack'[i] = stack[i]
           \/ /\ i \in DOMAIN stack /\ i = Len(stack) /\ ~Over
              /\ Goes(stack[i].who, stack[i].at, stack'[i].at)
              /\ Running(stack[i].who, stack[i].at) /\ stack'[i].who = stack[i].who
              /\ MovesTo(stack'[i].at, stack'[i].left)
           \/ /\ Hup /\ hup = "reload" /\ stack'[i].who = "hup" /\ stack'[i].at = "reload"
              /\ Pushed("hup", "reload") /\ i = Len(stack) + 1
           \/ /\ Term /\ stack'[i].who = "term" /\ stack'[i].at = "atexit"
              /\ Pushed("term", "atexit") /\ i = Len(stack) + 1
           \/ Resets
<1>1. CASE stack' = stack
  BY <1>1
<1>2. CASE Moves
  <2>1. PICK who, before, at, left :
            /\ who \in {"main", "hup", "term"}
            /\ Running(who, before) /\ MovesTo(at, left) /\ Goes(who, before, at)
    BY <1>2 DEF Moves
  <2>2. CASE i # Len(stack)
    BY <2>1, <2>2 DEF MovesTo
  <2>3. CASE i = Len(stack)
    <3>1. /\ stack[i].who = who /\ stack[i].at = before /\ ~Over /\ i \in DOMAIN stack
          /\ stack'[i].who = who /\ stack'[i].at = at /\ stack'[i].left = left
      BY <2>1, <2>3 DEF Running, MovesTo
    <3> QED BY <2>1, <2>3, <3>1
  <2> QED BY <2>2, <2>3
<1>3. CASE Hup /\ hup = "reload" /\ Pushed("hup", "reload")
  BY <1>3 DEF Pushed
<1>4. CASE Term /\ Pushed("term", "atexit")
  BY <1>4 DEF Pushed
<1>5. CASE Returns
  BY <1>5 DEF Returns, Popped
<1>6. CASE Over'
  BY <1>6, EmptySeq DEF Over
<1> QED BY <1>1, <1>2, <1>3, <1>4, <1>5, <1>6, StackStep

\* A frame that has cleared the event and not raised yet goes only by an exception
\* or the end.
LEMMA ClearedStays ==
    ASSUME ExecutorTypeOK, [ExecutorNext]_xvars, NEW i \in Nat, Cleared(i)
    PROVE  Cleared(i)' \/ Over' \/ Resets
<1>1. PICK j \in DOMAIN stack : j > i /\ stack[j].at \in {"rearm", "raise"}
  BY DEF Cleared
<1>2. CASE stack' = stack
  BY <1>1, <1>2 DEF Cleared
<1>3. CASE Moves
  <2>1. PICK who, before, at, left :
            /\ who \in {"main", "hup", "term"}
            /\ Running(who, before) /\ MovesTo(at, left) /\ Goes(who, before, at)
    BY <1>3 DEF Moves
  <2>2. CASE j # Len(stack)
    BY <1>1, <2>1, <2>2 DEF MovesTo, Cleared
  <2>3. CASE j = Len(stack)
    <3>1. before \in {"rearm", "raise"} /\ j \in DOMAIN stack' /\ stack'[j].at = at
      BY <1>1, <2>1, <2>3 DEF Running, MovesTo
    <3>2. at = "raise"
      BY <2>1, <3>1 DEF Goes, LoopAts
    <3> QED BY <1>1, <3>1, <3>2 DEF Cleared
  <2> QED BY <2>2, <2>3
<1>4. CASE Pushed("hup", "reload") \/ Pushed("term", "atexit")
  BY <1>1, <1>4 DEF Pushed, Cleared
<1>5. CASE Returns
  <2>1. j # Len(stack)
    BY <1>1, <1>5 DEF Returns, Running
  <2> QED BY <1>1, <1>5, <2>1 DEF Returns, Popped, Cleared
<1> QED BY <1>2, <1>3, <1>4, <1>5, StackStep

-----------------------------------------------------------------------------
(* SIGHUP.                                                                 *)

\* What changes the handler of SIGHUP, and the guards.
LEMMA HupChanges ==
    ASSUME ExecutorTypeOK, GuardFits, [ExecutorNext]_xvars
    PROVE  /\ \/ hup' = hup
              \/ /\ hup' = "ignore" /\ Running("hup", "reload")
                 /\ MovesTo("call", Top.left)
              \/ hup' = "reload" /\ Rearm
           /\ guard = "none" => guard' = "none"
<1> USE DEF signals, ends
<1>t. CASE TryAgain
  <2>1. guard # "none"
    BY <1>t, TryAgainStep, MainRuns DEF GuardFits
  <2> QED BY <1>t, <2>1 DEF TryAgain
<1>1. CASE AskExecutor
  BY <1>1, AskExecutorStep DEF AskExecutor
<1>2. CASE Rearm
  BY <1>2, ReloadStep DEF Rearm
<1>3. CASE CreateVirts \/ CreateDests \/ Waited
  <2>1. Running("main", Top.at) /\ Top.at \in LoopAts
    BY <1>3, CreateVirtsStep, CreateDestsStep, WaitedStep DEF Running, LoopAts
  <2>2. guard # "none"
    BY <2>1, MainRuns DEF GuardFits
  <2> QED BY <1>3, <2>2 DEF CreateVirts, CreateDests, Waited
<1>4. CASE Loop \/ CallExecutor \/ RaiseReload
  <2>1. hup' = hup
    BY <1>4 DEF Loop, CallExecutor, RaiseReload
  <2>2. guard' = guard \/ Propagate(TRUE) \/ Propagate(FALSE)
    BY <1>4 DEF Loop, CallExecutor, RaiseReload
  <2> QED BY <2>1, <2>2 DEF Propagate
<1>5. CASE Hup \/ Term \/ StartNext \/ StopNext \/ \E t \in Threads : RunThread(t) \/ StopItself(t)
  BY <1>5 DEF Hup, Term, StartNext, StopNext, RunThread, Enter, Leave, StopItself
<1>6. CASE BeginStart \/ Started \/ AllStarted \/ Visit \/ Sleep
  BY <1>6, LoopMoves
<1>7. CASE Joined \/ AllJoined \/ Forget \/ NoExecutor \/ Clear \/ EndLog \/ LogEnded
  BY <1>7 DEF Joined, AllJoined, Forget, NoExecutor, Clear, EndLog, LogEnded
<1>8. CASE UNCHANGED xvars
  BY <1>8 DEF xvars
<1> QED
  BY <1>t, <1>1, <1>2, <1>3, <1>4, <1>5, <1>6, <1>7, <1>8 DEF ExecutorNext, RunMain

\* A SIGHUP finds no handler of one that stops the threads, and the handler of one
\* that found no executor finds none either.
LEMMA OrderStep ==
    ASSUME ExecutorTypeOK, HupComesBack, SignalsInOrder, StopsAll, [ExecutorNext]_xvars
    PROVE  SignalsInOrder'
<1> SUFFICES ASSUME NEW i \in DOMAIN stack', NEW j \in DOMAIN stack', i < j
             PROVE  /\ Ignoring(stack'[i]) => stack'[j].who = "term"
                    /\ stack'[i].who = "hup" /\ stack'[i].at \in {"log", "joinLog"}
                           => stack'[j].at \in {"reload", "atexit", "log", "joinLog"}
  BY DEF SignalsInOrder, Ignoring
<1>0. /\ stack' \in Seq(Frames) /\ DOMAIN stack' = 1..Len(stack') /\ Len(stack') \in Nat
      /\ stack \in Seq(Frames) /\ DOMAIN stack = 1..Len(stack) /\ Len(stack) \in Nat
  BY StackTypeStep DEF StackTyped, ExecutorTypeOK
<1>1. ~Resets
  BY <1>0 DEF Resets
<1>2. i \in DOMAIN stack /\ stack'[i] = stack[i] /\ i < Len(stack) + 1
  <2>1. CASE j \in DOMAIN stack
    BY <1>0, <1>1, <2>1, FramesStep
  <2>2. ASSUME NEW who, NEW at, Pushed(who, at)
        PROVE  i \in DOMAIN stack /\ stack'[i] = stack[i] /\ i < Len(stack) + 1
    <3>1. /\ Len(stack') = Len(stack) + 1
          /\ \A k \in DOMAIN stack : stack'[k] = stack[k]
      BY <2>2 DEF Pushed
    <3>2. i \in 1..Len(stack)
      BY <1>0, <3>1
    <3> QED BY <1>0, <3>1, <3>2
  <2> QED BY <1>1, <2>1, <2>2, FramesStep
<1>3. CASE j \in DOMAIN stack /\ stack'[j] = stack[j]
  BY <1>2, <1>3 DEF SignalsInOrder
<1>4. CASE j \in DOMAIN stack /\ Goes(stack[j].who, stack[j].at, stack'[j].at)
           /\ stack'[j].who = stack[j].who
  <2>1. Ignoring(stack[i]) => stack'[j].who = "term"
    BY <1>2, <1>4 DEF SignalsInOrder
  <2>2. ASSUME stack[i].who = "hup", stack[i].at \in {"log", "joinLog"}
        PROVE  stack'[j].at \in {"log", "joinLog"}
    <3>1. ~executor
      BY <1>2, <2>2 DEF StopsAll
    <3>2. stack[j].at \in {"reload", "atexit", "log", "joinLog"}
      BY <1>2, <1>4, <2>2 DEF SignalsInOrder
    <3> QED BY <1>4, <3>1, <3>2 DEF Goes, LoopAts
  <2> QED BY <1>2, <2>1, <2>2
<1>5. CASE hup = "reload" /\ stack'[j].at = "reload"
  BY <1>2, <1>5 DEF HupComesBack
<1>6. CASE stack'[j].who = "term" /\ stack'[j].at = "atexit"
  BY <1>6
<1> QED BY <1>1, <1>3, <1>4, <1>5, <1>6, FramesStep

\* SIGHUP is ignored exactly while a handler of it stops the threads.
LEMMA HupStep ==
    ASSUME ExecutorTypeOK, GuardFits, HupComesBack, SignalsInOrder, [ExecutorNext]_xvars
    PROVE  HupComesBack'
<1>0. /\ stack \in Seq(Frames) /\ DOMAIN stack = 1..Len(stack) /\ Len(stack) \in Nat
      /\ \A i \in DOMAIN stack : stack[i].who = "main" <=> i = 1
  BY DEF ExecutorTypeOK
<1>1. ASSUME NEW i \in DOMAIN stack', Ignoring(stack'[i])
      PROVE  hup' = "ignore"
  <2>1. CASE i \in DOMAIN stack /\ stack'[i] = stack[i]
    <3>1. hup = "ignore" /\ Ignoring(stack[i])
      BY <1>1, <2>1 DEF HupComesBack
    <3>2. ASSUME Rearm PROVE FALSE
      <4>1. Running("hup", "rearm") /\ MovesTo("raise", Top.left)
        BY <3>2, ReloadStep
      <4>2. stack[Len(stack)].who = "hup" /\ stack'[Len(stack)].at = "raise"
        BY <4>1 DEF Running, MovesTo
      <4>3. i # Len(stack)
        BY <1>1, <4>2 DEF Ignoring
      <4> QED BY <1>0, <2>1, <3>1, <4>1, <4>2, <4>3 DEF Running, SignalsInOrder
    <3> QED BY <3>1, <3>2, HupChanges
  <2>2. CASE /\ i \in DOMAIN stack /\ i = Len(stack) /\ stack'[i].who = stack[i].who
             /\ Goes(stack[i].who, stack[i].at, stack'[i].at)
             /\ Running(stack[i].who, stack[i].at)
    <3>1. stack[i].who = "hup"
      BY <1>1, <2>2 DEF Ignoring
    <3>2. CASE stack[i].at = "reload"
      BY <1>1, <2>2, <3>1, <3>2 DEF Goes, Ignoring
    <3>3. CASE stack[i].at # "reload"
      <4>1. stack[i].at \in {"call", "joinVirts", "joinDests", "clear"}
        BY <1>1, <2>2, <3>1, <3>3 DEF Goes, Ignoring
      <4>2. hup = "ignore"
        BY <2>2, <3>1, <4>1 DEF HupComesBack, Ignoring
      <4>3. ~Rearm
        BY <2>2, <4>1, ReloadStep DEF Running
      <4> QED BY <4>2, <4>3, HupChanges
    <3> QED BY <3>2, <3>3
  <2>3. CASE stack'[i].at \in {"reload", "atexit"}
    BY <1>1, <2>3 DEF Ignoring
  <2>4. CASE Resets
    BY <1>1, <2>4 DEF Resets, Ignoring
  <2> QED BY <2>1, <2>2, <2>3, <2>4, FramesStep
<1>2. ASSUME hup' = "ignore", guard' # "none"
      PROVE  \E i \in DOMAIN stack' : Ignoring(stack'[i])
  <2>1. CASE hup # "ignore"
    <3>1. Running("hup", "reload") /\ MovesTo("call", Top.left)
      BY <1>2, <2>1, HupChanges
    <3> QED BY <3>1 DEF Running, MovesTo, Ignoring
  <2>2. CASE hup = "ignore"
    <3>1. guard # "none"
      BY <1>2, HupChanges
    <3>2. PICK i \in DOMAIN stack : Ignoring(stack[i])
      BY <2>2, <3>1 DEF HupComesBack
    <3>3. i # Len(stack) => stack[Len(stack)].who = "term" /\ Len(stack) \in DOMAIN stack
      BY <1>0, <3>2 DEF SignalsInOrder
    <3>4. stack[i].who = "hup" /\ i # 1
      BY <1>0, <3>2 DEF Ignoring
    <3>5. CASE stack' = stack
      BY <3>2, <3>5
    <3>6. CASE Moves
      <4>1. PICK who, before, at, left :
                /\ who \in {"main", "hup", "term"}
                /\ Running(who, before) /\ MovesTo(at, left) /\ Goes(who, before, at)
        BY <3>6 DEF Moves
      <4>2. CASE i # Len(stack)
        BY <3>2, <4>1, <4>2 DEF MovesTo
      <4>3. CASE i = Len(stack)
        <5>1. who = "hup" /\ before \in {"call", "joinVirts", "joinDests", "clear", "rearm"}
          BY <3>2, <4>1, <4>3 DEF Running, Ignoring
        <5>2. at \in {"joinVirts", "joinDests", "clear", "rearm"}
          BY <1>2, <4>1, <5>1 DEF Goes
        <5>3. stack'[i].who = "hup" /\ stack'[i].at = at /\ i \in DOMAIN stack'
          BY <3>2, <4>1, <4>3, <5>1 DEF MovesTo, Running
        <5> QED BY <5>2, <5>3 DEF Ignoring
      <4> QED BY <4>2, <4>3
    <3>7. CASE Pushed("hup", "reload") \/ Pushed("term", "atexit")
      BY <3>2, <3>7 DEF Pushed
    <3>8. CASE Returns
      <4>1. i # Len(stack)
        BY <3>4, <3>8 DEF Returns, Running
      <4> QED BY <3>2, <3>8, <4>1 DEF Returns, Popped
    <3>9. CASE Resets
      <4>1. ~Running("main", Top.at)
        BY <1>0, <3>2, <3>4 DEF Running
      <4>2. ~Running("hup", "raise")
        BY <3>2, <3>3 DEF Running, Ignoring
      <4> QED BY <1>2, <3>9, <4>1, <4>2 DEF Resets
    <3>10. CASE Over' /\ LogEnded
      <4>1. Running(Top.who, "joinLog") /\ Top.who \in {"main", "hup"}
        BY <3>10, LogStep
      <4> QED BY <1>0, <3>2, <3>3, <3>4, <4>1 DEF Running, Ignoring
    <3> QED BY <3>1, <3>5, <3>6, <3>7, <3>8, <3>9, <3>10, StackStep
  <2> QED BY <2>1, <2>2
<1> QED BY <1>1, <1>2 DEF HupComesBack, Ignoring

-----------------------------------------------------------------------------
(* Runs.                                                                   *)

\* How main comes to the head of its loop and to the creation of threads.
LEMMA BeginsStep ==
    ASSUME ExecutorTypeOK, [ExecutorNext]_xvars
    PROVE  /\ MainAt({"ready"})' => MainAt({"ready"}) \/ RaiseReload
           /\ MainAt({"loop"})' => MainAt({"loop"}) \/ TryAgain
           /\ MainAt({"create"})' => MainAt({"create"}) \/ (Loop /\ executor)
           /\ MainAt({"createDests"})' => MainAt({"createDests"}) \/ CreateVirts
<1> DEFINE Begins ==
        /\ MainAt({"ready"})' => MainAt({"ready"}) \/ RaiseReload
        /\ MainAt({"loop"})' => MainAt({"loop"}) \/ TryAgain
        /\ MainAt({"create"})' => MainAt({"create"}) \/ (Loop /\ executor)
        /\ MainAt({"createDests"})' => MainAt({"createDests"}) \/ CreateVirts
<1>0. guard \in {"main", "outer", "none"}
  BY DEF ExecutorTypeOK
<1>t. CASE TryAgain
  <2>1. stack'[1].at = "loop"
    BY <1>t, TryAgainStep, LowestMoves
  <2> QED BY <1>t, <2>1 DEF MainAt
<1>1. CASE Loop
  <2>1. \/ executor /\ stack'[1].at = "create"
        \/ stack'[1].at = "exit" \/ Over'
    BY <1>0, <1>1, LoopStep, LowestMoves, Propagating
  <2> QED BY <1>1, <2>1 DEF MainAt
<1>2. CASE CreateVirts \/ CreateDests
  <2>1. stack'[1].at \in {"createDests", "virts", "exit"}
    BY <1>2, CreateAlone
  <2>2. CreateDests => stack'[1].at \in {"virts", "exit"}
    BY CreateDestsStep, LowestMoves, CallingExit
  <2> QED BY <1>2, <2>1, <2>2 DEF MainAt
<1>3. CASE BeginStart \/ Started \/ AllStarted \/ Visit \/ Sleep
  BY <1>3, LoopMoves DEF MainAt
<1>4. CASE Waited
  <2>1. stack'[1].at \in {"dests", "exit"}
    BY <1>4, WaitedStep, LowestMoves, CallingExit
  <2> QED BY <2>1 DEF MainAt
<1>5. CASE CallExecutor /\ ~executor
  <2>1. stack'[1].at = "exit" \/ Over'
    BY <1>0, <1>5, CallExecutorStep, Propagating
  <2> QED BY <2>1 DEF MainAt
<1>6. CASE RaiseReload
  <2>1. stack'[1].at \in {"ready", "exit"} \/ Over'
    BY <1>0, <1>6, Propagating DEF RaiseReload
  <2> QED BY <1>6, <2>1 DEF MainAt
<1>7. CASE UNCHANGED stack \/ (~Over /\ stack'[1] = stack[1]) \/ Over'
  BY <1>7 DEF MainAt, Over
<1>8. CASE stack'[1].at \in EndAts
  BY <1>8 DEF MainAt, EndAts
<1> QED BY <1>t, <1>1, <1>2, <1>3, <1>4, <1>5, <1>6, <1>7, <1>8, LowestStep, Zenon

\* A frame of SIGHUP's handler begins with the signal.
LEMMA HupFrames ==
    ASSUME ExecutorTypeOK, [ExecutorNext]_xvars, NEW i \in DOMAIN stack',
           stack'[i].who = "hup"
    PROVE  Hup \/ \E j \in DOMAIN stack : stack[j].who = "hup"
BY FramesStep DEF Resets

\* What counts SIGHUPs and runs.
LEMMA CountsStep ==
    ASSUME ExecutorTypeOK, [ExecutorNext]_xvars
    PROVE  /\ CreateVirts \/ gen' = gen
           /\ \/ hups' = hups
              \/ Hup /\ hups' = hups + 1 /\ hups < MaxHups
<1>1. CASE CreateVirts \/ CreateDests
  BY <1>1, CreateAlone DEF CreateDests
<1>2. CASE Hup
  BY <1>2 DEF Hup, lists
<1>3. CASE ~CreateVirts /\ ~CreateDests /\ ~Hup
  <2>1. hups' = hups
    BY <1>3 DEF ExecutorNext, RunMain, RunThread, TryAgain, Loop, BeginStart,
     StartNext, Started, AllStarted, Visit, Sleep, Waited, AskExecutor, CallExecutor,
     StopNext, Joined, AllJoined, Forget, NoExecutor, Clear, Rearm, RaiseReload, EndLog,
     LogEnded, Term, Enter, Leave, StopItself, xvars, signals
  <2> QED BY <1>3, <2>1, ThreadsStep
<1> QED BY <1>1, <1>2, <1>3

\* Every run but the first follows a SIGHUP.
LEMMA RunsStep ==
    ASSUME ExecutorTypeOK, RunsFollowHups, [ExecutorNext]_xvars
    PROVE  RunsFollowHups'
<1>0. /\ gen \in Nat /\ hups \in Nat /\ gen <= hups + 1 /\ hups <= MaxHups /\ MaxHups \in Nat
      /\ MainAt({"ready", "loop", "create"}) => gen <= hups
      /\ (\E i \in DOMAIN stack : stack[i].who = "hup") => gen <= hups
  BY DEF RunsFollowHups, ExecutorTypeOK
<1>1. CASE CreateVirts
  <2>1. Running("main", "create") /\ gen' = gen + 1
    BY <1>1, CreateVirtsStep
  <2>2. hups' = hups /\ DOMAIN stack' = {1} /\ stack'[1].who = "main"
        /\ stack'[1].at \in {"createDests", "virts", "exit"}
    BY <1>1, CreateAlone
  <2>3. gen <= hups
    BY <1>0, <2>1, MainRuns
  <2> QED BY <1>0, <2>1, <2>2, <2>3 DEF RunsFollowHups, MainAt
<1>2. CASE ~CreateVirts
  <2>0. \/ gen' = gen /\ hups' = hups
        \/ gen' = gen /\ Hup /\ hups' = hups + 1 /\ hups < MaxHups
    BY <1>2, CountsStep
  <2>1. gen' <= hups' + 1 /\ hups' <= MaxHups /\ (Hup /\ hups' # hups => gen' <= hups')
    BY <1>0, <2>0
  <2>2. ASSUME MainAt({"createDests"})' PROVE gen' # 0
    BY <1>2, <2>0, <2>2, BeginsStep DEF RunsFollowHups
  <2>3. ASSUME hups' = hups, MainAt({"ready", "loop", "create"})' PROVE gen' <= hups'
    <3>1. MainAt({"ready"})' \/ MainAt({"loop"})' \/ MainAt({"create"})'
      BY <2>3 DEF MainAt
    <3>2. MainAt({"ready", "loop", "create"}) \/ TryAgain \/ Loop \/ RaiseReload
      BY <3>1, BeginsStep DEF MainAt
    <3>4. TryAgain \/ Loop => MainAt({"ready", "loop", "create"})
      BY TryAgainStep, LoopStep, MainRuns
    <3>5. RaiseReload => \E i \in DOMAIN stack : stack[i].who = "hup"
      BY ReloadStep DEF Running
    <3> QED BY <1>0, <2>0, <2>3, <3>2, <3>4, <3>5
  <2>4. ASSUME hups' = hups, \E i \in DOMAIN stack' : stack'[i].who = "hup"
        PROVE  gen' <= hups'
    <3>1. ~Hup
      BY <1>0, <2>4 DEF Hup
    <3> QED BY <1>0, <2>0, <2>4, <3>1, HupFrames
  <2> QED BY <2>0, <2>1, <2>2, <2>3, <2>4 DEF RunsFollowHups
<1> QED BY <1>1, <1>2

-----------------------------------------------------------------------------
(* The executor's lists.                                                   *)

\* What becomes of the threads when a run creates its virt threads.
LEMMA VirtsCreated ==
    ASSUME ExecutorTypeOK, RunsFollowHups, CreateVirts
    PROVE  /\ gen' = gen + 1 /\ gen' \in 1..MaxHups + 1
           /\ UNCHANGED <<dests, stopped, event, executor, mode, sentinel>>
           /\ \A t \in Threads :
                  \/ t \in ToSet(virts') /\ st'[t] = "new" /\ t[1] = "virt" /\ t[3] = gen'
                  \/ st'[t] = st[t] /\ Quiet(t)' = Quiet(t)
<1>1. Running("main", "create") /\ gen' = gen + 1
  BY CreateVirtsStep
<1>2. gen' \in 1..MaxHups + 1
  BY <1>1, MainRuns DEF RunsFollowHups, ExecutorTypeOK
<1>3. /\ UNCHANGED <<dests, stopped, event, executor, mode, sentinel>>
      /\ st' = [t \in Threads |-> IF t \in ToSet(virts') THEN "new" ELSE st[t]]
  BY CreateAlone DEF CreateVirts
<1>4. ASSUME NEW t \in Threads, t \in ToSet(virts')
      PROVE  st'[t] = "new" /\ t[1] = "virt" /\ t[3] = gen'
  <2>1. PICK n \in 0..NVirts : virts' = ListOf("virt", n, gen')
    BY CreateVirtsStep
  <2>2. virts' \in Seq({u \in Threads : u[1] = "virt"}) /\ t[3] = gen'
    BY <1>2, <1>4, <2>1, ListsTyped
  <2>3. PICK c : c = virts'
    OBVIOUS
  <2>4. t[1] = "virt"
    BY <1>4, <2>2, <2>3, InList
  <2> QED BY <1>3, <1>4, <2>2, <2>4
<1>5. ASSUME NEW t \in Threads, t \notin ToSet(virts')
      PROVE  st'[t] = st[t] /\ Quiet(t)' = Quiet(t)
  BY <1>3, <1>5 DEF Quiet
<1> QED BY <1>1, <1>2, <1>3, <1>4, <1>5

\* What becomes of them when it creates its destinations.
LEMMA DestsCreated ==
    ASSUME ExecutorTypeOK, RunsFollowHups, CreateDests
    PROVE  /\ gen \in 1..MaxHups + 1
           /\ UNCHANGED <<virts, gen, stopped, event, executor, mode, sentinel>>
           /\ \A t \in Threads :
                  \/ t \in ToSet(dests') /\ st'[t] = "new" /\ t[1] = "dest" /\ t[3] = gen
                  \/ st'[t] = st[t] /\ Quiet(t)' = Quiet(t) /\ ~(t[1] = "dest" /\ t[3] = gen)
<1>1. Running("main", "createDests")
  BY CreateDestsStep
<1>2. gen \in 1..MaxHups + 1
  BY <1>1, MainRuns DEF RunsFollowHups, ExecutorTypeOK
<1>3. /\ UNCHANGED <<virts, gen, stopped, event, executor, mode, sentinel>>
      /\ st' = [t \in Threads |-> IF t \in ToSet(dests') THEN "new" ELSE st[t]]
      /\ dests' = ListOf("dest", NDests, gen)
  BY CreateAlone DEF CreateDests
<1>4. \A t \in Threads : t \in ToSet(dests') <=> t[1] = "dest" /\ t[3] = gen
  BY <1>2, <1>3, ListsTyped
<1> QED BY <1>2, <1>3, <1>4 DEF Quiet

\* What the executor knows of the threads it has created, before it creates others.
LEMMA QuietStarts ==
    ASSUME ExecutorTypeOK, LoopStartsQuiet
    PROVE  /\ CreateVirts => AllQuiet
           /\ CreateDests => \A t \in Threads : t[1] = "dest" => Quiet(t)
<1>1. CreateVirts => MainAt({"ready", "loop", "create"})
  BY CreateVirtsStep, MainRuns
<1>2. CreateDests => MainAt({"createDests"})
  BY CreateDestsStep, MainRuns
<1> QED BY <1>1, <1>2 DEF LoopStartsQuiet

\* The threads that may work stay in the lists of the executor.
LEMMA ListedStep ==
    ASSUME ExecutorTypeOK, RunsFollowHups, Listed, StopsAll, LoopStartsQuiet,
           [ExecutorNext]_xvars
    PROVE  Listed'
<1>0. gen \in Nat /\ \A t \in Threads : t[3] \in Nat
  BY ThreadKinds DEF ExecutorTypeOK
<1>1. CASE CreateVirts
  <2> SUFFICES ASSUME NEW t \in Threads
               PROVE  /\ Quiet(t)' \/ t \in ToSet(virts') \cup ToSet(dests')
                      /\ Quiet(t)' \/ t[3] >= gen'
                      /\ st'[t] = "none" \/ t[3] <= gen'
    BY DEF Listed
  <2>1. Quiet(t) /\ gen' = gen + 1
    BY <1>1, QuietStarts, VirtsCreated DEF AllQuiet
  <2>2. CASE t \in ToSet(virts') /\ t[3] = gen'
    BY <1>0, <2>1, <2>2
  <2>3. CASE st'[t] = st[t] /\ Quiet(t)' = Quiet(t)
    BY <1>0, <2>1, <2>3 DEF Listed
  <2> QED BY <1>1, <2>2, <2>3, VirtsCreated
<1>2. CASE CreateDests
  <2> SUFFICES ASSUME NEW t \in Threads
               PROVE  /\ Quiet(t)' \/ t \in ToSet(virts') \cup ToSet(dests')
                      /\ Quiet(t)' \/ t[3] >= gen'
                      /\ st'[t] = "none" \/ t[3] <= gen'
    BY DEF Listed
  <2>1. gen' = gen /\ virts' = virts
    BY <1>2, DestsCreated
  <2>2. CASE t \in ToSet(dests') /\ t[3] = gen
    BY <1>0, <2>1, <2>2
  <2>3. CASE st'[t] = st[t] /\ Quiet(t)' = Quiet(t)
    <3>1. t \in ToSet(dests) => t[1] = "dest"
      BY InList DEF ExecutorTypeOK
    <3>2. Quiet(t) \/ t \in ToSet(virts)
      BY <1>2, <3>1, QuietStarts DEF Listed
    <3> QED BY <1>0, <2>1, <2>3, <3>2 DEF Listed
  <2> QED BY <1>2, <2>2, <2>3, DestsCreated
<1>3. CASE Forget
  <2>1. AllQuiet
    BY <1>3, ForgetStep DEF StopsAll, Running
  <2>2. AllQuiet' /\ gen' = gen /\ \A t \in Threads : st'[t] = "none" <=> st[t] = "none"
    <3>1. ~CreateVirts /\ ~CreateDests
      BY <1>3 DEF Forget, CreateVirts, CreateDests, At
    <3> QED BY <2>1, <3>1, QuietStays, ThreadsStep
  <2> QED BY <1>0, <2>2 DEF Listed, AllQuiet
<1>4. CASE ~CreateVirts /\ ~CreateDests /\ ~Forget
  <2>1. /\ UNCHANGED <<virts, dests, gen>>
        /\ \A t \in Threads : st'[t] = "none" <=> st[t] = "none"
        /\ \A t \in Threads : Quiet(t) => Quiet(t)'
    BY <1>4, ThreadsStep, QuietStays
  <2> QED BY <2>1 DEF Listed
<1> QED BY <1>1, <1>2, <1>3, <1>4

-----------------------------------------------------------------------------
(* What stops the threads.                                                 *)

\* Whose step moves the top frame.
LEMMA TopActs ==
    ASSUME ExecutorTypeOK, [ExecutorNext]_xvars, ~Over, NEW at, NEW left,
           MovesTo(at, left), stack' # stack
    PROVE  /\ Top.at = "call" => CallExecutor
           /\ Top.at \in {"joinVirts", "joinDests"} => Joined \/ AllJoined
           /\ Top.at \in {"forget", "log"} => Forget \/ EndLog
           /\ Top.at = "clear" => Clear
<1>0. Len(stack) \in Nat /\ Len(stack') = Len(stack)
  BY TopTyped DEF MovesTo
<1>1. CASE Hup \/ Term
  BY <1>0, <1>1, SignalStep DEF Pushed
<1>2. CASE StartNext \/ StopNext \/ (\E t \in Threads : RunThread(t) \/ StopItself(t))
           \/ UNCHANGED xvars
  BY <1>2 DEF StartNext, StopNext, RunThread, Enter, Leave, StopItself, xvars
<1>3. CASE TryAgain \/ Loop \/ CreateVirts \/ CreateDests \/ BeginStart \/ Started
           \/ AllStarted \/ Visit \/ Sleep \/ Waited
  BY <1>3 DEF TryAgain, Loop, CreateVirts, CreateDests, BeginStart, Started, AllStarted, Visit, Sleep,
              Waited, StartsThreads, Waits, At
<1>4. CASE AskExecutor \/ NoExecutor \/ Rearm \/ RaiseReload \/ LogEnded
  BY <1>4 DEF AskExecutor, NoExecutor, Rearm, RaiseReload, LogEnded, At
<1>5. CASE CallExecutor \/ Joined \/ AllJoined \/ Forget \/ Clear \/ EndLog
  BY <1>5 DEF CallExecutor, Joined, AllJoined, Forget, Clear, EndLog, Joins, At
<1> QED BY <1>1, <1>2, <1>3, <1>4, <1>5 DEF ExecutorNext, RunMain

\* What StopsAll says of a frame.
JoinsAll(i) ==
    /\ stack[i].at = "joinVirts" =>
           \A t \in Threads : t[1] = "virt" => Quiet(t) \/ t \in ToSet(stack[i].left)
    /\ stack[i].at = "joinDests" =>
           \A t \in Threads : Quiet(t) \/ t \in ToSet(stack[i].left)
HasStopped(i) ==
    /\ stack[i].at \in {"forget", "none", "clear", "rearm", "raise"} => AllQuiet
    /\ stack[i].at \in {"log", "joinLog"}
           => ~executor \/ (stack[i].who = "main" /\ AllQuiet)
Telling(i) ==
    stack[i].who = "term" /\ stack[i].at \in {"joinVirts", "joinDests", "forget", "none"}
        => event \/ Cleared(i)

LEMMA StopsParts ==
    /\ StopsAll <=> \A i \in DOMAIN stack : JoinsAll(i) /\ HasStopped(i) /\ Telling(i)
    /\ StopsAll' <=> \A i \in DOMAIN stack' : JoinsAll(i)' /\ HasStopped(i)' /\ Telling(i)'
BY DEF StopsAll, JoinsAll, HasStopped, Telling, Cleared

\* A frame that stays where it is.
LEMMA StopsKept ==
    ASSUME ExecutorTypeOK, StopsAll, [ExecutorNext]_xvars,
           NEW i \in DOMAIN stack, i \in DOMAIN stack', stack'[i] = stack[i]
    PROVE  JoinsAll(i)' /\ HasStopped(i)' /\ Telling(i)'
<1>1. CASE CreateVirts \/ CreateDests
  <2>1. stack'[i].who = "main" /\ stack'[i].at \in {"createDests", "virts", "exit"}
    BY <1>1, CreateAlone
  <2> QED BY <2>1 DEF JoinsAll, HasStopped, Telling
<1>2. CASE ~CreateVirts /\ ~CreateDests
  <2>1. JoinsAll(i) /\ HasStopped(i) /\ Telling(i)
    BY StopsParts
  <2>2. /\ \A t \in Threads : Quiet(t) => Quiet(t)'
        /\ AllQuiet => AllQuiet'
        /\ executor' => executor
        /\ Clear \/ (event => event')
    BY <1>2, QuietStays, ThreadsStep
  <2>3. JoinsAll(i)'
    BY <2>1, <2>2 DEF JoinsAll
  <2>4. HasStopped(i)'
    BY <2>1, <2>2 DEF HasStopped
  <2>5. Telling(i)'
    <3> SUFFICES ASSUME stack[i].who = "term",
                        stack[i].at \in {"joinVirts", "joinDests", "forget", "none"}
                 PROVE  event' \/ Cleared(i)'
      BY DEF Telling
    <3>1. stack[i].who = "term" /\ i # 1 /\ i \in Nat /\ i \in 1..Len(stack)
      <4>1. stack \in Seq(Frames) /\ \A j \in DOMAIN stack : stack[j].who = "main" <=> j = 1
        BY DEF ExecutorTypeOK
      <4> QED BY <4>1
    <3>2. CASE Cleared(i)
      BY <3>1, <3>2, ClearedStays, EmptySeq DEF Over, Resets
    <3>3. CASE Clear
      <4>1. Running("hup", "clear") /\ MovesTo("rearm", Top.left)
        BY <3>3, ReloadStep
      <4>2. /\ Len(stack) \in DOMAIN stack' /\ stack'[Len(stack)].at = "rearm"
            /\ Len(stack) > i
        BY <3>1, <4>1 DEF Running, MovesTo
      <4> QED BY <4>2 DEF Cleared
    <3> QED BY <2>1, <2>2, <3>2, <3>3 DEF Telling
  <2> QED BY <2>3, <2>4, <2>5
<1> QED BY <1>1, <1>2

\* The top frame, when it goes to where threads are joined.
LEMMA JoinsMoved ==
    ASSUME ExecutorTypeOK, Listed, StopsAll, [ExecutorNext]_xvars,
           NEW i, i = Len(stack), Running(stack[i].who, stack[i].at),
           MovesTo(stack'[i].at, stack'[i].left),
           Goes(stack[i].who, stack[i].at, stack'[i].at), stack' # stack
    PROVE  JoinsAll(i)'
<1>0. i \in DOMAIN stack /\ JoinsAll(i) /\ ~Over /\ Top = stack[i]
  BY StopsParts DEF Running
<1>1. /\ \A t \in Threads : t \in ToSet(virts) => t[1] = "virt"
      /\ \A t \in Threads : t \in ToSet(dests) => t[1] = "dest"
      /\ \A t \in Threads : Quiet(t) \/ t \in ToSet(virts) \/ t \in ToSet(dests)
  BY InList DEF ExecutorTypeOK, Listed
<1>2. \A at, left : MovesTo(at, left) => stack'[i].at = at /\ stack'[i].left = left
  BY DEF MovesTo
<1>3. \A t \in Threads : t[1] = "virt" \/ t[1] = "dest"
  BY ThreadKinds
<1>4. guard \in {"main", "outer", "none"}
  BY DEF ExecutorTypeOK
<1>5. CASE stack[i].at = "call"
  <2>1. CallExecutor
    BY <1>0, <1>5, TopActs
  <2>2. stack'[i].at = "joinVirts"
    BY <1>5 DEF Goes, LoopAts
  <2>3. executor
    <3>1. ASSUME Propagate(FALSE) PROVE FALSE
      <4>1. (DOMAIN stack' = {1} /\ stack'[1].at = "exit") \/ Over'
        BY <1>4, <3>1, Propagating
      <4>2. DOMAIN stack' = DOMAIN stack /\ ~Over'
        BY DEF MovesTo
      <4> QED BY <1>0, <2>2, <4>1, <4>2
    <3> QED BY <2>1, <3>1, CallExecutorStep
  <2>4. stack'[i].left = virts /\ UNCHANGED <<st, stopped>>
    BY <1>2, <2>1, <2>3, CallExecutorStep DEF CallExecutor
  <2> QED BY <1>1, <2>2, <2>4 DEF JoinsAll, Quiet
<1>6. CASE stack[i].at \in {"joinVirts", "joinDests"} /\ Joined
  <2>1. UNCHANGED <<st, stopped>> /\ \A t \in Threads : Quiet(t)' = Quiet(t)
    BY <1>6 DEF Joined, threads, Quiet
  <2>2. stack'[i].at = stack[i].at /\ stack'[i].left = Tail(stack[i].left)
    BY <1>0, <1>2, <1>6, JoinedStep
  <2>3. /\ Head(stack[i].left) \in stopped /\ CanJoin(Head(stack[i].left))
        /\ \A t \in ToSet(stack[i].left) :
               t \in ToSet(Tail(stack[i].left)) \/ t = Head(stack[i].left)
    BY <1>0, <1>6, JoinedStep
  <2>4. ASSUME NEW t \in Threads, t = Head(stack[i].left) PROVE Quiet(t)
    BY <2>3, <2>4 DEF CanJoin, HasIdent, Quiet
  <2> QED BY <1>0, <2>1, <2>2, <2>3, <2>4 DEF JoinsAll
<1>7. CASE stack[i].at \in {"joinVirts", "joinDests"} /\ AllJoined
  <2>1. stack[i].left = <<>> /\ UNCHANGED <<st, stopped>>
    BY <1>0, <1>7, AllJoinedStep DEF AllJoined, threads
  <2>2. \/ stack[i].at = "joinVirts" /\ stack'[i].at = "joinDests" /\ stack'[i].left = dests
        \/ stack'[i].at \in {"clear", "forget"}
    BY <1>0, <1>2, <1>7, AllJoinedStep DEF Running
  <2>3. ToSet(stack[i].left) = {}
    BY <2>1, InList, EmptySeq
  <2>4. CASE stack[i].at = "joinVirts" /\ stack'[i].at = "joinDests" /\ stack'[i].left = dests
    BY <1>0, <1>1, <1>3, <2>1, <2>3, <2>4 DEF JoinsAll, Quiet
  <2> QED BY <2>2, <2>4 DEF JoinsAll
<1>8. CASE stack[i].at \notin {"call", "joinVirts", "joinDests"}
  BY <1>8 DEF JoinsAll, Goes, LoopAts
<1> QED BY <1>0, <1>5, <1>6, <1>7, <1>8, TopActs

\* The top frame, when all threads are joined.
LEMMA StoppedMoved ==
    ASSUME ExecutorTypeOK, StopsAll, [ExecutorNext]_xvars,
           NEW i, i = Len(stack), Running(stack[i].who, stack[i].at),
           MovesTo(stack'[i].at, stack'[i].left),
           Goes(stack[i].who, stack[i].at, stack'[i].at), stack' # stack,
           ~CreateVirts, ~CreateDests
    PROVE  HasStopped(i)' /\ Telling(i)'
<1>0. /\ i \in DOMAIN stack /\ ~Over /\ Top = stack[i] /\ stack'[i].who = stack[i].who
      /\ JoinsAll(i) /\ HasStopped(i) /\ Telling(i)
  BY StopsParts DEF Running, MovesTo
<1>1. /\ AllQuiet => AllQuiet'
      /\ executor' => executor
      /\ Clear \/ (event => event')
  BY QuietStays, ThreadsStep
<1>2. ~Cleared(i)
  BY DEF Cleared, Running
<1>3. stack[i].at = "joinDests" /\ stack'[i].at \in {"clear", "forget"} => AllQuiet
  <2> SUFFICES ASSUME stack[i].at = "joinDests", stack'[i].at \in {"clear", "forget"}
               PROVE  AllQuiet
    OBVIOUS
  <2>1. Joined => stack'[i].at = stack[i].at
    BY <1>0, JoinedStep DEF MovesTo
  <2>2. AllJoined
    BY <1>0, <2>1, TopActs
  <2>3. ToSet(stack[i].left) = {}
    BY <1>0, <2>2, AllJoinedStep, InList, EmptySeq
  <2> QED BY <1>0, <2>3 DEF JoinsAll, AllQuiet
<1>4. HasStopped(i)'
  <2>1. ASSUME stack'[i].at \in {"forget", "none", "clear", "rearm", "raise"}
        PROVE  AllQuiet
    <3>1. \/ stack[i].at = "joinDests" /\ stack'[i].at \in {"clear", "forget"}
          \/ stack[i].at \in {"forget", "clear", "rearm"}
      BY <2>1 DEF Goes, LoopAts
    <3> QED BY <1>0, <1>3, <3>1 DEF HasStopped
  <2>2. ASSUME stack'[i].at \in {"log", "joinLog"}
        PROVE  ~executor \/ (stack[i].who = "main" /\ AllQuiet)
    <3>1. \/ ~executor
          \/ stack[i].who = "main" /\ stack[i].at = "forget"
          \/ stack[i].at = "log"
      BY <2>2 DEF Goes, LoopAts
    <3> QED BY <1>0, <3>1 DEF HasStopped
  <2> QED BY <1>0, <1>1, <2>1, <2>2 DEF HasStopped
<1>5. Telling(i)'
  <2> SUFFICES ASSUME stack[i].who = "term",
                      stack'[i].at \in {"joinVirts", "joinDests", "forget", "none"}
               PROVE  event' \/ Cleared(i)'
    BY <1>0 DEF Telling
  <2>1. \/ stack[i].at = "call" /\ stack'[i].at = "joinVirts"
        \/ stack[i].at \in {"joinVirts", "joinDests", "forget"}
    BY DEF Goes, LoopAts
  <2>2. CASE stack[i].at = "call" /\ stack'[i].at = "joinVirts"
    <3>1. CallExecutor
      BY <1>0, <2>2, TopActs
    <3>2. guard \in {"main", "outer", "none"} /\ DOMAIN stack' = DOMAIN stack /\ ~Over'
      BY DEF ExecutorTypeOK, MovesTo
    <3>3. ~Propagate(FALSE)
      BY <1>0, <2>2, <3>2, Propagating
    <3> QED BY <3>1, <3>3, CallExecutorStep
  <2>3. CASE stack[i].at \in {"joinVirts", "joinDests", "forget"}
    <3>1. ~Clear
      BY <1>0, <2>3, ReloadStep DEF Running
    <3> QED BY <1>0, <1>1, <1>2, <2>3, <3>1 DEF Telling
  <2> QED BY <2>1, <2>2, <2>3
<1> QED BY <1>4, <1>5

\* stop_threads, wherever it is interrupted, has still to join what may work.
LEMMA StopsAllStep ==
    ASSUME ExecutorTypeOK, Listed, StopsAll, [ExecutorNext]_xvars
    PROVE  StopsAll'
<1> SUFFICES ASSUME NEW i \in DOMAIN stack'
             PROVE  JoinsAll(i)' /\ HasStopped(i)' /\ Telling(i)'
  BY StopsParts
<1>1. CASE i \in DOMAIN stack /\ stack'[i] = stack[i]
  BY <1>1, StopsKept
<1>2. CASE /\ i \in DOMAIN stack /\ stack'[i] # stack[i]
           /\ i = Len(stack) /\ ~Over
           /\ Goes(stack[i].who, stack[i].at, stack'[i].at)
           /\ Running(stack[i].who, stack[i].at)
           /\ MovesTo(stack'[i].at, stack'[i].left)
  <2>1. CASE CreateVirts \/ CreateDests
    <3>1. stack'[i].who = "main" /\ stack'[i].at \in {"createDests", "virts", "exit"}
      BY <2>1, CreateAlone
    <3> QED BY <3>1 DEF JoinsAll, HasStopped, Telling
  <2>2. CASE ~CreateVirts /\ ~CreateDests
    BY <1>2, <2>2, JoinsMoved, StoppedMoved
  <2> QED BY <2>1, <2>2
<1>3. CASE stack'[i].at \in {"reload", "atexit"} \/ Resets
  <2>1. stack'[i].at \in {"reload", "atexit", "ready", "exit"}
    BY <1>3 DEF Resets
  <2> QED BY <2>1 DEF JoinsAll, HasStopped, Telling
<1> QED BY <1>1, <1>2, <1>3, FramesStep

-----------------------------------------------------------------------------
(* When nothing may work.                                                  *)

\* Who takes the executor away, and who gives the sentinel to the log queue.
LEMMA FlagsChange ==
    ASSUME ExecutorTypeOK, [ExecutorNext]_xvars
    PROVE  /\ executor' # executor => NoExecutor
           /\ sentinel' # sentinel => EndLog
<1> USE DEF ends
<1>1. CASE TryAgain \/ Loop \/ CreateVirts \/ CreateDests \/ BeginStart \/ StartNext
           \/ Started \/ AllStarted \/ Visit \/ Sleep \/ Waited
  BY <1>1 DEF TryAgain, Loop, CreateVirts, CreateDests, BeginStart, StartNext, Started, AllStarted,
              Visit, Sleep, Waited
<1>2. CASE AskExecutor \/ CallExecutor \/ StopNext \/ Joined \/ AllJoined \/ Forget
           \/ NoExecutor \/ Clear \/ Rearm \/ RaiseReload \/ EndLog \/ LogEnded
  BY <1>2 DEF AskExecutor, CallExecutor, StopNext, Joined, AllJoined, Forget,
              NoExecutor, Clear, Rearm, RaiseReload, EndLog, LogEnded
<1>3. CASE Hup \/ Term \/ (\E t \in Threads : RunThread(t) \/ StopItself(t))
           \/ UNCHANGED xvars
  BY <1>3 DEF Hup, Term, RunThread, Enter, Leave, StopItself, xvars
<1> QED BY <1>1, <1>2, <1>3 DEF ExecutorNext, RunMain

\* Where main is when it creates threads, and where not.
LEMMA CreatesInLoop ==
    ASSUME ExecutorTypeOK, CreateVirts \/ CreateDests
    PROVE  ~Exiting /\ ~MainAt({"ready", "loop"}) /\ ~Cleared(0) /\ ~MainAt({"ready", "loop", "create"})'
BY CreateAlone DEF Exiting, MainAt, Cleared, EndAts

\* main leaves exit only for the end, and its loop for exit when there is no
\* executor.
LEMMA ExitingStays ==
    ASSUME ExecutorTypeOK, GuardFits, [ExecutorNext]_xvars
    PROVE  /\ Exiting => Exiting'
           /\ ~executor /\ MainAt({"ready", "loop"}) => Exiting' \/ MainAt({"ready", "loop"})'
<1>0. guard \in {"main", "outer", "none"} /\ (~Over /\ Exiting => guard # "main")
  BY DEF ExecutorTypeOK, GuardFits, Exiting, LoopAts, EndAts
<1>1. CASE Over
  BY <1>1, LowestStep, TryAgainStep, LoopStep, CreateAlone, LoopMoves, WaitedStep, CallExecutorStep,
     ReloadStep DEF Exiting, Over, MainAt, Running
<1>2. CASE ~Over
  <2>1. ASSUME Propagate(FALSE) PROVE Exiting'
    BY <1>0, <2>1, Propagating DEF Exiting, EndAts
  <2>t. CASE TryAgain
    <3>1. Running("main", "ready") /\ ~Over' /\ stack'[1].at = "loop"
      BY <2>t, TryAgainStep, LowestMoves
    <3> QED BY <3>1, MainRuns DEF Exiting, MainAt, EndAts
  <2>2. CASE RaiseReload
    <3>1. \/ guard = "main" /\ ~Over' /\ stack'[1].at = "ready"
          \/ Exiting'
      BY <1>0, <2>2, Propagating DEF RaiseReload, Exiting, EndAts
    <3> QED BY <1>0, <1>2, <3>1 DEF MainAt
  <2>3. CASE Loop
    <3>1. Running("main", "loop")
      BY <2>3, LoopStep
    <3>2. ~Exiting
      BY <3>1, MainRuns DEF Exiting, EndAts
    <3> QED BY <2>1, <2>3, <3>2, LoopStep
  <2>4. CASE CreateVirts \/ CreateDests
    BY <2>4, CreatesInLoop
  <2>5. CASE BeginStart \/ Started \/ AllStarted \/ Visit \/ Sleep
    BY <2>5, LoopMoves DEF Exiting, MainAt, LoopAts, EndAts
  <2>6. CASE Waited
    <3>1. Running("main", Top.at) /\ Top.at \in {"waitVirts", "waitDests"}
      BY <2>6, WaitedStep
    <3> QED BY <3>1, MainRuns DEF Exiting, MainAt, EndAts
  <2>7. CASE CallExecutor /\ ~executor
    BY <2>1, <2>7, CallExecutorStep
  <2>8. CASE UNCHANGED stack \/ (~Over' /\ stack'[1] = stack[1])
             \/ (~Over' /\ stack'[1].at \in EndAts) \/ Over'
    BY <1>2, <2>8 DEF Exiting, MainAt, Over
  <2> QED BY <2>t, <2>2, <2>3, <2>4, <2>5, <2>6, <2>7, <2>8, LowestStep
<1> QED BY <1>1, <1>2

\* main creates threads only when nothing works.
LEMMA LoopQuietStep ==
    ASSUME ExecutorTypeOK, RunsFollowHups, StopsAll, LoopStartsQuiet, [ExecutorNext]_xvars
    PROVE  LoopStartsQuiet'
<1>1. ASSUME MainAt({"ready", "loop", "create"})' PROVE AllQuiet'
  <2>1. ~CreateVirts /\ ~CreateDests
    BY <1>1, CreatesInLoop
  <2>2. MainAt({"ready"})' \/ MainAt({"ready", "loop"})' \/ MainAt({"create"})'
    BY <1>1 DEF MainAt
  <2>3. MainAt({"ready", "loop", "create"}) \/ TryAgain \/ Loop \/ RaiseReload
    BY <2>2, BeginsStep DEF MainAt
  <2>5. TryAgain \/ Loop => MainAt({"ready", "loop", "create"})
    BY TryAgainStep, LoopStep, MainRuns
  <2>6. RaiseReload => AllQuiet
    BY ReloadStep DEF Running, StopsAll
  <2> QED BY <2>1, <2>3, <2>5, <2>6, QuietStays DEF LoopStartsQuiet
<1>2. ASSUME MainAt({"createDests"})', NEW t \in Threads, t[1] = "dest" PROVE Quiet(t)'
  <2>1. ~CreateDests
    BY <1>2, CreateDestsStep, LowestMoves, CallingExit DEF MainAt
  <2>2. CASE CreateVirts
    <3>1. Quiet(t)
      BY <2>2, QuietStarts DEF AllQuiet
    <3> QED BY <1>2, <2>2, <3>1, VirtsCreated
  <2>3. CASE ~CreateVirts
    <3>1. MainAt({"createDests"})
      BY <1>2, <2>3, BeginsStep
    <3> QED BY <1>2, <2>1, <2>3, <3>1, QuietStays DEF LoopStartsQuiet
  <2> QED BY <2>2, <2>3
<1> QED BY <1>1, <1>2 DEF LoopStartsQuiet, MainAt

\* Without an executor no thread begins to work.
LEMMA SilentStep ==
    ASSUME ExecutorTypeOK, GuardFits, RunsFollowHups, StopsAll, SilentWithoutExecutor,
           [ExecutorNext]_xvars
    PROVE  SilentWithoutExecutor'
<1> SUFFICES ASSUME ~executor'
             PROVE  /\ \A t \in Threads : st'[t] # "work"
                    /\ \/ event'
                       \/ AllQuiet' /\ (Exiting' \/ MainAt({"ready", "loop"})' \/ Cleared(0)')
  BY DEF SilentWithoutExecutor, MainAt, Exiting, Cleared
<1>0. executor \in BOOLEAN /\ event \in BOOLEAN
  BY DEF ExecutorTypeOK
<1>1. CASE executor
  <2>1. NoExecutor
    BY <1>1, FlagsChange
  <2>2. Running("term", "none")
    BY <2>1, NoExecutorStep
  <2>3. AllQuiet /\ event
    <3>1. ~Cleared(Len(stack))
      BY <2>2 DEF Running, Cleared
    <3> QED BY <2>2, <3>1 DEF Running, StopsAll
  <2>4. UNCHANGED <<st, event>>
    BY <2>1 DEF NoExecutor, threads
  <2> QED BY <2>3, <2>4 DEF AllQuiet, Quiet
<1>2. CASE ~executor /\ (CreateVirts \/ CreateDests)
  <2>1. event /\ \A t \in Threads : st[t] # "work"
    BY <1>2, CreatesInLoop DEF SilentWithoutExecutor
  <2>2. event' = event
    BY <1>2, CreateAlone
  <2>3. \A t \in Threads : st'[t] = "new" \/ st'[t] = st[t]
    BY <1>2, VirtsCreated, DestsCreated
  <2> QED BY <2>1, <2>2, <2>3
<1>3. CASE ~executor /\ ~CreateVirts /\ ~CreateDests
  <2>1. /\ \A t \in Threads : st[t] # "work"
        /\ event \/ (AllQuiet /\ (Exiting \/ MainAt({"ready", "loop"}) \/ Cleared(0)))
    BY <1>3 DEF SilentWithoutExecutor
  <2>2. ASSUME NEW t \in Threads, st'[t] = "work" PROVE FALSE
    <3>1. st[t] = "spawned" /\ ~Told(t)
      BY <1>3, <2>1, <2>2, ThreadsStep
    <3> QED BY <2>1, <3>1 DEF Told, AllQuiet, Quiet
  <2>3. CASE event
    <3>1. CASE Clear
      <4>1. Running("hup", "clear") /\ MovesTo("rearm", Top.left)
        BY <3>1, ReloadStep
      <4>2. AllQuiet
        BY <4>1 DEF Running, StopsAll
      <4>3. Cleared(0)'
        BY <4>1 DEF Running, MovesTo, Cleared
      <4> QED BY <1>3, <2>2, <4>2, <4>3, QuietStays
    <3> QED BY <1>3, <2>2, <2>3, <3>1, ThreadsStep
  <2>4. CASE ~event
    <3>1. AllQuiet'
      BY <1>3, <2>1, <2>4, QuietStays
    <3>2. CASE Cleared(0)
      <4>1. Over' \/ Resets => Exiting' \/ MainAt({"ready", "loop"})'
        BY DEF Resets, Exiting, MainAt, EndAts
      <4> QED BY <2>2, <3>1, <3>2, <4>1, ClearedStays
    <3>3. CASE Exiting \/ MainAt({"ready", "loop"})
      BY <1>3, <2>2, <3>1, <3>3, ExitingStays
    <3> QED BY <2>1, <2>4, <3>2, <3>3
  <2> QED BY <2>3, <2>4
<1> QED BY <1>1, <1>2, <1>3

\* When the log ends, or main, nothing works.
LEMMA EndStep ==
    ASSUME ExecutorTypeOK, GuardFits, StopsAll, SilentAtEnd, [ExecutorNext]_xvars
    PROVE  SilentAtEnd'
<1> SUFFICES ASSUME sentinel' \/ Over', executor' PROVE AllQuiet' /\ Exiting'
  BY DEF SilentAtEnd, Exiting, Over
<1>0. executor
  BY ThreadsStep, CreateAlone DEF ExecutorTypeOK
<1>1. CASE sentinel \/ Over
  <2>1. AllQuiet /\ Exiting
    BY <1>0, <1>1 DEF SilentAtEnd
  <2> QED BY <2>1, CreatesInLoop, ExitingStays, QuietStays
<1>2. CASE ~sentinel /\ ~Over /\ sentinel'
  <2>1. EndLog
    BY <1>2, FlagsChange
  <2>2. /\ Running(Top.who, "log") /\ MovesTo("joinLog", Top.left)
    BY <2>1, LogStep
  <2>3. Top.who = "main" /\ AllQuiet
    BY <1>0, <2>2 DEF Running, StopsAll
  <2>4. ~Over' /\ stack'[1].at = "joinLog"
    BY <2>2, <2>3, LowestMoves
  <2>5. ~CreateVirts /\ ~CreateDests
    BY <1>2, CreateAlone
  <2> QED BY <2>3, <2>4, <2>5, QuietStays DEF Exiting, EndAts
<1>3. CASE ~Over /\ Over'
  <2>0. ~CreateVirts /\ ~CreateDests
    BY <1>3, CreateAlone
  <2>1. LogEnded \/ RaiseReload
    BY <1>0, <1>3, LowestStep, TryAgainStep, LoopStep, CreateAlone, LoopMoves, WaitedStep, LowestMoves,
       CallingExit DEF Over, MovesTo
  <2>2. AllQuiet
    BY <1>0, <2>1, LogStep, ReloadStep DEF Running, StopsAll
  <2> QED BY <1>3, <2>0, <2>2, QuietStays DEF Exiting
<1> QED BY <1>1, <1>2, <1>3

-----------------------------------------------------------------------------
(* What main starts and waits for.                                         *)

\* A thread that is told to stop, and those that were never created, stay so.
LEMMA ToldStays ==
    ASSUME ExecutorTypeOK, StopsAll, [ExecutorNext]_xvars, ~CreateVirts, ~CreateDests,
           NEW t \in Threads, st[t] = "none" \/ Told(t)
    PROVE  st'[t] = "none" \/ Told(t)'
<1>1. CASE Clear
  <2>1. AllQuiet
    BY <1>1, ReloadStep DEF Running, StopsAll
  <2> QED BY <2>1, ThreadsStep DEF AllQuiet, Quiet, Told
<1>2. CASE ~Clear
  BY <1>2, ThreadsStep DEF Told
<1> QED BY <1>1, <1>2

\* A new thread stays so until main starts it.
LEMMA NewStays ==
    ASSUME ExecutorTypeOK, [ExecutorNext]_xvars, ~CreateVirts, ~CreateDests,
           NEW t \in Threads, st[t] = "new", ~(StartNext /\ t = Head(Top.left))
    PROVE  st'[t] = "new"
<1> USE DEF threads, ExecutorTypeOK
<1>1. CASE StartNext
  BY <1>1 DEF StartNext
<1>2. CASE \E u \in Threads : RunThread(u) \/ StopItself(u)
  BY <1>2 DEF RunThread, Enter, Leave, StopItself
<1>3. CASE TryAgain \/ Loop \/ BeginStart \/ Started \/ AllStarted \/ Visit \/ Sleep
           \/ Waited \/ Hup \/ Term
  BY <1>3 DEF TryAgain, Loop, BeginStart, Started, AllStarted, Visit, Sleep, Waited, Hup, Term
<1>4. CASE AskExecutor \/ CallExecutor \/ StopNext \/ Joined \/ AllJoined \/ Forget
           \/ NoExecutor \/ Clear \/ Rearm \/ RaiseReload \/ EndLog \/ LogEnded
           \/ UNCHANGED xvars
  BY <1>4 DEF AskExecutor, CallExecutor, StopNext, Joined, AllJoined, Forget,
              NoExecutor, Clear, Rearm, RaiseReload, EndLog, LogEnded, xvars
<1> QED BY <1>1, <1>2, <1>3, <1>4 DEF ExecutorNext, RunMain

\* Where main starts threads and waits for them, and how it comes there.
Serves == {"virts", "startVirts", "waitVirts", "dests", "startDests", "waitDests"}

LEMMA LoopGoes ==
    ASSUME ExecutorTypeOK, [ExecutorNext]_xvars, MainAt(Serves)'
    PROVE  /\ ~CreateVirts
           /\ \/ CreateDests /\ stack'[1].at = "virts"
              \/ /\ ~CreateDests /\ ~Over /\ stack[1].at \in Serves
                 /\ \/ stack'[1] = stack[1]
                    \/ /\ stack[1].at = "virts" /\ stack'[1].at = "startVirts"
                       /\ stack'[1].left = virts
                    \/ /\ stack[1].at = "dests" /\ stack'[1].at = "startDests"
                       /\ stack'[1].left = dests
                    \/ /\ stack[1].at \in {"startVirts", "startDests"}
                       /\ stack'[1].at = stack[1].at
                       /\ ToSet(stack'[1].left) \subseteq ToSet(stack[1].left)
                    \/ /\ stack[1].at = "startVirts" /\ Oneshot
                       /\ stack'[1].at = "waitVirts" /\ stack'[1].left = virts
                    \/ /\ stack[1].at = "startVirts" /\ ~Oneshot
                       /\ stack'[1].at = "dests"
                    \/ /\ stack[1].at = "startDests"
                       /\ stack'[1].at = "waitDests" /\ stack'[1].left = dests
                    \/ /\ stack[1].at \in {"waitVirts", "waitDests"}
                       /\ stack'[1].at = stack[1].at
                       /\ \A t \in ToSet(stack[1].left) :
                              t \in ToSet(stack'[1].left) \/ Told(t)
                    \/ /\ stack[1].at = "waitVirts" /\ stack[1].left = <<>>
                       /\ stack'[1].at = "dests"
<1> DEFINE a == stack[1]
           b == stack'[1]
<1>0. ~Over' /\ b.at \in Serves /\ guard \in {"main", "outer", "none"}
  BY DEF MainAt, ExecutorTypeOK
<1>n. CreateVirts => b.at \in {"createDests", "exit"}
  BY CreateVirtsStep, LowestMoves, CallingExit
<1>1. ~CreateVirts
  BY <1>0, <1>n DEF Serves
<1>2. CASE CreateDests
  <2>1. b.at \in {"virts", "exit"}
    BY <1>2, CreateDestsStep, LowestMoves, CallingExit
  <2> QED BY <1>0, <1>1, <1>2, <2>1 DEF Serves
<1>3. CASE ~CreateDests
  <2>m. \A at, x, y : Running("main", at) /\ MovesTo(x, y) =>
            a = Top /\ a.at = at /\ ~Over /\ b.at = x /\ b.left = y
    BY LowestMoves, MainRuns
  <2>1. CASE BeginStart
    BY <1>1, <1>3, <2>1, <2>m, BeginStartStep DEF Serves
  <2>2. CASE Started
    BY <1>1, <1>3, <2>2, <2>m, StartedStep DEF Serves
  <2>3. CASE AllStarted
    BY <1>1, <1>3, <2>3, <2>m, AllStartedStep DEF Serves
  <2>4. CASE Visit
    BY <1>1, <1>3, <2>4, <2>m, VisitStep DEF Serves
  <2>5. CASE Sleep
    <3>1. /\ ~Over /\ a.at \in {"waitVirts", "waitDests"} /\ b.at = a.at
          /\ b.left = a.left
      BY <2>5, <2>m, SleepStep
    <3> QED BY <1>1, <1>3, <3>1 DEF Serves
  <2>6. CASE Waited
    <3>1. /\ Running("main", Top.at) /\ Top.at \in {"waitVirts", "waitDests"}
          /\ Top.left = <<>>
      BY <2>6, WaitedStep
    <3>2. Top.at = "waitVirts" /\ MovesTo("dests", Top.left)
      BY <1>0, <2>6, WaitedStep, CallingExit DEF Serves
    <3> QED BY <1>1, <1>3, <2>m, <3>1, <3>2 DEF Serves
  <2>7. CASE TryAgain \/ Loop
    <3>1. b.at \in {"loop", "create", "exit"}
      BY <1>0, <2>7, TryAgainStep, LoopStep, LowestMoves, Propagating
    <3> QED BY <1>0, <3>1 DEF Serves
  <2>8. CASE RaiseReload \/ (CallExecutor /\ ~executor)
    <3>1. b.at \in {"ready", "exit"}
      BY <1>0, <2>8, CallExecutorStep, Propagating DEF RaiseReload
    <3> QED BY <1>0, <3>1 DEF Serves
  <2>9. CASE UNCHANGED stack \/ (~Over /\ b = a)
    <3>1. ~Over /\ a.at \in Serves /\ b = a
      BY <1>0, <2>9 DEF Over
    <3> QED BY <1>1, <1>3, <3>1
  <2>10. CASE b.at \in EndAts
    BY <1>0, <2>10 DEF Serves, EndAts
  <2> QED
    BY <1>0, <1>1, <1>3, <2>1, <2>2, <2>3, <2>4, <2>5, <2>6, <2>7, <2>8, <2>9, <2>10,
       LowestStep
<1> QED BY <1>2, <1>3

\* How the daemon comes to exit with 0.
LEMMA ExitsStep ==
    ASSUME ExecutorTypeOK, [ExecutorNext]_xvars, MainAt({"exit"})', code' = 0
    PROVE  \/ MainAt({"exit"}) /\ code = 0
           \/ /\ Waited /\ Running("main", Top.at) /\ Top.at \in {"waitVirts", "waitDests"}
              /\ Top.left = <<>>
<1>0. ~Over' /\ stack'[1].at = "exit" /\ guard \in {"main", "outer", "none"}
  BY DEF MainAt, ExecutorTypeOK
<1>1. ~TryAgain /\ ~Loop /\ ~RaiseReload /\ ~(CallExecutor /\ ~executor)
  <2>1. ASSUME NEW r \in BOOLEAN, Propagate(r) PROVE FALSE
    BY <1>0, <2>1, Propagating
  <2> QED BY <1>0, <2>1, TryAgainStep, LoopStep, LowestMoves, CallExecutorStep
          DEF RaiseReload
<1>2. ~CreateVirts /\ ~CreateDests
  BY <1>0, CreateVirtsStep, CreateDestsStep, LowestMoves, CallingExit
<1>3. CASE BeginStart \/ Started \/ AllStarted \/ Visit \/ Sleep
  BY <1>0, <1>3, LoopMoves DEF LoopAts
<1>4. CASE Waited
  BY <1>4, WaitedStep
<1>5. CASE UNCHANGED <<stack, guard, code>>
  BY <1>0, <1>5 DEF MainAt, Over
<1>6. CASE /\ ~Over /\ stack'[1] = stack[1] /\ (code' = code \/ code' = 1)
  BY <1>0, <1>6 DEF MainAt
<1> QED BY <1>0, <1>1, <1>2, <1>3, <1>4, <1>5, <1>6, LowestStep

\* main waits for all threads of the kind that are not told to stop.
LEMMA WaitsStep ==
    ASSUME ExecutorTypeOK, RunsFollowHups, Listed, StopsAll, WaitsForAll,
           [ExecutorNext]_xvars
    PROVE  WaitsForAll'
<1> DEFINE a == stack[1]
           b == stack'[1]
<1>0. mode' = mode
  BY ThreadsStep, CreateAlone
<1>l. /\ \A t \in Threads : Quiet(t) => st[t] = "none" \/ Told(t)
      /\ \A t \in ToSet(virts) : t \in Threads /\ t[1] = "virt"
      /\ \A t \in ToSet(dests) : t \in Threads /\ t[1] = "dest"
      /\ \A t \in Threads : Quiet(t) \/ t \in ToSet(virts) \/ t \in ToSet(dests)
  BY InList DEF ExecutorTypeOK, Listed, Quiet, Told
<1>1. ASSUME MainAt({"waitVirts"})', NEW t \in Threads, t[1] = "virt"
      PROVE  st'[t] = "none" \/ Told(t)' \/ t \in ToSet(b.left)
  <2>0. b.at = "waitVirts" /\ MainAt(Serves)'
    BY <1>1 DEF MainAt, Serves
  <2>1. ~CreateVirts /\ ~CreateDests /\ ~Over
    BY <2>0, LoopGoes
  <2>2. st[t] = "none" \/ Told(t) \/ t \in ToSet(b.left)
    <3>1. \/ b = a
          \/ b.left = virts
          \/ a.at = "waitVirts" /\ \A u \in ToSet(a.left) : u \in ToSet(b.left) \/ Told(u)
      BY <2>0, LoopGoes
    <3>2. a.at = "waitVirts" => st[t] = "none" \/ Told(t) \/ t \in ToSet(a.left)
      BY <1>1, <2>1 DEF WaitsForAll, MainAt
    <3> QED BY <1>1, <1>l, <2>0, <3>1, <3>2
  <2> QED BY <2>1, <2>2, ToldStays
<1>2. ASSUME MainAt({"waitDests"})', NEW t \in Threads, t[1] = "dest"
      PROVE  st'[t] = "none" \/ Told(t)' \/ t \in ToSet(b.left)
  <2>0. b.at = "waitDests" /\ MainAt(Serves)'
    BY <1>2 DEF MainAt, Serves
  <2>1. ~CreateVirts /\ ~CreateDests /\ ~Over
    BY <2>0, LoopGoes
  <2>2. st[t] = "none" \/ Told(t) \/ t \in ToSet(b.left)
    <3>1. \/ b = a
          \/ b.left = dests
          \/ a.at = "waitDests" /\ \A u \in ToSet(a.left) : u \in ToSet(b.left) \/ Told(u)
      BY <2>0, LoopGoes
    <3>2. a.at = "waitDests" => st[t] = "none" \/ Told(t) \/ t \in ToSet(a.left)
      BY <1>2, <2>1 DEF WaitsForAll, MainAt
    <3> QED BY <1>2, <1>l, <2>0, <3>1, <3>2
  <2> QED BY <2>1, <2>2, ToldStays
<1>3. ASSUME MainAt({"startVirts"})', NEW t \in ToSet(b.left) PROVE t[1] = "virt"
  <2>0. b.at = "startVirts" /\ MainAt(Serves)'
    BY <1>3 DEF MainAt, Serves
  <2>1. \/ ~Over /\ a.at = "startVirts" /\ ToSet(b.left) \subseteq ToSet(a.left)
        \/ b.left = virts
    BY <2>0, LoopGoes
  <2> QED BY <1>3, <1>l, <2>1 DEF WaitsForAll, MainAt
<1>4. ASSUME MainAt(Serves)', NEW t \in Threads, t[1] = "dest", t[3] = gen'
      PROVE  st'[t] # "none"
  <2>1. CASE CreateDests
    BY <1>4, <2>1, DestsCreated
  <2>2. CASE ~CreateDests
    <3>1. MainAt(Serves) /\ ~CreateVirts
      BY <1>4, <2>2, LoopGoes DEF MainAt
    <3>2. gen' = gen /\ (st'[t] = "none" <=> st[t] = "none")
      BY <2>2, <3>1, ThreadsStep
    <3> QED BY <1>4, <3>1, <3>2 DEF WaitsForAll, Serves
  <2> QED BY <2>1, <2>2
<1>5. ASSUME mode' = "daemon" PROVE ~MainAt({"waitVirts"})'
  <2> SUFFICES ASSUME ~Over', b.at = "waitVirts" PROVE FALSE
    BY DEF MainAt
  <2>1. MainAt(Serves)'
    BY DEF MainAt, Serves
  <2>2. ~Over /\ a.at = "waitVirts"
    BY <1>0, <1>5, <2>1, LoopGoes DEF Oneshot
  <2> QED BY <1>0, <1>5, <2>2 DEF WaitsForAll, MainAt
<1>6. ASSUME mode' = "daemon", MainAt({"exit"})', code' = 0,
             NEW t \in Threads, t[1] = "dest", t[3] = gen'
      PROVE  st'[t] # "none" /\ Told(t)'
  <2>1. ~CreateVirts /\ ~CreateDests
    BY <1>6, CreateVirtsStep, CreateDestsStep, LowestMoves, CallingExit DEF MainAt
  <2>2. gen' = gen /\ (st'[t] = "none" <=> st[t] = "none")
    BY <2>1, ThreadsStep
  <2>3. st[t] # "none" /\ Told(t)
    <3>1. CASE MainAt({"exit"}) /\ code = 0
      BY <1>0, <1>6, <2>2, <3>1 DEF WaitsForAll
    <3>2. CASE /\ Running("main", Top.at) /\ Top.at \in {"waitVirts", "waitDests"}
               /\ Top.left = <<>>
      <4>1. stack[1] = Top /\ ~Over
        BY <3>2, MainRuns
      <4>2. Top.at = "waitDests"
        BY <1>0, <1>6, <3>2, <4>1 DEF WaitsForAll, MainAt
      <4>3. MainAt({"waitDests"}) /\ MainAt(Serves)
        BY <4>1, <4>2 DEF MainAt, Serves
      <4>4. st[t] = "none" \/ Told(t) \/ t \in ToSet(stack[1].left)
        BY <1>6, <4>3 DEF WaitsForAll
      <4>5. st[t] # "none"
        BY <1>6, <2>2, <4>3 DEF WaitsForAll, Serves
      <4>6. t \notin ToSet(stack[1].left)
        BY <3>2, <4>1, InList, EmptySeq
      <4> QED BY <4>4, <4>5, <4>6
    <3> QED BY <1>6, <3>1, <3>2, ExitsStep
  <2> QED BY <2>1, <2>2, <2>3, ToldStays
<1> QED BY <1>1, <1>2, <1>3, <1>4, <1>5, <1>6 DEF WaitsForAll, Serves, MainAt, Told

\* In oneshot mode destinations wait until all virt threads are told to stop.
LEMMA IdleStays ==
    ASSUME ExecutorTypeOK, RunsFollowHups, StopsAll, LoopStartsQuiet, WaitsForAll,
           [ExecutorNext]_xvars, DestsIdle
    PROVE  DestsIdle' \/ (StartNext /\ MainAt({"startDests"}))
<1> SUFFICES ASSUME ~(StartNext /\ MainAt({"startDests"})), NEW t \in Threads, t[1] = "dest"
             PROVE  Quiet(t)' \/ st'[t] = "new"
  BY DEF DestsIdle
<1>1. Quiet(t) \/ st[t] = "new"
  BY DEF DestsIdle
<1>2. CASE CreateVirts \/ CreateDests
  BY <1>1, <1>2, VirtsCreated, DestsCreated
<1>3. CASE ~CreateVirts /\ ~CreateDests
  <2>1. CASE Quiet(t)
    BY <1>3, <2>1, QuietStays
  <2>2. CASE st[t] = "new" /\ StartNext /\ t = Head(Top.left)
    <3>1. /\ Running("main", Top.at) /\ Top.at \in {"startVirts", "startDests"}
          /\ t \in ToSet(Top.left)
      BY <2>2, StartsStep DEF StartNext
    <3>2. stack[1] = Top /\ ~Over
      BY <3>1, MainRuns
    <3>3. Top.at = "startVirts"
      BY <2>2, <3>1, <3>2 DEF MainAt
    <3>4. t[1] = "virt"
      BY <3>1, <3>2, <3>3 DEF WaitsForAll, MainAt
    <3> QED BY <3>4
  <2> QED BY <1>1, <1>3, <2>1, <2>2, NewStays
<1> QED BY <1>2, <1>3

LEMMA DestsFollowStep ==
    ASSUME ExecutorTypeOK, RunsFollowHups, StopsAll, LoopStartsQuiet, WaitsForAll,
           DestsFollow, [ExecutorNext]_xvars
    PROVE  DestsFollow'
<1> DEFINE a == stack[1]
           b == stack'[1]
<1>0. Oneshot' = Oneshot
  BY ThreadsStep, CreateAlone DEF Oneshot
<1> SUFFICES ASSUME Oneshot
             PROVE  /\ DestsIdle' \/ VirtsTold'
                    /\ MainAt({"createDests", "virts", "startVirts", "waitVirts"})'
                           => DestsIdle'
                    /\ MainAt({"dests", "startDests", "waitDests"})' => VirtsTold'
  BY <1>0 DEF DestsFollow, MainAt, DestsIdle, VirtsTold, Quiet, Told
<1>1. /\ DestsIdle \/ VirtsTold
      /\ MainAt({"createDests", "virts", "startVirts", "waitVirts"}) => DestsIdle
      /\ MainAt({"dests", "startDests", "waitDests"}) => VirtsTold
  BY DEF DestsFollow
<1>2. ASSUME VirtsTold, ~CreateVirts, ~CreateDests PROVE VirtsTold'
  BY <1>2, ToldStays DEF VirtsTold
<1>3. MainAt({"startDests"}) => MainAt({"dests", "startDests", "waitDests"})
  BY DEF MainAt
<1>4. CreateVirts => DestsIdle
  BY QuietStarts DEF AllQuiet, DestsIdle
<1>5. CreateDests => DestsIdle
  BY <1>1, CreateDestsStep, MainRuns
<1>6. DestsIdle' \/ VirtsTold'
  <2>1. StartNext => ~CreateVirts /\ ~CreateDests
    BY DEF StartNext, StartsThreads, CreateVirts, CreateDests, At
  <2> QED BY <1>1, <1>2, <1>3, <1>4, <1>5, <2>1, IdleStays
<1>7. ASSUME MainAt({"createDests", "virts", "startVirts", "waitVirts"})' PROVE DestsIdle'
  <2>1. ~Over' /\ b.at \in {"createDests", "virts", "startVirts", "waitVirts"}
    BY <1>7 DEF MainAt
  <2>2. \/ CreateVirts \/ CreateDests
        \/ ~Over /\ a.at \in {"createDests", "virts", "startVirts", "waitVirts"}
    <3>1. CASE b.at = "createDests"
      BY <2>1, <3>1, BeginsStep DEF MainAt
    <3>2. CASE b.at \in {"virts", "startVirts", "waitVirts"}
      <4>1. MainAt(Serves)'
        BY <2>1, <3>2 DEF MainAt, Serves
      <4> QED BY <3>2, <4>1, LoopGoes
    <3> QED BY <2>1, <3>1, <3>2
  <2>3. DestsIdle
    BY <1>1, <1>4, <1>5, <2>2 DEF MainAt
  <2>4. ASSUME StartNext, MainAt({"startDests"}) PROVE FALSE
    <3>1. stack' = stack
      BY <2>4 DEF StartNext
    <3> QED BY <2>1, <2>4, <3>1 DEF MainAt
  <2> QED BY <2>3, <2>4, IdleStays
<1>8. ASSUME MainAt({"dests", "startDests", "waitDests"})' PROVE VirtsTold'
  <2>1. MainAt(Serves)' /\ ~Over' /\ b.at \in {"dests", "startDests", "waitDests"}
    BY <1>8 DEF MainAt, Serves
  <2>2. /\ ~CreateVirts /\ ~CreateDests /\ ~Over
        /\ \/ a.at \in {"dests", "startDests", "waitDests"}
           \/ a.at = "waitVirts" /\ a.left = <<>>
    BY <2>1, LoopGoes
  <2>3. CASE a.at = "waitVirts" /\ a.left = <<>>
    <3>1. ToSet(a.left) = {}
      BY <2>3, InList, EmptySeq
    <3>2. VirtsTold
      BY <2>2, <2>3, <3>1 DEF WaitsForAll, VirtsTold, MainAt
    <3> QED BY <1>2, <2>2, <3>2
  <2>4. CASE a.at \in {"dests", "startDests", "waitDests"}
    BY <1>1, <1>2, <2>2, <2>4 DEF MainAt
  <2> QED BY <2>2, <2>3, <2>4
<1> QED BY <1>6, <1>7, <1>8

-----------------------------------------------------------------------------
(* The theorems.                                                           *)

\* The invariant holds before main's loop begins.
LEMMA InvariantBegins ==
    ASSUME ExecutorInit
    PROVE  ExecutorInv
<1>0. /\ stack = <<Frame("main", "ready")>> /\ DOMAIN stack = {1} /\ ~Over
      /\ stack[1].who = "main" /\ stack[1].at = "ready"
      /\ stack \in Seq(Frames)
  <2>1. Fits("main", "ready") /\ Frame("main", "ready") =
            [who |-> "main", at |-> "ready", left |-> <<>>, seen |-> 0]
    BY DEF Frame, Fits, LoopAts
  <2>2. Frame("main", "ready") \in Frames
    BY <2>1, FrameTyped, EmptySeq
  <2> QED BY <2>1, <2>2 DEF ExecutorInit, Over
<1>1. \A t \in Threads : st[t] = "none"
  BY DEF ExecutorInit
<1>2. AllQuiet
  BY <1>1 DEF AllQuiet, Quiet
<1>3. ExecutorTypeOK
  BY <1>0, EmptySeq DEF ExecutorInit, ExecutorTypeOK
<1>4. GuardFits
  BY <1>0 DEF ExecutorInit, GuardFits, LoopAts
<1>5. RunsFollowHups
  BY <1>0 DEF ExecutorInit, RunsFollowHups, MainAt
<1>6. Listed
  BY <1>1 DEF Listed, Quiet
<1>7. HupComesBack /\ SignalsInOrder
  BY <1>0 DEF ExecutorInit, HupComesBack, SignalsInOrder, Ignoring
<1>8. StopsAll
  BY <1>0 DEF StopsAll
<1>9. LoopStartsQuiet
  BY <1>0, <1>2 DEF LoopStartsQuiet, AllQuiet, MainAt
<1>10. SilentWithoutExecutor /\ SilentAtEnd
  BY <1>0 DEF ExecutorInit, SilentWithoutExecutor, SilentAtEnd
<1>11. WaitsForAll
  BY <1>0 DEF WaitsForAll, MainAt
<1>12. DestsFollow
  BY <1>0, <1>1 DEF DestsFollow, DestsIdle, Quiet, MainAt
<1> QED
  BY <1>3, <1>4, <1>5, <1>6, <1>7, <1>8, <1>9, <1>10, <1>11, <1>12 DEF ExecutorInv

\* Each step keeps it, a conjunct at a time.
LEMMA InvariantStays ==
    ASSUME ExecutorInv, [ExecutorNext]_xvars
    PROVE  ExecutorInv'
<1> USE DEF ExecutorInv
<1>1. ExecutorTypeOK'
  BY TypeStep
<1>2. GuardFits' /\ RunsFollowHups'
  BY GuardStep, RunsStep
<1>3. Listed' /\ StopsAll' /\ LoopStartsQuiet'
  BY ListedStep, StopsAllStep, LoopQuietStep
<1>4. HupComesBack' /\ SignalsInOrder'
  BY HupStep, OrderStep
<1>5. SilentWithoutExecutor' /\ SilentAtEnd'
  BY SilentStep, EndStep
<1>6. WaitsForAll' /\ DestsFollow'
  BY WaitsStep, DestsFollowStep
<1> QED BY <1>1, <1>2, <1>3, <1>4, <1>5, <1>6

\* Whatever the signals interrupt, in whatever order, for any numbers of threads
\* and signals: ExecutorInv is an invariant of main, the Executor and its handlers.
THEOREM ExecutorInvariance == ExecutorSpec => []ExecutorInv
<1>1. ExecutorInit => ExecutorInv
  BY InvariantBegins
<1>2. ExecutorInv /\ [ExecutorNext]_xvars => ExecutorInv'
  BY InvariantStays
<1> QED BY <1>1, <1>2, PTL DEF ExecutorSpec

\* Executor.reload "causes all threads to be terminated in preparation for running
\* again": no thread of an earlier run works beside one of a later run.
THEOREM OneGenerationAlways == ExecutorSpec => []OneGeneration
<1>1. ExecutorInv => OneGeneration
  <2> SUFFICES ASSUME ExecutorInv, NEW t \in Working, NEW u \in Working
               PROVE  t[3] = u[3]
    BY DEF OneGeneration
  <2>1. \A v \in Working : v \in Threads /\ ~Quiet(v) /\ st[v] # "none"
    BY DEF Working, Quiet
  <2>2. \A v \in Working : v[3] >= gen /\ v[3] <= gen
    BY <2>1 DEF ExecutorInv, Listed
  <2>3. gen \in Nat /\ \A v \in Working : v[3] \in Nat
    <3>1. \A v \in Threads : v[3] \in Nat
      BY ThreadKinds
    <3> QED BY <3>1 DEF ExecutorInv, ExecutorTypeOK, Working
  <2> QED BY <2>2, <2>3
<1> QED BY <1>1, ExecutorInvariance, PTL

\* When exit gives the sentinel to the log queue, and when the main thread is over,
\* no thread works that could still log a record.
THEOREM SentinelLastAlways == ExecutorSpec => []SentinelLast
<1>1. ExecutorInv => SentinelLast
  BY DEF ExecutorInv, SilentAtEnd, SilentWithoutExecutor, SentinelLast, Working, AllQuiet,
         Quiet
<1> QED BY <1>1, ExecutorInvariance, PTL

\* wait_on_threads does not return, and so the daemon does not exit with 0, before
\* every destination of the last run is told to stop or has given up.
THEOREM EndsForAReasonAlways == ExecutorSpec => []EndsForAReason
<1>1. ExecutorInv => EndsForAReason
  <2> SUFFICES ASSUME ExecutorInv, mode = "daemon", At("exit"), code = 0,
                      NEW t \in Threads, t[1] = "dest", t[3] = gen
               PROVE  Told(t)
    BY DEF EndsForAReason
  <2>1. Running("main", "exit")
    BY Place DEF ExecutorInv
  <2>2. MainAt({"exit"})
    BY <2>1, MainRuns
  <2> QED BY <2>2 DEF ExecutorInv, WaitsForAll
<1> QED BY <1>1, ExecutorInvariance, PTL

\* run_oneshot starts the destinations when all virt threads have had their
\* cycle, and no SIGHUP or SIGTERM changes that order.
THEOREM VirtsFirstAlways == ExecutorSpec => []VirtsFirst
<1>1. ExecutorInv => VirtsFirst
  <2> SUFFICES ASSUME ExecutorInv, Oneshot, NEW t \in Working, NEW u \in Working,
                      t[1] = "dest", u[1] = "virt"
               PROVE  Told(u)
    BY DEF VirtsFirst
  <2>1. ~DestsIdle
    BY DEF DestsIdle, Quiet, Working
  <2>2. VirtsTold
    BY <2>1 DEF ExecutorInv, DestsFollow
  <2> QED BY <2>2 DEF VirtsTold, Working
<1> QED BY <1>1, ExecutorInvariance, PTL
=============================================================================
