------------------------------ MODULE Delivery ------------------------------
(***************************************************************************)
(* What a destination thread promises each of its sources, without         *)
(* batches, cycles and polling: a row of single places through which       *)
(* reports move, or from which they are dropped, but which they never      *)
(* overtake,                                                               *)
(*                                                                         *)
(*     the newest report -> the report in hand -> the request in flight    *)
(*                       -> what the server records.                       *)
(*                                                                         *)
(* A source of which an accepted request was lost has no promise any more. *)
(***************************************************************************)
CONSTANTS
    Sources,
    Values,   \* what a report may say
    NoReport  \* none, not a value

VARIABLES
    newest, \* the newest report of each source, or none
    hand,   \* the report the thread took to send it
    flight, \* the values of the requests the server works on
    record, \* what the server has
    lost    \* the sources without a promise

vars == <<newest, hand, flight, record, lost>>

Optional == Values \cup {NoReport}

Init ==
    /\ newest \in [Sources -> Optional]
    /\ hand = [s \in Sources |-> NoReport]
    /\ flight = [s \in Sources |-> {}]
    /\ record = [s \in Sources |-> NoReport]
    /\ lost = {}

Same(f, s) == f'[s] = f[s]

\* A virt thread reports, or a reload empties the datastore.
Publish(s) == Same(hand, s) /\ Same(flight, s) /\ Same(record, s)

\* The thread takes the newest report, or drops the one it has.
Take(s) == /\ hand'[s] \in {newest[s], NoReport}
           /\ Same(newest, s) /\ Same(flight, s) /\ Same(record, s)

\* It sends the report in hand, but only while no request is in flight.
Request(s) == /\ flight[s] = {} /\ hand[s] \in Values
              /\ flight'[s] = {hand[s]}
              /\ Same(newest, s) /\ Same(hand, s) /\ Same(record, s)

\* The same with an answer at once.
Deliver(s) == /\ flight[s] = {} /\ hand[s] \in Values
              /\ record'[s] = hand[s]
              /\ Same(newest, s) /\ Same(hand, s) /\ Same(flight, s)

\* The request in flight ends, with or without effect.
Land(s) == /\ flight[s] # {} /\ flight'[s] = {}
           /\ record'[s] \in flight[s] \cup {record[s]}
           /\ Same(newest, s) /\ Same(hand, s)

Step(s) == Publish(s) \/ Take(s) \/ Request(s) \/ Deliver(s) \/ Land(s)

\* Several sources may move at once; a lost one moves as it likes.
Next ==
    /\ lost \subseteq lost'
    /\ \A s \in Sources \ lost' : Step(s)

Spec == Init /\ [][Next]_vars

=============================================================================
