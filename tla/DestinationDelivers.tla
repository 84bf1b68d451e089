------------------------ MODULE DestinationDelivers ------------------------
(***************************************************************************)
(* The destination thread and the server's job queue implement Delivery.   *)
(* A request is in flight from its acceptance to the end of its job,       *)
(* whether or not virt-who tracks it: that a source has one at most is     *)
(* what the refinement shows, not how it is defined.                       *)
(***************************************************************************)
EXTENDS Destination

Value(report) == IF report \in Hashes THEN report ELSE NoReport

\* While the thread asks for the job of a source, the report it read for that
\* source is in a local variable of its own.
InHand(s) == IF cur = s /\ pc \in {"poll", "ask", "settle"} THEN curReport ELSE reports[s]

InFlight(s) == {jobs[j].sent[s] : j \in {i \in DOMAIN jobs : Carries(i, s) /\ Running(i)}}

Abstract == INSTANCE Delivery WITH
    Values <- Hashes,
    newest <- [s \in Sources |-> Value(store[s])],
    hand   <- [s \in Sources |-> Value(InHand(s))],
    flight <- [s \in Sources |-> InFlight(s)],
    record <- server

\* Nothing a source reports is overtaken by something older on its way to the
\* server, and no second request leaves while one is in process, however
\* batches, job queries, failures, terminations and reloads interleave (the
\* comments at lines 652-672 and 829-835 of virt.py).
Delivers == Abstract!Spec

=============================================================================
