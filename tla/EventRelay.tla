----------------------------- MODULE EventRelay -----------------------------
(***************************************************************************)
(* What outbox-sdk promises a service that commits event rows with its      *)
(* transactions, without saying who publishes a row, when, or under which   *)
(* lock.  An event is tried until the broker has a copy of it, is given up  *)
(* only after maxAttempts tries, and what has ended never starts again.     *)
(* The one thing the promise cannot hide is the loss of the worker that was *)
(* handling a row: that row is stranded.                                    *)
(*                                                                         *)
(* Outbox implements this specification (Outbox!RelaysEvents).              *)
(***************************************************************************)
EXTENDS Naturals

CONSTANTS
    Rows,         \* the events that may ever be written
    MaxAttempts   \* tries before an event may be given up

VARIABLES
    stage,    \* none, open, or how the event ended
    tries,    \* times the event was handed to the broker
    copies,   \* copies of it the broker accepted
    losses    \* workers lost half-way so far

relayVars == <<stage, tries, copies, losses>>

Ended == {"published", "failed", "stranded"}

Stages == {"none", "open"} \cup Ended

Init ==
    /\ stage = [r \in Rows |-> "none"]
    /\ tries = [r \in Rows |-> 0]
    /\ copies = [r \in Rows |-> 0]
    /\ losses = 0

\* A transaction commits the events S.
Write(S) ==
    /\ S # {}
    /\ \A r \in S : stage[r] = "none"
    /\ stage' = [r \in Rows |-> IF r \in S THEN "open" ELSE stage[r]]
    /\ UNCHANGED <<tries, copies, losses>>

\* The event is handed to the broker, which took it or did not.
Try(r) ==
    /\ stage[r] = "open"
    /\ tries' = [tries EXCEPT ![r] = @ + 1]
    /\ copies' \in {copies, [copies EXCEPT ![r] = @ + 1]}
    /\ UNCHANGED <<stage, losses>>

\* How an open event may end.
MayEnd(r, s) ==
    \/ s = "published" /\ copies[r] > 0
    \/ s = "failed" /\ tries[r] >= MaxAttempts
    \/ s = "stranded" /\ losses' > 0

\* Some open events end, a worker may be lost.
End ==
    /\ losses' \in {losses, losses + 1}
    /\ stage' \in [Rows -> Stages]
    /\ \A r \in Rows :
         stage'[r] # stage[r] => stage[r] = "open" /\ MayEnd(r, stage'[r])
    /\ UNCHANGED <<tries, copies>>

Next ==
    \/ \E S \in SUBSET Rows : Write(S)
    \/ \E r \in Rows : Try(r)
    \/ End

Spec == Init /\ [][Next]_relayVars

\* Every event that was written ends.
EveryEventEnds == \A r \in Rows : stage[r] = "open" ~> stage[r] \in Ended
=============================================================================
