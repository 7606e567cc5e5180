------------------------------- MODULE Outbox -------------------------------
(***************************************************************************)
(* The transactional outbox of packages/outbox-sdk: OutboxService           *)
(* (publishById, publishMany, publishPendingBatch) and the                  *)
(* ScheduledOutboxPublisher that runs one scanner per pod under a Redis     *)
(* lock.                                                                    *)
(*                                                                         *)
(* A worker is either a Caller (a request or message handler that commits   *)
(* a transaction with outbox rows and then calls publishMany on them) or a  *)
(* Scanner (one per pod).  Every await of the code is a step boundary.  A   *)
(* worker keeps its own copy of the attempts column from the moment it read *)
(* the row (seen): repository.save writes that copy back.                   *)
(*                                                                         *)
(* The timer drops the promise of publishPending: when the batch or Redis   *)
(* fails, the rejection is unhandled and ends the process, with every other *)
(* worker of that pod.                                                      *)
(*                                                                         *)
(* evicted, tries, delivered, faults and crashes are history variables:    *)
(* the code does not keep them.                                            *)
(***************************************************************************)
EXTENDS Naturals, FiniteSets

CONSTANTS
    Rows,         \* outbox_events rows that may ever be written
    Callers,      \* handlers that write rows and publish them at once
    Scanners,     \* ScheduledOutboxPublisher instances, one per pod
    PodOf,        \* the process each worker runs in
    CreatedAt,    \* createdAt of each row: the start of its transaction
    MaxAttempts,  \* options.maxAttempts
    BatchSize,    \* options.batchSize
    MaxFaults,    \* bound: ambiguous broker or database answers per row
    MaxCrashes,   \* bound: workers that crash or throw half-way
    None          \* no row, no lock holder

ASSUME CreatedAtAssumption == CreatedAt \in [Rows -> Nat]
ASSUME MaxAttemptsAssumption == MaxAttempts \in Nat \ {0}
ASSUME BoundsAssumption == MaxFaults \in Nat /\ MaxCrashes \in Nat
ASSUME PodAssumption == DOMAIN PodOf = Callers \cup Scanners
ASSUME WorkersAssumption == Callers \cap Scanners = {}
ASSUME NoneAssumption == None \notin Rows /\ None \notin Scanners

VARIABLES
    status,     \* status column of each row; ABSENT before its commit
    attempts,   \* attempts column of each row
    pc,         \* where each worker is suspended
    todo,       \* ids a worker still has to handle in this call
    cur,        \* the row a worker is handling
    seen,       \* attempts as a worker read them: its in-memory entities
    lock,       \* holder of the Redis key, None when the key is absent
    evicted,    \* history: scanners whose key expired under a running batch
    tries,      \* history: calls of brokerService.publish per row
    delivered,  \* history: copies of the row's event the broker accepted
    faults,     \* history: answers lost between broker or database and worker
    crashes     \* history: workers lost half-way so far

db == <<status, attempts>>
redis == <<lock, evicted>>
local == <<pc, todo, cur, seen>>
history == <<tries, delivered, faults, crashes>>
vars == <<status, attempts, pc, todo, cur, seen, lock, evicted, tries, delivered, faults, crashes>>

Workers == Callers \cup Scanners

Pods == {PodOf[w] : w \in Workers}

Statuses == {"ABSENT", "PENDING", "PUBLISHING", "PUBLISHED", "FAILED"}

PCs == {"idle", "scan", "find", "claim", "publish", "savePublished", "saveAttempt",
        "release", "abort"}

\* Mutant of Pending: rows that failed once are not looked for again.
Pending_FirstTry == {r \in Rows : status[r] = "PENDING" /\ attempts[r] = 0}

\* Pending rows, as the scanner's query and the claim's WHERE clause see them.
Pending == {r \in Rows : status[r] = "PENDING"}

\* The rows of S that ORDER BY createdAt ASC may return first.
Oldest(S) == {r \in S : \A s \in S : CreatedAt[r] <= CreatedAt[s]}

TypeOK ==
    /\ status \in [Rows -> Statuses]
    /\ attempts \in [Rows -> 0..MaxAttempts]
    /\ pc \in [Workers -> PCs]
    /\ todo \in [Workers -> SUBSET Rows]
    /\ cur \in [Workers -> Rows \cup {None}]
    /\ seen \in [Workers -> [Rows -> 0..MaxAttempts]]
    /\ lock \in Scanners \cup {None}
    /\ evicted \in SUBSET Scanners
    /\ tries \in [Rows -> Nat]
    /\ delivered \in [Rows -> Nat]
    /\ faults \in [Rows -> Nat]
    /\ crashes \in Nat

Init ==
    /\ status = [r \in Rows |-> "ABSENT"]
    /\ attempts = [r \in Rows |-> 0]
    /\ pc = [w \in Workers |-> "idle"]
    /\ todo = [w \in Workers |-> {}]
    /\ cur = [w \in Workers |-> None]
    /\ seen = [w \in Workers |-> [r \in Rows |-> 0]]
    /\ lock = None
    /\ evicted = {}
    /\ tries = [r \in Rows |-> 0]
    /\ delivered = [r \in Rows |-> 0]
    /\ faults = [r \in Rows |-> 0]
    /\ crashes = 0

-----------------------------------------------------------------------------
(* Control flow shared by publishMany and publishPendingBatch. *)

\* Where the worker's loop continues when the ids in rest are left.
LoopHead(w, rest) ==
    IF w \in Scanners
    THEN IF rest = {} THEN "release" ELSE "claim"
    ELSE IF rest = {} THEN "idle" ELSE "find"

\* The worker is done with row r of its list and its entity of r is garbage.
Done(w, r) ==
    /\ todo' = [todo EXCEPT ![w] = @ \ {r}]
    /\ pc' = [pc EXCEPT ![w] = LoopHead(w, todo[w] \ {r})]
    /\ cur' = [cur EXCEPT ![w] = None]
    /\ seen' = [seen EXCEPT ![w][r] = 0]

Goto(w, label) == pc' = [pc EXCEPT ![w] = label]

-----------------------------------------------------------------------------
(* Caller: commit rows, then publishMany(ids). *)

\* A service transaction commits the rows S; publishMany(S) starts.
Create(w, S) ==
    /\ pc[w] = "idle"
    /\ S # {}
    /\ \A r \in S : status[r] = "ABSENT"
    /\ \A r, s \in S : CreatedAt[r] = CreatedAt[s]
    /\ status' = [r \in Rows |-> IF r \in S THEN "PENDING" ELSE status[r]]
    /\ todo' = [todo EXCEPT ![w] = S]
    /\ Goto(w, "find")
    /\ UNCHANGED <<attempts, cur, seen, redis, history>>

\* publishById's early return.
NothingToPublish(r) == status[r] = "PUBLISHED" \/ attempts[r] >= MaxAttempts

\* publishById reads the row.
Find(w, r) ==
    /\ pc[w] = "find"
    /\ r \in todo[w]
    /\ \/ /\ NothingToPublish(r)
          /\ Done(w, r)
       \/ /\ ~NothingToPublish(r)
          /\ cur' = [cur EXCEPT ![w] = r]
          /\ seen' = [seen EXCEPT ![w][r] = attempts[r]]
          /\ Goto(w, "claim")
          /\ UNCHANGED todo
    /\ UNCHANGED <<db, redis, history>>

-----------------------------------------------------------------------------
(* Scanner: publishPending under the Redis lock. *)

\* The poll timer fires and SET NX succeeds.  When it fails, or a batch of
\* this pod is still running, publishPending returns and nothing changes.
AcquireLock(w) ==
    /\ pc[w] = "idle"
    /\ lock = None
    /\ lock' = w
    /\ Goto(w, "scan")
    /\ UNCHANGED <<db, evicted, todo, cur, seen, history>>

\* The key's TTL runs out: the heartbeat was late or its pod is gone.
LockExpires ==
    /\ lock # None
    /\ lock' = None
    /\ evicted' = IF pc[lock] = "idle" THEN evicted ELSE evicted \cup {lock}
    /\ UNCHANGED <<db, local, history>>

\* B is a result of find({status: PENDING}, ORDER BY createdAt, LIMIT BatchSize).
IsBatch(B) ==
    /\ B \subseteq Pending
    /\ Cardinality(B) <= BatchSize
    /\ \A b \in B, p \in Pending \ B : CreatedAt[b] <= CreatedAt[p]
    /\ Pending \ B # {} => Cardinality(B) = BatchSize

\* publishPendingBatch loads its batch of entities.
Scan(w, B) ==
    /\ pc[w] = "scan"
    /\ IsBatch(B)
    /\ todo' = [todo EXCEPT ![w] = B]
    /\ seen' = [seen EXCEPT ![w] = [r \in Rows |-> IF r \in B THEN attempts[r] ELSE 0]]
    /\ Goto(w, LoopHead(w, B))
    /\ UNCHANGED <<db, cur, redis, history>>

\* Mutant of ReleaseLock: DEL without comparing the value.
ReleaseLock_NoCompare(w) ==
    /\ pc[w] = "release"
    /\ lock' = None
    /\ evicted' = evicted \ {w}
    /\ Goto(w, "idle")
    /\ UNCHANGED <<db, todo, cur, seen, history>>

\* The finally block: compare-and-delete, then running = false.
ReleaseLock(w) ==
    /\ pc[w] = "release"
    /\ lock' = IF lock = w THEN None ELSE lock
    /\ evicted' = evicted \ {w}
    /\ Goto(w, "idle")
    /\ UNCHANGED <<db, todo, cur, seen, history>>

-----------------------------------------------------------------------------
(* Both: claim a row, publish its payload, save the outcome. *)

\* Mutant of ClaimForPublishing: UPDATE ... WHERE id alone.
ClaimForPublishing_ById(w, r) ==
    /\ status' = [status EXCEPT ![r] = "PUBLISHING"]
    /\ cur' = [cur EXCEPT ![w] = r]
    /\ Goto(w, "publish")
    /\ UNCHANGED <<todo, seen>>

\* UPDATE ... SET PUBLISHING WHERE id AND status = PENDING, and its row count.
ClaimForPublishing(w, r) ==
    \/ /\ r \in Pending
       /\ status' = [status EXCEPT ![r] = "PUBLISHING"]
       /\ cur' = [cur EXCEPT ![w] = r]
       /\ Goto(w, "publish")
       /\ UNCHANGED <<todo, seen>>
    \/ /\ r \notin Pending
       /\ Done(w, r)
       /\ UNCHANGED status

\* A caller claims the row it has just read, a scanner the next of its batch.
Claim(w, r) ==
    /\ pc[w] = "claim"
    /\ r \in todo[w]
    /\ IF w \in Scanners THEN r \in Oldest(todo[w]) ELSE r = cur[w]
    /\ ClaimForPublishing(w, r)
    /\ UNCHANGED <<attempts, redis, history>>

\* Mutant of PublishOutcome: the promise resolves on a negative confirm too.
PublishOutcome_IgnoresNack(w, r) ==
    /\ delivered' \in {delivered, [delivered EXCEPT ![r] = @ + 1]}
    /\ Goto(w, "savePublished")
    /\ UNCHANGED faults

\* brokerService.publish resolves when RabbitMQ confirms; it rejects when there
\* is no channel or the broker refuses, and also when the connection is lost
\* after RabbitMQ accepted the message but before its confirm arrived.
PublishOutcome(w, r) ==
    \/ /\ delivered' = [delivered EXCEPT ![r] = @ + 1]
       /\ Goto(w, "savePublished")
       /\ UNCHANGED faults
    \/ /\ Goto(w, "saveAttempt")
       /\ UNCHANGED <<delivered, faults>>
    \/ /\ faults[r] < MaxFaults
       /\ delivered' = [delivered EXCEPT ![r] = @ + 1]
       /\ faults' = [faults EXCEPT ![r] = @ + 1]
       /\ Goto(w, "saveAttempt")

Publish(w) ==
    /\ pc[w] = "publish"
    /\ tries' = [tries EXCEPT ![cur[w]] = @ + 1]
    /\ PublishOutcome(w, cur[w])
    /\ UNCHANGED <<db, todo, cur, seen, redis, crashes>>

\* save(event) with status PUBLISHED: the stale attempts are written back too.
WritePublished(w, r) ==
    /\ status' = [status EXCEPT ![r] = "PUBLISHED"]
    /\ attempts' = [attempts EXCEPT ![r] = seen[w][r]]

\* The save after a confirmed publish.  When it throws, the catch block runs,
\* whether the write was rolled back or only its answer was lost.
SavePublished(w) ==
    LET r == cur[w] IN
    /\ pc[w] = "savePublished"
    /\ \/ /\ WritePublished(w, r)
          /\ Done(w, r)
          /\ UNCHANGED faults
       \/ /\ faults[r] < MaxFaults
          /\ faults' = [faults EXCEPT ![r] = @ + 1]
          /\ \/ UNCHANGED db
             \/ WritePublished(w, r)
          /\ Goto(w, "saveAttempt")
          /\ UNCHANGED <<todo, cur, seen>>
    /\ UNCHANGED <<redis, tries, delivered, crashes>>

\* Mutant of NextAttempts: the counter is bumped twice for one failure.
NextAttempts_Twice(n) == IF n + 2 > MaxAttempts THEN MaxAttempts ELSE n + 2

\* event.attempts += 1 on the worker's copy.
NextAttempts(n) == n + 1

\* Back to PENDING for another retry, or FAILED once attempts run out.
StatusAfterFailure(n) == IF n >= MaxAttempts THEN "FAILED" ELSE "PENDING"

\* The catch block.
SaveAttempt(w) ==
    LET r == cur[w]
        n == NextAttempts(seen[w][r])
    IN
    /\ pc[w] = "saveAttempt"
    /\ attempts' = [attempts EXCEPT ![r] = n]
    /\ status' = [status EXCEPT ![r] = StatusAfterFailure(n)]
    /\ Done(w, r)
    /\ UNCHANGED <<redis, history>>

-----------------------------------------------------------------------------
(* Failures that leave the loop. *)

\* Everything the workers of pod p had in memory is gone.
Die(p) ==
    LET dead == {w \in Workers : PodOf[w] = p} IN
    /\ pc' = [w \in Workers |-> IF w \in dead THEN "idle" ELSE pc[w]]
    /\ todo' = [w \in Workers |-> IF w \in dead THEN {} ELSE todo[w]]
    /\ cur' = [w \in Workers |-> IF w \in dead THEN None ELSE cur[w]]
    /\ seen' = [w \in Workers |-> IF w \in dead THEN [r \in Rows |-> 0] ELSE seen[w]]
    /\ evicted' = evicted \ dead

\* A query outside the try, or the save in the catch block, throws: the caller's
\* publishMany rejects, the scanner is left with its finally block.
Throw(w) ==
    /\ crashes < MaxCrashes
    /\ pc[w] \in {"find", "scan", "claim", "saveAttempt"}
    /\ crashes' = crashes + 1
    /\ Goto(w, IF w \in Scanners THEN "abort" ELSE "idle")
    /\ todo' = [todo EXCEPT ![w] = {}]
    /\ cur' = [cur EXCEPT ![w] = None]
    /\ seen' = [seen EXCEPT ![w] = [r \in Rows |-> 0]]
    /\ UNCHANGED <<db, redis, tries, delivered, faults>>

\* The finally block of a failed batch releases the lock; then publishPending
\* rejects, nobody handles the rejection and the process ends.
Abort(w) ==
    /\ pc[w] = "abort"
    /\ lock' = IF lock = w THEN None ELSE lock
    /\ Die(PodOf[w])
    /\ UNCHANGED <<db, history>>

\* The process dies and starts again: it is stopped, or Redis answers SET NX or
\* the release with an error.  Redis keeps the key until its TTL.
Crash(p) ==
    /\ crashes < MaxCrashes
    /\ \E w \in Workers : PodOf[w] = p /\ pc[w] # "idle"
    /\ crashes' = crashes + 1
    /\ Die(p)
    /\ UNCHANGED <<db, lock, tries, delivered, faults>>

-----------------------------------------------------------------------------
\* The steps a worker takes once its call or its batch has begun.
Work(w) ==
    \/ \E r \in Rows : Find(w, r) \/ Claim(w, r)
    \/ \E B \in SUBSET Rows : Scan(w, B)
    \/ Publish(w)
    \/ SavePublished(w)
    \/ SaveAttempt(w)
    \/ ReleaseLock(w)
    \/ Abort(w)

Next ==
    \/ \E w \in Callers, S \in SUBSET Rows : Create(w, S)
    \/ \E w \in Scanners : AcquireLock(w)
    \/ LockExpires
    \/ \E w \in Workers : Work(w)
    \/ \E w \in Workers : Throw(w)
    \/ \E p \in Pods : Crash(p)

Spec == Init /\ [][Next]_vars

\* Promise continuations are eventually run, the poll timer of some pod keeps
\* firing, and Redis drops a key whose owner no longer renews it.
Fairness ==
    /\ \A w \in Workers : WF_vars(Work(w))
    /\ WF_vars(\E w \in Scanners : AcquireLock(w))
    /\ WF_vars(LockExpires /\ lock # None /\ pc[lock] = "idle")

FairSpec == Spec /\ Fairness

-----------------------------------------------------------------------------
(* Properties. *)

\* The worker has won the claim of its current row and not yet saved the outcome.
Owns(w, r) == cur[w] = r /\ pc[w] \in {"publish", "savePublished", "saveAttempt"}

\* No two workers are between the claim and the save of the same row, even when
\* the Redis lock has expired under a running scanner: the conditional UPDATE of
\* claimForPublishing alone keeps the immediate publish and every scanner apart.
OneOwnerPerRow ==
    \A r \in Rows : \A v, w \in Workers : Owns(v, r) /\ Owns(w, r) => v = w

\* A row is only marked PUBLISHED by publishRecord when the broker has really
\* accepted its event.
PublishedWasDelivered ==
    \A r \in Rows : status[r] = "PUBLISHED" => delivered[r] > 0

\* publishRecord gives a row up as FAILED only after maxAttempts real publish
\* calls: stale copies of attempts can lose increments but never invent them.
NeverGivesUpEarly ==
    \A r \in Rows : status[r] = "FAILED" => tries[r] >= MaxAttempts

\* The broker gets an event twice only if an answer about it was lost: without
\* ambiguous failures the claim makes publishing exactly-once.
DuplicatesNeedFaults ==
    \A r \in Rows : delivered[r] <= 1 + faults[r]

\* FAILED is final, and PUBLISHED is left only by the catch block of the worker
\* whose own save of PUBLISHED lost its answer (publishRecord lines 80 to 87).
SettledRowsStay ==
    [][\A r \in Rows :
         /\ status[r] = "FAILED" => status'[r] = "FAILED"
         /\ status[r] = "PUBLISHED" /\ status'[r] # "PUBLISHED" =>
              \E w \in Workers : Owns(w, r) /\ pc[w] = "saveAttempt"]_vars

\* A scanner in the middle of a batch still holds the Redis key unless the TTL ran
\* out under it: the compare-and-delete of releaseLock never removes the key of
\* another pod, so only expiry can let two pods scan at once.
OnlyExpiryLosesTheLock ==
    \A w \in Scanners : pc[w] # "idle" /\ w \notin evicted => lock = w

\* Every committed row is settled: published, or FAILED after maxAttempts.
\* "eventually published, because the row exists and the scanner will find it".
EveryRowSettles ==
    \A r \in Rows : status[r] # "ABSENT" ~> status[r] \in {"PUBLISHED", "FAILED"}

-----------------------------------------------------------------------------
(* What the outbox promises: EventRelay. *)

\* Some worker is between the claim and the save of the row.
Handled(r) == \E w \in Workers : Owns(w, r)

\* A row as its writer sees it.  A row a worker still handles is open, whatever
\* its status column says; PUBLISHING without a worker is nobody's.
Stage(r) ==
    IF status[r] = "ABSENT" THEN "none"
    ELSE IF Handled(r) \/ status[r] = "PENDING" THEN "open"
    ELSE CASE status[r] = "PUBLISHED" -> "published"
           [] status[r] = "FAILED" -> "failed"
           [] status[r] = "PUBLISHING" -> "stranded"

Relay == INSTANCE EventRelay WITH
    stage <- [r \in Rows |-> Stage(r)],
    copies <- delivered,
    losses <- crashes

\* publishById, publishMany and the scanners together keep the promise of
\* EventRelay: a row leaves publishRecord as PUBLISHED only with a copy at the
\* broker, as FAILED only after maxAttempts tries, is left in PUBLISHING only by
\* the loss of its worker, and no later step of anybody opens it again.
RelaysEvents == Relay!Spec

\* Every committed row is published or given up, with crashes too, unless the
\* worker that was handling it at that moment was the one that was lost: the
\* scanner of a pod that lives finds every other row, and a key left in Redis by
\* the dead pod does not keep it away.
EveryEventEnds == Relay!EveryEventEnds
=============================================================================
