------------------------------ MODULE Purchase ------------------------------
(***************************************************************************)
(* POST /purchases of the purchase service: concurrent createPurchase calls *)
(* of one or several replicas on the users, purchases and outbox_events     *)
(* tables, with idempotency keys.                                           *)
(*                                                                         *)
(* Every await is a step boundary.  The database runs at READ COMMITTED: a  *)
(* transaction's rows are visible from its commit on, and until then an     *)
(* insert of the same primary or unique key, or an update of the same row,  *)
(* waits for it.  The purchase id of request r is r itself: ids are fresh.  *)
(* A client that sees no answer repeats its request: another request with   *)
(* the same key.                                                            *)
(***************************************************************************)
EXTENDS Naturals

CONSTANTS
    Requests,       \* createPurchase calls
    Keys,           \* idempotency keys
    Users,          \* user ids
    KeyOf,          \* x-idempotency-key of each request, or None
    UserOf,         \* dto.userId of each request
    AmountOf,       \* dto.amountKobo of each request
    MaxAmountKobo,  \* MAX_AMOUNT_KOBO of the DTO
    Int4Max,        \* largest value of the amountKobo column
    MaxFaults,      \* bound: failing queries and crashes
    None

ASSUME KeyAssumption == KeyOf \in [Requests -> Keys \cup {None}] /\ None \notin Keys
ASSUME UserAssumption == UserOf \in [Requests -> Users]
ASSUME AnswerAssumption == Requests \cap {"none", "error", "lost"} = {}
ASSUME NumbersAssumption == MaxFaults \in Nat /\ MaxAmountKobo \in Nat /\ Int4Max \in Nat

\* The validation pipe lets amounts from 1 to MAX_AMOUNT_KOBO through.
ValidAmount(n) == 1 <= n /\ n <= MaxAmountKobo

ASSUME AmountAssumption == \A r \in Requests : AmountOf[r] \in Nat /\ ValidAmount(AmountOf[r])

VARIABLES
    users,      \* committed users
    purchases,  \* committed purchases, named by the request that made them
    outbox,     \* committed PurchaseCompleted rows, named by their purchase
    pc,         \* where each call is suspended
    knew,       \* did the SELECT of save(User) find the user?
    wrote,      \* has this call's transaction inserted or updated the user row?
    cause,      \* why the transaction of a call failed
    answer,     \* what the client was told: a purchase id, "error", or "lost"
    faults      \* history: failing queries and crashes so far

vars == <<users, purchases, outbox, pc, knew, wrote, cause, answer, faults>>
tables == <<users, purchases, outbox>>

TypeOK ==
    /\ users \in SUBSET Users
    /\ purchases \in SUBSET Requests
    /\ outbox \in SUBSET Requests
    /\ pc \in [Requests -> {"start", "user", "saveUser", "purchase", "event", "publish", "catch", "done"}]
    /\ knew \in [Requests -> BOOLEAN]
    /\ wrote \in [Requests -> BOOLEAN]
    /\ cause \in [Requests -> {"none", "userKey", "idempotencyKey", "range", "other"}]
    /\ answer \in [Requests -> Requests \cup {"none", "error", "lost"}]
    /\ faults \in 0..MaxFaults

Init ==
    /\ users = {}
    /\ purchases = {}
    /\ outbox = {}
    /\ pc = [r \in Requests |-> "start"]
    /\ knew = [r \in Requests |-> FALSE]
    /\ wrote = [r \in Requests |-> FALSE]
    /\ cause = [r \in Requests |-> "none"]
    /\ answer = [r \in Requests |-> "none"]
    /\ faults = 0

Fault ==
    /\ faults < MaxFaults
    /\ faults' = faults + 1

\* findByIdempotencyKey: the committed purchases with this key.
FindByKey(k) == {p \in purchases : KeyOf[p] = k}

Answer(r, a) ==
    /\ answer' = [answer EXCEPT ![r] = a]
    /\ pc' = [pc EXCEPT ![r] = "done"]

Goto(r, label) == pc' = [pc EXCEPT ![r] = label]

\* The transaction is rolled back, its locks are gone, and the catch block runs.
Abort(r, why) ==
    /\ Goto(r, "catch")
    /\ cause' = [cause EXCEPT ![r] = why]
    /\ wrote' = [wrote EXCEPT ![r] = FALSE]

\* Other transactions wait for this one's uncommitted user row or purchase key.
HoldsUser(r, u) == UserOf[r] = u /\ wrote[r] /\ pc[r] \in {"purchase", "event"}
HoldsKey(r, k) == k # None /\ KeyOf[r] = k /\ pc[r] = "event"

-----------------------------------------------------------------------------
\* The look-up before the transaction.
PreCheck(r) ==
    /\ pc[r] = "start"
    /\ \/ /\ KeyOf[r] # None
          /\ \E p \in FindByKey(KeyOf[r]) : Answer(r, p)
       \/ /\ KeyOf[r] = None \/ FindByKey(KeyOf[r]) = {}
          /\ Goto(r, "user")
          /\ UNCHANGED answer
    /\ UNCHANGED <<tables, knew, wrote, cause, faults>>

\* save(User) first selects the row by its id.
SelectUser(r) ==
    /\ pc[r] = "user"
    /\ knew' = [knew EXCEPT ![r] = (UserOf[r] \in users)]
    /\ Goto(r, "saveUser")
    /\ UNCHANGED <<tables, wrote, cause, answer, faults>>

\* It then inserts the row, which fails if it has appeared since, or updates it,
\* unless the snapshot changes nothing.
SaveUser(r) ==
    LET u == UserOf[r]
        free == \A q \in Requests \ {r} : ~HoldsUser(q, u)
    IN
    /\ pc[r] = "saveUser"
    /\ \/ /\ ~knew[r] /\ free
          /\ IF u \in users
             THEN Abort(r, "userKey")
             ELSE Goto(r, "purchase") /\ wrote' = [wrote EXCEPT ![r] = TRUE] /\ UNCHANGED cause
       \/ /\ knew[r]
          /\ \/ free /\ wrote' = [wrote EXCEPT ![r] = TRUE]
             \/ UNCHANGED wrote
          /\ Goto(r, "purchase")
          /\ UNCHANGED cause
    /\ UNCHANGED <<tables, knew, answer, faults>>

\* Mutant of KeyViolation: there is no unique index on idempotencyKey.
KeyViolation_NoIndex(r) == FALSE

\* UQ_purchases_idempotencyKey refuses a second purchase with the key.
KeyViolation(r) == KeyOf[r] # None /\ FindByKey(KeyOf[r]) # {}

\* Mutant of SavePurchase: a key that an open transaction holds is refused at once.
SavePurchase_NoWait(r) ==
    /\ pc[r] = "purchase"
    /\ IF KeyViolation(r) \/ \E q \in Requests \ {r} : HoldsKey(q, KeyOf[r])
       THEN Abort(r, "idempotencyKey")
       ELSE Goto(r, "event") /\ UNCHANGED <<cause, wrote>>
    /\ UNCHANGED <<tables, knew, answer, faults>>

\* save(Purchase): the column's type, then its unique index, may refuse the row.
SavePurchase(r) ==
    /\ pc[r] = "purchase"
    /\ \/ /\ AmountOf[r] > Int4Max
          /\ Abort(r, "range")
       \/ /\ AmountOf[r] <= Int4Max
          /\ \A q \in Requests \ {r} : ~HoldsKey(q, KeyOf[r])
          /\ IF KeyViolation(r)
             THEN Abort(r, "idempotencyKey")
             ELSE Goto(r, "event") /\ UNCHANGED <<cause, wrote>>
    /\ UNCHANGED <<tables, knew, answer, faults>>

\* Mutant of SaveEvent: the outbox row is not part of the transaction.
SaveEvent_Outside(r) ==
    /\ pc[r] = "event"
    /\ users' = users \cup {UserOf[r]}
    /\ purchases' = purchases \cup {r}
    /\ outbox' \in {outbox, outbox \cup {r}}
    /\ wrote' = [wrote EXCEPT ![r] = FALSE]
    /\ Goto(r, "publish")
    /\ UNCHANGED <<knew, cause, answer, faults>>

\* save(OutboxEvent) and COMMIT.
SaveEvent(r) ==
    /\ pc[r] = "event"
    /\ users' = users \cup {UserOf[r]}
    /\ purchases' = purchases \cup {r}
    /\ outbox' = outbox \cup {r}
    /\ wrote' = [wrote EXCEPT ![r] = FALSE]
    /\ Goto(r, "publish")
    /\ UNCHANGED <<knew, cause, answer, faults>>

\* Mutant of Catch: a duplicate key starts the transaction again.
Catch_TriesAgain(r) ==
    /\ pc[r] = "catch"
    /\ IF KeyOf[r] # None /\ cause[r] = "idempotencyKey"
       THEN Goto(r, "user") /\ UNCHANGED answer
       ELSE Answer(r, "error")
    /\ UNCHANGED <<tables, knew, wrote, cause, faults>>

\* The catch block: a duplicate of the key gets the winner's purchase, any other
\* failure is rethrown.
Catch(r) ==
    /\ pc[r] = "catch"
    /\ \/ /\ KeyOf[r] # None /\ cause[r] = "idempotencyKey"
          /\ \E p \in FindByKey(KeyOf[r]) : Answer(r, p)
       \/ /\ KeyOf[r] = None \/ cause[r] # "idempotencyKey" \/ FindByKey(KeyOf[r]) = {}
          /\ Answer(r, "error")
    /\ UNCHANGED <<tables, knew, wrote, cause, faults>>

\* publishMany, then the answer.  A throw of publishMany is an error to the client
\* although the purchase is there.
Publish(r) ==
    /\ pc[r] = "publish"
    /\ \/ Answer(r, r) /\ UNCHANGED faults
       \/ Fault /\ Answer(r, "error")
    /\ UNCHANGED <<tables, knew, wrote, cause>>

\* A query of the transaction, or its commit, fails.
QueryFails(r) ==
    /\ pc[r] \in {"user", "saveUser", "purchase", "event"}
    /\ Fault
    /\ Abort(r, "other")
    /\ UNCHANGED <<tables, knew, answer>>

\* A look-up by key outside the transaction fails: the call throws.
LookupFails(r) ==
    /\ pc[r] \in {"start", "catch"}
    /\ KeyOf[r] # None
    /\ pc[r] = "catch" => cause[r] = "idempotencyKey"
    /\ Fault
    /\ Answer(r, "error")
    /\ UNCHANGED <<tables, knew, wrote, cause>>

\* The replica dies: the client is told nothing, an open transaction is undone.
Crash(r) ==
    /\ pc[r] \notin {"start", "done"}
    /\ Fault
    /\ Answer(r, "lost")
    /\ wrote' = [wrote EXCEPT ![r] = FALSE]
    /\ UNCHANGED <<tables, knew, cause>>

Step(r) ==
    \/ PreCheck(r) \/ SelectUser(r) \/ SaveUser(r) \/ SavePurchase(r)
    \/ SaveEvent(r) \/ Catch(r) \/ Publish(r)

Next == \E r \in Requests : Step(r) \/ QueryFails(r) \/ LookupFails(r) \/ Crash(r)

Spec == Init /\ [][Next]_vars

\* A call that is under way runs on, and the database serves a free lock.
FairSpec == Spec /\ \A r \in Requests : WF_vars(Step(r))

-----------------------------------------------------------------------------
(* Properties. *)

\* Two answers to requests with one idempotency key name the same purchase, and one
\* key has at most one purchase, however the look-up, the unique index and the
\* look-up of the catch block of createPurchase interleave with crashes.
OnePurchasePerKey ==
    \A q, r \in Requests : KeyOf[q] # None /\ KeyOf[q] = KeyOf[r] =>
        /\ {answer[q], answer[r]} \subseteq Requests => answer[q] = answer[r]
        /\ {q, r} \subseteq purchases => q = r

Store == INSTANCE PurchaseStore WITH bought <- purchases, events <- outbox

\* createPurchase with its look-ups, its transaction, its catch block and its crashes
\* behaves as PurchaseStore: purchase and event appear in one step, only for a key
\* that has no purchase, and a client is only told of a purchase that is stored.
ActsAsStore == Store!Spec

\* Every call of createPurchase answers or dies: the waits for the user row and for
\* the idempotency key never form a cycle.
EveryRequestAnswered == \A r \in Requests : <>(pc[r] = "done")

\* While nothing fails, a request that loses the race for its idempotency key gets the
\* winner's purchase and never an error: the unique index refuses it only after the
\* winner's commit, so the look-up in the catch block finds the row.
LostKeyRaceIsNoError ==
    \A r \in Requests : answer[r] = "error" /\ faults = 0 => cause[r] \in {"userKey", "range"}
=============================================================================
