------------------------------ MODULE Cashback ------------------------------
(***************************************************************************)
(* The cashback service: BadgeUnlocked handlers, BullMQ payment jobs, the   *)
(* automatic and the manual retry, and Paystack's webhooks, all working on  *)
(* the same cashback_transactions row.                                      *)
(*                                                                         *)
(* A transaction is named by its unique (userId, badgeName).  Every await  *)
(* is a step boundary.  repository.save writes back the whole entity as it  *)
(* was read (ent below), repository.update only the columns it names.       *)
(* nextRetryAt only postpones a retry and is left out: time is not modelled.*)
(*                                                                         *)
(* Hazards names the awkward behaviours of the environment that a run lets  *)
(* happen; each use costs one of MaxFaults where it is a failure.           *)
(***************************************************************************)
EXTENDS Naturals, FiniteSets

CONSTANTS
    Txs,             \* (user, badge) pairs
    UserOf,          \* the user of each transaction
    Events,          \* BadgeUnlocked events
    TxOf,            \* the (user, badge) of each event
    DetailsOf,       \* bank details in each event's user snapshot, or None
    Deliveries,      \* RabbitMQ deliveries, each handled by handleBadgeUnlocked
    EventOf,         \* the event each delivery carries
    Hooks,           \* concurrent webhook requests
    Scanners,        \* retryEligibleFailedTransactions, one per replica
    Admins,          \* concurrent POST /cashbacks/:id/retry requests
    NewDetails,      \* bank details an admin may supply with a retry
    Providers,       \* "paystack", "mock" (also Paystack without a key)
    MaxAutoRetries,  \* CASHBACK_MAX_AUTO_RETRIES
    JobAttempts,     \* attempts of a BullMQ job
    Hazards,         \* which of AllHazards may happen
    MaxJobs,         \* bound: jobs ever added to the queue
    MaxFaults,       \* bound: failures of the kinds in Hazards
    None

AllHazards == {"dupDelivery", "slowCommit", "dbError", "crash", "lostResponse",
               "earlyWebhook", "dupWebhook", "reversal"}

ASSUME HazardsAssumption == Hazards \subseteq AllHazards
ASSUME BoundsAssumption == {MaxJobs, MaxFaults, MaxAutoRetries} \subseteq Nat /\ JobAttempts \in Nat \ {0}
ASSUME EventAssumption ==
    /\ EventOf \in [Deliveries -> Events]
    /\ TxOf \in [Events -> Txs]
ASSUME RetrierAssumption == IsFiniteSet(Scanners) /\ IsFiniteSet(Admins)
ASSUME ProviderAssumption == Providers \subseteq {"paystack", "mock"}

VARIABLES
    row,          \* cashback_transactions
    account,      \* payout_accounts: bank details and cached recipient code
    processed,    \* processed_events
    handler,      \* handleBadgeUnlocked, one per delivery
    job,          \* BullMQ jobs with the processPayment call that runs them
    retrier,      \* retry scanners and retry requests
    hook,         \* webhook requests
    transfer,     \* Paystack's transfers by reference
    notices,      \* webhooks Paystack has yet to get a 200 for
    announced,    \* history: SUCCESSFUL CashbackProcessed events per reference (2: several)
    faults,       \* history: failures so far
    provider      \* the provider this deployment is configured with

vars == <<row, account, processed, handler, job, retrier, hook, transfer, notices,
          announced, faults>>

Jobs == 1..MaxJobs
Retriers == Scanners \cup Admins
Users == {UserOf[t] : t \in Txs}
AllDetails == {DetailsOf[e] : e \in Events} \cup NewDetails \cup {None}

\* A reference is fresh for every attempt: the job and the count of its claims.
Refs == Jobs \X (1..JobAttempts + MaxFaults)

ASSUME NoneAssumption == None \notin Txs \cup Events \cup Refs

Rows == [status : {"ABSENT", "PENDING", "PROCESSING", "SUCCESSFUL", "FAILED"},
         ref : Refs \cup {None},
         retryable : {TRUE, FALSE, None},
         retryCount : Nat]

NoRow == [status |-> "ABSENT", ref |-> None, retryable |-> None, retryCount |-> 0]
IdleJob == [pc |-> "none", tx |-> None, ev |-> None, details |-> None, orphan |-> FALSE, made |-> 0,
            run |-> 0, ent |-> NoRow, found |-> FALSE, recipient |-> None, retryable |-> FALSE]
IdleHandler == [pc |-> "new", ent |-> NoRow, job |-> None]
IdleRetrier == [pc |-> "idle", tx |-> None, details |-> None, found |-> FALSE, recipient |-> None]
IdleHook == [pc |-> "idle", tx |-> None, ent |-> NoRow, kind |-> None]
NoTransfer == [state |-> "none", dest |-> None]

HandlerCalls == [pc : {"new", "read", "save", "commit", "done"}, ent : Rows, job : Jobs \cup {None}]
JobCalls ==
    [pc : {"none", "waiting", "claim", "account", "upsert", "send", "save", "publish", "catch", "done"},
     tx : Txs \cup {None}, ev : Events \cup {None}, details : AllDetails, orphan : BOOLEAN,
     made : 0..JobAttempts, run : 0..JobAttempts + MaxFaults, ent : Rows, found : BOOLEAN,
     recipient : AllDetails, retryable : BOOLEAN]
RetryCalls ==
    [pc : {"idle", "override", "reset", "check", "update", "enqueue"}, tx : Txs \cup {None}, details : AllDetails,
     found : BOOLEAN, recipient : AllDetails]
HookCalls == [pc : {"idle", "save"}, tx : Txs \cup {None}, ent : Rows, kind : {"success", "failed", None}]
Transfers == [state : {"none", "open", "success", "failed", "reversed"}, dest : AllDetails]

TypeOK ==
    /\ row \in [Txs -> Rows]
    /\ account \in [Users -> [details : AllDetails, recipient : AllDetails]]
    /\ processed \subseteq Events
    /\ handler \in [Deliveries -> HandlerCalls]
    /\ job \in [Jobs -> JobCalls]
    /\ retrier \in [Retriers -> RetryCalls]
    /\ hook \in [Hooks -> HookCalls]
    /\ transfer \in [Refs -> Transfers]
    /\ notices \subseteq [ref : Refs, kind : {"success", "failed"}]
    /\ announced \in [Refs -> 0..2]
    /\ faults \in 0..MaxFaults
    /\ provider \in Providers

Init ==
    /\ row = [t \in Txs |-> NoRow]
    /\ account = [u \in Users |-> [details |-> None, recipient |-> None]]
    /\ processed = {}
    /\ handler = [d \in Deliveries |-> IdleHandler]
    /\ job = [j \in Jobs |-> IdleJob]
    /\ retrier = [q \in Retriers |-> IdleRetrier]
    /\ hook = [h \in Hooks |-> IdleHook]
    /\ transfer = [r \in Refs |-> NoTransfer]
    /\ notices = {}
    /\ announced = [r \in Refs |-> 0]
    /\ faults = 0
    /\ provider \in Providers

\* A failure of the named kind happens in this step.
Fault(kind) ==
    /\ kind \in Hazards
    /\ faults < MaxFaults
    /\ faults' = faults + 1

Announce(r) == announced' = [announced EXCEPT ![r] = IF @ = 2 THEN 2 ELSE @ + 1]

-----------------------------------------------------------------------------
(* The BullMQ queue. *)

Queued == {j \in Jobs : job[j].pc # "none"}

\* Retries that have been picked and will add a job.
Reserved == {q \in Retriers : retrier[q].pc # "idle"}

QueueHasRoom == Cardinality(Queued) + Cardinality(Reserved) < MaxJobs

NextJob == Cardinality(Queued) + 1

\* queue.add of a send-cashback job for transaction t.
NewJob(t, e, details) ==
    [IdleJob EXCEPT !.pc = "waiting", !.tx = t, !.ev = e, !.details = details]

\* The job is over; what it did stays on record.
EndJob(j) == [job[j] EXCEPT !.pc = "done", !.ent = NoRow, !.found = FALSE, !.recipient = None, !.retryable = FALSE]

\* The processor threw: BullMQ runs the job again while attempts are left.
Rethrow(j) ==
    [EndJob(j) EXCEPT !.made = @ + 1,
                      !.pc = IF job[j].made + 1 < JobAttempts THEN "waiting" ELSE "done"]

-----------------------------------------------------------------------------
(* handleBadgeUnlocked *)

Busy(d) == handler[d].pc \in {"read", "save", "commit"}

\* Mutant of HandlerCheck: processed_events is not consulted.
HandlerCheck_NoDedup(d) ==
    /\ handler[d].pc = "new"
    /\ "dupDelivery" \in Hazards \/ ~\E c \in Deliveries : Busy(c)
    /\ handler' = [handler EXCEPT ![d].pc = "read"]
    /\ UNCHANGED <<row, account, processed, job, retrier, hook, transfer, notices, announced, faults>>

\* Is eventId in processed_events already?
HandlerCheck(d) ==
    /\ handler[d].pc = "new"
    /\ "dupDelivery" \in Hazards \/ ~\E c \in Deliveries : Busy(c)
    /\ handler' = [handler EXCEPT ![d].pc = IF EventOf[d] \in processed THEN "done" ELSE "read"]
    /\ UNCHANGED <<row, account, processed, job, retrier, hook, transfer, notices, announced, faults>>

\* The database transaction starts and looks for an existing row.
HandlerRead(d) ==
    /\ handler[d].pc = "read"
    /\ handler' = [handler EXCEPT ![d].pc = "save", ![d].ent = row[TxOf[EventOf[d]]]]
    /\ UNCHANGED <<row, account, processed, job, retrier, hook, transfer, notices, announced, faults>>

\* Another delivery holds the unique key of this row or of this processed event,
\* or has committed the row since this one looked: the insert fails.
KeyTaken(d) ==
    LET t == TxOf[EventOf[d]] IN
    \/ handler[d].ent.status = "ABSENT" /\ row[t].status # "ABSENT"
    \/ \E c \in Deliveries \ {d} :
         /\ handler[c].pc = "commit"
         /\ \/ EventOf[c] = EventOf[d]
            \/ TxOf[EventOf[c]] = t /\ handler[c].ent.status = "ABSENT" /\ handler[d].ent.status = "ABSENT"

\* Mutant of HandlerSave: the job is only added after the commit, and may be lost.
HandlerSave_QueueLater(d) ==
    LET e == EventOf[d]
        t == TxOf[e]
    IN
    /\ handler[d].pc = "save"
    /\ ~KeyTaken(d)
    /\ processed' = processed \cup {e}
    /\ row' = [row EXCEPT ![t] = IF @.status = "ABSENT" THEN [NoRow EXCEPT !.status = "PENDING"] ELSE @]
    /\ handler' = [handler EXCEPT ![d].pc = "done"]
    /\ UNCHANGED <<account, job, retrier, hook, transfer, notices, announced, faults>>

\* save(transaction), save(ProcessedEvent), queue.add: the job is visible at once,
\* the rows when the transaction commits.  Saving an existing row writes back the
\* entity; where that changes the row its lock hides the time until the commit.
HandlerSave(d) ==
    LET e == EventOf[d]
        t == TxOf[e]
    IN
    /\ handler[d].pc = "save"
    /\ \/ /\ KeyTaken(d)
          /\ handler' = [handler EXCEPT ![d] = IdleHandler]
          /\ UNCHANGED <<row, processed, job>>
       \/ /\ ~KeyTaken(d)
          /\ QueueHasRoom
          /\ job' = [job EXCEPT ![NextJob] = NewJob(t, e, DetailsOf[e])]
          /\ \/ /\ handler[d].ent \in {NoRow, row[t]}
                /\ handler' = [handler EXCEPT ![d].pc = "commit", ![d].job = NextJob]
                /\ UNCHANGED <<row, processed>>
             \/ /\ handler[d].ent \notin {NoRow, row[t]}
                /\ row' = [row EXCEPT ![t] = handler[d].ent]
                /\ processed' = processed \cup {e}
                /\ handler' = [handler EXCEPT ![d] = [IdleHandler EXCEPT !.pc = "done"]]
    /\ UNCHANGED <<account, retrier, hook, transfer, notices, announced, faults>>

\* COMMIT.
HandlerCommit(d) ==
    LET e == EventOf[d]
        t == TxOf[e]
    IN
    /\ handler[d].pc = "commit"
    /\ row' = IF handler[d].ent.status = "ABSENT"
              THEN [row EXCEPT ![t] = [NoRow EXCEPT !.status = "PENDING"]]
              ELSE row
    /\ processed' = processed \cup {e}
    /\ handler' = [handler EXCEPT ![d] = [IdleHandler EXCEPT !.pc = "done"]]
    /\ UNCHANGED <<account, job, retrier, hook, transfer, notices, announced, faults>>

\* The commit fails or the process dies: RabbitMQ delivers the event again, the
\* job stays queued, and the row id it names may never exist.
HandlerRollback(d) ==
    /\ handler[d].pc = "commit"
    /\ Fault("dbError")
    /\ job' = [job EXCEPT ![handler[d].job].orphan = (handler[d].ent.status = "ABSENT")]
    /\ handler' = [handler EXCEPT ![d] = IdleHandler]
    /\ UNCHANGED <<row, account, processed, retrier, hook, transfer, notices, announced>>

-----------------------------------------------------------------------------
(* processPayment, run by a BullMQ worker. *)

\* findOneByOrFail and the status check.
JobStart(j) ==
    LET r == row[job[j].tx] IN
    /\ job[j].pc = "waiting"
    /\ "slowCommit" \in Hazards \/ ~\E d \in Deliveries : handler[d].pc = "commit" /\ handler[d].job = j
    /\ job' = [job EXCEPT ![j] =
         IF job[j].orphan \/ r.status = "ABSENT" THEN Rethrow(j)
         ELSE IF r.status # "PENDING" THEN EndJob(j)
         ELSE [@ EXCEPT !.pc = "claim", !.ent = r]]
    /\ UNCHANGED <<row, account, processed, handler, retrier, hook, transfer, notices, announced, faults>>

\* Does UPDATE ... WHERE status = PENDING find the row?
Claimed(j) == row[job[j].tx].status = "PENDING"

\* Mutant of ClaimedRow: the reference is not part of the claim.
ClaimedRow_NoRef(r, ref) == [r EXCEPT !.status = "PROCESSING"]

\* The columns the claim writes.
ClaimedRow(r, ref) == [r EXCEPT !.status = "PROCESSING", !.ref = ref]

JobClaim(j) ==
    LET t == job[j].tx
        ref == <<j, job[j].run + 1>>
    IN
    /\ job[j].pc = "claim"
    /\ \/ /\ Claimed(j)
          /\ row' = [row EXCEPT ![t] = ClaimedRow(@, ref)]
          /\ job' = [job EXCEPT ![j].pc = "account", ![j].run = @ + 1,
                                ![j].ent = [@ EXCEPT !.status = "PROCESSING", !.ref = ref]]
       \/ /\ ~Claimed(j)
          /\ job' = [job EXCEPT ![j] = EndJob(j)]
          /\ UNCHANGED row
    /\ UNCHANGED <<account, processed, handler, retrier, hook, transfer, notices, announced, faults>>

\* A query before the try fails, which BullMQ sees: the row stays as it is.  The claim may
\* have been made without an answer.
JobQueryFails(j) ==
    LET t == job[j].tx
        ref == <<j, job[j].run + 1>>
    IN
    /\ Fault("dbError")
    /\ \/ /\ job[j].pc \in {"waiting", "claim"}
          /\ job' = [job EXCEPT ![j] = Rethrow(j)]
          /\ UNCHANGED row
       \/ /\ job[j].pc = "claim"
          /\ Claimed(j)
          /\ row' = [row EXCEPT ![t] = ClaimedRow(@, ref)]
          /\ job' = [job EXCEPT ![j] = [Rethrow(j) EXCEPT !.run = @ + 1]]
    /\ UNCHANGED <<account, processed, handler, retrier, hook, transfer, notices, announced>>

\* The catch block is entered with an error of this classification.
Fails(j, retryable) == job' = [job EXCEPT ![j].pc = "catch", ![j].retryable = retryable]

\* Does the user have a payout account?
HasAccount(u) == account[u].details # None

\* upsertPayoutAccount: without bank details it throws a hard failure.  findOneBy: the
\* entity holds the recipient code that the account has now.
JobAccount(j) ==
    LET u == UserOf[job[j].tx] IN
    /\ job[j].pc = "account"
    /\ \/ /\ job[j].details = None
          /\ Fails(j, FALSE)
          /\ UNCHANGED faults
       \/ /\ job[j].details # None
          /\ job' = [job EXCEPT ![j].pc = "upsert", ![j].found = HasAccount(u), ![j].recipient = account[u].recipient]
          /\ UNCHANGED faults
       \/ /\ Fault("dbError")
          /\ \E retryable \in BOOLEAN : Fails(j, retryable)
    /\ UNCHANGED <<row, account, processed, handler, retrier, hook, transfer, notices, announced>>

\* The account that a save of the entity leaves: the new details with the recipient code
\* as it was read.
SavedAccount(details, recipient) == [details |-> details, recipient |-> recipient]

\* Mutant of JobUpsert: the result is saved without having called the provider.
JobUpsert_SkipsSend(j) ==
    LET u == UserOf[job[j].tx] IN
    /\ job[j].pc = "upsert"
    /\ account' = [account EXCEPT ![u] = SavedAccount(job[j].details, job[j].recipient)]
    /\ job' = [job EXCEPT ![j].pc = "save"]
    /\ UNCHANGED <<row, processed, handler, retrier, hook, transfer, notices, announced, faults>>

\* Mutant of JobUpsert: a recipient is cached before any transfer to it was accepted.
JobUpsert_CachesRecipient(j) ==
    LET u == UserOf[job[j].tx]
        recipient == IF job[j].recipient = None THEN job[j].details ELSE job[j].recipient
    IN
    /\ job[j].pc = "upsert"
    /\ account' = [account EXCEPT ![u] = SavedAccount(job[j].details, recipient)]
    /\ job' = [job EXCEPT ![j].pc = "send", ![j].recipient = recipient]
    /\ UNCHANGED <<row, processed, handler, retrier, hook, transfer, notices, announced, faults>>

\* save: UPDATE the account that was found, or INSERT one.  Another payment of the user
\* may have inserted it since: a violated unique index is no failure that is retried.
JobUpsert(j) ==
    LET u == UserOf[job[j].tx] IN
    /\ job[j].pc = "upsert"
    /\ \/ /\ job[j].found \/ ~HasAccount(u)
          /\ account' = [account EXCEPT ![u] = SavedAccount(job[j].details, job[j].recipient)]
          /\ job' = [job EXCEPT ![j].pc = "send"]
          /\ UNCHANGED faults
       \/ /\ ~job[j].found /\ HasAccount(u)
          /\ Fails(j, FALSE)
          /\ UNCHANGED <<account, faults>>
       \/ /\ Fault("dbError")
          /\ \E retryable \in BOOLEAN : Fails(j, retryable)
          /\ UNCHANGED account
    /\ UNCHANGED <<row, processed, handler, retrier, hook, transfer, notices, announced>>

\* Where sendCashback sends the money: the cached recipient, else a new one made
\* from the request's bank details.
Destination(j) == IF job[j].recipient # None THEN job[j].recipient ELSE job[j].details

\* Paystack accepts and the transfer is under way; the mock pays at once.
Accept(j) ==
    transfer' = [transfer EXCEPT ![job[j].ent.ref] =
        [state |-> IF provider = "mock" THEN "success" ELSE "open", dest |-> Destination(j)]]

\* provider.sendCashback: accepted, refused, or accepted with the answer lost.
JobSend(j) ==
    /\ job[j].pc = "send"
    /\ \/ /\ Accept(j)
          /\ job' = [job EXCEPT ![j].pc = "save", ![j].recipient = Destination(j)]
          /\ UNCHANGED faults
       \/ /\ provider = "paystack"
          /\ \E retryable \in BOOLEAN : Fails(j, retryable)
          /\ UNCHANGED <<transfer, faults>>
       \/ /\ provider = "paystack"
          /\ Fault("lostResponse")
          /\ Accept(j)
          /\ \E retryable \in BOOLEAN : Fails(j, retryable)
    /\ UNCHANGED <<row, account, processed, handler, retrier, hook, notices, announced>>

\* Mutant of ResultStatus: an accepted transfer counts as paid.
ResultStatus_Accepted(p) == "SUCCESSFUL"

\* Mutant of ResultStatus: what is not paid yet counts as failed.
ResultStatus_Failed(p) == IF p = "mock" THEN "SUCCESSFUL" ELSE "FAILED"

\* result.status: a Paystack transfer is only accepted so far.
ResultStatus(p) == IF p = "mock" THEN "SUCCESSFUL" ELSE "PENDING"

\* Mutant of AfterAccepted: a transfer that is not yet paid makes the job try again.
AfterAccepted_TriesAgain(j) == Rethrow(j)

\* A job is over once Paystack has accepted its transfer.
AfterAccepted(j) == EndJob(j)

\* The transaction that saves the result, writing the entity back.  Only Paystack
\* returns a recipient code to cache; only a SUCCESSFUL result writes an event.
JobSave(j) ==
    LET t == job[j].tx
        u == UserOf[t]
        paid == ResultStatus(provider) = "SUCCESSFUL"
    IN
    /\ job[j].pc = "save"
    /\ \/ /\ row' = [row EXCEPT ![t] = [job[j].ent EXCEPT !.status = ResultStatus(provider), !.retryable = None]]
          /\ account' = IF provider = "paystack"
                        THEN [account EXCEPT ![u] = SavedAccount(job[j].details, job[j].recipient)]
                        ELSE account
          /\ \/ paid /\ Announce(job[j].ent.ref) /\ job' = [job EXCEPT ![j].pc = "publish"]
             \/ ~paid /\ UNCHANGED announced /\ job' = [job EXCEPT ![j] = AfterAccepted(j)]
          /\ UNCHANGED faults
       \/ /\ Fault("dbError")
          /\ \E retryable \in BOOLEAN : Fails(j, retryable)
          /\ UNCHANGED <<row, account, announced>>
    /\ UNCHANGED <<processed, handler, retrier, hook, transfer, notices>>

\* publishMany runs inside the try: when it throws, a paid row is handled as failed.
JobPublish(j) ==
    /\ job[j].pc = "publish"
    /\ \/ /\ job' = [job EXCEPT ![j] = EndJob(j)]
          /\ UNCHANGED faults
       \/ /\ Fault("dbError")
          /\ \E retryable \in BOOLEAN : Fails(j, retryable)
    /\ UNCHANGED <<row, account, processed, handler, retrier, hook, transfer, notices, announced>>

\* Mutant of RetryInJob: the last attempt hands the row back to a job that is over.
RetryInJob_OffByOne(j) == job[j].retryable /\ job[j].made < JobAttempts

\* The fast tier: retryable and not the last attempt of the job.
RetryInJob(j) == job[j].retryable /\ job[j].made + 1 < JobAttempts

\* The catch block: back to PENDING and rethrow, or save the entity as FAILED.
\* Either database write may fail, and so may publishById after FAILED is saved.
JobCatch(j) ==
    LET t == job[j].tx
        failed == [job[j].ent EXCEPT !.status = "FAILED", !.retryable = job[j].retryable, !.retryCount = @ + 1]
    IN
    /\ job[j].pc = "catch"
    /\ \/ /\ RetryInJob(j)
          /\ row' = IF row[t].status = "PROCESSING" THEN [row EXCEPT ![t].status = "PENDING"] ELSE row
          /\ job' = [job EXCEPT ![j] = Rethrow(j)]
          /\ UNCHANGED faults
       \/ /\ ~RetryInJob(j)
          /\ row' = [row EXCEPT ![t] = failed]
          /\ \/ /\ job' = [job EXCEPT ![j] = EndJob(j)]
                /\ UNCHANGED faults
             \/ /\ Fault("dbError")
                /\ job' = [job EXCEPT ![j] = Rethrow(j)]
       \/ /\ Fault("dbError")
          /\ job' = [job EXCEPT ![j] = Rethrow(j)]
          /\ UNCHANGED row
    /\ UNCHANGED <<account, processed, handler, retrier, hook, transfer, notices, announced>>

\* The worker dies; BullMQ finds the job stalled and runs it again.
JobCrash(j) ==
    /\ job[j].pc \in {"claim", "account", "upsert", "send", "save", "publish", "catch"}
    /\ Fault("crash")
    /\ job' = [job EXCEPT ![j] = [EndJob(j) EXCEPT !.pc = "waiting"]]
    /\ UNCHANGED <<row, account, processed, handler, retrier, hook, transfer, notices, announced>>

JobStep(j) ==
    \/ JobStart(j) \/ JobClaim(j) \/ JobAccount(j) \/ JobUpsert(j) \/ JobSend(j)
    \/ JobSave(j) \/ JobPublish(j) \/ JobCatch(j)

-----------------------------------------------------------------------------
(* Retries of FAILED transactions. *)

\* The scanner's query.
Eligible(t) ==
    /\ row[t].status = "FAILED"
    /\ row[t].retryable = TRUE
    /\ row[t].retryCount < MaxAutoRetries

\* retryEligibleFailedTransactions takes up a candidate with bank details on file.
ScanPick(q, t) ==
    LET details == account[UserOf[t]].details IN
    /\ retrier[q].pc = "idle"
    /\ Eligible(t)
    /\ details # None
    /\ QueueHasRoom
    /\ retrier' = [retrier EXCEPT ![q] = [IdleRetrier EXCEPT !.pc = "check", !.tx = t, !.details = details]]
    /\ UNCHANGED <<row, account, processed, handler, job, hook, transfer, notices, announced, faults>>

\* retryFailedTransaction with bank details from the request or from the account, which
\* is read as it is now.
ManualPick(q, t, override) ==
    LET u == UserOf[t]
        details == IF override # None THEN override ELSE account[u].details
    IN
    /\ retrier[q].pc = "idle"
    /\ row[t].status = "FAILED"
    /\ details # None
    /\ QueueHasRoom
    /\ retrier' = [retrier EXCEPT ![q] =
         IF override # None
         THEN [pc |-> "override", tx |-> t, details |-> details,
               found |-> HasAccount(u), recipient |-> account[u].recipient]
         ELSE [IdleRetrier EXCEPT !.pc = "check", !.tx = t, !.details = details]]
    /\ UNCHANGED <<row, account, processed, handler, job, hook, transfer, notices, announced, faults>>

\* The override is saved over the account that was read, which keeps its recipient code;
\* where there was none, an account inserted since makes the request fail.
ManualOverride(q) ==
    LET t == retrier[q].tx
        u == UserOf[t]
    IN
    /\ retrier[q].pc = "override"
    /\ \/ /\ retrier[q].found \/ ~HasAccount(u)
          /\ account' = [account EXCEPT ![u] = SavedAccount(retrier[q].details, retrier[q].recipient)]
          /\ retrier' = [retrier EXCEPT ![q] =
               [IdleRetrier EXCEPT !.pc = "reset", !.tx = t, !.details = retrier[q].details]]
       \/ /\ ~retrier[q].found /\ HasAccount(u)
          /\ retrier' = [retrier EXCEPT ![q] = IdleRetrier]
          /\ UNCHANGED account
    /\ UNCHANGED <<row, processed, handler, job, hook, transfer, notices, announced, faults>>

\* New bank details reset the count of retries.
ManualReset(q) ==
    /\ retrier[q].pc = "reset"
    /\ row' = [row EXCEPT ![retrier[q].tx].retryCount = 0]
    /\ retrier' = [retrier EXCEPT ![q].pc = "check"]
    /\ UNCHANGED <<account, processed, handler, job, hook, transfer, notices, announced, faults>>

\* retryPayment refuses a row that is not FAILED.
RetryCheck(q) ==
    /\ retrier[q].pc = "check"
    /\ retrier' = [retrier EXCEPT ![q] =
         IF row[retrier[q].tx].status = "FAILED" THEN [@ EXCEPT !.pc = "update"] ELSE IdleRetrier]
    /\ UNCHANGED <<row, account, processed, handler, job, hook, transfer, notices, announced, faults>>

\* UPDATE ... WHERE status = FAILED; its row count is not looked at.
RetryUpdate(q) ==
    LET t == retrier[q].tx IN
    /\ retrier[q].pc = "update"
    /\ row' = IF row[t].status = "FAILED" THEN [row EXCEPT ![t].status = "PENDING"] ELSE row
    /\ retrier' = [retrier EXCEPT ![q].pc = "enqueue"]
    /\ UNCHANGED <<account, processed, handler, job, hook, transfer, notices, announced, faults>>

\* queue.add, with the event built from the row and the account.
RetryEnqueue(q) ==
    LET t == retrier[q].tx IN
    /\ retrier[q].pc = "enqueue"
    /\ job' = [job EXCEPT ![NextJob] = NewJob(t, None, retrier[q].details)]
    /\ retrier' = [retrier EXCEPT ![q] = IdleRetrier]
    /\ UNCHANGED <<row, account, processed, handler, hook, transfer, notices, announced, faults>>

\* The process dies, or Redis or the database refuses, half-way through a retry.
RetryCrash(q) ==
    /\ retrier[q].pc # "idle"
    /\ Fault("crash")
    /\ retrier' = [retrier EXCEPT ![q] = IdleRetrier]
    /\ UNCHANGED <<row, account, processed, handler, job, hook, transfer, notices, announced>>

RetryStep(q) == ManualOverride(q) \/ ManualReset(q) \/ RetryCheck(q) \/ RetryUpdate(q) \/ RetryEnqueue(q)

-----------------------------------------------------------------------------
(* Paystack (external) and its webhooks. *)

\* A transfer completes.  Unless webhooks may be early, our call has returned and
\* its result is saved by then.
TransferSettles(r, kind) ==
    /\ transfer[r].state = "open"
    /\ "earlyWebhook" \in Hazards \/ ~\E j \in Jobs : job[j].pc = "save" /\ job[j].ent.ref = r
    /\ transfer' = [transfer EXCEPT ![r].state = kind]
    /\ notices' = notices \cup {[ref |-> r, kind |-> kind]}
    /\ UNCHANGED <<row, account, processed, handler, job, retrier, hook, announced, faults>>

\* The bank sends the money back.
TransferReversed(r) ==
    /\ "reversal" \in Hazards
    /\ transfer[r].state = "success"
    /\ transfer' = [transfer EXCEPT ![r].state = "reversed"]
    /\ notices' = notices \cup {[ref |-> r, kind |-> "failed"]}
    /\ UNCHANGED <<row, account, processed, handler, job, retrier, hook, announced, faults>>

\* Paystack stops sending a webhook once it is answered, or sends it again.
Answered(n) == notices' = notices \ {n} \/ ("dupWebhook" \in Hazards /\ UNCHANGED notices)

\* The status a webhook asks for.
StatusFor(kind) == IF kind = "success" THEN "SUCCESSFUL" ELSE "FAILED"

\* The row a reference leads to and that the webhook would change.
Concerned(n) == {t \in Txs : row[t].ref = n.ref /\ row[t].status # StatusFor(n.kind)}

\* markTransferSuccessful and markTransferFailed up to their early return.
HookRead(h, n) ==
    /\ hook[h].pc = "idle"
    /\ \/ /\ Concerned(n) = {}
          /\ UNCHANGED hook
       \/ \E t \in Concerned(n) :
            hook' = [hook EXCEPT ![h] = [pc |-> "save", tx |-> t, ent |-> row[t], kind |-> n.kind]]
    /\ Answered(n)
    /\ UNCHANGED <<row, account, processed, handler, job, retrier, transfer, announced, faults>>

\* The entity a webhook saves: a failure is classified by its reason text.
HookRow(h, retryable) ==
    [hook[h].ent EXCEPT !.status = StatusFor(hook[h].kind),
                        !.retryable = IF hook[h].kind = "success" THEN None ELSE retryable]

\* The transaction of markTransferSuccessful and markTransferFailed.  When publishById
\* throws after it, Paystack gets no 200 and sends the webhook again.
HookSave(h) ==
    /\ hook[h].pc = "save"
    /\ \E retryable \in BOOLEAN : row' = [row EXCEPT ![hook[h].tx] = HookRow(h, retryable)]
    /\ IF hook[h].kind = "success" THEN Announce(hook[h].ent.ref) ELSE UNCHANGED announced
    /\ \/ UNCHANGED <<notices, faults>>
       \/ Fault("dbError") /\ notices' = notices \cup {[ref |-> hook[h].ent.ref, kind |-> hook[h].kind]}
    /\ hook' = [hook EXCEPT ![h] = IdleHook]
    /\ UNCHANGED <<account, processed, handler, job, retrier, transfer>>

\* The request fails before its commit; Paystack gets no 200 and sends it again.
HookFails(h) ==
    /\ hook[h].pc = "save"
    /\ Fault("dbError")
    /\ notices' = notices \cup {[ref |-> hook[h].ent.ref, kind |-> hook[h].kind]}
    /\ hook' = [hook EXCEPT ![h] = IdleHook]
    /\ UNCHANGED <<row, account, processed, handler, job, retrier, transfer, announced>>

-----------------------------------------------------------------------------
HandlerStep(d) == HandlerCheck(d) \/ HandlerRead(d) \/ HandlerSave(d) \/ HandlerCommit(d)

Next ==
    \/ \E d \in Deliveries : HandlerStep(d) \/ HandlerRollback(d)
    \/ \E j \in Jobs : JobStep(j) \/ JobCrash(j) \/ JobQueryFails(j)
    \/ \E q \in Scanners, t \in Txs : ScanPick(q, t)
    \/ \E q \in Admins, t \in Txs, d \in NewDetails \cup {None} : ManualPick(q, t, d)
    \/ \E q \in Retriers : RetryStep(q) \/ RetryCrash(q)
    \/ \E r \in Refs : TransferReversed(r) \/ \E kind \in {"success", "failed"} : TransferSettles(r, kind)
    \/ \E h \in Hooks : HookSave(h) \/ HookFails(h) \/ \E n \in notices : HookRead(h, n)

Spec == Init /\ [][Next /\ UNCHANGED provider]_<<vars, provider>>

\* Every started call runs on, BullMQ runs its jobs, and Paystack settles every
\* transfer and keeps sending a webhook until it is answered.
Fairness ==
    /\ \A d \in Deliveries : WF_vars(HandlerStep(d))
    /\ \A j \in Jobs : WF_vars(JobStep(j))
    /\ \A q \in Retriers : WF_vars(RetryStep(q))
    /\ \A r \in Refs : WF_vars(TransferSettles(r, "success") \/ TransferSettles(r, "failed"))
    /\ \A h \in Hooks : WF_vars(HookSave(h) \/ \E n \in notices : HookRead(h, n))

FairSpec == Spec /\ Fairness

-----------------------------------------------------------------------------
(* Properties. *)

TxOfRef(r) == job[r[1]].tx

\* Transfers for t that have paid or may still pay the user.
LiveTransfers(t) == {r \in Refs : TxOfRef(r) = t /\ transfer[r].state \in {"open", "success"}}

\* A row is only SUCCESSFUL if one of its transfers has really gone through,
\* whatever webhooks, retries and stale entities are written over each other.
SuccessWasPaid ==
    \A t \in Txs : row[t].status = "SUCCESSFUL" =>
        \E r \in Refs : TxOfRef(r) = t /\ transfer[r].state \in {"success", "reversed"}

\* Once processed_events records a badge event, its payment job has been queued: a
\* redelivery will be skipped, so nothing else would ever queue it.
ProcessedMeansQueued ==
    \A e \in processed : \E j \in Queued : job[j].ev = e /\ ~job[j].orphan

\* Every transfer that pays a user is accounted for: a second one needs a second
\* queued job, or a failure that hid the outcome of the first from processPayment.
PaymentsAreAccountedFor ==
    \A t \in Txs : Cardinality(LiveTransfers(t)) <= Cardinality({j \in Queued : job[j].tx = t}) + faults

\* The user is never paid twice for a badge: at most one transfer of a transaction
\* is under way or has gone through.
PaidAtMostOnce == \A t \in Txs : Cardinality(LiveTransfers(t)) <= 1

\* A webhook for a live transfer finds its row: the transfer's reference is the one
\* on the row, from before Paystack is called until the transfer is settled.
LiveTransferIsFindable ==
    \A t \in Txs : \A r \in LiveTransfers(t) : row[t].ref = r

\* A successful transfer is announced with one CashbackProcessed event.
AnnouncedOnce == \A r \in Refs : announced[r] <= 1

\* Money goes to the bank details of its payment job, or to those of an earlier one of the
\* user to which Paystack accepted a transfer: details that were never paid to are
\* forgotten once they are corrected.
MoneyFollowsDetails ==
    \A r \in Refs : transfer[r].state # "none" =>
        \E s \in Refs :
            /\ transfer[s].state # "none"
            /\ UserOf[TxOfRef(s)] = UserOf[TxOfRef(r)]
            /\ transfer[s].dest = job[s[1]].details
            /\ transfer[r].dest = transfer[s].dest

\* A transaction that waits for a payment ends SUCCESSFUL or FAILED.
EveryPaymentEnds ==
    \A t \in Txs : row[t].status \in {"PENDING", "PROCESSING"} ~> row[t].status \in {"SUCCESSFUL", "FAILED"}

\* A SUCCESSFUL row stays SUCCESSFUL unless its transfer is sent back.
SuccessIsKept ==
    [][\A t \in Txs : row[t].status = "SUCCESSFUL" /\ row'[t].status # "SUCCESSFUL" =>
         \E r \in Refs : TxOfRef(r) = t /\ transfer[r].state = "reversed"]_vars
=============================================================================
