------------------------------- MODULE Loyalty -------------------------------
(***************************************************************************)
(* The loyalty service's PurchaseCompleted consumer: handlePurchaseCompleted*)
(* counts a purchase, unlocks achievements until no rule unlocks another,   *)
(* then unlocks badges, in one transaction, while administrators switch     *)
(* achievements and badges on and off.                                      *)
(*                                                                         *)
(* The upsert of the user's projection locks its row until the commit, so   *)
(* the transactions of one user run one after the other; what they read of  *)
(* the user is what the previous one committed.  The configuration has no   *)
(* such lock: each query sees the switches as they are at that moment.      *)
(***************************************************************************)
EXTENDS LoyaltyConfig, FiniteSetsExt

CONSTANTS
    Users,
    Events,         \* PurchaseCompleted events
    UserOf,         \* the user of each event
    AmountOf,       \* amountKobo of each event
    Deliveries,     \* RabbitMQ deliveries of the events
    EventOf,        \* the event each delivery carries
    Int4Max,        \* largest value of the totalSpendKobo column
    Overlap,        \* may two deliveries of one event be handled at once?
    Switchable,     \* bound: configs administrators switch on and off
    MaxFaults       \* bound: failing queries and crashes

ASSUME EventAssumption ==
    UserOf \in [Events -> Users] /\ AmountOf \in [Events -> Nat] /\ EventOf \in [Deliveries -> Events]
ASSUME SwitchAssumption == Switchable \subseteq Prizes
ASSUME NumbersAssumption == {MaxFaults, Int4Max} \subseteq Nat /\ Overlap \in BOOLEAN

VARIABLES
    stats,      \* user_stats
    unlocked,   \* user_achievements and user_badges of each user
    active,     \* configs whose active flag is set
    processed,  \* processed_events
    handler,    \* handlePurchaseCompleted, one per delivery
    announced,  \* outbox_events: unlock events per user and prize (2: several)
    faults      \* history: failures so far

vars == <<stats, unlocked, active, processed, handler, announced, faults>>

IdleHandler == [pc |-> "new", stats |-> [count |-> 0, spend |-> 0], configs |-> {},
                before |-> {}, gained |-> {}, next |-> 1, unlockedInPass |-> FALSE]

User(d) == UserOf[EventOf[d]]

Totals == [count : Nat, spend : 0..Int4Max]

Handlers ==
    [pc : {"new", "upsert", "stats", "unlock", "badges", "commit", "publish", "done"},
     stats : Totals, configs : SUBSET Achievements, before : SUBSET Prizes, gained : SUBSET Prizes,
     next : 1..Len(Order) + 1, unlockedInPass : BOOLEAN]

TypeOK ==
    /\ stats \in [Users -> Totals]
    /\ unlocked \in [Users -> SUBSET Prizes]
    /\ active \subseteq Prizes
    /\ processed \subseteq Events
    /\ handler \in [Deliveries -> Handlers]
    /\ announced \in [Users -> [Prizes -> 0..2]]
    /\ faults \in 0..MaxFaults

Init ==
    /\ stats = [u \in Users |-> [count |-> 0, spend |-> 0]]
    /\ unlocked = [u \in Users |-> {}]
    /\ active = Prizes
    /\ processed = {}
    /\ handler = [d \in Deliveries |-> IdleHandler]
    /\ announced = [u \in Users |-> [p \in Prizes |-> 0]]
    /\ faults = 0

Fault ==
    /\ faults < MaxFaults
    /\ faults' = faults + 1

-----------------------------------------------------------------------------
(* handlePurchaseCompleted *)

InTransaction(d) == handler[d].pc \in {"stats", "unlock", "badges", "commit"}

\* Mutant of Check: processed_events is not consulted.
Check_NoDedup(d) ==
    /\ handler[d].pc = "new"
    /\ Overlap \/ \A c \in Deliveries \ {d} : EventOf[c] = EventOf[d] => handler[c].pc \in {"new", "done"}
    /\ handler' = [handler EXCEPT ![d].pc = "upsert"]
    /\ UNCHANGED <<stats, unlocked, active, processed, announced, faults>>

\* Is eventId in processed_events already?
Check(d) ==
    /\ handler[d].pc = "new"
    /\ Overlap \/ \A c \in Deliveries \ {d} : EventOf[c] = EventOf[d] => handler[c].pc \in {"new", "done"}
    /\ handler' = [handler EXCEPT ![d].pc = IF EventOf[d] \in processed THEN "done" ELSE "upsert"]
    /\ UNCHANGED <<stats, unlocked, active, processed, announced, faults>>

\* Mutant of Upsert: the projection is written without waiting for its row.
Upsert_NoLock(d) ==
    /\ handler[d].pc = "upsert"
    /\ handler' = [handler EXCEPT ![d].pc = "stats"]
    /\ UNCHANGED <<stats, unlocked, active, processed, announced, faults>>

\* The upsert of the projection waits for a transaction of the same user.
Upsert(d) ==
    /\ handler[d].pc = "upsert"
    /\ \A c \in Deliveries : InTransaction(c) => User(c) # User(d)
    /\ handler' = [handler EXCEPT ![d].pc = "stats"]
    /\ UNCHANGED <<stats, unlocked, active, processed, announced, faults>>

\* The transaction is undone and the handler throws: RabbitMQ delivers again.
Abort(d) == handler' = [handler EXCEPT ![d] = IdleHandler]

\* Does the integer column totalSpendKobo hold the new total?
Fits(spend) == spend <= Int4Max

\* Count the purchase and load the active configs and what the user has; a spend
\* the column cannot hold fails the transaction.
SaveStats(d) ==
    LET u == User(d)
        s == [count |-> stats[u].count + 1, spend |-> stats[u].spend + AmountOf[EventOf[d]]]
    IN
    /\ handler[d].pc = "stats"
    /\ \/ ~Fits(s.spend) /\ Abort(d)
       \/ /\ Fits(s.spend)
          /\ handler' = [handler EXCEPT ![d].pc = "unlock", ![d].stats = s, ![d].before = unlocked[u],
                                        ![d].configs = active \cap Achievements]
    /\ UNCHANGED <<stats, unlocked, active, processed, announced, faults>>

\* The body of the for loop: an unlock counts at once for the configs that follow.
TryConfig(d) ==
    LET h == handler[d]
        a == Order[h.next]
        have == h.before \cup h.gained
        unlocks == a \in h.configs \ have /\ Evaluate(a, h.stats, have)
    IN
    /\ h.pc = "unlock"
    /\ h.next <= Len(Order)
    /\ handler' = [handler EXCEPT ![d].next = @ + 1,
                                  ![d].gained = IF unlocks THEN @ \cup {a} ELSE @,
                                  ![d].unlockedInPass = @ \/ unlocks]
    /\ UNCHANGED <<stats, unlocked, active, processed, announced, faults>>

\* Mutant of AnotherPass: the configs are gone through once.
AnotherPass_Never(d) == FALSE

\* The condition of the do-while loop.
AnotherPass(d) == handler[d].unlockedInPass

\* Mutant of EndPass: unlockedInPass is not reset.
EndPass_NoReset(d) ==
    /\ handler[d].pc = "unlock"
    /\ handler[d].next = Len(Order) + 1
    /\ handler' = [handler EXCEPT ![d].pc = IF AnotherPass(d) THEN "unlock" ELSE "badges", ![d].next = 1]
    /\ UNCHANGED <<stats, unlocked, active, processed, announced, faults>>

\* The end of a pass over the configs.
EndPass(d) ==
    /\ handler[d].pc = "unlock"
    /\ handler[d].next = Len(Order) + 1
    /\ handler' = [handler EXCEPT ![d].pc = IF AnotherPass(d) THEN "unlock" ELSE "badges",
                                  ![d].next = 1, ![d].unlockedInPass = FALSE]
    /\ UNCHANGED <<stats, unlocked, active, processed, announced, faults>>

\* The badges the loop of unlockBadges inserts.
NewBadges(have) == {b \in (active \cap Badges) \ have : MeetsBadgeRequirement(b, have)}

UnlockBadges(d) ==
    /\ handler[d].pc = "badges"
    /\ handler' = [handler EXCEPT ![d].pc = "commit",
                                  ![d].gained = @ \cup NewBadges(handler[d].before \cup @)]
    /\ UNCHANGED <<stats, unlocked, active, processed, announced, faults>>

\* Mutant of Announcements: everything the user has is announced again.
Announcements_All(d) == handler[d].before \cup handler[d].gained

\* The prizes whose unlock events are written to the outbox.
Announcements(d) == handler[d].gained

\* save(ProcessedEvent), which is silent when the row is there already, and COMMIT.
\* The unique indexes on the unlock rows have nothing to refuse: see NoUnlockRace.
Commit(d) ==
    LET u == User(d) IN
    /\ handler[d].pc = "commit"
    /\ stats' = [stats EXCEPT ![u] = handler[d].stats]
    /\ unlocked' = [unlocked EXCEPT ![u] = @ \cup handler[d].gained]
    /\ processed' = processed \cup {EventOf[d]}
    /\ announced' = [announced EXCEPT ![u] = [p \in Prizes |->
         IF p \in Announcements(d) /\ @[p] < 2 THEN @[p] + 1 ELSE @[p]]]
    /\ handler' = [handler EXCEPT ![d] = [IdleHandler EXCEPT !.pc = "publish"]]
    /\ UNCHANGED <<active, faults>>

\* publishMany, then the ack.
Publish(d) ==
    /\ handler[d].pc = "publish"
    /\ handler' = [handler EXCEPT ![d].pc = "done"]
    /\ UNCHANGED <<stats, unlocked, active, processed, announced, faults>>

\* A query or publishMany throws, or the process dies: the event is delivered again.
Fails(d) ==
    /\ handler[d].pc \notin {"new", "done"}
    /\ Fault
    /\ Abort(d)
    /\ UNCHANGED <<stats, unlocked, active, processed, announced>>

\* updateAchievement and updateBadge with the active flag.
Switch(p) ==
    /\ active' = IF p \in active THEN active \ {p} ELSE active \cup {p}
    /\ UNCHANGED <<stats, unlocked, processed, handler, announced, faults>>

Step(d) ==
    \/ Check(d) \/ Upsert(d) \/ SaveStats(d) \/ TryConfig(d) \/ EndPass(d) \/ UnlockBadges(d) \/ Commit(d) \/ Publish(d)

Next ==
    \/ \E d \in Deliveries : Step(d) \/ Fails(d)
    \/ \E p \in Switchable : Switch(p)

Spec == Init /\ [][Next]_vars

\* RabbitMQ delivers until the ack and a handler that has begun runs on; a waiting
\* upsert gets the row lock in its turn although it is not always free.
FairSpec ==
    /\ Spec
    /\ \A d \in Deliveries : WF_vars(Step(d)) /\ SF_vars(Upsert(d))

-----------------------------------------------------------------------------
(* Properties. *)

\* What the purchases of S cost together.
Spend(S) == MapThenSumSet(LAMBDA e : AmountOf[e], S)

\* user_stats counts every processed purchase once, whatever is redelivered and
\* however handlers of one user overlap: the read-modify-write of lines 80 to 89 is
\* protected by the upsert before it.
StatsCountEvents ==
    \A u \in Users :
        LET mine == {e \in processed : UserOf[e] = u} IN
        /\ stats[u].count = Cardinality(mine)
        /\ stats[u].spend = Spend(mine)

\* No handler is about to insert an unlock row its user has already: the loser of a
\* race is kept waiting by the upsert of user_projections, reads the winner's unlocks
\* and commits, so the unique indexes, and the redelivery after them, are never what
\* prevents a second unlock.  README.md:199-205 describes the race otherwise.
NoUnlockRace ==
    \A d \in Deliveries : InTransaction(d) => handler[d].gained \cap unlocked[User(d)] = {}

\* The do-while loop unlocks exactly what the rules force: nothing that holds is left
\* for the next purchase whatever the order of the configs, and achievements that
\* only justify each other stay locked.
UnlocksAreForced ==
    \A d \in Deliveries : handler[d].pc = "badges" =>
        LET h == handler[d]
            have == h.before \cup h.gained
        IN  /\ Closed(have, h.configs, h.stats)
            /\ \A S \in SUBSET h.gained : Closed(h.before \cup S, h.configs, h.stats) => S = h.gained

\* Whoever holds a badge has the achievements it asks for, although achievements and
\* badges are switched on and off between the queries of a handler.
BadgesAreEarned ==
    \A u \in Users : \A b \in unlocked[u] \cap Badges :
        NeedIds[b] \subseteq unlocked[u] /\ Cardinality(unlocked[u] \ Badges) >= NeedCount[b]

\* Every purchase whose event is delivered is counted in the end, through failures and
\* redeliveries, unless the user's total would not fit its column.
EveryPurchaseCounts ==
    \A d \in Deliveries :
        <>(EventOf[d] \in processed \/ ~Fits(stats[User(d)].spend + AmountOf[EventOf[d]]))

\* The service does what LoyaltyLedger promises: however its handlers interleave, are
\* repeated and fail, purchases take effect one at a time, with everything that the
\* rules grant and its announcement in the same step.
Ledger == INSTANCE LoyaltyLedger
ActsAsLedger == Ledger!Spec
=============================================================================
