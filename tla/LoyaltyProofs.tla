--------------------------- MODULE LoyaltyProofs ---------------------------
(***************************************************************************)
(* handlePurchaseCompleted for any number of users, purchases, deliveries,  *)
(* achievements, badges, failures and switches of an administrator.         *)
(*                                                                         *)
(* The upsert's row lock is the root of everything: with one transaction    *)
(* per user, what a handler has read of its user is still so when it        *)
(* commits.  The loop over the rules is then about one handler's own data:  *)
(* whatever is closed under the rules contains what it has unlocked, since  *)
(* a rule that holds keeps holding when more is unlocked.                   *)
(***************************************************************************)
EXTENDS LoyaltyRules, TLAPS, FiniteSetTheorems

\* The upsert's lock: one transaction per user.
UserLock ==
    \A c, d \in Deliveries : InTransaction(c) /\ InTransaction(d) /\ User(c) = User(d) => c = d

\* A handler that has not loaded the configs, or has committed, has unlocked nothing.
NothingYet(h) ==
    h.pc \in {"new", "upsert", "stats", "publish", "done"} =>
        h.gained = {} /\ h.next = 1 /\ h.unlockedInPass = FALSE

\* What a handler has read of its user is still so, and it unlocks other prizes.
ReadsAreCurrent(h, mine) ==
    h.pc \in {"unlock", "badges", "commit"} => h.before = mine /\ h.gained \cap mine = {}

Have(h) == h.before \cup h.gained

\* Whatever is closed under the rules contains what has been unlocked.
ForcedSoFar(h) ==
    h.pc \in {"unlock", "badges"} =>
        /\ h.gained \subseteq Achievements
        /\ \A S \in SUBSET Prizes : Closed(h.before \cup S, h.configs, h.stats) => h.gained \subseteq h.before \cup S

\* The configs of this pass need no second look if it has unlocked nothing.
PassSoFar(h) ==
    h.pc = "unlock" /\ h.unlockedInPass = FALSE =>
        \A i \in 1..(h.next - 1) :
            Order[i] \in h.configs /\ Evaluate(Order[i], h.stats, Have(h)) => Order[i] \in Have(h)

\* After the last pass no rule unlocks another achievement.
LoopIsDone(h) == h.pc = "badges" => Closed(Have(h), h.configs, h.stats)

Earned(b, have) == NeedIds[b] \subseteq have /\ Cardinality(have \ Badges) >= NeedCount[b]

\* The badges a handler is about to commit are earned.
EarnedSoFar(h) == h.pc = "commit" => \A b \in h.gained \cap Badges : Earned(b, Have(h))

HandlerOK(h, mine) ==
    /\ NothingYet(h) /\ ReadsAreCurrent(h, mine)
    /\ ForcedSoFar(h) /\ PassSoFar(h) /\ LoopIsDone(h)
    /\ EarnedSoFar(h)

HandlersOK == \A d \in Deliveries : HandlerOK(handler[d], unlocked[User(d)])

\* A prize is announced once if the user has it and never otherwise: the unlock row
\* and its outbox event are one transaction, and a redelivery unlocks nothing again.
UnlocksAreAnnouncedOnce ==
    \A u \in Users, p \in Prizes : announced[u][p] = IF p \in unlocked[u] THEN 1 ELSE 0

LoyaltyInv ==
    /\ TypeOK
    /\ UserLock
    /\ HandlersOK
    /\ BadgesAreEarned
    /\ UnlocksAreAnnouncedOnce

-----------------------------------------------------------------------------
\* Every delivery has a user.
LEMMA UserType == \A d \in Deliveries : User(d) \in Users
BY EventAssumption DEF User

\* There are finitely many achievements.
LEMMA AchievementsFinite == IsFiniteSet(Achievements)
<1>1. Order \in [1..Len(Order) -> Achievements] /\ Len(Order) \in Nat
  BY PrizeAssumption
<1>2. Order \in Surjection(1..Len(Order), Achievements)
  BY <1>1 DEF Surjection, Achievements, Range
<1>3. IsFiniteSet(1..Len(Order))
  BY <1>1, FS_Interval
<1> QED BY <1>2, <1>3, FS_Surjection

\* RuleEngineService.evaluate: a rule that holds keeps holding when more is unlocked.
LEMMA EvaluateMonotone ==
    ASSUME NEW a \in Achievements, NEW s, NEW S, NEW T, S \subseteq T, Evaluate(a, s, S)
    PROVE  Evaluate(a, s, T)
<1> SUFFICES ASSUME NEW leaf \in RuleOf[a], LeafHolds(leaf, s, S) PROVE LeafHolds(leaf, s, T)
  BY DEF Evaluate
<1>1. CASE leaf.type = "ACHIEVEMENT_SET"
  <2> DEFINE I == {i \in DOMAIN leaf.ids : leaf.ids[i] \in S}
             J == {i \in DOMAIN leaf.ids : leaf.ids[i] \in T}
  <2>1. IsFiniteSet(DOMAIN leaf.ids) /\ leaf.min \in Int
    BY <1>1, RuleAssumption
  <2>2. J \in SUBSET (DOMAIN leaf.ids) /\ I \in SUBSET J
    OBVIOUS
  <2>3. IsFiniteSet(J)
    BY <2>1, <2>2, FS_Subset
  <2>4. IsFiniteSet(I) /\ Cardinality(I) <= Cardinality(J)
    BY <2>2, <2>3, FS_Subset
  <2>5. Cardinality(I) >= leaf.min
    BY <1>1 DEF LeafHolds
  <2>6. Cardinality(J) >= leaf.min
    <3>1. Cardinality(I) \in Nat /\ Cardinality(J) \in Nat
      BY <2>3, <2>4, FS_CardinalityType
    <3> HIDE DEF I, J
    <3> QED BY <2>1, <2>4, <2>5, <3>1
  <2> QED BY <1>1, <2>6 DEF LeafHolds
<1>2. CASE leaf.type # "ACHIEVEMENT_SET"
  BY <1>2 DEF LeafHolds
<1> QED BY <1>1, <1>2

\* A badge stays earned when more is unlocked.
LEMMA EarnedMonotone ==
    ASSUME NEW b \in Badges, NEW S \in SUBSET Prizes, NEW T \in SUBSET Prizes, S \subseteq T, Earned(b, S)
    PROVE  Earned(b, T)
<1>1. T \ Badges \in SUBSET Achievements /\ S \ Badges \in SUBSET (T \ Badges)
  BY DEF Prizes
<1>2. IsFiniteSet(T \ Badges)
  BY <1>1, AchievementsFinite, FS_Subset
<1>3. IsFiniteSet(S \ Badges) /\ Cardinality(S \ Badges) <= Cardinality(T \ Badges)
  BY <1>1, <1>2, FS_Subset
<1>4. Cardinality(S \ Badges) \in Nat /\ Cardinality(T \ Badges) \in Nat
  BY <1>2, <1>3, FS_CardinalityType
<1>5. NeedCount[b] \in Int
  BY PrizeAssumption
<1> QED BY <1>3, <1>4, <1>5 DEF Earned

-----------------------------------------------------------------------------
(* One handler's steps. *)

\* A handler that is not between its queries has nothing to keep.
LEMMA IdleOK ==
    ASSUME NEW h \in Handlers, h.pc \in {"new", "upsert", "stats", "publish", "done"},
           h.gained = {}, h.next = 1, h.unlockedInPass = FALSE, NEW mine
    PROVE  HandlerOK(h, mine)
BY DEF HandlerOK, NothingYet, ReadsAreCurrent, ForcedSoFar, PassSoFar, LoopIsDone, EarnedSoFar

\* The loop begins with what the user has.
LEMMA LoadOK ==
    ASSUME NEW h \in Handlers, h.pc = "unlock", h.gained = {}, h.next = 1, NEW mine, h.before = mine
    PROVE  HandlerOK(h, mine)
BY DEF HandlerOK, NothingYet, ReadsAreCurrent, ForcedSoFar, PassSoFar, LoopIsDone, EarnedSoFar

\* The body of the loop.
LEMMA TryConfigOK ==
    ASSUME NEW h \in Handlers, NEW mine, HandlerOK(h, mine), h.pc = "unlock", h.next <= Len(Order),
           NEW g \in Handlers,
           NEW unlocks \in BOOLEAN,
           unlocks <=> Order[h.next] \in h.configs \ Have(h) /\ Evaluate(Order[h.next], h.stats, Have(h)),
           g = [h EXCEPT !.next = @ + 1,
                         !.gained = IF unlocks THEN @ \cup {Order[h.next]} ELSE @,
                         !.unlockedInPass = @ \/ unlocks]
    PROVE  HandlerOK(g, mine)
<1> DEFINE a == Order[h.next]
<1>0. h.next \in 1..Len(Order) /\ Len(Order) \in Nat /\ h.next \in Nat /\ a \in Achievements /\ a \in Prizes
  BY PrizeAssumption DEF Handlers, Prizes
<1>1. /\ g.pc = "unlock" /\ g.before = h.before /\ g.configs = h.configs /\ g.stats = h.stats
      /\ g.next = h.next + 1
      /\ g.gained = IF unlocks THEN h.gained \cup {a} ELSE h.gained
      /\ g.unlockedInPass = (h.unlockedInPass \/ unlocks)
  BY DEF Handlers
<1>2. h.before = mine /\ h.gained \cap mine = {} /\ h.gained \subseteq Achievements
  BY DEF HandlerOK, ReadsAreCurrent, ForcedSoFar
<1>3. NothingYet(g) /\ LoopIsDone(g) /\ EarnedSoFar(g)
  BY <1>1 DEF NothingYet, LoopIsDone, EarnedSoFar
<1>4. ReadsAreCurrent(g, mine)
  BY <1>1, <1>2 DEF ReadsAreCurrent, Have
<1>5. ForcedSoFar(g)
  <2>1. g.gained \subseteq Achievements
    BY <1>0, <1>1, <1>2
  <2>2. ASSUME NEW S \in SUBSET Prizes, Closed(h.before \cup S, h.configs, h.stats)
        PROVE  g.gained \subseteq h.before \cup S
    <3>1. h.gained \subseteq h.before \cup S
      BY <2>2 DEF HandlerOK, ForcedSoFar
    <3>2. CASE unlocks
      <4>1. Have(h) \subseteq h.before \cup S
        BY <3>1 DEF Have
      <4>2. Evaluate(a, h.stats, Have(h)) /\ a \in h.configs
        BY <3>2
      <4>3. PICK stats0, T, U : stats0 = h.stats /\ T = Have(h) /\ U = h.before \cup S
        OBVIOUS
      <4>4. Evaluate(a, stats0, U)
        <5>1. PICK b \in Achievements : b = a
          BY <1>0
        <5>2. Evaluate(b, stats0, T) /\ T \subseteq U
          BY <4>1, <4>2, <4>3, <5>1
        <5>3. Evaluate(b, stats0, U)
          BY <5>2, EvaluateMonotone
        <5> QED BY <5>1, <5>3
      <4>5. a \in h.before \cup S
        BY <2>2, <4>2, <4>3, <4>4 DEF Closed
      <4> QED BY <1>1, <3>1, <3>2, <4>5
    <3>3. CASE ~unlocks
      BY <1>1, <3>1, <3>3
    <3> QED BY <3>2, <3>3
  <2> QED BY <1>1, <2>1, <2>2 DEF ForcedSoFar
<1>6. PassSoFar(g)
  <2> SUFFICES ASSUME g.unlockedInPass = FALSE, NEW i \in 1..(g.next - 1),
                      Order[i] \in g.configs, Evaluate(Order[i], g.stats, Have(g))
               PROVE  Order[i] \in Have(g)
    BY DEF PassSoFar
  <2>1. h.unlockedInPass \in BOOLEAN
    BY DEF Handlers
  <2>2. unlocks = FALSE /\ h.unlockedInPass = FALSE /\ Have(g) = Have(h)
    BY <1>1, <2>1 DEF Have
  <2>3. CASE i \in 1..(h.next - 1)
    BY <1>1, <2>2, <2>3 DEF HandlerOK, PassSoFar
  <2>4. CASE i = h.next
    BY <1>1, <2>2, <2>4
  <2> QED BY <1>0, <1>1, <2>3, <2>4
<1> QED BY <1>3, <1>4, <1>5, <1>6 DEF HandlerOK

\* The end of a pass.
LEMMA EndPassOK ==
    ASSUME NEW h \in Handlers, NEW mine, HandlerOK(h, mine), h.pc = "unlock", h.next = Len(Order) + 1,
           NEW g \in Handlers,
           g = [h EXCEPT !.pc = IF h.unlockedInPass THEN "unlock" ELSE "badges",
                         !.next = 1, !.unlockedInPass = FALSE]
    PROVE  HandlerOK(g, mine)
<1>1. /\ g.pc = IF h.unlockedInPass THEN "unlock" ELSE "badges"
      /\ g.before = h.before /\ g.configs = h.configs /\ g.stats = h.stats /\ g.gained = h.gained
      /\ g.next = 1 /\ g.unlockedInPass = FALSE
  BY DEF Handlers
<1>2. NothingYet(g) /\ EarnedSoFar(g) /\ PassSoFar(g)
  BY <1>1 DEF NothingYet, EarnedSoFar, PassSoFar
<1>3. ReadsAreCurrent(g, mine) /\ ForcedSoFar(g)
  BY <1>1 DEF HandlerOK, ReadsAreCurrent, ForcedSoFar
<1>4. LoopIsDone(g)
  <2> SUFFICES ASSUME g.pc = "badges", NEW a \in h.configs, Evaluate(a, h.stats, Have(h)) PROVE a \in Have(h)
    BY <1>1 DEF LoopIsDone, Closed, Have
  <2>1. h.unlockedInPass = FALSE
    BY <1>1 DEF Handlers
  <2>2. a \in Achievements /\ Len(Order) \in Nat /\ DOMAIN Order = 1..Len(Order)
    BY PrizeAssumption DEF Handlers
  <2>3. PICK i \in 1..Len(Order) : a = Order[i]
    BY <2>2 DEF Achievements, Range
  <2>4. i \in 1..(h.next - 1)
    BY <2>2
  <2> QED BY <2>1, <2>3, <2>4 DEF HandlerOK, PassSoFar
<1> QED BY <1>2, <1>3, <1>4 DEF HandlerOK

\* unlockBadges inserts badges that are earned by what the loop has left.
LEMMA UnlockBadgesOK ==
    ASSUME NEW h \in Handlers, NEW mine, HandlerOK(h, mine), h.pc = "badges", NEW g \in Handlers,
           NEW new \in SUBSET (Badges \ Have(h)), \A b \in new : MeetsBadgeRequirement(b, Have(h)),
           g = [h EXCEPT !.pc = "commit", !.gained = @ \cup new]
    PROVE  HandlerOK(g, mine)
<1>1. /\ g.pc = "commit" /\ g.before = h.before /\ g.gained = h.gained \cup new
      /\ h.before \subseteq Prizes /\ h.gained \subseteq Achievements
  BY DEF Handlers, HandlerOK, ForcedSoFar
<1>2. NothingYet(g) /\ ForcedSoFar(g) /\ PassSoFar(g) /\ LoopIsDone(g)
  BY <1>1 DEF NothingYet, ForcedSoFar, PassSoFar, LoopIsDone
<1>3. ReadsAreCurrent(g, mine)
  BY <1>1 DEF HandlerOK, ReadsAreCurrent, Have
<1>4. EarnedSoFar(g)
  <2> SUFFICES ASSUME NEW b \in g.gained \cap Badges PROVE Earned(b, Have(g))
    BY DEF EarnedSoFar
  <2>1. b \in new
    BY <1>1, PrizeAssumption
  <2>2. Have(g) \ Badges = Have(h) \cap Achievements /\ Have(h) \subseteq Have(g)
    BY <1>1, PrizeAssumption DEF Have, Prizes
  <2> QED BY <2>1, <2>2 DEF Earned, MeetsBadgeRequirement
<1> QED BY <1>2, <1>3, <1>4 DEF HandlerOK

-----------------------------------------------------------------------------
(* The steps of the service. *)

\* A step of one handler that commits nothing keeps LoyaltyInv if it keeps the handler's
\* own part, and enters a transaction only when the user has none.
LEMMA HandlerStepKeeps ==
    ASSUME LoyaltyInv, NEW d \in Deliveries, NEW g \in Handlers, handler' = [handler EXCEPT ![d] = g],
           HandlerOK(g, unlocked[User(d)]),
           \/ g.pc \notin {"stats", "unlock", "badges", "commit"}
           \/ InTransaction(d)
           \/ \A c \in Deliveries : InTransaction(c) => User(c) # User(d),
           UNCHANGED <<stats, unlocked, active, processed, announced>>,
           faults' \in 0..MaxFaults
    PROVE  LoyaltyInv'
<1> USE DEF LoyaltyInv
<1>1. TypeOK'
  BY DEF TypeOK
<1>2. UserLock'
  BY DEF UserLock, InTransaction, User, TypeOK
<1>3. HandlersOK'
  <2> SUFFICES ASSUME NEW c \in Deliveries PROVE HandlerOK(handler'[c], unlocked[User(c)])
    BY DEF HandlersOK, User
  <2>1. handler'[c] = IF c = d THEN g ELSE handler[c]
    BY DEF TypeOK
  <2> QED BY <2>1 DEF HandlersOK
<1>4. BadgesAreEarned' /\ UnlocksAreAnnouncedOnce'
  BY DEF BadgesAreEarned, UnlocksAreAnnouncedOnce
<1> QED BY <1>1, <1>2, <1>3, <1>4

\* The steps outside the loops.
LEMMA QueriesKeep ==
    ASSUME LoyaltyInv, NEW d \in Deliveries, Check(d) \/ Upsert(d) \/ Publish(d) \/ Fails(d)
    PROVE  LoyaltyInv'
<1>1. handler[d] \in Handlers /\ handler[d].pc \in {"new", "upsert", "stats", "unlock", "badges", "commit", "publish"}
  BY DEF LoyaltyInv, TypeOK, Handlers, Check, Upsert, Publish, Fails
<1>2. IdleHandler \in Handlers
  BY NumbersAssumption, PrizeAssumption DEF IdleHandler, Handlers, Totals
<1>3. UNCHANGED <<stats, unlocked, active, processed, announced>> /\ faults' \in 0..MaxFaults
  BY NumbersAssumption DEF Check, Upsert, Publish, Fails, Fault, LoyaltyInv, TypeOK
<1>4. CASE Fails(d)
  <2>1. handler' = [handler EXCEPT ![d] = IdleHandler] /\ IdleHandler.pc = "new"
        /\ IdleHandler.gained = {} /\ IdleHandler.next = 1 /\ IdleHandler.unlockedInPass = FALSE
    BY <1>4 DEF Fails, Abort, IdleHandler
  <2>2. PICK g \in Handlers : g = IdleHandler
    BY <1>2
  <2>3. HandlerOK(g, unlocked[User(d)])
    BY <2>1, <2>2 DEF HandlerOK, NothingYet, ReadsAreCurrent, ForcedSoFar, PassSoFar, LoopIsDone, EarnedSoFar
  <2> QED BY <1>3, <2>1, <2>2, <2>3, HandlerStepKeeps
<1>5. ASSUME NEW l \in {"upsert", "done", "stats"}, handler' = [handler EXCEPT ![d].pc = l],
             handler[d].pc \in {"new", "upsert", "publish"},
             l = "stats" => \A c \in Deliveries : InTransaction(c) => User(c) # User(d)
      PROVE  LoyaltyInv'
  <2>1. PICK g \in Handlers : g = [handler[d] EXCEPT !.pc = l]
    BY <1>1 DEF Handlers
  <2>2. handler' = [handler EXCEPT ![d] = g]
    BY <1>5, <2>1 DEF LoyaltyInv, TypeOK
  <2>3. g.pc = l /\ g.gained = {} /\ g.next = 1 /\ g.unlockedInPass = FALSE
    BY <1>1, <1>5, <2>1 DEF LoyaltyInv, HandlersOK, HandlerOK, NothingYet, Handlers
  <2>4. HandlerOK(g, unlocked[User(d)])
    BY <1>5, <2>3 DEF HandlerOK, NothingYet, ReadsAreCurrent, ForcedSoFar, PassSoFar, LoopIsDone, EarnedSoFar
  <2> QED BY <1>3, <1>5, <2>2, <2>3, <2>4, HandlerStepKeeps
<1>6. CASE Check(d)
  BY <1>5, <1>6 DEF Check
<1>7. CASE Upsert(d)
  BY <1>5, <1>7 DEF Upsert
<1>8. CASE Publish(d)
  BY <1>5, <1>8 DEF Publish
<1> QED BY <1>4, <1>6, <1>7, <1>8

\* The totals are saved, or do not fit their column.
LEMMA SaveStatsKeeps ==
    ASSUME LoyaltyInv, NEW d \in Deliveries, SaveStats(d)
    PROVE  LoyaltyInv'
<1> DEFINE u == User(d)
           s == [count |-> stats[u].count + 1, spend |-> stats[u].spend + AmountOf[EventOf[d]]]
<1>1. /\ handler[d] \in Handlers /\ handler[d].pc = "stats" /\ InTransaction(d)
      /\ UNCHANGED <<stats, unlocked, active, processed, announced>> /\ faults' \in 0..MaxFaults
  BY DEF SaveStats, LoyaltyInv, TypeOK, InTransaction
<1>2. CASE Abort(d)
  <2>1. IdleHandler \in Handlers
    BY NumbersAssumption, PrizeAssumption DEF IdleHandler, Handlers, Totals
  <2>2. PICK g \in Handlers : g = IdleHandler
    BY <2>1
  <2>3. HandlerOK(g, unlocked[User(d)])
    BY <2>2 DEF IdleHandler, HandlerOK, NothingYet, ReadsAreCurrent, ForcedSoFar, PassSoFar, LoopIsDone, EarnedSoFar
  <2> QED BY <1>1, <1>2, <2>2, <2>3, HandlerStepKeeps DEF Abort
<1>3. CASE /\ Fits(s.spend)
           /\ handler' = [handler EXCEPT ![d].pc = "unlock", ![d].stats = s, ![d].before = unlocked[u],
                                         ![d].configs = active \cap Achievements]
  <2>1. u \in Users /\ AmountOf[EventOf[d]] \in Nat
    BY UserType, EventAssumption
  <2>2. stats[u].count \in Nat /\ stats[u].spend \in Nat /\ unlocked[u] \in SUBSET Prizes
    BY <2>1, NumbersAssumption DEF LoyaltyInv, TypeOK, Totals
  <2>3. s \in Totals
    BY <1>3, <2>1, <2>2, NumbersAssumption DEF Fits, Totals
  <2>4. PICK g : g = [handler[d] EXCEPT !.pc = "unlock", !.stats = s, !.before = unlocked[u],
                                        !.configs = active \cap Achievements]
    OBVIOUS
  <2>5. g \in Handlers
    <3> HIDE DEF s
    <3> QED BY <1>1, <2>2, <2>3, <2>4 DEF Handlers
  <2>6. handler' = [handler EXCEPT ![d] = g]
    BY <1>3, <2>4 DEF LoyaltyInv, TypeOK
  <2>7. g.pc = "unlock" /\ g.gained = {} /\ g.next = 1 /\ g.before = unlocked[User(d)]
    BY <1>1, <2>4 DEF Handlers, LoyaltyInv, HandlersOK, HandlerOK, NothingYet
  <2>8. HandlerOK(g, unlocked[User(d)])
    BY <2>5, <2>7, LoadOK
  <2> QED BY <1>1, <2>5, <2>6, <2>8, HandlerStepKeeps
<1> QED BY <1>2, <1>3 DEF SaveStats

\* The loop over the configs.
LEMMA TryConfigKeeps ==
    ASSUME LoyaltyInv, NEW d \in Deliveries, TryConfig(d)
    PROVE  LoyaltyInv'
<1>1. PICK h \in Handlers : h = handler[d]
  BY DEF LoyaltyInv, TypeOK
<1>2. PICK mine : mine = unlocked[User(d)]
  OBVIOUS
<1>3. PICK unlocks \in BOOLEAN :
        unlocks <=> Order[h.next] \in h.configs \ Have(h) /\ Evaluate(Order[h.next], h.stats, Have(h))
  OBVIOUS
<1>4. PICK g : g = [h EXCEPT !.next = @ + 1,
                             !.gained = IF unlocks THEN @ \cup {Order[h.next]} ELSE @,
                             !.unlockedInPass = @ \/ unlocks]
  OBVIOUS
<1>5. /\ h.pc = "unlock" /\ h.next <= Len(Order) /\ InTransaction(d) /\ HandlerOK(h, mine)
      /\ UNCHANGED <<stats, unlocked, active, processed, announced>> /\ faults' \in 0..MaxFaults
  BY <1>1, <1>2 DEF TryConfig, InTransaction, LoyaltyInv, HandlersOK, TypeOK
<1>6. h.next \in 1..Len(Order) /\ Order[h.next] \in Prizes /\ h.next + 1 \in 1..Len(Order) + 1
  BY <1>5, PrizeAssumption DEF Handlers, Prizes
<1>7. g \in Handlers
  BY <1>4, <1>6 DEF Handlers
<1>8. handler' = [handler EXCEPT ![d] = g]
  <2>1. unlocks <=> /\ Order[handler[d].next] \in handler[d].configs \ (handler[d].before \cup handler[d].gained)
                    /\ Evaluate(Order[handler[d].next], handler[d].stats, handler[d].before \cup handler[d].gained)
    BY <1>1, <1>3 DEF Have
  <2>2. handler' = [handler EXCEPT ![d].next = @ + 1,
                                   ![d].gained = IF unlocks THEN @ \cup {Order[handler[d].next]} ELSE @,
                                   ![d].unlockedInPass = @ \/ unlocks]
    BY <2>1 DEF TryConfig
  <2> QED BY <1>1, <1>4, <2>2 DEF LoyaltyInv, TypeOK
<1>9. HandlerOK(g, mine)
  BY <1>3, <1>4, <1>5, <1>7, TryConfigOK
<1> QED BY <1>2, <1>5, <1>7, <1>8, <1>9, HandlerStepKeeps

\* The end of the loop's body and of the loop.
LEMMA EndPassKeeps ==
    ASSUME LoyaltyInv, NEW d \in Deliveries, EndPass(d)
    PROVE  LoyaltyInv'
<1>1. PICK h \in Handlers : h = handler[d]
  BY DEF LoyaltyInv, TypeOK
<1>2. PICK mine : mine = unlocked[User(d)]
  OBVIOUS
<1>3. PICK g : g = [h EXCEPT !.pc = IF h.unlockedInPass THEN "unlock" ELSE "badges",
                             !.next = 1, !.unlockedInPass = FALSE]
  OBVIOUS
<1>4. /\ h.pc = "unlock" /\ h.next = Len(Order) + 1 /\ InTransaction(d) /\ HandlerOK(h, mine)
      /\ UNCHANGED <<stats, unlocked, active, processed, announced>> /\ faults' \in 0..MaxFaults
  BY <1>1, <1>2 DEF EndPass, InTransaction, LoyaltyInv, HandlersOK, TypeOK
<1>5. g \in Handlers
  <2>1. 1 \in 1..Len(Order) + 1
    BY PrizeAssumption
  <2>2. PICK l \in {"unlock", "badges"} : l = IF h.unlockedInPass THEN "unlock" ELSE "badges"
    OBVIOUS
  <2>3. g = [h EXCEPT !.pc = l, !.next = 1, !.unlockedInPass = FALSE]
    BY <1>3, <2>2
  <2> QED BY <2>1, <2>3 DEF Handlers
<1>6. handler' = [handler EXCEPT ![d] = g]
  BY <1>1, <1>3 DEF EndPass, AnotherPass, LoyaltyInv, TypeOK
<1>7. HandlerOK(g, mine)
  BY <1>3, <1>4, <1>5, EndPassOK
<1> QED BY <1>2, <1>4, <1>5, <1>6, <1>7, HandlerStepKeeps

\* The badges, with the switches as they are now.
LEMMA UnlockBadgesKeeps ==
    ASSUME LoyaltyInv, NEW d \in Deliveries, UnlockBadges(d)
    PROVE  LoyaltyInv'
<1>1. PICK h \in Handlers : h = handler[d]
  BY DEF LoyaltyInv, TypeOK
<1>2. PICK mine : mine = unlocked[User(d)]
  OBVIOUS
<1>3. PICK new \in SUBSET (Badges \ Have(h)) : new = NewBadges(Have(h))
  BY DEF NewBadges
<1>4. \A b \in new : MeetsBadgeRequirement(b, Have(h))
  BY <1>3 DEF NewBadges
<1>5. PICK g : g = [h EXCEPT !.pc = "commit", !.gained = @ \cup new]
  OBVIOUS
<1>6. /\ h.pc = "badges" /\ InTransaction(d) /\ HandlerOK(h, mine)
      /\ UNCHANGED <<stats, unlocked, active, processed, announced>> /\ faults' \in 0..MaxFaults
  BY <1>1, <1>2 DEF UnlockBadges, InTransaction, LoyaltyInv, HandlersOK, TypeOK
<1>7. g \in Handlers
  BY <1>5 DEF Handlers, Prizes
<1>8. handler' = [handler EXCEPT ![d] = g]
  <2>1. new = NewBadges(handler[d].before \cup handler[d].gained)
    BY <1>1, <1>3 DEF Have
  <2>2. handler' = [handler EXCEPT ![d].pc = "commit", ![d].gained = @ \cup new]
    BY <2>1 DEF UnlockBadges
  <2> QED BY <1>1, <1>5, <2>2 DEF LoyaltyInv, TypeOK
<1>9. HandlerOK(g, mine)
  BY <1>4, <1>5, <1>6, <1>7, UnlockBadgesOK
<1> QED BY <1>2, <1>6, <1>7, <1>8, <1>9, HandlerStepKeeps

\* The commit: what is added to the user is new, earned, and announced.
LEMMA CommitKeeps ==
    ASSUME LoyaltyInv, NEW d \in Deliveries, Commit(d)
    PROVE  LoyaltyInv'
<1>1. PICK h \in Handlers : h = handler[d]
  BY DEF LoyaltyInv, TypeOK
<1>2. PICK u \in Users : u = User(d)
  BY UserType
<1>3. PICK g \in Handlers : g = [IdleHandler EXCEPT !.pc = "publish"]
  <2>1. IdleHandler \in Handlers
    BY NumbersAssumption, PrizeAssumption DEF IdleHandler, Handlers, Totals
  <2>2. [IdleHandler EXCEPT !.pc = "publish"] \in Handlers
    BY <2>1 DEF Handlers
  <2> QED BY <2>2
<1>4. /\ h.pc = "commit"
      /\ stats' = [stats EXCEPT ![u] = h.stats]
      /\ unlocked' = [unlocked EXCEPT ![u] = @ \cup h.gained]
      /\ processed' = processed \cup {EventOf[d]}
      /\ announced' = [announced EXCEPT ![u] = [p \in Prizes |->
           IF p \in h.gained /\ @[p] < 2 THEN @[p] + 1 ELSE @[p]]]
      /\ handler' = [handler EXCEPT ![d] = g]
      /\ UNCHANGED <<active, faults>>
  BY <1>1, <1>2, <1>3 DEF Commit, Announcements
<1>5. g.pc = "publish" /\ g.gained = {} /\ g.next = 1 /\ g.unlockedInPass = FALSE
  BY <1>3 DEF IdleHandler
<1>6. HandlerOK(h, unlocked[u]) /\ InTransaction(d) /\ h.before = unlocked[u] /\ h.gained \cap unlocked[u] = {}
      /\ unlocked[u] \in SUBSET Prizes /\ h.gained \in SUBSET Prizes /\ h.stats \in Totals
  BY <1>1, <1>2, <1>4
     DEF LoyaltyInv, HandlersOK, HandlerOK, ReadsAreCurrent, InTransaction, TypeOK, Handlers
<1> USE DEF LoyaltyInv
<1>7. UnlocksAreAnnouncedOnce'
  <2> SUFFICES ASSUME NEW v \in Users, NEW p \in Prizes
               PROVE  announced'[v][p] = IF p \in unlocked'[v] THEN 1 ELSE 0
    BY DEF UnlocksAreAnnouncedOnce
  <2>1. announced[v][p] = IF p \in unlocked[v] THEN 1 ELSE 0
    BY DEF UnlocksAreAnnouncedOnce
  <2>2. CASE v # u
    BY <1>4, <2>1, <2>2 DEF TypeOK
  <2>3. CASE v = u
    <3>1. /\ announced'[u][p] = IF p \in h.gained /\ announced[u][p] < 2 THEN announced[u][p] + 1 ELSE announced[u][p]
          /\ unlocked'[u] = unlocked[u] \cup h.gained
      BY <1>4 DEF TypeOK
    <3> QED BY <1>6, <2>1, <2>3, <3>1
  <2> QED BY <2>2, <2>3
<1>8. TypeOK'
  <2>1. announced' \in [Users -> [Prizes -> 0..2]]
    <3>1. [p \in Prizes |-> IF p \in h.gained /\ announced[u][p] < 2 THEN announced[u][p] + 1 ELSE announced[u][p]]
            \in [Prizes -> 0..2]
      BY DEF TypeOK
    <3> QED BY <1>4, <3>1 DEF TypeOK
  <2>2. EventOf[d] \in Events
    BY EventAssumption
  <2> QED BY <1>4, <1>6, <2>1, <2>2 DEF TypeOK
<1>9. UserLock'
  BY <1>4, <1>5 DEF UserLock, InTransaction, User, TypeOK
<1>10. HandlersOK'
  <2> SUFFICES ASSUME NEW c \in Deliveries PROVE HandlerOK(handler'[c], unlocked'[User(c)])
    BY DEF HandlersOK, User
  <2>1. CASE c = d
    <3>1. handler'[c] = g
      BY <1>4, <2>1 DEF TypeOK
    <3> QED BY <1>5, <3>1 DEF HandlerOK, NothingYet, ReadsAreCurrent, ForcedSoFar, PassSoFar, LoopIsDone, EarnedSoFar
  <2>2. CASE c # d /\ InTransaction(c)
    <3>1. User(c) # u /\ User(c) \in Users
      BY <1>2, <1>6, <2>2, UserType DEF UserLock
    <3>2. unlocked'[User(c)] = unlocked[User(c)] /\ handler'[c] = handler[c]
      BY <1>4, <2>2, <3>1 DEF TypeOK
    <3> QED BY <3>2 DEF HandlersOK
  <2>3. CASE c # d /\ ~InTransaction(c)
    <3>1. handler'[c] = handler[c] /\ handler[c].pc \in {"new", "upsert", "publish", "done"}
      BY <1>4, <2>3 DEF TypeOK, Handlers, InTransaction
    <3>2. HandlerOK(handler[c], unlocked[User(c)])
      BY DEF HandlersOK
    <3> QED BY <3>1, <3>2 DEF HandlerOK, NothingYet, ReadsAreCurrent, ForcedSoFar, PassSoFar, LoopIsDone, EarnedSoFar
  <2> QED BY <2>1, <2>2, <2>3
<1>11. BadgesAreEarned'
  <2> SUFFICES ASSUME NEW v \in Users, NEW b \in unlocked'[v] \cap Badges PROVE Earned(b, unlocked'[v])
    BY DEF BadgesAreEarned, Earned
  <2>1. CASE v # u
    BY <1>4, <2>1 DEF BadgesAreEarned, Earned, TypeOK
  <2>2. CASE v = u
    <3>1. PICK old \in SUBSET Prizes : old = unlocked[u]
      BY <1>6
    <3>2. PICK new \in SUBSET Prizes : new = unlocked'[u] /\ new = old \cup h.gained
      BY <1>4, <1>6, <3>1 DEF TypeOK
    <3>3. CASE b \in old
      <4>1. Earned(b, old)
        BY <3>1, <3>3 DEF BadgesAreEarned, Earned
      <4> QED BY <2>2, <3>2, <4>1, EarnedMonotone
    <3>4. CASE b \in h.gained
      <4>1. Earned(b, Have(h)) /\ Have(h) = new
        BY <1>4, <1>6, <3>1, <3>2, <3>4 DEF HandlerOK, EarnedSoFar, Have
      <4> QED BY <2>2, <3>2, <4>1
    <3> QED BY <2>2, <3>2, <3>3, <3>4
  <2> QED BY <2>1, <2>2
<1> QED BY <1>7, <1>8, <1>9, <1>10, <1>11

\* An administrator changes what the next queries see, and nothing that was read.
LEMMA SwitchKeeps ==
    ASSUME LoyaltyInv, NEW p \in Prizes, Switch(p) \/ UNCHANGED vars
    PROVE  LoyaltyInv'
<1> USE DEF LoyaltyInv
<1>1. UNCHANGED <<stats, unlocked, processed, handler, announced, faults>>
  BY DEF Switch, vars
<1>2. active' \subseteq Prizes
  BY DEF Switch, vars, TypeOK
<1>3. TypeOK'
  BY <1>1, <1>2 DEF TypeOK
<1>4. UserLock' /\ HandlersOK' /\ BadgesAreEarned' /\ UnlocksAreAnnouncedOnce'
  BY <1>1 DEF UserLock, InTransaction, User, HandlersOK, BadgesAreEarned, UnlocksAreAnnouncedOnce
<1> QED BY <1>3, <1>4

-----------------------------------------------------------------------------
\* LoyaltyInv is an invariant.
THEOREM LoyaltyInvariant == Spec => []LoyaltyInv
<1>1. Init => LoyaltyInv
  <2> SUFFICES ASSUME Init PROVE LoyaltyInv
    OBVIOUS
  <2> USE DEF Init
  <2>1. IdleHandler \in Handlers
    BY NumbersAssumption, PrizeAssumption DEF IdleHandler, Handlers, Totals
  <2>2. TypeOK
    BY <2>1, NumbersAssumption DEF TypeOK, Totals
  <2>3. UserLock
    BY DEF UserLock, InTransaction, IdleHandler
  <2>4. HandlersOK
    <3> SUFFICES ASSUME NEW d \in Deliveries PROVE HandlerOK(handler[d], unlocked[User(d)])
      BY DEF HandlersOK
    <3>1. handler[d] = IdleHandler
      OBVIOUS
    <3> QED BY <3>1 DEF IdleHandler, HandlerOK, NothingYet, ReadsAreCurrent, ForcedSoFar, PassSoFar, LoopIsDone,
                        EarnedSoFar
  <2>5. BadgesAreEarned /\ UnlocksAreAnnouncedOnce
    BY DEF BadgesAreEarned, UnlocksAreAnnouncedOnce
  <2> QED BY <2>2, <2>3, <2>4, <2>5 DEF LoyaltyInv
<1>2. LoyaltyInv /\ [Next]_vars => LoyaltyInv'
  <2> SUFFICES ASSUME LoyaltyInv, [Next]_vars PROVE LoyaltyInv'
    OBVIOUS
  <2>1. ASSUME NEW d \in Deliveries, Step(d) \/ Fails(d) PROVE LoyaltyInv'
    BY <2>1, QueriesKeep, SaveStatsKeeps, TryConfigKeeps, EndPassKeeps, UnlockBadgesKeeps, CommitKeeps DEF Step
  <2>2. ASSUME NEW p \in Switchable, Switch(p) PROVE LoyaltyInv'
    BY <2>2, SwitchKeeps, SwitchAssumption
  <2>3. CASE UNCHANGED vars
    BY <2>3 DEF vars, LoyaltyInv, TypeOK, UserLock, InTransaction, User, HandlersOK, BadgesAreEarned,
                UnlocksAreAnnouncedOnce
  <2> QED BY <2>1, <2>2, <2>3 DEF Next
<1> QED BY <1>1, <1>2, PTL DEF Spec

\* Every variable of the service has its type.
THEOREM LoyaltyTypes == Spec => []TypeOK
<1>1. LoyaltyInv => TypeOK
  BY DEF LoyaltyInv
<1> QED BY <1>1, LoyaltyInvariant, PTL

\* handlePurchaseCompleted: a handler never inserts an unlock row its user has already,
\* however many of its events are handled at once, so the unique indexes refuse nothing.
THEOREM UnlocksDoNotRace == Spec => []NoUnlockRace
<1>1. LoyaltyInv => NoUnlockRace
  <2> SUFFICES ASSUME LoyaltyInv, NEW d \in Deliveries, InTransaction(d)
               PROVE  handler[d].gained \cap unlocked[User(d)] = {}
    BY DEF NoUnlockRace
  <2> QED BY DEF LoyaltyInv, HandlersOK, HandlerOK, NothingYet, ReadsAreCurrent, InTransaction
<1> QED BY <1>1, LoyaltyInvariant, PTL

\* unlockAchievements, unlockBadges and the outbox: a prize is announced once if the user
\* has it and never otherwise, also when its event is handled by two deliveries at once.
THEOREM AnnouncedWhenUnlocked == Spec => []UnlocksAreAnnouncedOnce
<1>1. LoyaltyInv => UnlocksAreAnnouncedOnce
  BY DEF LoyaltyInv
<1> QED BY <1>1, LoyaltyInvariant, PTL

\* unlockBadges: a badge is held only with the achievements it asks for, although the
\* configuration may change between any two queries.
THEOREM BadgesEarned == Spec => []BadgesAreEarned
<1>1. LoyaltyInv => BadgesAreEarned
  BY DEF LoyaltyInv
<1> QED BY <1>1, LoyaltyInvariant, PTL

\* LoyaltyInv says that the loop ends in the least closed set.
LEMMA LoopEndsForced ==
    ASSUME LoyaltyInv
    PROVE  UnlocksAreForced
<1> SUFFICES ASSUME NEW d \in Deliveries, handler[d].pc = "badges"
             PROVE  LET h == handler[d] IN
                    /\ Closed(h.before \cup h.gained, h.configs, h.stats)
                    /\ \A S \in SUBSET h.gained : Closed(h.before \cup S, h.configs, h.stats) => S = h.gained
  BY DEF UnlocksAreForced
<1>1. PICK h \in Handlers : h = handler[d]
  BY DEF LoyaltyInv, TypeOK
<1>2. HandlerOK(h, unlocked[User(d)]) /\ h.pc = "badges"
  BY <1>1 DEF LoyaltyInv, HandlersOK
<1>3. Closed(h.before \cup h.gained, h.configs, h.stats)
  BY <1>2 DEF HandlerOK, LoopIsDone, Have
<1>4. ASSUME NEW S \in SUBSET h.gained, Closed(h.before \cup S, h.configs, h.stats) PROVE S = h.gained
  <2>1. S \in SUBSET Prizes /\ h.gained \cap h.before = {}
    BY <1>2 DEF Handlers, HandlerOK, ReadsAreCurrent
  <2>2. h.gained \subseteq h.before \cup S
    BY <1>2, <1>4, <2>1 DEF HandlerOK, ForcedSoFar
  <2> QED BY <2>1, <2>2
<1> QED BY <1>1, <1>3, <1>4

\* The do-while loop of unlockAchievements unlocks exactly the least set that is closed
\* under the rules, for every rule set and every order of the configs.
THEOREM LoopUnlocksWhatIsForced == Spec => []UnlocksAreForced
<1>1. LoyaltyInv => UnlocksAreForced
  BY LoopEndsForced
<1> QED BY <1>1, LoyaltyInvariant, PTL

-----------------------------------------------------------------------------
(* Sums.  A set of counterexamples to a fact about finite sets has a smallest member. *)

\* A set of subsets of a finite set has a smallest member.
LEMMA SmallestSubset ==
    ASSUME NEW S, IsFiniteSet(S), NEW T, T \subseteq SUBSET S, T # {}
    PROVE  \E s \in T : \A t \in T : ~(t \subseteq s /\ t # s)
<1>1. IsWellFoundedOn(StrictSubsetOrdering(S), SUBSET S)
  BY FS_StrictSubsetOrderingWellFounded, FS_FiniteSubsetsOfFinite
<1>2. \E s \in T : \A t \in T : ~(<<t, s>> \in StrictSubsetOrdering(S))
  BY <1>1, WFMin
<1>3. PICK s \in T : \A t \in T : ~(<<t, s>> \in StrictSubsetOrdering(S))
  BY <1>2
<1>4. ASSUME NEW t \in T, t \subseteq s, t # s PROVE FALSE
  <2>1. <<t, s>> \in (SUBSET S) \X (SUBSET S)
    OBVIOUS
  <2>2. <<t, s>> \in StrictSubsetOrdering(S)
    BY <1>4, <2>1 DEF StrictSubsetOrdering
  <2> QED BY <1>3, <2>2
<1> QED BY <1>3, <1>4

\* The element that a sum takes next, and what it leaves.
Pick(t) == CHOOSE x \in t : TRUE
Rest(t) == t \ {Pick(t)}

\* f adds up the amounts of every subset of S, an element after the other.
AddsUp(f, S) ==
    \A t \in SUBSET S : f[t] = IF t = {} THEN 0 ELSE AmountOf[Pick(t)] + f[Rest(t)]

\* The element that is picked.
LEMMA PickIsElement == \A t : t # {} => Pick(t) \in t /\ Rest(t) \subseteq t /\ Rest(t) # t
BY DEF Pick, Rest

\* Two such functions agree.
LEMMA AddsUpOnce ==
    ASSUME NEW S, IsFiniteSet(S), NEW f, NEW g, AddsUp(f, S), AddsUp(g, S)
    PROVE  \A t \in SUBSET S : f[t] = g[t]
<1> DEFINE T == {t \in SUBSET S : f[t] # g[t]}
<1> SUFFICES ASSUME T # {} PROVE FALSE
  OBVIOUS
<1>1. T \subseteq SUBSET S
  OBVIOUS
<1>2. PICK s \in T : \A t \in T : ~(t \subseteq s /\ t # s)
  <2> HIDE DEF T
  <2> QED BY <1>1, SmallestSubset
<1>3. s # {}
  BY DEF AddsUp
<1>4. Rest(s) \in SUBSET S /\ Rest(s) \notin T
  BY <1>2, <1>3, PickIsElement
<1>5. f[Rest(s)] = g[Rest(s)]
  BY <1>4
<1> QED BY <1>3, <1>5 DEF AddsUp

\* There is one for every finite set.
LEMMA AddsUpExists ==
    ASSUME NEW S \in SUBSET Events, IsFiniteSet(S)
    PROVE  \E f \in [SUBSET S -> Nat] : AddsUp(f, S)
<1> DEFINE T == {t \in SUBSET S : ~\E f \in [SUBSET t -> Nat] : AddsUp(f, t)}
<1> SUFFICES ASSUME T # {} PROVE FALSE
  OBVIOUS
<1>1. T \subseteq SUBSET S
  OBVIOUS
<1>2. PICK s \in T : \A t \in T : ~(t \subseteq s /\ t # s)
  <2> HIDE DEF T
  <2> QED BY <1>1, SmallestSubset
<1>3. \A t \in SUBSET s : t # s => \E f \in [SUBSET t -> Nat] : AddsUp(f, t)
  BY <1>2
<1> DEFINE G(t) == CHOOSE f \in [SUBSET t -> Nat] : AddsUp(f, t)
           F == [t \in SUBSET s |-> IF t = {} THEN 0 ELSE AmountOf[Pick(t)] + G(Rest(t))[Rest(t)]]
<1>4. \A t \in SUBSET s : t # s => G(t) \in [SUBSET t -> Nat] /\ AddsUp(G(t), t)
  BY <1>3
<1>5. \A t \in SUBSET s : t # {} => /\ Rest(t) \in SUBSET s /\ Rest(t) # s
                                    /\ AmountOf[Pick(t)] \in Nat
  BY <1>1, PickIsElement, EventAssumption, ZenonT(40)
<1>6. F \in [SUBSET s -> Nat]
  <2> SUFFICES ASSUME NEW t \in SUBSET s, t # {} PROVE AmountOf[Pick(t)] + G(Rest(t))[Rest(t)] \in Nat
    OBVIOUS
  <2>1. G(Rest(t))[Rest(t)] \in Nat
    <3>1. PICK r : r = Rest(t)
      OBVIOUS
    <3>2. r \in SUBSET s /\ r # s /\ r \in SUBSET r
      BY <1>5, <3>1
    <3>3. G(r) \in [SUBSET r -> Nat]
      BY <1>4, <3>2
    <3> HIDE DEF G
    <3> QED BY <3>1, <3>2, <3>3
  <2> QED BY <1>5, <2>1
<1>7. ASSUME NEW t \in SUBSET s, t # s PROVE F[t] = G(t)[t]
  <2>1. AddsUp(G(t), t)
    BY <1>4, <1>7
  <2>2. CASE t = {}
    BY <2>1, <2>2 DEF AddsUp
  <2>3. CASE t # {}
    <3>1. PICK r : r = Rest(t) /\ r \in SUBSET s /\ r # s /\ r \subseteq t
      BY <1>5, <2>3, PickIsElement
    <3>2. AddsUp(G(r), r) /\ AddsUp(G(t), r)
      <4>1. AddsUp(G(r), r)
        BY <1>4, <3>1
      <4>2. AddsUp(G(t), r)
        <5> HIDE DEF G
        <5> QED BY <2>1, <3>1 DEF AddsUp
      <4> QED BY <4>1, <4>2
    <3>3. IsFiniteSet(r)
      BY <1>1, <3>1, FS_Subset
    <3>4. PICK f, g : f = G(t) /\ g = G(r)
      OBVIOUS
    <3>5. f[r] = g[r]
      <4>1. AddsUp(f, r) /\ AddsUp(g, r)
        BY <3>2, <3>4
      <4> HIDE DEF G, F
      <4> QED BY <3>3, <4>1, AddsUpOnce
    <3>6. G(t)[t] = AmountOf[Pick(t)] + G(t)[r]
      BY <2>1, <2>3, <3>1 DEF AddsUp
    <3>7. F[t] = AmountOf[Pick(t)] + G(r)[r]
      BY <2>3, <3>1
    <3> QED BY <3>4, <3>5, <3>6, <3>7
  <2> QED BY <2>2, <2>3
<1>8. AddsUp(F, s)
  <2> SUFFICES ASSUME NEW t \in SUBSET s PROVE F[t] = IF t = {} THEN 0 ELSE AmountOf[Pick(t)] + F[Rest(t)]
    BY DEF AddsUp
  <2>1. CASE t = {}
    BY <2>1
  <2>2. CASE t # {}
    <3>1. F[t] = AmountOf[Pick(t)] + G(Rest(t))[Rest(t)]
      BY <2>2
    <3>2. F[Rest(t)] = G(Rest(t))[Rest(t)]
      BY <1>5, <1>7, <2>2
    <3> QED BY <2>2, <3>1, <3>2
  <2> QED BY <2>1, <2>2
<1>9. s \notin T
  <2> HIDE DEF F
  <2> QED BY <1>6, <1>8
<1> QED BY <1>9

\* Any element may be added last.
LEMMA AddsUpInAnyOrder ==
    ASSUME NEW S \in SUBSET Events, IsFiniteSet(S), NEW f \in [SUBSET S -> Nat], AddsUp(f, S)
    PROVE  \A t \in SUBSET S : \A x \in t : f[t] = AmountOf[x] + f[t \ {x}]
<1> DEFINE T == {t \in SUBSET S : \E x \in t : f[t] # AmountOf[x] + f[t \ {x}]}
<1> SUFFICES ASSUME T # {} PROVE FALSE
  OBVIOUS
<1>1. T \subseteq SUBSET S
  OBVIOUS
<1>2. PICK s \in T : \A t \in T : ~(t \subseteq s /\ t # s)
  <2> HIDE DEF T
  <2> QED BY <1>1, SmallestSubset
<1>3. PICK x \in s : f[s] # AmountOf[x] + f[s \ {x}]
  OBVIOUS
<1>4. PICK y \in s : y = Pick(s)
  BY <1>3, PickIsElement
<1>5. f[s] = AmountOf[y] + f[s \ {y}]
  BY <1>3, <1>4 DEF AddsUp, Rest
<1>6. x # y
  BY <1>3, <1>5
<1>7. s \ {y} \notin T /\ s \ {x} \notin T
  BY <1>2, <1>6
<1>8. f[s \ {y}] = AmountOf[x] + f[(s \ {y}) \ {x}] /\ f[s \ {x}] = AmountOf[y] + f[(s \ {x}) \ {y}]
  BY <1>6, <1>7
<1>9. (s \ {y}) \ {x} = (s \ {x}) \ {y}
  OBVIOUS
<1>10. AmountOf[x] \in Nat /\ AmountOf[y] \in Nat /\ f[(s \ {x}) \ {y}] \in Nat
  BY EventAssumption
<1> HIDE DEF T
<1>11. f[s] = AmountOf[y] + (AmountOf[x] + f[(s \ {x}) \ {y}])
  BY <1>5, <1>8, <1>9
<1>12. f[s] # AmountOf[x] + (AmountOf[y] + f[(s \ {x}) \ {y}])
  BY <1>3, <1>8
<1> QED BY <1>10, <1>11, <1>12

\* MapThenSumSet adds up.
LEMMA SpendAddsUp ==
    ASSUME NEW S \in SUBSET Events, IsFiniteSet(S), NEW f \in [SUBSET S -> Nat], AddsUp(f, S)
    PROVE  Spend(S) = f[S]
<1> DEFINE Iter(g) == [s \in SUBSET S |->
                       IF s = {} THEN 0
                       ELSE AmountOf[CHOOSE x \in s : TRUE] + g[s \ {CHOOSE x \in s : TRUE}]]
           iter == CHOOSE g : g = Iter(g)
<1>1. f = Iter(f)
  BY DEF AddsUp, Pick, Rest
<1>2. iter = Iter(iter)
  <2> HIDE DEF Iter
  <2> QED BY <1>1
<1>3. AddsUp(iter, S)
  <2> SUFFICES ASSUME NEW t \in SUBSET S
               PROVE  iter[t] = IF t = {} THEN 0 ELSE AmountOf[Pick(t)] + iter[Rest(t)]
    BY DEF AddsUp
  <2> HIDE DEF iter
  <2>1. iter[t] = Iter(iter)[t]
    BY <1>2
  <2> QED BY <2>1 DEF Pick, Rest
<1>4. iter[S] = f[S]
  <2>1. PICK g : g = iter
    OBVIOUS
  <2> HIDE DEF iter
  <2> QED BY <1>3, <2>1, AddsUpOnce
<1>5. Spend(S) = iter[S]
  BY DEF Spend, MapThenSumSet, MapThenFoldSet
<1> QED BY <1>4, <1>5

\* No purchases cost nothing.
LEMMA SpendOfNothing == Spend({}) = 0
<1>1. PICK S \in SUBSET Events : S = {} /\ IsFiniteSet(S)
  BY FS_EmptySet
<1>2. PICK f \in [SUBSET S -> Nat] : AddsUp(f, S)
  BY <1>1, AddsUpExists
<1>3. Spend(S) = f[S] /\ f[S] = 0
  BY <1>1, <1>2, SpendAddsUp DEF AddsUp
<1> QED BY <1>1, <1>3

\* One more purchase costs its amount more.
LEMMA SpendOneMore ==
    ASSUME NEW S \in SUBSET Events, IsFiniteSet(S), NEW e \in Events, e \notin S
    PROVE  Spend(S \cup {e}) = Spend(S) + AmountOf[e]
<1>1. PICK more \in SUBSET Events : more = S \cup {e} /\ IsFiniteSet(more)
  <2>1. IsFiniteSet(S \cup {e}) /\ S \cup {e} \in SUBSET Events
    BY FS_AddElement
  <2> QED BY <2>1
<1>2. PICK f \in [SUBSET more -> Nat] : AddsUp(f, more)
  BY <1>1, AddsUpExists
<1>3. Spend(more) = f[more]
  BY <1>1, <1>2, SpendAddsUp
<1>4. f[more] = AmountOf[e] + f[more \ {e}]
  BY <1>1, <1>2, AddsUpInAnyOrder
<1>5. more \ {e} = S
  BY <1>1
<1>6. PICK g \in [SUBSET S -> Nat] : g = [t \in SUBSET S |-> f[t]]
  <2>1. [t \in SUBSET S |-> f[t]] \in [SUBSET S -> Nat]
    BY <1>1
  <2> QED BY <2>1
<1>7. AddsUp(g, S)
  <2> SUFFICES ASSUME NEW t \in SUBSET S PROVE g[t] = IF t = {} THEN 0 ELSE AmountOf[Pick(t)] + g[Rest(t)]
    BY DEF AddsUp
  <2>1. f[t] = IF t = {} THEN 0 ELSE AmountOf[Pick(t)] + f[Rest(t)]
    BY <1>1, <1>2 DEF AddsUp
  <2>2. Rest(t) \in SUBSET S
    BY DEF Rest
  <2> QED BY <1>6, <2>1, <2>2
<1>8. Spend(S) = g[S] /\ g[S] = f[S]
  BY <1>6, <1>7, SpendAddsUp
<1>9. AmountOf[e] \in Nat /\ f[S] \in Nat
  BY <1>1, EventAssumption
<1>10. Spend(more) = AmountOf[e] + f[S]
  BY <1>3, <1>4, <1>5
<1>11. Spend(more) = Spend(S) + AmountOf[e]
  BY <1>8, <1>9, <1>10
<1> QED BY <1>1, <1>11

-----------------------------------------------------------------------------
(* Every purchase is counted once. *)

\* A handler's new totals are one purchase more than its user's.
NextTotals ==
    \A d \in Deliveries : handler[d].pc \in {"unlock", "badges", "commit"} =>
        /\ handler[d].stats.count = stats[User(d)].count + 1
        /\ handler[d].stats.spend = stats[User(d)].spend + AmountOf[EventOf[d]]

Resting == {"new", "done"}

\* The deliveries of one event are handled one after the other.
OneAtATime ==
    \A c, d \in Deliveries :
        c # d /\ EventOf[c] = EventOf[d] => handler[c].pc \in Resting \/ handler[d].pc \in Resting

\* A handler past the check has an event that is not processed, until it commits.
NotYetProcessed ==
    \A d \in Deliveries :
        handler[d].pc \in {"upsert", "stats", "unlock", "badges", "commit"} => EventOf[d] \notin processed

CountInv ==
    /\ NextTotals /\ OneAtATime /\ NotYetProcessed
    /\ IsFiniteSet(processed)
    /\ StatsCountEvents

\* What a step of a handler that does not commit does to its totals.
LEMMA HandlerGoesOn ==
    ASSUME LoyaltyInv, NEW d \in Deliveries,
           Check(d) \/ Upsert(d) \/ SaveStats(d) \/ TryConfig(d) \/ EndPass(d) \/ UnlockBadges(d) \/ Publish(d) \/ Fails(d)
    PROVE  /\ UNCHANGED <<stats, processed>>
           /\ \A c \in Deliveries \ {d} : handler'[c] = handler[c]
           /\ \/ handler'[d].pc \in Resting
              \/ /\ handler'[d].pc = "upsert"
                 /\ EventOf[d] \notin processed
                 /\ Overlap \/ \A c \in Deliveries \ {d} : EventOf[c] = EventOf[d] => handler[c].pc \in Resting
              \/ handler[d].pc = "upsert" /\ handler'[d].pc = "stats"
              \/ /\ handler[d].pc = "stats" /\ handler'[d].pc = "unlock"
                 /\ handler'[d].stats.count = stats[User(d)].count + 1
                 /\ handler'[d].stats.spend = stats[User(d)].spend + AmountOf[EventOf[d]]
              \/ /\ {handler[d].pc, handler'[d].pc} \subseteq {"unlock", "badges", "commit"}
                 /\ handler'[d].stats = handler[d].stats
<1>1. handler \in [Deliveries -> Handlers] /\ handler[d] \in Handlers
  BY DEF LoyaltyInv, TypeOK
<1> USE DEF Resting
<1>2. CASE Check(d)
  BY <1>1, <1>2 DEF Check, Handlers
<1>3. CASE Upsert(d) \/ Publish(d)
  BY <1>1, <1>3 DEF Upsert, Publish, Handlers
<1>4. CASE SaveStats(d)
  <2>1. CASE Abort(d)
    BY <1>1, <1>4, <2>1 DEF SaveStats, Abort, IdleHandler
  <2>2. CASE ~Abort(d)
    <3> DEFINE s == [count |-> stats[User(d)].count + 1, spend |-> stats[User(d)].spend + AmountOf[EventOf[d]]]
    <3>0. s.count = stats[User(d)].count + 1 /\ s.spend = stats[User(d)].spend + AmountOf[EventOf[d]]
      OBVIOUS
    <3>1. /\ handler[d].pc = "stats" /\ UNCHANGED <<stats, processed>>
          /\ handler' = [handler EXCEPT ![d].pc = "unlock", ![d].stats = s, ![d].before = unlocked[User(d)],
                                        ![d].configs = active \cap Achievements]
      BY <1>4, <2>2 DEF SaveStats
    <3>2. handler'[d].pc = "unlock" /\ handler'[d].stats = s /\ \A c \in Deliveries \ {d} : handler'[c] = handler[c]
      <4> HIDE DEF s
      <4> QED BY <1>1, <3>1 DEF Handlers
    <3> HIDE DEF s
    <3> QED BY <3>0, <3>1, <3>2
  <2> QED BY <2>1, <2>2
<1>5. CASE TryConfig(d)
  BY <1>1, <1>5 DEF TryConfig, Handlers
<1>6. CASE EndPass(d)
  BY <1>1, <1>6 DEF EndPass, Handlers
<1>7. CASE UnlockBadges(d)
  BY <1>1, <1>7 DEF UnlockBadges, Handlers
<1>8. CASE Fails(d)
  BY <1>1, <1>8 DEF Fails, Abort, IdleHandler
<1> QED BY <1>2, <1>3, <1>4, <1>5, <1>6, <1>7, <1>8

\* Such a step keeps CountInv.
LEMMA GoingOnCounts ==
    ASSUME LoyaltyInv, CountInv, ~Overlap, NEW d \in Deliveries,
           Check(d) \/ Upsert(d) \/ SaveStats(d) \/ TryConfig(d) \/ EndPass(d) \/ UnlockBadges(d) \/ Publish(d) \/ Fails(d)
    PROVE  CountInv'
<1>1. UNCHANGED <<stats, processed>> /\ \A c \in Deliveries \ {d} : handler'[c] = handler[c]
  BY HandlerGoesOn
<1> USE DEF CountInv, Resting
<1>2. NextTotals'
  BY <1>1, HandlerGoesOn DEF NextTotals, User
<1>3. OneAtATime'
  BY <1>1, HandlerGoesOn DEF OneAtATime
<1>4. NotYetProcessed'
  BY <1>1, HandlerGoesOn DEF NotYetProcessed
<1>5. IsFiniteSet(processed)' /\ StatsCountEvents'
  BY <1>1 DEF StatsCountEvents
<1> QED BY <1>2, <1>3, <1>4, <1>5

\* A commit counts the purchase and marks it as processed.
LEMMA CommitCounts ==
    ASSUME LoyaltyInv, CountInv, ~Overlap, NEW d \in Deliveries, Commit(d)
    PROVE  CountInv'
<1>1. PICK u \in Users : u = User(d)
  BY UserType
<1>2. PICK e \in Events : e = EventOf[d]
  BY EventAssumption
<1>3. /\ handler[d].pc = "commit" /\ InTransaction(d)
      /\ stats' = [stats EXCEPT ![u] = handler[d].stats]
      /\ processed' = processed \cup {e}
      /\ handler' = [handler EXCEPT ![d] = [IdleHandler EXCEPT !.pc = "publish"]]
  BY <1>1, <1>2 DEF Commit, InTransaction
<1>4. /\ handler'[d].pc = "publish"
      /\ \A c \in Deliveries \ {d} : handler'[c] = handler[c]
  BY <1>3 DEF IdleHandler, LoyaltyInv, TypeOK
<1> USE DEF CountInv
<1>5. OneAtATime'
  BY <1>3, <1>4 DEF OneAtATime, Resting
<1>6. NotYetProcessed'
  <2> SUFFICES ASSUME NEW c \in Deliveries, handler'[c].pc \in {"upsert", "stats", "unlock", "badges", "commit"}
               PROVE  EventOf[c] \notin processed'
    BY DEF NotYetProcessed
  <2>1. c # d /\ handler[c].pc \in {"upsert", "stats", "unlock", "badges", "commit"}
    BY <1>4
  <2>2. EventOf[c] # EventOf[d]
    BY <1>3, <2>1 DEF OneAtATime, Resting
  <2> QED BY <1>2, <1>3, <2>1, <2>2 DEF NotYetProcessed
<1>7. NextTotals'
  <2> SUFFICES ASSUME NEW c \in Deliveries, handler'[c].pc \in {"unlock", "badges", "commit"}
               PROVE  /\ handler'[c].stats.count = stats'[User(c)].count + 1
                      /\ handler'[c].stats.spend = stats'[User(c)].spend + AmountOf[EventOf[c]]
    BY DEF NextTotals, User
  <2>1. c # d /\ handler'[c] = handler[c] /\ InTransaction(c)
    BY <1>4 DEF InTransaction
  <2>2. User(c) # u /\ User(c) \in Users
    BY <1>1, <1>3, <2>1, UserType DEF LoyaltyInv, UserLock
  <2>3. stats'[User(c)] = stats[User(c)]
    BY <1>3, <2>2 DEF LoyaltyInv, TypeOK
  <2> QED BY <2>1, <2>3 DEF NextTotals
<1>8. e \notin processed /\ UserOf[e] = u /\ IsFiniteSet(processed) /\ processed \subseteq Events
  BY <1>1, <1>2, <1>3 DEF NotYetProcessed, User, LoyaltyInv, TypeOK
<1>9. IsFiniteSet(processed')
  <2>1. PICK old : old = processed
    OBVIOUS
  <2>2. IsFiniteSet(old \cup {e})
    BY <1>8, <2>1, FS_AddElement
  <2> QED BY <1>3, <2>1, <2>2
<1>10. StatsCountEvents'
  <2> SUFFICES ASSUME NEW v \in Users
               PROVE  /\ stats'[v].count = Cardinality({x \in processed' : UserOf[x] = v})
                      /\ stats'[v].spend = Spend({x \in processed' : UserOf[x] = v})
    BY DEF StatsCountEvents
  <2>1. /\ stats[v].count = Cardinality({x \in processed : UserOf[x] = v})
        /\ stats[v].spend = Spend({x \in processed : UserOf[x] = v})
    BY DEF StatsCountEvents
  <2>2. CASE v # u
    <3>1. stats'[v] = stats[v]
      BY <1>3, <2>2 DEF LoyaltyInv, TypeOK
    <3>2. {x \in processed' : UserOf[x] = v} = {x \in processed : UserOf[x] = v}
      BY <1>3, <1>8, <2>2
    <3> QED BY <2>1, <3>1, <3>2
  <2>3. CASE v = u
    <3>1. PICK mine \in SUBSET Events : mine = {x \in processed : UserOf[x] = v}
      BY <1>8
    <3>2. PICK all : all = processed
      OBVIOUS
    <3>3. IsFiniteSet(mine) /\ e \notin mine
      BY <1>8, <3>1, <3>2, FS_Subset
    <3>4. Cardinality(mine \cup {e}) = Cardinality(mine) + 1 /\ Spend(mine \cup {e}) = Spend(mine) + AmountOf[e]
      BY <3>3, FS_AddElement, SpendOneMore
    <3>5. {x \in processed' : UserOf[x] = v} = mine \cup {e}
      BY <1>3, <1>8, <2>3, <3>1
    <3>6. stats'[v].count = stats[v].count + 1 /\ stats'[v].spend = stats[v].spend + AmountOf[e]
      BY <1>1, <1>2, <1>3, <2>3 DEF NextTotals, LoyaltyInv, TypeOK
    <3> QED BY <2>1, <3>1, <3>4, <3>5, <3>6
  <2> QED BY <2>2, <2>3
<1> QED BY <1>5, <1>6, <1>7, <1>9, <1>10

\* CountInv is an invariant if deliveries of one event do not overlap.
LEMMA CountInvariant == ASSUME ~Overlap PROVE Spec => []CountInv
<1>1. Init => CountInv
  <2> SUFFICES ASSUME Init PROVE CountInv
    OBVIOUS
  <2>1. NextTotals /\ OneAtATime /\ NotYetProcessed
    BY DEF Init, NextTotals, OneAtATime, NotYetProcessed, IdleHandler, Resting
  <2>2. IsFiniteSet(processed)
    BY FS_EmptySet DEF Init
  <2>3. StatsCountEvents
    <3> SUFFICES ASSUME NEW u \in Users
                 PROVE  /\ stats[u].count = Cardinality({x \in processed : UserOf[x] = u})
                        /\ stats[u].spend = Spend({x \in processed : UserOf[x] = u})
      BY DEF StatsCountEvents
    <3>1. stats[u].count = 0 /\ stats[u].spend = 0 /\ {x \in processed : UserOf[x] = u} = {}
      BY DEF Init
    <3> QED BY <3>1, SpendOfNothing, FS_EmptySet
  <2> QED BY <2>1, <2>2, <2>3 DEF CountInv
<1>2. LoyaltyInv /\ CountInv /\ [Next]_vars => CountInv'
  <2> SUFFICES ASSUME LoyaltyInv, CountInv, [Next]_vars PROVE CountInv'
    OBVIOUS
  <2>1. ASSUME NEW d \in Deliveries, Step(d) \/ Fails(d) PROVE CountInv'
    BY <2>1, GoingOnCounts, CommitCounts DEF Step
  <2>2. CASE UNCHANGED <<stats, processed, handler>>
    BY <2>2 DEF CountInv, NextTotals, OneAtATime, NotYetProcessed, StatsCountEvents, User
  <2> QED BY <2>1, <2>2 DEF Next, Switch, vars
<1> QED BY <1>1, <1>2, LoyaltyInvariant, PTL DEF Spec

\* handlePurchaseCompleted: user_stats counts every processed purchase once and adds up
\* what they cost, through redeliveries, failures and handlers of one user that overlap,
\* as long as two deliveries of one event do not.
THEOREM PurchasesCountOnce == ASSUME ~Overlap PROVE Spec => []StatsCountEvents
<1>1. CountInv => StatsCountEvents
  BY DEF CountInv
<1>2. Spec => []CountInv
  BY CountInvariant
<1> QED BY <1>1, <1>2, PTL

-----------------------------------------------------------------------------
(* Deliveries of one event that overlap. *)

\* Every processed purchase is in its user's totals.
StatsMissNothing ==
    \A u \in Users :
        LET mine == {e \in processed : UserOf[e] = u} IN
        stats[u].count >= Cardinality(mine) /\ stats[u].spend >= Spend(mine)

\* Totals change by one purchase of their user at a time.
UpdatesAreNotLost ==
    [][\A u \in Users : stats'[u] # stats[u] =>
          \E e \in Events : UserOf[e] = u /\ stats'[u] = [count |-> stats[u].count + 1, spend |-> stats[u].spend + AmountOf[e]]]_vars

TotalsInv == NextTotals /\ IsFiniteSet(processed) /\ StatsMissNothing

\* What purchases cost is a number.
LEMMA SpendType ==
    ASSUME NEW S \in SUBSET Events, IsFiniteSet(S)
    PROVE  Spend(S) \in Nat
<1>1. PICK f \in [SUBSET S -> Nat] : AddsUp(f, S)
  BY AddsUpExists
<1> QED BY <1>1, SpendAddsUp

\* A commit adds its purchase to the totals of its user, whoever has processed it before.
LEMMA CommitAdds ==
    ASSUME LoyaltyInv, NextTotals, NEW d \in Deliveries, Commit(d)
    PROVE  /\ \A v \in Users \ {User(d)} : stats'[v] = stats[v]
           /\ stats'[User(d)] = [count |-> stats[User(d)].count + 1, spend |-> stats[User(d)].spend + AmountOf[EventOf[d]]]
           /\ processed' = processed \cup {EventOf[d]}
           /\ NextTotals'
<1>1. PICK u \in Users : u = User(d)
  BY UserType
<1>2. /\ handler[d].pc = "commit" /\ InTransaction(d)
      /\ stats' = [stats EXCEPT ![u] = handler[d].stats]
      /\ processed' = processed \cup {EventOf[d]}
      /\ handler' = [handler EXCEPT ![d] = [IdleHandler EXCEPT !.pc = "publish"]]
  BY <1>1 DEF Commit, InTransaction
<1>3. handler'[d].pc = "publish" /\ \A c \in Deliveries \ {d} : handler'[c] = handler[c]
  BY <1>2 DEF IdleHandler, LoyaltyInv, TypeOK
<1>4. handler[d].stats \in Totals /\ stats'[u] = handler[d].stats /\ \A v \in Users \ {u} : stats'[v] = stats[v]
  BY <1>2 DEF LoyaltyInv, TypeOK, Handlers
<1>5. handler[d].stats = [count |-> stats[u].count + 1, spend |-> stats[u].spend + AmountOf[EventOf[d]]]
  <2>1. handler[d].stats.count = stats[u].count + 1 /\ handler[d].stats.spend = stats[u].spend + AmountOf[EventOf[d]]
    BY <1>1, <1>2 DEF NextTotals
  <2> QED BY <1>4, <2>1 DEF Totals
<1>6. NextTotals'
  <2> SUFFICES ASSUME NEW c \in Deliveries, handler'[c].pc \in {"unlock", "badges", "commit"}
               PROVE  /\ handler'[c].stats.count = stats'[User(c)].count + 1
                      /\ handler'[c].stats.spend = stats'[User(c)].spend + AmountOf[EventOf[c]]
    BY DEF NextTotals, User
  <2>1. c # d /\ handler'[c] = handler[c] /\ InTransaction(c)
    BY <1>3 DEF InTransaction
  <2>2. User(c) # u /\ User(c) \in Users
    BY <1>1, <1>2, <2>1, UserType DEF LoyaltyInv, UserLock
  <2> QED BY <1>4, <2>1, <2>2 DEF NextTotals
<1> QED BY <1>1, <1>2, <1>4, <1>5, <1>6

\* A commit keeps the totals at least as large as what is processed.
LEMMA CommitMissesNothing ==
    ASSUME LoyaltyInv, TotalsInv, NEW d \in Deliveries, Commit(d)
    PROVE  TotalsInv'
<1>1. PICK u \in Users, e \in Events : u = User(d) /\ e = EventOf[d] /\ UserOf[e] = u
  BY UserType, EventAssumption DEF User
<1>2. /\ \A v \in Users \ {u} : stats'[v] = stats[v]
      /\ stats'[u].count = stats[u].count + 1 /\ stats'[u].spend = stats[u].spend + AmountOf[e]
      /\ processed' = processed \cup {e} /\ NextTotals'
  <2>1. PICK s : s = [count |-> stats[u].count + 1, spend |-> stats[u].spend + AmountOf[e]]
    OBVIOUS
  <2>2. s.count = stats[u].count + 1 /\ s.spend = stats[u].spend + AmountOf[e]
    BY <2>1
  <2>3. /\ \A v \in Users \ {u} : stats'[v] = stats[v]
        /\ stats'[u] = s
        /\ processed' = processed \cup {e} /\ NextTotals'
    BY <1>1, <2>1, CommitAdds DEF TotalsInv
  <2> QED BY <2>2, <2>3
<1>3. processed \in SUBSET Events /\ IsFiniteSet(processed) /\ stats[u].count \in Nat /\ stats[u].spend \in Nat
      /\ AmountOf[e] \in Nat
  BY EventAssumption, NumbersAssumption DEF TotalsInv, LoyaltyInv, TypeOK, Totals
<1>4. PICK old \in SUBSET Events : old = processed /\ IsFiniteSet(old)
  BY <1>3
<1>5. IsFiniteSet(processed')
  <2>1. IsFiniteSet(old \cup {e})
    BY <1>4, FS_AddElement
  <2> QED BY <1>2, <1>4, <2>1
<1>6. StatsMissNothing'
  <2> SUFFICES ASSUME NEW v \in Users
               PROVE  /\ stats'[v].count >= Cardinality({x \in processed' : UserOf[x] = v})
                      /\ stats'[v].spend >= Spend({x \in processed' : UserOf[x] = v})
    BY DEF StatsMissNothing
  <2>1. /\ stats[v].count >= Cardinality({x \in processed : UserOf[x] = v})
        /\ stats[v].spend >= Spend({x \in processed : UserOf[x] = v})
    BY DEF TotalsInv, StatsMissNothing
  <2>2. CASE v # u
    <3>1. {x \in processed' : UserOf[x] = v} = {x \in processed : UserOf[x] = v}
      BY <1>1, <1>2, <2>2
    <3> QED BY <1>2, <2>1, <2>2, <3>1
  <2>3. CASE v = u
    <3>1. PICK mine \in SUBSET Events : mine = {x \in processed : UserOf[x] = v}
      BY <1>3
    <3>2. mine \in SUBSET old
      BY <1>4, <3>1
    <3>3. IsFiniteSet(mine)
      BY <1>4, <3>2, FS_Subset
    <3>4. Cardinality(mine) \in Nat /\ Spend(mine) \in Nat
      BY <3>3, FS_CardinalityType, SpendType
    <3>5. stats[u].count >= Cardinality(mine) /\ stats[u].spend >= Spend(mine)
      BY <2>1, <2>3, <3>1
    <3>6. CASE e \in mine
      <4>1. {x \in processed' : UserOf[x] = v} = mine
        BY <1>2, <3>1, <3>6
      <4> QED BY <1>2, <1>3, <2>3, <3>4, <3>5, <4>1
    <3>7. CASE e \notin mine
      <4>1. {x \in processed' : UserOf[x] = v} = mine \cup {e}
        BY <1>1, <1>2, <2>3, <3>1
      <4>2. Cardinality(mine \cup {e}) = Cardinality(mine) + 1 /\ Spend(mine \cup {e}) = Spend(mine) + AmountOf[e]
        BY <3>3, <3>7, FS_AddElement, SpendOneMore
      <4>3. PICK n, m : n = Cardinality(mine \cup {e}) /\ m = Spend(mine \cup {e})
        OBVIOUS
      <4>4. stats'[u].count >= n /\ stats'[u].spend >= m
        BY <1>2, <1>3, <3>4, <3>5, <4>2, <4>3
      <4> QED BY <2>3, <4>1, <4>3, <4>4
    <3> QED BY <3>6, <3>7
  <2> QED BY <2>2, <2>3
<1> QED BY <1>2, <1>5, <1>6 DEF TotalsInv

\* TotalsInv is an invariant, whether deliveries of one event overlap or not.
THEOREM TotalsInvariant == Spec => []TotalsInv
<1>1. Init => TotalsInv
  <2> SUFFICES ASSUME Init PROVE TotalsInv
    OBVIOUS
  <2>1. NextTotals
    BY DEF Init, NextTotals, IdleHandler
  <2>2. IsFiniteSet(processed)
    BY FS_EmptySet DEF Init
  <2>3. StatsMissNothing
    <3> SUFFICES ASSUME NEW u \in Users
                 PROVE  /\ stats[u].count >= Cardinality({x \in processed : UserOf[x] = u})
                        /\ stats[u].spend >= Spend({x \in processed : UserOf[x] = u})
      BY DEF StatsMissNothing
    <3>1. stats[u].count = 0 /\ stats[u].spend = 0 /\ {x \in processed : UserOf[x] = u} = {}
      BY DEF Init
    <3> QED BY <3>1, SpendOfNothing, FS_EmptySet
  <2> QED BY <2>1, <2>2, <2>3 DEF TotalsInv
<1>2. LoyaltyInv /\ TotalsInv /\ [Next]_vars => TotalsInv'
  <2> SUFFICES ASSUME LoyaltyInv, TotalsInv, [Next]_vars PROVE TotalsInv'
    OBVIOUS
  <2>1. ASSUME NEW d \in Deliveries, ~Commit(d), Step(d) \/ Fails(d) PROVE TotalsInv'
    <3>1. UNCHANGED <<stats, processed>> /\ \A c \in Deliveries \ {d} : handler'[c] = handler[c]
      BY <2>1, HandlerGoesOn DEF Step
    <3>2. NextTotals'
      BY <2>1, <3>1, HandlerGoesOn DEF Step, NextTotals, User, TotalsInv, Resting
    <3> QED BY <3>1, <3>2 DEF TotalsInv, StatsMissNothing
  <2>2. ASSUME NEW d \in Deliveries, Commit(d) PROVE TotalsInv'
    BY <2>2, CommitMissesNothing
  <2>3. CASE UNCHANGED <<stats, processed, handler>>
    BY <2>3 DEF TotalsInv, NextTotals, StatsMissNothing, User
  <2> QED BY <2>1, <2>2, <2>3 DEF Next, Switch, vars
<1> QED BY <1>1, <1>2, LoyaltyInvariant, PTL DEF Spec

\* handlePurchaseCompleted when deliveries of one event overlap as well: purchases are
\* counted twice at worst, and none that is marked as processed is missing.
THEOREM NoPurchaseIsMissed == Spec => []StatsMissNothing
<1>1. TotalsInv => StatsMissNothing
  BY DEF TotalsInv
<1> QED BY <1>1, TotalsInvariant, PTL

\* The read-modify-write of user_stats loses no update, since the row lock of the upsert
\* is held from before the read to the commit: every change of a user's totals adds one
\* of the user's purchases to what they were.
THEOREM NoUpdateIsLost == Spec => UpdatesAreNotLost
<1>1. LoyaltyInv /\ TotalsInv /\ [Next]_vars =>
        [\A u \in Users : stats'[u] # stats[u] =>
          \E e \in Events : UserOf[e] = u /\ stats'[u] = [count |-> stats[u].count + 1, spend |-> stats[u].spend + AmountOf[e]]]_vars
  <2> SUFFICES ASSUME LoyaltyInv, TotalsInv, Next, NEW u \in Users, stats'[u] # stats[u]
               PROVE  \E e \in Events :
                        UserOf[e] = u /\ stats'[u] = [count |-> stats[u].count + 1, spend |-> stats[u].spend + AmountOf[e]]
    OBVIOUS
  <2>1. PICK d \in Deliveries : Commit(d)
    BY HandlerGoesOn DEF Next, Step, Switch
  <2>2. u = User(d) /\ UserOf[EventOf[d]] = u /\ EventOf[d] \in Events
    BY <2>1, CommitAdds, EventAssumption DEF User, TotalsInv
  <2> QED BY <2>1, <2>2, CommitAdds DEF TotalsInv
<1> QED BY <1>1, LoyaltyInvariant, TotalsInvariant, PTL DEF Spec, UpdatesAreNotLost

-----------------------------------------------------------------------------
(* The service implements LoyaltyLedger. *)

\* A handler has loaded every achievement that nobody switches.
LoadedAll(h) == h.pc \in {"unlock", "badges", "commit"} => h.configs \in Ledger!Counting(Achievements)

\* The loop unlocks achievements it has loaded.
UnlocksLoaded(h) == h.pc \in {"unlock", "badges"} => h.gained \subseteq h.configs

\* won is what the rules grant, and gained adds the badges for it.
IsGrant(gained, won, badges, configs, s, before) ==
    /\ Ledger!Grant(won, configs, s, before)
    /\ gained = won \cup {b \in badges \ (before \cup won) : Ledger!MeetsBadgeRequirement(b, before \cup won)}

\* A handler is about to commit what the ledger grants.
CommitsGrant(h) ==
    h.pc = "commit" =>
        \E won \in SUBSET (h.configs \ h.before), badges \in Ledger!Counting(Badges) :
            IsGrant(h.gained, won, badges, h.configs, h.stats, h.before)

GrantOK(h) == LoadedAll(h) /\ UnlocksLoaded(h) /\ CommitsGrant(h)

\* What nobody switches stays on.
SteadyOn == Prizes \ Switchable \subseteq active

LedgerInv == SteadyOn /\ \A d \in Deliveries : GrantOK(handler[d])

\* The two modules read the same configuration.
LEMMA SameConfig ==
    /\ Ledger!Achievements = Achievements /\ Ledger!Prizes = Prizes
    /\ \A b, have : Ledger!MeetsBadgeRequirement(b, have) <=> MeetsBadgeRequirement(b, have)
    /\ \A S, configs, s : Ledger!Closed(S, configs, s) <=> Closed(S, configs, s)
<1>1. Ledger!Achievements = Achievements /\ Ledger!Prizes = Prizes
  BY DEF Ledger!Achievements, Achievements, Ledger!Prizes, Prizes, Ledger!Range, Range
<1>2. \A S : Ledger!Cardinality(S) = Cardinality(S)
  BY Zenon DEF Ledger!Cardinality, Cardinality
<1>3. \A b, have : Ledger!MeetsBadgeRequirement(b, have) <=> MeetsBadgeRequirement(b, have)
  <2> SUFFICES ASSUME NEW b, NEW have PROVE Ledger!MeetsBadgeRequirement(b, have) <=> MeetsBadgeRequirement(b, have)
    OBVIOUS
  <2>1. have \cap Ledger!Achievements = have \cap Achievements
    BY <1>1
  <2> QED BY <1>2, <2>1, Zenon DEF Ledger!MeetsBadgeRequirement, MeetsBadgeRequirement
<1>4. \A S, configs, s : Ledger!Closed(S, configs, s) <=> Closed(S, configs, s)
  <2>1. \A leaf, s, have : Ledger!LeafHolds(leaf, s, have) = LeafHolds(leaf, s, have)
    BY <1>2 DEF Ledger!LeafHolds, LeafHolds
  <2>2. \A a, s, have : Ledger!Evaluate(a, s, have) <=> Evaluate(a, s, have)
    BY <2>1 DEF Ledger!Evaluate, Evaluate
  <2> QED BY <2>2 DEF Ledger!Closed, Closed
<1> QED BY <1>1, <1>3, <1>4

\* The first query of a handler loads what is active.
LEMMA LoadGrants ==
    ASSUME SteadyOn, NEW h, h.pc = "unlock", h.gained = {}, h.configs = active \cap Achievements
    PROVE  GrantOK(h)
<1>1. h.configs \in Ledger!Counting(Achievements)
  BY DEF Ledger!Counting, SteadyOn, Prizes
<1> QED BY <1>1 DEF GrantOK, LoadedAll, UnlocksLoaded, CommitsGrant

\* The loop leaves the least closed set, and unlockBadges adds the badges for it.
LEMMA BadgesGrant ==
    ASSUME LoyaltyInv, LedgerInv, NEW d \in Deliveries, UnlockBadges(d), NEW g \in Handlers,
           g = [handler[d] EXCEPT !.pc = "commit", !.gained = @ \cup NewBadges(handler[d].before \cup @)]
    PROVE  GrantOK(g)
<1>1. PICK h \in Handlers : h = handler[d] /\ h.pc = "badges"
  BY DEF LoyaltyInv, TypeOK, UnlockBadges
<1>2. PICK badges : badges = active \cap Badges
  OBVIOUS
<1>3. PICK have : have = h.before \cup h.gained
  OBVIOUS
<1>4. PICK new : new = {b \in badges \ have : Ledger!MeetsBadgeRequirement(b, have)} /\ new = NewBadges(have)
  BY <1>2, SameConfig DEF NewBadges
<1>5. /\ g.pc = "commit" /\ g.before = h.before /\ g.configs = h.configs /\ g.stats = h.stats
      /\ g.gained = h.gained \cup new
  BY <1>1, <1>3, <1>4 DEF Handlers
<1>6. h.configs \in Ledger!Counting(Achievements) /\ badges \in Ledger!Counting(Badges)
  BY <1>1, <1>2 DEF LedgerInv, GrantOK, LoadedAll, SteadyOn, Ledger!Counting, Prizes
<1>7. h.gained \in SUBSET (h.configs \ h.before)
  BY <1>1 DEF LedgerInv, GrantOK, UnlocksLoaded, LoyaltyInv, HandlersOK, HandlerOK, ReadsAreCurrent
<1>8. /\ Closed(h.before \cup h.gained, h.configs, h.stats)
      /\ \A S \in SUBSET h.gained : Closed(h.before \cup S, h.configs, h.stats) => S = h.gained
  BY <1>1, LoopEndsForced DEF UnlocksAreForced
<1>9. Ledger!Grant(h.gained, h.configs, h.stats, h.before)
  BY <1>8, SameConfig DEF Ledger!Grant
<1>10. IsGrant(g.gained, h.gained, badges, g.configs, g.stats, g.before)
  BY <1>3, <1>4, <1>5, <1>9 DEF IsGrant
<1>11. CommitsGrant(g)
  BY <1>5, <1>6, <1>7, <1>10 DEF CommitsGrant
<1> QED BY <1>5, <1>6, <1>11 DEF GrantOK, LoadedAll, UnlocksLoaded

\* LedgerInv is kept by every step of a handler.
LEMMA HandlerGrants ==
    ASSUME LoyaltyInv, LedgerInv, NEW d \in Deliveries, Step(d) \/ Fails(d)
    PROVE  LedgerInv'
<1>1. PICK h \in Handlers : h = handler[d] /\ GrantOK(h) /\ handler \in [Deliveries -> Handlers]
  BY DEF LoyaltyInv, TypeOK, LedgerInv
<1>2. active' = active
  BY DEF Step, Check, Upsert, SaveStats, TryConfig, EndPass, UnlockBadges, Commit, Publish, Fails
<1>3. ASSUME NEW g, handler' = [handler EXCEPT ![d] = g], GrantOK(g) PROVE LedgerInv'
  BY <1>1, <1>2, <1>3 DEF LedgerInv, SteadyOn
<1>4. ASSUME NEW g, handler' = [handler EXCEPT ![d] = g], g.pc \notin {"unlock", "badges", "commit"} PROVE LedgerInv'
  BY <1>3, <1>4 DEF GrantOK, LoadedAll, UnlocksLoaded, CommitsGrant
<1>5. CASE Check(d) \/ Upsert(d) \/ Publish(d)
  <2>1. PICK l \in {"upsert", "done", "stats"} : handler' = [handler EXCEPT ![d].pc = l]
    BY <1>5 DEF Check, Upsert, Publish
  <2>2. PICK g : g = [h EXCEPT !.pc = l]
    OBVIOUS
  <2>3. handler' = [handler EXCEPT ![d] = g] /\ g.pc = l
    BY <1>1, <2>1, <2>2 DEF Handlers
  <2> QED BY <1>4, <2>3
<1>6. CASE Fails(d) \/ Commit(d)
  <2>1. PICK g : handler' = [handler EXCEPT ![d] = g] /\ g.pc \in {"new", "publish"}
    BY <1>6 DEF Fails, Abort, Commit, IdleHandler
  <2> QED BY <1>4, <2>1
<1>7. CASE SaveStats(d)
  <2>1. CASE Abort(d)
    <3>1. PICK g : g = IdleHandler
      OBVIOUS
    <3>2. handler' = [handler EXCEPT ![d] = g] /\ g.pc = "new"
      BY <2>1, <3>1 DEF Abort, IdleHandler
    <3> QED BY <1>4, <3>2
  <2>2. CASE ~Abort(d)
    <3>1. PICK s, b : handler' = [handler EXCEPT ![d].pc = "unlock", ![d].stats = s, ![d].before = b,
                                                ![d].configs = active \cap Achievements]
      BY <1>7, <2>2 DEF SaveStats
    <3>2. PICK g : g = [h EXCEPT !.pc = "unlock", !.stats = s, !.before = b, !.configs = active \cap Achievements]
      OBVIOUS
    <3>3. handler' = [handler EXCEPT ![d] = g]
      BY <1>1, <3>1, <3>2
    <3>4. h.gained = {}
      BY <1>1, <1>7 DEF SaveStats, LoyaltyInv, HandlersOK, HandlerOK, NothingYet
    <3>5. g.pc = "unlock" /\ g.gained = {} /\ g.configs = active \cap Achievements
      BY <1>1, <3>2, <3>4 DEF Handlers
    <3>6. GrantOK(g)
      BY <3>5, LoadGrants DEF LedgerInv
    <3> QED BY <1>3, <3>3, <3>6
  <2> QED BY <2>1, <2>2
<1>8. CASE TryConfig(d)
  <2>0. PICK a : a = Order[h.next]
    OBVIOUS
  <2>1. PICK unlocks \in BOOLEAN :
          unlocks = (a \in h.configs \ (h.before \cup h.gained) /\ Evaluate(a, h.stats, h.before \cup h.gained))
    OBVIOUS
  <2>2. PICK g : g = [h EXCEPT !.next = @ + 1, !.gained = IF unlocks THEN @ \cup {a} ELSE @,
                               !.unlockedInPass = @ \/ unlocks]
    OBVIOUS
  <2>3. handler' = [handler EXCEPT ![d] = g]
    <3>1. handler' = [handler EXCEPT ![d].next = @ + 1, ![d].gained = IF unlocks THEN @ \cup {a} ELSE @,
                                     ![d].unlockedInPass = @ \/ unlocks]
      BY <1>1, <1>8, <2>0, <2>1 DEF TryConfig
    <3> QED BY <1>1, <2>2, <3>1
  <2>4. h.pc = "unlock"
    BY <1>1, <1>8 DEF TryConfig
  <2>5. g.pc = "unlock" /\ g.configs = h.configs /\ g.gained = IF unlocks THEN h.gained \cup {a} ELSE h.gained
    BY <1>1, <2>2, <2>4 DEF Handlers
  <2>6. GrantOK(g)
    BY <1>1, <2>1, <2>4, <2>5 DEF GrantOK, LoadedAll, UnlocksLoaded, CommitsGrant
  <2> QED BY <1>3, <2>3, <2>6
<1>9. CASE EndPass(d)
  <2>1. PICK l \in {"unlock", "badges"} :
           h.pc = "unlock" /\ handler' = [handler EXCEPT ![d].pc = l, ![d].next = 1, ![d].unlockedInPass = FALSE]
    BY <1>1, <1>9 DEF EndPass
  <2>2. PICK g : g = [h EXCEPT !.pc = l, !.next = 1, !.unlockedInPass = FALSE]
    OBVIOUS
  <2>3. handler' = [handler EXCEPT ![d] = g]
    BY <1>1, <2>1, <2>2
  <2>4. g.pc = l /\ g.configs = h.configs /\ g.gained = h.gained
    BY <1>1, <2>2 DEF Handlers
  <2>5. GrantOK(g)
    BY <1>1, <2>1, <2>4 DEF GrantOK, LoadedAll, UnlocksLoaded, CommitsGrant
  <2> QED BY <1>3, <2>3, <2>5
<1>10. CASE UnlockBadges(d)
  <2>1. PICK new \in SUBSET Prizes : new = NewBadges(h.before \cup h.gained)
    BY DEF NewBadges, Prizes
  <2>2. PICK g \in Handlers : g = [h EXCEPT !.pc = "commit", !.gained = @ \cup new]
    BY <2>1 DEF Handlers
  <2>3. handler' = [handler EXCEPT ![d] = g] /\ g = [handler[d] EXCEPT !.pc = "commit", !.gained = @ \cup NewBadges(handler[d].before \cup @)]
    BY <1>1, <1>10, <2>1, <2>2 DEF UnlockBadges
  <2>4. GrantOK(g)
    BY <1>10, <2>3, BadgesGrant
  <2> QED BY <1>3, <2>3, <2>4
<1> QED BY <1>5, <1>6, <1>7, <1>8, <1>9, <1>10 DEF Step

\* LedgerInv is an invariant.
THEOREM LedgerInvariant == Spec => []LedgerInv
<1>1. Init => LedgerInv
  BY DEF Init, IdleHandler, LedgerInv, SteadyOn, GrantOK, LoadedAll, UnlocksLoaded, CommitsGrant
<1>2. LoyaltyInv /\ LedgerInv /\ [Next]_vars => LedgerInv'
  <2> SUFFICES ASSUME LoyaltyInv, LedgerInv, [Next]_vars PROVE LedgerInv'
    OBVIOUS
  <2>1. ASSUME NEW d \in Deliveries, Step(d) \/ Fails(d) PROVE LedgerInv'
    BY <2>1, HandlerGrants
  <2>2. ASSUME NEW p \in Switchable, Switch(p) PROVE LedgerInv'
    BY <2>2 DEF Switch, LedgerInv, SteadyOn
  <2>3. CASE UNCHANGED vars
    BY <2>3 DEF vars, LedgerInv, SteadyOn
  <2> QED BY <2>1, <2>2, <2>3 DEF Next
<1> QED BY <1>1, <1>2, LoyaltyInvariant, PTL DEF Spec

\* A commit is a step of the ledger.
LEMMA CommitApplies ==
    ASSUME LoyaltyInv, LedgerInv, NextTotals, Overlap \/ NotYetProcessed, NEW d \in Deliveries, Commit(d)
    PROVE  Ledger!Next
<1>1. PICK u \in Users, e \in Events : u = User(d) /\ e = EventOf[d] /\ UserOf[e] = u
  BY UserType, EventAssumption DEF User
<1>2. PICK h \in Handlers : h = handler[d] /\ h.pc = "commit" /\ InTransaction(d)
  BY DEF LoyaltyInv, TypeOK, Commit, InTransaction
<1>3. PICK s : s = [count |-> stats[u].count + 1, spend |-> stats[u].spend + AmountOf[e]]
  OBVIOUS
<1>4. h.stats = s /\ s.spend <= Int4Max
  <2>1. h.stats.count = stats[u].count + 1 /\ h.stats.spend = stats[u].spend + AmountOf[e]
    BY <1>1, <1>2 DEF NextTotals
  <2>2. h.stats \in Totals
    BY DEF Handlers
  <2> QED BY <1>3, <2>1, <2>2, NumbersAssumption DEF Totals
<1>5. Overlap \/ e \notin processed
  BY <1>1, <1>2 DEF NotYetProcessed
<1>6. /\ stats' = [stats EXCEPT ![u] = s]
      /\ processed' = processed \cup {e}
      /\ unlocked' = [unlocked EXCEPT ![u] = @ \cup h.gained]
      /\ announced' = [announced EXCEPT ![u] = [p \in Prizes |->
           IF p \in h.gained /\ @[p] < 2 THEN @[p] + 1 ELSE @[p]]]
  BY <1>1, <1>2, <1>4 DEF Commit, Announcements
<1>7. h.before = unlocked[u] /\ h.gained \cap unlocked[u] = {}
  BY <1>1, <1>2 DEF LoyaltyInv, HandlersOK, HandlerOK, ReadsAreCurrent
<1>8. announced' = [announced EXCEPT ![u] = [p \in Prizes |-> IF p \in h.gained THEN @[p] + 1 ELSE @[p]]]
  <2>1. ASSUME NEW p \in Prizes, p \in h.gained PROVE announced[u][p] < 2
    BY <1>7, <2>1 DEF LoyaltyInv, UnlocksAreAnnouncedOnce
  <2>2. [p \in Prizes |-> IF p \in h.gained /\ announced[u][p] < 2 THEN announced[u][p] + 1 ELSE announced[u][p]]
          = [p \in Prizes |-> IF p \in h.gained THEN announced[u][p] + 1 ELSE announced[u][p]]
    BY <2>1
  <2> QED BY <1>6, <2>2
<1>9. PICK configs \in Ledger!Counting(Achievements) : configs = h.configs
  BY <1>2 DEF LedgerInv, GrantOK, LoadedAll
<1>10. PICK won \in SUBSET (configs \ unlocked[u]), badges \in Ledger!Counting(Badges) :
          IsGrant(h.gained, won, badges, configs, s, unlocked[u])
  BY <1>2, <1>4, <1>7, <1>9 DEF LedgerInv, GrantOK, CommitsGrant
<1>11. Ledger!Apply(e)
  <2> DEFINE have == unlocked[u] \cup won
             gained == won \cup {b \in badges \ have : Ledger!MeetsBadgeRequirement(b, have)}
  <2>1. h.gained = gained /\ Ledger!Grant(won, configs, s, unlocked[u])
    BY <1>10 DEF IsGrant
  <2>2. /\ unlocked' = [unlocked EXCEPT ![u] = @ \cup gained]
        /\ announced' = [announced EXCEPT ![u] = [p \in Ledger!Prizes |-> IF p \in gained THEN @[p] + 1 ELSE @[p]]]
        /\ Ledger!Grant(won, configs, s, unlocked[u])
    <3> HIDE DEF gained
    <3> QED BY <1>6, <1>8, <2>1, SameConfig
  <2>3. Ledger!Reward(u, s)
    <3>1. Ledger!Achievements = Achievements
      BY SameConfig
    <3> QED BY <1>9, <1>10, <2>2, <3>1 DEF Ledger!Reward
  <2>4. UserOf[e] = u /\ s = [count |-> stats[u].count + 1, spend |-> stats[u].spend + AmountOf[e]]
    BY <1>1, <1>3
  <2> HIDE DEF have, gained
  <2> QED BY <1>4, <1>5, <1>6, <2>3, <2>4 DEF Ledger!Apply
<1> QED BY <1>11 DEF Ledger!Next

\* A step of the service is a step of the ledger or does not show.
LEMMA StepShowsOrNot ==
    ASSUME LoyaltyInv, LedgerInv, TotalsInv, Overlap \/ NotYetProcessed, [Next]_vars
    PROVE  [Ledger!Next]_(Ledger!ledgerVars)
<1>1. ASSUME NEW d \in Deliveries, Commit(d) PROVE Ledger!Next
  BY <1>1, CommitApplies DEF TotalsInv
<1>2. ASSUME NEW d \in Deliveries, Step(d) \/ Fails(d), ~Commit(d) PROVE UNCHANGED Ledger!ledgerVars
  BY <1>2 DEF Step, Check, Upsert, SaveStats, TryConfig, EndPass, UnlockBadges, Publish, Fails, Ledger!ledgerVars
<1>3. ASSUME NEW p \in Switchable, Switch(p) PROVE UNCHANGED Ledger!ledgerVars
  BY <1>3 DEF Switch, Ledger!ledgerVars
<1>4. CASE UNCHANGED vars
  BY <1>4 DEF vars, Ledger!ledgerVars
<1> QED BY <1>1, <1>2, <1>3, <1>4 DEF Next

\* handlePurchaseCompleted implements LoyaltyLedger: whatever handlers interleave, fail or
\* are repeated, every purchase takes effect in one step, its commit, with exactly what
\* the rules grant; it is applied again only if deliveries of one event overlap.
THEOREM LoyaltyImplementsLedger == Spec => ActsAsLedger
<1>1. Init => Ledger!Init
  BY SameConfig DEF Init, Ledger!Init
<1>2. CASE Overlap
  <2>1. LoyaltyInv /\ LedgerInv /\ TotalsInv /\ [Next]_vars => [Ledger!Next]_(Ledger!ledgerVars)
    BY <1>2, StepShowsOrNot
  <2> QED BY <1>1, <2>1, LoyaltyInvariant, LedgerInvariant, TotalsInvariant, PTL DEF Spec, ActsAsLedger, Ledger!Spec
<1>3. CASE ~Overlap
  <2>1. Spec => []CountInv
    BY <1>3, CountInvariant
  <2>2. LoyaltyInv /\ LedgerInv /\ TotalsInv /\ CountInv /\ [Next]_vars => [Ledger!Next]_(Ledger!ledgerVars)
    BY StepShowsOrNot DEF CountInv
  <2> QED BY <1>1, <2>1, <2>2, LoyaltyInvariant, LedgerInvariant, TotalsInvariant, PTL DEF Spec, ActsAsLedger, Ledger!Spec
<1> QED BY <1>2, <1>3

-----------------------------------------------------------------------------
(* What a user has follows from the user's totals. *)

\* The rules force all of S for the totals s.
Forced(S, s) == \A T \in SUBSET Achievements : Closed(T, Achievements, s) => S \subseteq T

\* A user's achievements are the least set the rules allow for the user's totals, and
\* everything they grant once the user has bought something.
AchievementsFollowTotals ==
    \A u \in Users :
        LET mine == unlocked[u] \cap Achievements IN
        /\ stats[u].count > 0 => Closed(mine, Achievements, stats[u])
        /\ Forced(mine, stats[u])

\* RuleEngineService.evaluate: a rule that holds keeps holding when the totals grow.
LEMMA EvaluateGrows ==
    ASSUME NEW a \in Achievements, NEW s \in Totals, NEW t \in Totals, s.count <= t.count, s.spend <= t.spend,
           NEW S, Evaluate(a, s, S)
    PROVE  Evaluate(a, t, S)
<1> SUFFICES ASSUME NEW leaf \in RuleOf[a], LeafHolds(leaf, s, S) PROVE LeafHolds(leaf, t, S)
  BY DEF Evaluate
<1>1. s.count \in Nat /\ t.count \in Nat /\ s.spend \in Int /\ t.spend \in Int
  BY NumbersAssumption DEF Totals
<1>2. CASE leaf.type = "COUNT"
  BY <1>1, <1>2, RuleAssumption DEF LeafHolds
<1>3. CASE leaf.type = "SUM"
  BY <1>1, <1>3, RuleAssumption DEF LeafHolds
<1>4. CASE leaf.type \notin {"COUNT", "SUM"}
  BY <1>4 DEF LeafHolds
<1> QED BY <1>2, <1>3, <1>4

\* Rules look at achievements only.
LEMMA EvaluateLooksAtAchievements ==
    ASSUME NEW a \in Achievements, NEW s, NEW S, Evaluate(a, s, S)
    PROVE  Evaluate(a, s, S \cap Achievements)
<1> SUFFICES ASSUME NEW leaf \in RuleOf[a], LeafHolds(leaf, s, S) PROVE LeafHolds(leaf, s, S \cap Achievements)
  BY DEF Evaluate
<1>1. CASE leaf.type = "ACHIEVEMENT_SET"
  <2>1. {i \in DOMAIN leaf.ids : leaf.ids[i] \in S} = {i \in DOMAIN leaf.ids : leaf.ids[i] \in S \cap Achievements}
    BY <1>1, RuleAssumption
  <2> QED BY <1>1, <2>1 DEF LeafHolds
<1>2. CASE leaf.type # "ACHIEVEMENT_SET"
  BY <1>2 DEF LeafHolds
<1> QED BY <1>1, <1>2

\* What follows from the old totals and what the loop adds follow from the new totals.
LEMMA GrantFollows ==
    ASSUME NEW s \in Totals, NEW t \in Totals, s.count <= t.count, s.spend <= t.spend,
           NEW before \in SUBSET Prizes, NEW won \in SUBSET Achievements,
           Forced(before \cap Achievements, s), Ledger!Grant(won, Achievements, t, before)
    PROVE  /\ Closed((before \cap Achievements) \cup won, Achievements, t)
           /\ Forced((before \cap Achievements) \cup won, t)
<1>0. /\ Closed(before \cup won, Achievements, t)
      /\ \A S \in SUBSET won : Closed(before \cup S, Achievements, t) => S = won
  BY SameConfig DEF Ledger!Grant
<1>1. Closed((before \cap Achievements) \cup won, Achievements, t)
  <2> SUFFICES ASSUME NEW a \in Achievements, Evaluate(a, t, (before \cap Achievements) \cup won)
               PROVE  a \in (before \cap Achievements) \cup won
    BY DEF Closed
  <2>1. PICK U : U = (before \cap Achievements) \cup won
    OBVIOUS
  <2>2. PICK V : V = before \cup won
    OBVIOUS
  <2>3. Evaluate(a, t, U) /\ U \subseteq V
    BY <2>1, <2>2
  <2>4. Evaluate(a, t, V)
    BY <2>3, EvaluateMonotone
  <2> QED BY <1>0, <2>2, <2>4 DEF Closed
<1>2. ASSUME NEW S \in SUBSET Achievements, Closed(S, Achievements, t)
      PROVE  (before \cap Achievements) \cup won \subseteq S
  <2>1. Closed(S, Achievements, s)
    BY <1>2, EvaluateGrows DEF Closed
  <2>2. before \cap Achievements \subseteq S
    BY <2>1 DEF Forced
  <2>3. Closed(before \cup (won \cap S), Achievements, t)
    <3> SUFFICES ASSUME NEW a \in Achievements, Evaluate(a, t, before \cup (won \cap S))
                 PROVE  a \in before \cup (won \cap S)
      BY DEF Closed
    <3>1. PICK U : U = before \cup (won \cap S)
      OBVIOUS
    <3>2. PICK V : V = before \cup won
      OBVIOUS
    <3>3. PICK W : W = U \cap Achievements
      OBVIOUS
    <3>4. Evaluate(a, t, U) /\ U \subseteq V /\ W \subseteq S
      BY <2>2, <3>1, <3>2, <3>3
    <3>5. Evaluate(a, t, V)
      BY <3>4, EvaluateMonotone
    <3>6. a \in before \cup won
      BY <1>0, <3>2, <3>5 DEF Closed
    <3>7. Evaluate(a, t, W)
      BY <3>3, <3>4, EvaluateLooksAtAchievements
    <3>8. Evaluate(a, t, S)
      BY <3>4, <3>7, EvaluateMonotone
    <3>9. a \in S
      BY <1>2, <3>8 DEF Closed
    <3> QED BY <3>6, <3>9
  <2>4. won \cap S = won
    <3>1. PICK V \in SUBSET won : V = won \cap S
      OBVIOUS
    <3> QED BY <1>0, <2>3, <3>1
  <2> QED BY <2>2, <2>4
<1> QED BY <1>1, <1>2 DEF Forced

\* A commit moves a user's achievements on with the user's totals.
LEMMA CommitFollows ==
    ASSUME LoyaltyInv, LedgerInv, NextTotals, AchievementsFollowTotals, Switchable \cap Achievements = {},
           NEW d \in Deliveries, Commit(d)
    PROVE  AchievementsFollowTotals'
<1>1. PICK u \in Users, e \in Events : u = User(d) /\ e = EventOf[d]
  BY UserType, EventAssumption
<1>2. PICK h \in Handlers : h = handler[d] /\ h.pc = "commit"
  BY DEF LoyaltyInv, TypeOK, Commit
<1>3. stats' = [stats EXCEPT ![u] = h.stats] /\ unlocked' = [unlocked EXCEPT ![u] = @ \cup h.gained]
  BY <1>1, <1>2 DEF Commit
<1>4. h.configs = Achievements /\ h.before = unlocked[u]
  BY <1>1, <1>2 DEF LedgerInv, GrantOK, LoadedAll, Ledger!Counting, LoyaltyInv, HandlersOK, HandlerOK, ReadsAreCurrent
<1>5. PICK before \in SUBSET Prizes : before = h.before
  BY DEF Handlers
<1>6. PICK won \in SUBSET Achievements, new \in SUBSET Badges :
        h.gained = won \cup new /\ Ledger!Grant(won, Achievements, h.stats, before)
  <2>1. PICK won \in SUBSET (h.configs \ h.before), badges \in Ledger!Counting(Badges) :
           IsGrant(h.gained, won, badges, h.configs, h.stats, h.before)
    BY <1>2 DEF LedgerInv, GrantOK, CommitsGrant
  <2>2. PICK new \in SUBSET Badges :
           new = {b \in badges \ (h.before \cup won) : Ledger!MeetsBadgeRequirement(b, h.before \cup won)}
    <3>1. badges \subseteq Badges
      BY DEF Ledger!Counting
    <3> QED BY <3>1
  <2>3. won \in SUBSET Achievements /\ h.gained = won \cup new
    BY <1>4, <2>1, <2>2 DEF IsGrant
  <2>4. Ledger!Grant(won, Achievements, h.stats, before)
    BY <1>4, <1>5, <2>1 DEF IsGrant
  <2> QED BY <2>3, <2>4
<1>7. PICK s \in Totals, t \in Totals : s = stats[u] /\ t = h.stats
  BY DEF LoyaltyInv, TypeOK, Handlers
<1>8. s.count <= t.count /\ s.spend <= t.spend
  <2>1. t.count = s.count + 1 /\ t.spend = s.spend + AmountOf[e]
    BY <1>1, <1>2, <1>7 DEF NextTotals
  <2>2. s.count \in Nat /\ s.spend \in Int /\ AmountOf[e] \in Nat
    BY EventAssumption, NumbersAssumption DEF Totals
  <2> QED BY <2>1, <2>2
<1>9. Forced(before \cap Achievements, s) /\ Ledger!Grant(won, Achievements, t, before)
  BY <1>4, <1>5, <1>6, <1>7 DEF AchievementsFollowTotals
<1>10. PICK mine : mine = (before \cap Achievements) \cup won
  OBVIOUS
<1>11. Closed(mine, Achievements, t) /\ Forced(mine, t)
  BY <1>8, <1>9, <1>10, GrantFollows
<1>12. stats'[u] = t /\ unlocked'[u] \cap Achievements = mine
  BY <1>3, <1>4, <1>5, <1>6, <1>7, <1>10, PrizeAssumption DEF LoyaltyInv, TypeOK
<1> SUFFICES ASSUME NEW v \in Users
             PROVE  /\ stats'[v].count > 0 => Closed(unlocked'[v] \cap Achievements, Achievements, stats'[v])
                    /\ Forced(unlocked'[v] \cap Achievements, stats'[v])
  BY DEF AchievementsFollowTotals, Forced, Closed, Evaluate, LeafHolds
<1>13. CASE v = u
  BY <1>11, <1>12, <1>13
<1>14. CASE v # u
  <2>1. stats'[v] = stats[v] /\ unlocked'[v] = unlocked[v]
    BY <1>3, <1>14 DEF LoyaltyInv, TypeOK
  <2> QED BY <2>1 DEF AchievementsFollowTotals
<1> QED BY <1>13, <1>14

\* unlockAchievements: as long as no achievement is switched on or off, the achievements of
\* a user are exactly what the rules force from the user's totals, so that neither the
\* order in which purchases are handled nor redeliveries and failures on the way matter.
THEOREM HistoryDoesNotMatter ==
    ASSUME Switchable \cap Achievements = {}
    PROVE  Spec => []AchievementsFollowTotals
<1>1. Init => AchievementsFollowTotals
  BY DEF Init, AchievementsFollowTotals, Forced
<1>2. LoyaltyInv /\ LedgerInv /\ TotalsInv /\ AchievementsFollowTotals /\ [Next]_vars => AchievementsFollowTotals'
  <2> SUFFICES ASSUME LoyaltyInv, LedgerInv, TotalsInv, AchievementsFollowTotals, [Next]_vars
               PROVE  AchievementsFollowTotals'
    OBVIOUS
  <2>1. ASSUME NEW d \in Deliveries, Commit(d) PROVE AchievementsFollowTotals'
    BY <2>1, CommitFollows DEF TotalsInv
  <2>2. CASE UNCHANGED <<stats, unlocked>>
    <3> SUFFICES ASSUME NEW v \in Users
                 PROVE  /\ stats'[v].count > 0 => Closed(unlocked'[v] \cap Achievements, Achievements, stats'[v])
                        /\ Forced(unlocked'[v] \cap Achievements, stats'[v])
      BY DEF AchievementsFollowTotals, Forced, Closed, Evaluate, LeafHolds
    <3>1. stats'[v] = stats[v] /\ unlocked'[v] = unlocked[v]
      BY <2>2
    <3> QED BY <3>1 DEF AchievementsFollowTotals
  <2> QED BY <2>1, <2>2 DEF Next, Step, Check, Upsert, SaveStats, TryConfig, EndPass, UnlockBadges, Publish, Fails,
                            Switch, vars
<1> QED BY <1>1, <1>2, LoyaltyInvariant, LedgerInvariant, TotalsInvariant, PTL DEF Spec

-----------------------------------------------------------------------------
(* Recursion over rules.  A definition by recursion is a rule for computing a *)
(* value from the values of the parts; as data, it is a function of a rule   *)
(* and of a table of values that depends on the table for the parts only.    *)

Below(rule) == {part \in Rules : Depth[part] < Depth[rule]}

\* g and h have the same values for what is inside rule.
AgreeBelow(g, h, rule) == \A part \in Below(rule) : g[part] = h[part]

\* D uses the values of the parts only.
IsRecursive(D, V) ==
    /\ D \in [Rules \X [Rules -> V] -> V]
    /\ \A rule \in Rules : \A g, h \in [Rules -> V] : AgreeBelow(g, h, rule) => D[<<rule, g>>] = D[<<rule, h>>]

\* f has the values D asks for, for rules that nest less than n deep.
Follows(f, D, n) == \A rule \in Rules : Depth[rule] < n => f[rule] = D[<<rule, f>>]

\* A set of natural numbers has a least member.
LEMMA SmallestNumber ==
    ASSUME NEW S \in SUBSET Nat, S # {}
    PROVE  \E n \in S : \A m \in S : n <= m
<1>1. PICK top \in S : TRUE
  OBVIOUS
<1> DEFINE T == {0..n : n \in {k \in S : k <= top}}
<1>2. PICK all : all = 0..top /\ IsFiniteSet(all)
  BY FS_Interval
<1>3. T \subseteq SUBSET all
  <2>1. ASSUME NEW k \in S, k <= top PROVE 0..k \subseteq 0..top
    <3>1. k \in Nat /\ top \in Nat
      OBVIOUS
    <3> QED BY <2>1, <3>1
  <2>2. ASSUME NEW t \in T PROVE t \subseteq all
    <3>1. PICK k \in S : k <= top /\ t = 0..k
      OBVIOUS
    <3> QED BY <1>2, <2>1, <3>1 DEF T
  <2> QED BY <2>2
<1>4. T # {}
  OBVIOUS
<1>5. PICK s \in T : \A t \in T : ~(t \subseteq s /\ t # s)
  <2>1. IsFiniteSet(all)
    BY <1>2
  <2> HIDE DEF T
  <2> QED BY <1>3, <1>4, <2>1, SmallestSubset
<1>6. PICK n \in S : s = 0..n /\ n <= top
  OBVIOUS
<1>7. ASSUME NEW m \in S PROVE n <= m
  <2> SUFFICES ASSUME m < n PROVE FALSE
    OBVIOUS
  <2>1. m <= top /\ 0..m \in T
    BY <1>6
  <2>2. 0..m \subseteq s /\ n \in s /\ n \notin 0..m
    BY <1>6
  <2> HIDE DEF T
  <2> QED BY <1>5, <2>1, <2>2
<1> QED BY <1>7

\* A property that holds of a rule if it holds of all less deep ones holds of all rules:
\* a counterexample of least depth would have none below it.
LEMMA LeastRule ==
    ASSUME NEW T \in SUBSET Rules, T # {}
    PROVE  \E rule \in T : \A other \in T : ~(Depth[other] < Depth[rule])
<1> DEFINE depths == {Depth[rule] : rule \in T}
<1>1. depths \in SUBSET Nat /\ depths # {}
  BY TreeAssumption
<1>2. PICK n \in depths : \A m \in depths : n <= m
  <2> HIDE DEF depths
  <2> QED BY <1>1, SmallestNumber
<1>3. PICK rule \in T : Depth[rule] = n
  OBVIOUS
<1>4. ASSUME NEW other \in T PROVE ~(Depth[other] < Depth[rule])
  <2>1. Depth[other] \in depths /\ Depth[other] \in Nat /\ n \in Nat
    BY <1>1
  <2>2. n <= Depth[other]
    BY <1>2, <2>1
  <2> QED BY <1>3, <2>1, <2>2
<1> QED BY <1>3, <1>4

\* Two tables that follow D agree as far as both do.
LEMMA FollowersAgree ==
    ASSUME NEW V, NEW D, IsRecursive(D, V), NEW f \in [Rules -> V], NEW g \in [Rules -> V],
           NEW n \in Nat, Follows(f, D, n), Follows(g, D, n)
    PROVE  \A rule \in Rules : Depth[rule] < n => f[rule] = g[rule]
<1> DEFINE T == {rule \in Rules : Depth[rule] < n /\ f[rule] # g[rule]}
<1> SUFFICES ASSUME T # {} PROVE FALSE
  OBVIOUS
<1>1. T \in SUBSET Rules
  OBVIOUS
<1>2. PICK rule \in T : \A other \in T : ~(Depth[other] < Depth[rule])
  <2> HIDE DEF T
  <2> QED BY <1>1, LeastRule
<1>3. rule \in Rules /\ Depth[rule] < n /\ Depth[rule] \in Nat
  BY TreeAssumption
<1>4. AgreeBelow(f, g, rule)
  <2> SUFFICES ASSUME NEW part \in Below(rule) PROVE f[part] = g[part]
    BY DEF AgreeBelow
  <2>1. part \in Rules /\ Depth[part] < Depth[rule] /\ Depth[part] \in Nat
    BY TreeAssumption DEF Below
  <2>2. part \notin T /\ Depth[part] < n
    BY <1>2, <1>3, <2>1
  <2> QED BY <2>1, <2>2
<1>5. D[<<rule, f>>] = D[<<rule, g>>]
  BY <1>3, <1>4 DEF IsRecursive
<1> QED BY <1>2, <1>3, <1>5 DEF Follows

\* There is a table that follows D to any depth.
LEMMA FollowersExist ==
    ASSUME NEW V, V # {}, NEW D, IsRecursive(D, V), NEW n \in Nat
    PROVE  \E f \in [Rules -> V] : Follows(f, D, n)
<1> DEFINE T == {k \in Nat : ~\E f \in [Rules -> V] : Follows(f, D, k)}
<1> SUFFICES ASSUME T # {} PROVE FALSE
  OBVIOUS
<1>1. T \in SUBSET Nat
  OBVIOUS
<1>2. PICK k \in T : \A m \in T : k <= m
  <2> HIDE DEF T
  <2> QED BY <1>1, SmallestNumber
<1>3. k # 0
  <2> SUFFICES ASSUME k = 0 PROVE FALSE
    OBVIOUS
  <2>1. PICK v \in V : TRUE
    OBVIOUS
  <2>2. [rule \in Rules |-> v] \in [Rules -> V]
    OBVIOUS
  <2>3. Follows([rule \in Rules |-> v], D, k)
    BY TreeAssumption DEF Follows
  <2> QED BY <1>2, <2>2, <2>3
<1>4. k - 1 \in Nat /\ k - 1 \notin T
  BY <1>2, <1>3
<1>5. PICK f \in [Rules -> V] : Follows(f, D, k - 1)
  BY <1>4
<1>6. PICK g : g = [rule \in Rules |-> IF Depth[rule] = k - 1 THEN D[<<rule, f>>] ELSE f[rule]]
  OBVIOUS
<1>7. g \in [Rules -> V]
  BY <1>6 DEF IsRecursive
<1>8. Follows(g, D, k)
  <2> SUFFICES ASSUME NEW rule \in Rules, Depth[rule] < k PROVE g[rule] = D[<<rule, g>>]
    BY DEF Follows
  <2>0. Depth[rule] \in Nat /\ k \in Nat
    BY TreeAssumption
  <2>1. AgreeBelow(f, g, rule)
    <3> SUFFICES ASSUME NEW part \in Below(rule) PROVE f[part] = g[part]
      BY DEF AgreeBelow
    <3>1. part \in Rules /\ Depth[part] < Depth[rule] /\ Depth[part] \in Nat
      BY TreeAssumption DEF Below
    <3>2. Depth[part] # k - 1
      BY <2>0, <3>1
    <3> QED BY <1>6, <3>1, <3>2
  <2>2. D[<<rule, f>>] = D[<<rule, g>>]
    BY <1>7, <2>1 DEF IsRecursive
  <2>3. CASE Depth[rule] = k - 1
    BY <1>6, <2>2, <2>3
  <2>4. CASE Depth[rule] # k - 1
    <3>1. Depth[rule] < k - 1
      BY <2>0, <2>4
    <3> QED BY <1>5, <1>6, <2>2, <2>4, <3>1 DEF Follows
  <2> QED BY <2>3, <2>4
<1> QED BY <1>2, <1>7, <1>8

\* Definitions by recursion over rules are sound.
LEMMA RecursionOverRules ==
    ASSUME NEW V, V # {}, NEW D, IsRecursive(D, V)
    PROVE  \E f \in [Rules -> V] : \A rule \in Rules : f[rule] = D[<<rule, f>>]
<1> DEFINE F(n) == CHOOSE f \in [Rules -> V] : Follows(f, D, n)
<1>1. \A n \in Nat : F(n) \in [Rules -> V] /\ Follows(F(n), D, n)
  BY FollowersExist
<1> HIDE DEF F
<1>2. PICK f : f = [rule \in Rules |-> F(Depth[rule] + 1)[rule]]
  OBVIOUS
<1>3. \A rule \in Rules : Depth[rule] \in Nat /\ Depth[rule] + 1 \in Nat
  BY TreeAssumption
<1>4. f \in [Rules -> V]
  BY <1>1, <1>2, <1>3
<1>5. ASSUME NEW rule \in Rules PROVE f[rule] = D[<<rule, f>>]
  <2>1. PICK g \in [Rules -> V] : g = F(Depth[rule] + 1)
    BY <1>1, <1>3
  <2>2. Follows(g, D, Depth[rule] + 1)
    BY <1>1, <1>3, <2>1
  <2>3. AgreeBelow(f, g, rule)
    <3> SUFFICES ASSUME NEW part \in Below(rule) PROVE f[part] = g[part]
      BY DEF AgreeBelow
    <3>1. part \in Rules /\ Depth[part] < Depth[rule]
      BY DEF Below
    <3>2. PICK n \in Nat : n = Depth[part] + 1
      BY <1>3, <3>1
    <3>3. PICK h \in [Rules -> V] : h = F(n) /\ Follows(h, D, n)
      BY <1>1
    <3>4. Follows(g, D, n)
      <4> SUFFICES ASSUME NEW r \in Rules, Depth[r] < n PROVE g[r] = D[<<r, g>>]
        BY DEF Follows
      <4>1. Depth[r] < Depth[rule] + 1
        BY <1>3, <3>1, <3>2
      <4> QED BY <2>2, <4>1 DEF Follows
    <3>5. Depth[part] < n
      BY <1>3, <3>1, <3>2
    <3>6. g[part] = h[part]
      BY <3>1, <3>3, <3>4, <3>5, FollowersAgree
    <3>7. f[part] = h[part]
      BY <1>2, <3>1, <3>2, <3>3
    <3> QED BY <3>6, <3>7
  <2>4. D[<<rule, f>>] = D[<<rule, g>>]
    BY <1>4, <2>3 DEF IsRecursive
  <2>5. Depth[rule] < Depth[rule] + 1
    BY <1>3
  <2>6. g[rule] = D[<<rule, g>>]
    BY <2>2, <2>5 DEF Follows
  <2>7. f[rule] = g[rule]
    BY <1>2, <2>1
  <2> QED BY <2>4, <2>6, <2>7
<1> QED BY <1>4, <1>5

-----------------------------------------------------------------------------
(* evaluate, the leaves and the validator are such definitions. *)

\* The parts of a rule are numbered and less deep than the whole.
LEMMA PartsAreBelow ==
    ASSUME NEW rule \in Rules
    PROVE  /\ DOMAIN Parts(rule) \in SUBSET Nat
           /\ \A i \in DOMAIN Parts(rule) : Parts(rule)[i] \in Below(rule) /\ Parts(rule)[i] \in Rules
<1>1. Parts(rule) \in Seq(Rules) /\ \A i \in DOMAIN Parts(rule) : Depth[Parts(rule)[i]] < Depth[rule]
  BY TreeAssumption
<1> QED BY <1>1 DEF Below

\* The values of the parts depend on what is below only.
LEMMA PartsAgree ==
    ASSUME NEW rule \in Rules, NEW g, NEW h, AgreeBelow(g, h, rule)
    PROVE  OfParts(g, rule) = OfParts(h, rule)
BY PartsAreBelow DEF OfParts, AgreeBelow

\* So do the definitions that are made with them, and f is the only solution of its equation.
LEMMA OneSolution ==
    ASSUME NEW e, NEW f, DOMAIN e = Rules, DOMAIN f = Rules, e = [rule \in Rules |-> e[rule]],
           f = [rule \in Rules |-> f[rule]],
           \A rule \in Rules : OfParts(e, rule) = OfParts(f, rule) => e[rule] = f[rule]
    PROVE  e = f
<1> DEFINE T == {rule \in Rules : e[rule] # f[rule]}
<1> SUFFICES ASSUME T # {} PROVE FALSE
  OBVIOUS
<1>1. T \in SUBSET Rules
  OBVIOUS
<1>2. PICK rule \in T : \A other \in T : ~(Depth[other] < Depth[rule])
  <2> HIDE DEF T
  <2> QED BY <1>1, LeastRule
<1>3. AgreeBelow(e, f, rule)
  BY <1>2 DEF AgreeBelow, Below
<1>4. OfParts(e, rule) = OfParts(f, rule)
  BY <1>3, PartsAgree
<1> QED BY <1>2, <1>4

\* Array.every is true if all are, and otherwise the outcome of one that is not.
LEMMA EveryIsConjunction ==
    ASSUME NEW outcomes, DOMAIN outcomes \in SUBSET Nat
    PROVE  \/ /\ \A i \in DOMAIN outcomes : outcomes[i] = "true"
              /\ Every(outcomes) = "true"
           \/ \E i \in DOMAIN outcomes : outcomes[i] # "true" /\ Every(outcomes) = outcomes[i]
<1>1. PICK others : others = {i \in DOMAIN outcomes : outcomes[i] # "true"}
  OBVIOUS
<1>2. Every(outcomes) = IF others = {} THEN "true" ELSE outcomes[CHOOSE i \in others : \A j \in others : i <= j]
  BY <1>1 DEF Every
<1>3. CASE others = {}
  BY <1>1, <1>2, <1>3
<1>4. CASE others # {}
  <2>1. others \in SUBSET Nat
    BY <1>1
  <2>2. \E i \in others : \A j \in others : i <= j
    BY <1>4, <2>1, SmallestNumber
  <2>3. PICK k \in others : k = CHOOSE i \in others : \A j \in others : i <= j
    BY <2>2
  <2>4. Every(outcomes) = outcomes[k]
    BY <1>2, <1>4, <2>3
  <2>5. k \in DOMAIN outcomes /\ outcomes[k] # "true"
    BY <1>1
  <2> QED BY <2>4, <2>5
<1> QED BY <1>3, <1>4

Outcomes == {"true", "false", "throws"}

\* evaluate has one of its three outcomes for every rule, and calls itself for the parts.
LEMMA EvaluateTreeDef ==
    ASSUME NEW s, NEW have
    PROVE  /\ EvaluateTree(s, have) \in [Rules -> Outcomes]
           /\ \A rule \in Rules :
                EvaluateTree(s, have)[rule] = EvaluateRule(rule, OfParts(EvaluateTree(s, have), rule), s, have)
<1>1. PICK D : D = [x \in Rules \X [Rules -> Outcomes] |-> EvaluateRule(x[1], OfParts(x[2], x[1]), s, have)]
  OBVIOUS
<1>2. ASSUME NEW rule \in Rules, NEW e \in [Rules -> Outcomes]
      PROVE  EvaluateRule(rule, OfParts(e, rule), s, have) \in Outcomes
  <2>1. PICK o : o = OfParts(e, rule)
    OBVIOUS
  <2>2. DOMAIN o \in SUBSET Nat /\ \A i \in DOMAIN o : o[i] \in Outcomes
    BY <2>1, PartsAreBelow DEF OfParts
  <2>3. Every(o) \in Outcomes
    BY <2>2, EveryIsConjunction DEF Outcomes
  <2>4. EvaluateRule(rule, o, s, have) \in Outcomes
    BY <2>3 DEF EvaluateRule, Outcomes, Compare, Truth
  <2> QED BY <2>1, <2>4
<1>3. \A rule \in Rules : \A e \in [Rules -> Outcomes] :
        D[<<rule, e>>] = EvaluateRule(rule, OfParts(e, rule), s, have)
  BY <1>1
<1>4. PICK V : V = Outcomes
  OBVIOUS
<1>5. IsRecursive(D, V)
  <2>1. D \in [Rules \X [Rules -> Outcomes] -> Outcomes]
    BY <1>1, <1>2
  <2> QED BY <1>3, <1>4, <2>1, PartsAgree DEF IsRecursive
<1>6. PICK f \in [Rules -> V] : \A rule \in Rules : f[rule] = D[<<rule, f>>]
  <2>1. V # {}
    BY <1>4 DEF Outcomes
  <2> QED BY <1>5, <2>1, RecursionOverRules, SMTT(30)
<1>7. \A rule \in Rules : f[rule] = EvaluateRule(rule, OfParts(f, rule), s, have)
  BY <1>3, <1>4, <1>6
<1>8. f = [rule \in Rules |-> EvaluateRule(rule, OfParts(f, rule), s, have)]
  BY <1>6, <1>7
<1>9. EvaluateTree(s, have) = CHOOSE e : e = [rule \in Rules |-> EvaluateRule(rule, OfParts(e, rule), s, have)]
  BY Zenon DEF EvaluateTree
<1>10. PICK e : e = CHOOSE g : g = [rule \in Rules |-> EvaluateRule(rule, OfParts(g, rule), s, have)]
  OBVIOUS
<1>11. e = [rule \in Rules |-> EvaluateRule(rule, OfParts(e, rule), s, have)]
  BY <1>8, <1>10
<1>12. e = f
  <2>1. DOMAIN e = Rules /\ e = [rule \in Rules |-> e[rule]] /\ DOMAIN f = Rules /\ f = [rule \in Rules |-> f[rule]]
    BY <1>11
  <2>2. \A rule \in Rules : e[rule] = EvaluateRule(rule, OfParts(e, rule), s, have)
    BY <1>11
  <2>3. \A rule \in Rules : OfParts(e, rule) = OfParts(f, rule) => e[rule] = f[rule]
    BY <1>7, <2>2
  <2> QED BY <2>1, <2>3, OneSolution
<1> QED BY <1>4, <1>7, <1>9, <1>10, <1>12

\* All leaves there are.
AllLeaves == UNION {LeavesOfRule(rule, <<>>) : rule \in Rules}

\* The leaves of a rule are its own, or those of its parts.
LEMMA LeavesDef == \A rule \in Rules : Leaves[rule] = LeavesOfRule(rule, OfParts(Leaves, rule))
<1>1. PICK V : V = SUBSET AllLeaves
  OBVIOUS
<1>2. PICK D : D = [x \in Rules \X [Rules -> V] |-> LeavesOfRule(x[1], OfParts(x[2], x[1]))]
  OBVIOUS
<1>3. ASSUME NEW rule \in Rules, NEW l \in [Rules -> V]
      PROVE  LeavesOfRule(rule, OfParts(l, rule)) \in V
  <2>1. PICK o : o = OfParts(l, rule)
    OBVIOUS
  <2>2. \A i \in DOMAIN o : o[i] \in V
    BY <2>1, PartsAreBelow DEF OfParts
  <2>3. CASE rule.type = "COMBINATION" /\ Has(rule, "rules")
    <3>1. LeavesOfRule(rule, o) = UNION {o[i] : i \in DOMAIN o}
      BY <2>3 DEF LeavesOfRule
    <3> QED BY <1>1, <2>1, <2>2, <3>1
  <2>4. CASE ~(rule.type = "COMBINATION" /\ Has(rule, "rules"))
    <3>1. LeavesOfRule(rule, o) = LeavesOfRule(rule, <<>>)
      BY <2>4 DEF LeavesOfRule
    <3>2. LeavesOfRule(rule, <<>>) \subseteq AllLeaves
      BY DEF AllLeaves
    <3> QED BY <1>1, <2>1, <3>1, <3>2
  <2> QED BY <2>3, <2>4
<1>4. \A rule \in Rules : \A l \in [Rules -> V] : D[<<rule, l>>] = LeavesOfRule(rule, OfParts(l, rule))
  BY <1>2
<1>5. IsRecursive(D, V)
  <2>1. D \in [Rules \X [Rules -> V] -> V]
    BY <1>2, <1>3
  <2> QED BY <1>4, <2>1, PartsAgree DEF IsRecursive
<1>6. PICK f \in [Rules -> V] : \A rule \in Rules : f[rule] = D[<<rule, f>>]
  <2>1. V # {}
    BY <1>1
  <2> QED BY <1>5, <2>1, RecursionOverRules, SMTT(30)
<1>7. f = [rule \in Rules |-> LeavesOfRule(rule, OfParts(f, rule))]
  BY <1>4, <1>6
<1>8. Leaves = CHOOSE l : l = [rule \in Rules |-> LeavesOfRule(rule, OfParts(l, rule))]
  BY Zenon DEF Leaves
<1>9. PICK l : l = CHOOSE g : g = [rule \in Rules |-> LeavesOfRule(rule, OfParts(g, rule))]
  OBVIOUS
<1>10. l = [rule \in Rules |-> LeavesOfRule(rule, OfParts(l, rule))]
  BY <1>7, <1>9
<1>11. \A rule \in Rules : l[rule] = LeavesOfRule(rule, OfParts(l, rule))
  BY <1>10
<1> QED BY <1>8, <1>9, <1>11

\* The validator accepts a COMBINATION only if it accepts all its parts.
LEMMA ValidDef ==
    \A rule \in Rules :
        IsValidAchievementRuleShape[rule] = IsValidRule(rule, OfParts(IsValidAchievementRuleShape, rule))
<1>1. PICK V : V = BOOLEAN
  OBVIOUS
<1>2. PICK D : D = [x \in Rules \X [Rules -> V] |-> IsValidRule(x[1], OfParts(x[2], x[1]))]
  OBVIOUS
<1>3. ASSUME NEW rule \in Rules, NEW v \in [Rules -> V]
      PROVE  IsValidRule(rule, OfParts(v, rule)) \in V
  <2>1. PICK o : o = OfParts(v, rule)
    OBVIOUS
  <2>2. IsValidRule(rule, o) \in BOOLEAN
    BY DEF IsValidRule
  <2> QED BY <1>1, <2>1, <2>2
<1>4. \A rule \in Rules : \A v \in [Rules -> V] : D[<<rule, v>>] = IsValidRule(rule, OfParts(v, rule))
  BY <1>2
<1>5. IsRecursive(D, V)
  <2>1. D \in [Rules \X [Rules -> V] -> V]
    BY <1>2, <1>3
  <2> QED BY <1>4, <2>1, PartsAgree DEF IsRecursive
<1>6. PICK f \in [Rules -> V] : \A rule \in Rules : f[rule] = D[<<rule, f>>]
  <2>1. V # {}
    BY <1>1
  <2> QED BY <1>5, <2>1, RecursionOverRules, SMTT(30)
<1>7. f = [rule \in Rules |-> IsValidRule(rule, OfParts(f, rule))]
  BY <1>4, <1>6
<1>8. IsValidAchievementRuleShape = CHOOSE v : v = [rule \in Rules |-> IsValidRule(rule, OfParts(v, rule))]
  BY Zenon DEF IsValidAchievementRuleShape
<1>9. PICK v : v = CHOOSE g : g = [rule \in Rules |-> IsValidRule(rule, OfParts(g, rule))]
  OBVIOUS
<1>10. v = [rule \in Rules |-> IsValidRule(rule, OfParts(v, rule))]
  BY <1>7, <1>9
<1>11. \A rule \in Rules : v[rule] = IsValidRule(rule, OfParts(v, rule))
  BY <1>10
<1> QED BY <1>8, <1>9, <1>11

-----------------------------------------------------------------------------
(* What a rule means. *)

\* A rule holds if and only if all its leaves do, in any context.
LEMMA RuleIsItsLeaves ==
    ASSUME NEW s, NEW have
    PROVE  \A rule \in Rules :
             EvaluateTree(s, have)[rule] = "true" <=> \A leaf \in Leaves[rule] : LeafHolds(leaf, s, have)
<1> DEFINE Means(rule) == EvaluateTree(s, have)[rule] = "true" <=> \A leaf \in Leaves[rule] : LeafHolds(leaf, s, have)
           T == {rule \in Rules : ~Means(rule)}
<1> SUFFICES ASSUME T # {} PROVE FALSE
  OBVIOUS
<1>1. T \in SUBSET Rules
  OBVIOUS
<1>2. PICK rule \in T : \A other \in T : ~(Depth[other] < Depth[rule])
  <2> HIDE DEF T
  <2> QED BY <1>1, LeastRule
<1>3. ASSUME NEW i \in DOMAIN Parts(rule) PROVE Means(Parts(rule)[i])
  BY <1>2, PartsAreBelow DEF Below
<1>4. PICK e \in [Rules -> Outcomes] : e = EvaluateTree(s, have)
  BY EvaluateTreeDef
<1>5. e[rule] = EvaluateRule(rule, OfParts(e, rule), s, have)
  BY <1>4, EvaluateTreeDef
<1>6. Leaves[rule] = LeavesOfRule(rule, OfParts(Leaves, rule))
  BY LeavesDef
<1>7. e[rule] = "true" <=> \A leaf \in Leaves[rule] : LeafHolds(leaf, s, have)
  <2>1. CASE rule.type = "COMBINATION" /\ Has(rule, "rules")
    <3>1. PICK o : o = OfParts(e, rule)
      OBVIOUS
    <3>2. DOMAIN o = DOMAIN Parts(rule) /\ \A i \in DOMAIN Parts(rule) : o[i] = e[Parts(rule)[i]]
      BY <3>1 DEF OfParts
    <3>3. e[rule] = "true" <=> \A i \in DOMAIN Parts(rule) : o[i] = "true"
      <4>1. e[rule] = Every(o)
        BY <1>5, <2>1, <3>1 DEF EvaluateRule
      <4>2. DOMAIN o \in SUBSET Nat
        BY <3>2, PartsAreBelow
      <4> QED BY <3>2, <4>1, <4>2, EveryIsConjunction
    <3>4. Leaves[rule] = UNION {Leaves[Parts(rule)[i]] : i \in DOMAIN Parts(rule)}
      <4>1. PICK l : l = OfParts(Leaves, rule)
        OBVIOUS
      <4>2. DOMAIN l = DOMAIN Parts(rule) /\ \A i \in DOMAIN Parts(rule) : l[i] = Leaves[Parts(rule)[i]]
        BY <4>1 DEF OfParts
      <4>3. Leaves[rule] = UNION {l[i] : i \in DOMAIN l}
        BY <1>6, <2>1, <4>1 DEF LeavesOfRule
      <4> QED BY <4>2, <4>3
    <3>5. \A i \in DOMAIN Parts(rule) :
            o[i] = "true" <=> \A leaf \in Leaves[Parts(rule)[i]] : LeafHolds(leaf, s, have)
      BY <1>3, <1>4, <3>2
    <3> QED BY <3>3, <3>4, <3>5
  <2>2. CASE rule.type \in {"COUNT", "SUM"} /\ rule.operator = "GTE" /\ Has(rule, "value")
    <3>1. PICK leaf : leaf = [type |-> rule.type, value |-> rule.value]
      OBVIOUS
    <3>2. leaf.type = rule.type /\ leaf.value = rule.value
      BY <3>1
    <3>3. Leaves[rule] = {leaf}
      BY <1>6, <2>2, <3>1 DEF LeavesOfRule
    <3>4. e[rule] = "true" <=> LeafHolds(leaf, s, have)
      BY <1>5, <2>2, <3>2 DEF EvaluateRule, Compare, Truth, LeafHolds
    <3> QED BY <3>3, <3>4
  <2>3. CASE rule.type = "ACHIEVEMENT_SET" /\ Has(rule, "achievementIds")
    <3>1. PICK leaf : leaf = [type |-> "ACHIEVEMENT_SET", ids |-> rule.achievementIds, min |-> MinRequired(rule)]
      OBVIOUS
    <3>2. leaf.type = "ACHIEVEMENT_SET" /\ leaf.ids = rule.achievementIds /\ leaf.min = MinRequired(rule)
      BY <3>1
    <3>3. Leaves[rule] = {leaf}
      BY <1>6, <2>3, <3>1 DEF LeavesOfRule
    <3>4. e[rule] = "true" <=> LeafHolds(leaf, s, have)
      BY <1>5, <2>3, <3>2 DEF EvaluateRule, Truth, LeafHolds
    <3> QED BY <3>3, <3>4
  <2>4. CASE /\ ~(rule.type = "COMBINATION" /\ Has(rule, "rules"))
             /\ ~(rule.type \in {"COUNT", "SUM"} /\ rule.operator = "GTE" /\ Has(rule, "value"))
             /\ ~(rule.type = "ACHIEVEMENT_SET" /\ Has(rule, "achievementIds"))
    <3>1. PICK leaf : leaf = [type |-> "NEVER"]
      OBVIOUS
    <3>2. leaf.type = "NEVER"
      BY <3>1
    <3>3. Leaves[rule] = {leaf}
      BY <1>6, <2>4, <3>1 DEF LeavesOfRule
    <3>4. e[rule] # "true" /\ ~LeafHolds(leaf, s, have)
      BY <1>5, <2>4, <3>2 DEF EvaluateRule, Compare, Truth, LeafHolds
    <3> QED BY <3>3, <3>4
  <2> QED BY <2>1, <2>2, <2>3, <2>4
<1> QED BY <1>2, <1>4, <1>7

\* evaluate does not throw on a rule that the validator accepts.
LEMMA ValidRulesDoNotThrow ==
    ASSUME NEW s, NEW have
    PROVE  \A rule \in Rules : IsValidAchievementRuleShape[rule] => EvaluateTree(s, have)[rule] # "throws"
<1> DEFINE T == {rule \in Rules : IsValidAchievementRuleShape[rule] /\ EvaluateTree(s, have)[rule] = "throws"}
<1> SUFFICES ASSUME T # {} PROVE FALSE
  OBVIOUS
<1>1. T \in SUBSET Rules
  OBVIOUS
<1>2. PICK rule \in T : \A other \in T : ~(Depth[other] < Depth[rule])
  <2> HIDE DEF T
  <2> QED BY <1>1, LeastRule
<1>3. PICK e : e = EvaluateTree(s, have)
  OBVIOUS
<1>4. e[rule] = EvaluateRule(rule, OfParts(e, rule), s, have)
  BY <1>3, EvaluateTreeDef
<1>5. IsValidRule(rule, OfParts(IsValidAchievementRuleShape, rule)) /\ e[rule] = "throws"
  BY <1>3, ValidDef
<1>6. rule.type = "COMBINATION" /\ Has(rule, "rules")
  BY <1>4, <1>5 DEF EvaluateRule, Compare, Truth, IsValidRule
<1>7. \A i \in DOMAIN Parts(rule) : IsValidAchievementRuleShape[Parts(rule)[i]]
  BY <1>5, <1>6 DEF IsValidRule, OfParts
<1>8. PICK o : o = OfParts(e, rule)
  OBVIOUS
<1>9. DOMAIN o = DOMAIN Parts(rule) /\ \A i \in DOMAIN Parts(rule) : o[i] = e[Parts(rule)[i]]
  BY <1>8 DEF OfParts
<1>10. Every(o) = "throws"
  BY <1>4, <1>5, <1>6, <1>8 DEF EvaluateRule
<1>11. DOMAIN o \in SUBSET Nat
  BY <1>9, PartsAreBelow
<1>12. PICK i \in DOMAIN o : o[i] = "throws"
  BY <1>10, <1>11, EveryIsConjunction
<1>13. Parts(rule)[i] \in T /\ Depth[Parts(rule)[i]] < Depth[rule]
  BY <1>3, <1>7, <1>9, <1>12, PartsAreBelow DEF Below
<1> QED BY <1>2, <1>13

\* RuleEngineService.evaluate: a rule of any depth holds exactly when all its leaves do, in
\* every context a handler reaches, and never throws once the validators have accepted it.
\* So the rules of Loyalty, which are sets of leaves, are the rules of the code.
THEOREM RulesMeanTheirLeaves == Spec => []RulesAreTheirLeaves
<1>1. RulesAreTheirLeaves
  BY RuleIsItsLeaves, ValidRulesDoNotThrow DEF RulesAreTheirLeaves
<1> QED BY <1>1, PTL
=============================================================================
