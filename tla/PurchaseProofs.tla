--------------------------- MODULE PurchaseProofs ---------------------------
(***************************************************************************)
(* Safety of createPurchase for any set of requests, keys and users, and any*)
(* number of failing queries and crashes.                                   *)
(*                                                                         *)
(* OnePurchasePerKey is not inductive: it says nothing about a transaction  *)
(* that has passed the unique index and is about to commit.  KeyInv adds    *)
(* that such a key is reserved for it.                                      *)
(***************************************************************************)
EXTENDS Purchase, TLAPS

\* A purchase is there exactly when its own call has committed.
OwnPurchase ==
    \A r \in Requests :
        /\ r \in purchases => pc[r] \in {"publish", "done"}
        /\ pc[r] = "publish" => r \in purchases

\* A key that was accepted by the unique index is free until its commit.
KeyReserved ==
    \A q, r \in Requests : KeyOf[q] # None /\ KeyOf[q] = KeyOf[r] /\ pc[r] = "event" =>
        /\ q \notin purchases
        /\ pc[q] = "event" => q = r

\* No key has two purchases.
KeyUnique ==
    \A q, r \in purchases : KeyOf[q] # None /\ KeyOf[q] = KeyOf[r] => q = r

\* A client is answered with its own purchase or with one of the same key.
AnswerFits ==
    \A r \in Requests : answer[r] \in Requests =>
        /\ answer[r] \in purchases
        /\ KeyOf[answer[r]] = KeyOf[r]

\* The three tables are written together.
Together == purchases = outbox /\ \A p \in purchases : UserOf[p] \in users

KeyInv == TypeOK /\ OwnPurchase /\ KeyReserved /\ KeyUnique /\ AnswerFits /\ Together

-----------------------------------------------------------------------------
\* Before the first request nothing is stored or answered.
LEMMA KeyInit == Init => KeyInv
BY AnswerAssumption, NumbersAssumption
   DEF Init, KeyInv, TypeOK, OwnPurchase, KeyReserved, KeyUnique, AnswerFits, Together

\* An answer that fits, given to a call that is not about to commit, keeps KeyInv.
LEMMA AnswerKeeps ==
    ASSUME KeyInv, NEW r \in Requests, NEW a \in Requests \cup {"error", "lost"},
           Answer(r, a), UNCHANGED tables,
           a \in Requests => a \in purchases /\ KeyOf[a] = KeyOf[r]
    PROVE  /\ pc' \in [Requests -> {"start", "user", "saveUser", "purchase", "event", "publish", "catch", "done"}]
           /\ answer' \in [Requests -> Requests \cup {"none", "error", "lost"}]
           /\ OwnPurchase' /\ KeyReserved' /\ KeyUnique' /\ AnswerFits' /\ Together'
<1> USE DEF KeyInv, TypeOK, Answer, tables
<1>1. OwnPurchase' BY DEF OwnPurchase
<1>2. KeyReserved' BY DEF KeyReserved
<1>3. KeyUnique' /\ Together' BY DEF KeyUnique, Together
<1>4. AnswerFits' BY DEF AnswerFits
<1> QED BY <1>1, <1>2, <1>3, <1>4

\* Moving a call to a label other than "event" and "publish", from one before its
\* commit, keeps KeyInv.
LEMMA MoveKeeps ==
    ASSUME KeyInv, NEW r \in Requests, NEW l \in {"user", "saveUser", "purchase", "catch"},
           pc[r] \in {"start", "user", "saveUser", "purchase", "event"},
           Goto(r, l), UNCHANGED <<tables, answer>>
    PROVE  /\ pc' \in [Requests -> {"start", "user", "saveUser", "purchase", "event", "publish", "catch", "done"}]
           /\ OwnPurchase' /\ KeyReserved' /\ KeyUnique' /\ AnswerFits' /\ Together'
<1> USE DEF KeyInv, TypeOK, Goto, tables
<1>1. OwnPurchase' BY DEF OwnPurchase
<1>2. KeyReserved' BY DEF KeyReserved
<1>3. KeyUnique' /\ Together' BY DEF KeyUnique, Together
<1>4. AnswerFits' BY DEF AnswerFits
<1> QED BY <1>1, <1>2, <1>3, <1>4

\* Every step of createPurchase keeps KeyInv.
LEMMA KeyStep == KeyInv /\ [Next]_vars => KeyInv'
<1> SUFFICES ASSUME KeyInv, [Next]_vars PROVE KeyInv'
  OBVIOUS
<1>1. ASSUME NEW r \in Requests, PreCheck(r) PROVE KeyInv'
  <2>1. CASE /\ KeyOf[r] # None
             /\ \E p \in FindByKey(KeyOf[r]) : Answer(r, p)
    <3>1. PICK p \in FindByKey(KeyOf[r]) : Answer(r, p)
      BY <2>1
    <3>2. p \in purchases /\ p \in Requests /\ KeyOf[p] = KeyOf[r]
      BY DEF FindByKey, KeyInv, TypeOK
    <3> QED BY <1>1, <3>1, <3>2, AnswerKeeps DEF PreCheck, KeyInv, TypeOK, tables
  <2>2. CASE Goto(r, "user") /\ UNCHANGED answer
    BY <1>1, <2>2, MoveKeeps DEF PreCheck, KeyInv, TypeOK, tables
  <2> QED BY <1>1, <2>1, <2>2 DEF PreCheck
<1>2. ASSUME NEW r \in Requests, SelectUser(r) PROVE KeyInv'
  BY <1>2, MoveKeeps DEF SelectUser, KeyInv, TypeOK, tables
<1>3. ASSUME NEW r \in Requests, SaveUser(r) PROVE KeyInv'
  <2>1. CASE Abort(r, "userKey")
    BY <1>3, <2>1, MoveKeeps DEF SaveUser, Abort, KeyInv, TypeOK, tables
  <2>2. CASE Goto(r, "purchase") /\ UNCHANGED cause /\ wrote' \in [Requests -> BOOLEAN]
    BY <1>3, <2>2, MoveKeeps DEF SaveUser, KeyInv, TypeOK, tables
  <2>3. Abort(r, "userKey") \/ (Goto(r, "purchase") /\ UNCHANGED cause /\ wrote' \in [Requests -> BOOLEAN])
    BY <1>3 DEF SaveUser, KeyInv, TypeOK
  <2> QED BY <2>1, <2>2, <2>3
<1>4. ASSUME NEW r \in Requests, SavePurchase(r) PROVE KeyInv'
  <2>1. CASE Abort(r, "range") \/ Abort(r, "idempotencyKey")
    BY <1>4, <2>1, MoveKeeps DEF SavePurchase, Abort, KeyInv, TypeOK, tables
  <2>2. CASE /\ \A q \in Requests \ {r} : ~HoldsKey(q, KeyOf[r])
             /\ ~KeyViolation(r)
             /\ Goto(r, "event")
             /\ UNCHANGED <<cause, wrote>>
    <3>1. pc[r] = "purchase" /\ UNCHANGED <<tables, knew, answer, faults>>
      BY <1>4 DEF SavePurchase
    <3>2. TypeOK' /\ OwnPurchase'
      BY <2>2, <3>1 DEF Goto, KeyInv, TypeOK, OwnPurchase, tables
    <3>3. KeyReserved'
      BY <2>2, <3>1 DEF Goto, KeyInv, TypeOK, KeyReserved, KeyViolation, FindByKey, HoldsKey, tables
    <3>4. KeyUnique' /\ AnswerFits' /\ Together'
      BY <3>1 DEF KeyInv, KeyUnique, AnswerFits, Together, tables
    <3> QED BY <3>2, <3>3, <3>4 DEF KeyInv
  <2> QED BY <1>4, <2>1, <2>2 DEF SavePurchase
<1>5. ASSUME NEW r \in Requests, SaveEvent(r) PROVE KeyInv'
  <2>1. TypeOK'
    BY <1>5, UserAssumption DEF SaveEvent, Goto, KeyInv, TypeOK
  <2>2. OwnPurchase'
    BY <1>5 DEF SaveEvent, Goto, KeyInv, TypeOK, OwnPurchase
  <2>3. KeyReserved' /\ KeyUnique'
    BY <1>5 DEF SaveEvent, Goto, KeyInv, TypeOK, KeyReserved, KeyUnique
  <2>4. AnswerFits' /\ Together'
    BY <1>5 DEF SaveEvent, Goto, KeyInv, TypeOK, AnswerFits, Together
  <2> QED BY <2>1, <2>2, <2>3, <2>4 DEF KeyInv
<1>6. ASSUME NEW r \in Requests, Catch(r) PROVE KeyInv'
  <2>1. CASE \E p \in FindByKey(KeyOf[r]) : Answer(r, p)
    <3>1. PICK p \in FindByKey(KeyOf[r]) : Answer(r, p)
      BY <2>1
    <3>2. p \in purchases /\ p \in Requests /\ KeyOf[p] = KeyOf[r]
      BY DEF FindByKey, KeyInv, TypeOK
    <3> QED BY <1>6, <3>1, <3>2, AnswerKeeps DEF Catch, KeyInv, TypeOK, tables
  <2>2. CASE Answer(r, "error")
    BY <1>6, <2>2, AnswerKeeps, AnswerAssumption DEF Catch, KeyInv, TypeOK, tables
  <2> QED BY <1>6, <2>1, <2>2 DEF Catch
<1>7. ASSUME NEW r \in Requests, Publish(r) PROVE KeyInv'
  <2>1. faults' \in 0..MaxFaults
    BY <1>7, NumbersAssumption DEF Publish, Fault, KeyInv, TypeOK
  <2>2. CASE Answer(r, r)
    <3>1. r \in purchases
      BY <1>7 DEF Publish, KeyInv, OwnPurchase
    <3> QED BY <1>7, <2>1, <2>2, <3>1, AnswerKeeps DEF Publish, KeyInv, TypeOK, tables
  <2>3. CASE Answer(r, "error")
    BY <1>7, <2>1, <2>3, AnswerKeeps, AnswerAssumption DEF Publish, KeyInv, TypeOK, tables
  <2> QED BY <1>7, <2>2, <2>3 DEF Publish
<1>8. ASSUME NEW r \in Requests, QueryFails(r) PROVE KeyInv'
  <2>1. faults' \in 0..MaxFaults
    BY <1>8, NumbersAssumption DEF QueryFails, Fault, KeyInv, TypeOK
  <2> QED BY <1>8, <2>1, MoveKeeps DEF QueryFails, Abort, KeyInv, TypeOK, tables
<1>9. ASSUME NEW r \in Requests, LookupFails(r) PROVE KeyInv'
  <2>1. faults' \in 0..MaxFaults
    BY <1>9, NumbersAssumption DEF LookupFails, Fault, KeyInv, TypeOK
  <2> QED BY <1>9, <2>1, AnswerKeeps, AnswerAssumption DEF LookupFails, KeyInv, TypeOK, tables
<1>10. ASSUME NEW r \in Requests, Crash(r) PROVE KeyInv'
  <2>1. faults' \in 0..MaxFaults
    BY <1>10, NumbersAssumption DEF Crash, Fault, KeyInv, TypeOK
  <2> QED BY <1>10, <2>1, AnswerKeeps, AnswerAssumption DEF Crash, KeyInv, TypeOK, tables
<1>11. CASE UNCHANGED vars
  BY <1>11 DEF vars, KeyInv, TypeOK, OwnPurchase, KeyReserved, KeyUnique, AnswerFits, Together
<1> QED BY <1>1, <1>2, <1>3, <1>4, <1>5, <1>6, <1>7, <1>8, <1>9, <1>10, <1>11 DEF Next, Step

\* KeyInv holds in every state.
LEMMA KeyInvariant == Spec => []KeyInv
BY KeyInit, KeyStep, PTL DEF Spec

\* The purchase service keeps its types: a client only ever learns a purchase id.
THEOREM TypeCorrect == Spec => []TypeOK
BY KeyInvariant, PTL DEF KeyInv

\* One idempotency key makes one purchase, and everybody who used the key and got an
\* answer got that one, for any number of concurrent or repeated requests.
THEOREM IdempotencyKeyIsRespected == Spec => []OnePurchasePerKey
<1>1. KeyInv => OnePurchasePerKey
  BY DEF KeyInv, TypeOK, KeyUnique, AnswerFits, OnePurchasePerKey
<1> QED BY <1>1, KeyInvariant, PTL

-----------------------------------------------------------------------------
(* The refinement of PurchaseStore. *)

\* A call that is under way has not been answered.
Unanswered == \A r \in Requests : answer[r] = "none" \/ pc[r] = "done"

\* Answers are given by the last step of a call.
LEMMA UnansweredStep == TypeOK /\ Unanswered /\ [Next]_vars => Unanswered'
<1> SUFFICES ASSUME TypeOK, Unanswered, [Next]_vars PROVE Unanswered'
  OBVIOUS
<1> USE DEF TypeOK, Unanswered
<1>1. ASSUME NEW r \in Requests, NEW a, Answer(r, a) PROVE Unanswered'
  BY <1>1 DEF Answer
<1>2. ASSUME NEW r \in Requests, NEW l, pc[r] # "done", Goto(r, l), UNCHANGED answer PROVE Unanswered'
  BY <1>2 DEF Goto
<1>3. ASSUME NEW r \in Requests, PreCheck(r) PROVE Unanswered'
  BY <1>1, <1>2, <1>3 DEF PreCheck
<1>4. ASSUME NEW r \in Requests, SelectUser(r) \/ SaveUser(r) PROVE Unanswered'
  BY <1>2, <1>4 DEF SelectUser, SaveUser, Abort
<1>5. ASSUME NEW r \in Requests, SavePurchase(r) \/ SaveEvent(r) \/ QueryFails(r) PROVE Unanswered'
  BY <1>2, <1>5 DEF SavePurchase, SaveEvent, QueryFails, Abort
<1>6. ASSUME NEW r \in Requests, Catch(r) \/ Publish(r) \/ LookupFails(r) \/ Crash(r) PROVE Unanswered'
  BY <1>1, <1>6 DEF Catch, Publish, LookupFails, Crash
<1>7. CASE UNCHANGED vars
  BY <1>7 DEF vars
<1> QED BY <1>3, <1>4, <1>5, <1>6, <1>7 DEF Next, Step

\* Unanswered holds in every state.
LEMMA UnansweredInvariant == Spec => []Unanswered
<1>1. Init => Unanswered
  BY DEF Init, Unanswered
<1> QED BY <1>1, UnansweredStep, TypeCorrect, PTL DEF Spec

\* The commit of createPurchase is the Buy of the store: the unique index has made
\* sure that no purchase of the key is there.
LEMMA CommitBuys ==
    ASSUME KeyInv, Unanswered, NEW r \in Requests, SaveEvent(r)
    PROVE  Store!Buy(r)
<1>1. pc[r] = "event" /\ answer[r] = "none"
  BY DEF SaveEvent, Unanswered
<1>2. Store!Matching(r) = {}
  BY <1>1 DEF Store!Matching, KeyInv, TypeOK, OwnPurchase, KeyReserved
<1> QED BY <1>1, <1>2 DEF SaveEvent, Store!Buy

\* An answer with a purchase that a look-up has found is a Reply of the store.
LEMMA FoundReplies ==
    ASSUME KeyInv, Unanswered, NEW r \in Requests, pc[r] # "done", KeyOf[r] # None,
           NEW p \in FindByKey(KeyOf[r]), Answer(r, p), UNCHANGED tables
    PROVE  Store!Reply(r)
<1>1. answer[r] = "none"
  BY DEF Unanswered
<1>2. p \in Store!Matching(r)
  BY DEF Store!Matching, FindByKey
<1> QED BY <1>1, <1>2 DEF Store!Reply, Answer, tables

\* An error, and a death, of a call under way are failures of the store.
LEMMA ErrorsFail ==
    ASSUME Unanswered, NEW r \in Requests, pc[r] # "done", NEW a \in {"error", "lost"},
           Answer(r, a), UNCHANGED tables
    PROVE  Store!Fail(r)
BY DEF Unanswered, Store!Fail, Answer, tables

\* createPurchase implements the purchase store for any number of requests, keys,
\* failing queries and crashes: every step of it is a step of the store or changes
\* nothing that the store knows of.
THEOREM PurchaseImplementsStore == Spec => ActsAsStore
<1>1. Init => Store!Init
  BY DEF Init, Store!Init
<1>2. KeyInv /\ Unanswered /\ [Next]_vars => [Store!Next]_(Store!storeVars)
  <2> SUFFICES ASSUME KeyInv, Unanswered, [Next]_vars
               PROVE  Store!Next \/ UNCHANGED Store!storeVars
    OBVIOUS
  <2>0. ASSUME NEW r \in Requests, Store!Buy(r) \/ Store!Reply(r) \/ Store!Fail(r) PROVE Store!Next
    BY <2>0 DEF Store!Next, Store!Serve
  <2>1. ASSUME NEW r \in Requests, PreCheck(r) PROVE Store!Next \/ UNCHANGED Store!storeVars
    <3>1. CASE UNCHANGED answer
      BY <2>1, <3>1 DEF PreCheck, tables, Store!storeVars
    <3>2. CASE KeyOf[r] # None /\ \E p \in FindByKey(KeyOf[r]) : Answer(r, p)
      <4>1. PICK p \in FindByKey(KeyOf[r]) : Answer(r, p)
        BY <3>2
      <4>2. pc[r] # "done" /\ UNCHANGED tables
        BY <2>1 DEF PreCheck, tables
      <4> QED BY <2>0, <3>2, <4>1, <4>2, FoundReplies
    <3> QED BY <2>1, <3>1, <3>2 DEF PreCheck
  <2>2. ASSUME NEW r \in Requests, SelectUser(r) \/ SaveUser(r) \/ SavePurchase(r) \/ QueryFails(r)
        PROVE  UNCHANGED Store!storeVars
    BY <2>2 DEF SelectUser, SaveUser, SavePurchase, QueryFails, tables, Store!storeVars
  <2>3. ASSUME NEW r \in Requests, SaveEvent(r) PROVE Store!Next
    BY <2>0, <2>3, CommitBuys
  <2>4. ASSUME NEW r \in Requests, Catch(r) PROVE Store!Next
    <3>1. pc[r] # "done" /\ UNCHANGED tables
      BY <2>4 DEF Catch, tables
    <3>2. CASE Answer(r, "error")
      BY <2>0, <3>1, <3>2, ErrorsFail
    <3>3. CASE KeyOf[r] # None /\ \E p \in FindByKey(KeyOf[r]) : Answer(r, p)
      <4>1. PICK p \in FindByKey(KeyOf[r]) : Answer(r, p)
        BY <3>3
      <4> QED BY <2>0, <3>1, <3>3, <4>1, FoundReplies
    <3> QED BY <2>4, <3>2, <3>3 DEF Catch
  <2>5. ASSUME NEW r \in Requests, Publish(r) PROVE Store!Next
    <3>1. pc[r] = "publish" /\ UNCHANGED tables
      BY <2>5 DEF Publish, tables
    <3>2. CASE Answer(r, "error")
      BY <2>0, <3>1, <3>2, ErrorsFail
    <3>3. CASE Answer(r, r)
      <4>1. answer[r] = "none" /\ r \in Store!Matching(r)
        BY <3>1 DEF Unanswered, KeyInv, OwnPurchase, Store!Matching
      <4>2. Store!Reply(r)
        BY <3>1, <3>3, <4>1 DEF Store!Reply, Answer, tables
      <4> QED BY <2>0, <4>2
    <3> QED BY <2>5, <3>2, <3>3 DEF Publish
  <2>6. ASSUME NEW r \in Requests, LookupFails(r) \/ Crash(r) PROVE Store!Next
    <3>1. /\ pc[r] # "done"
          /\ UNCHANGED tables
          /\ Answer(r, "error") \/ Answer(r, "lost")
      BY <2>6 DEF LookupFails, Crash, tables
    <3> QED BY <2>0, <3>1, ErrorsFail
  <2>7. CASE UNCHANGED vars
    BY <2>7 DEF vars, Store!storeVars
  <2> QED BY <2>1, <2>2, <2>3, <2>4, <2>5, <2>6, <2>7 DEF Next, Step
<1> QED BY <1>1, <1>2, KeyInvariant, UnansweredInvariant, PTL DEF Spec, ActsAsStore, Store!Spec
-----------------------------------------------------------------------------
(* The race for a key. *)

\* Why the call of r failed, as long as nothing but the races of createPurchase made
\* it fail; a call that lost its key did so to a purchase that is there to be found.
FailureExplained(r) ==
    /\ answer[r] = "error" => pc[r] = "done"
    /\ pc[r] = "catch" => cause[r] # "none"
    /\ pc[r] = "catch" /\ cause[r] = "idempotencyKey" => KeyOf[r] # None /\ FindByKey(KeyOf[r]) # {}
    /\ faults = 0 => cause[r] # "other"
    /\ faults = 0 /\ answer[r] = "error" => cause[r] \in {"userKey", "range"}

RaceInv == \A r \in Requests : FailureExplained(r)

\* Purchases are never removed, so what a look-up finds it finds again.
LEMMA FoundStays ==
    ASSUME [Next]_vars, NEW k, FindByKey(k) # {}
    PROVE  FindByKey(k)' # {}
<1>1. purchases \subseteq purchases'
  BY DEF Next, Step, vars, tables, PreCheck, SelectUser, SaveUser, SavePurchase, SaveEvent,
         Catch, Publish, QueryFails, LookupFails, Crash
<1> QED BY <1>1 DEF FindByKey

\* Once a query has failed, nothing is claimed about the reasons of a failure.
LEMMA FaultsGrow == ASSUME TypeOK, Fault PROVE faults' # 0
BY NumbersAssumption DEF TypeOK, Fault

\* Every step of createPurchase keeps RaceInv.
LEMMA RaceStep == TypeOK /\ RaceInv /\ [Next]_vars => RaceInv'
<1> SUFFICES ASSUME TypeOK, RaceInv, [Next]_vars, NEW q \in Requests
             PROVE  FailureExplained(q)'
  BY DEF RaceInv
<1>0. FindByKey(KeyOf[q]) # {} => FindByKey(KeyOf[q])' # {}
  BY FoundStays
<1>1. FailureExplained(q)
  BY DEF RaceInv
<1>2. ASSUME NEW r \in Requests, PreCheck(r) PROVE FailureExplained(q)'
  BY <1>0, <1>1, <1>2, AnswerAssumption DEF PreCheck, FailureExplained, FindByKey, TypeOK, Goto, Answer, tables
<1>3. ASSUME NEW r \in Requests, SelectUser(r) PROVE FailureExplained(q)'
  BY <1>0, <1>1, <1>3 DEF SelectUser, FailureExplained, TypeOK, Goto
<1>4. ASSUME NEW r \in Requests, SaveUser(r) PROVE FailureExplained(q)'
  BY <1>0, <1>1, <1>4 DEF SaveUser, FailureExplained, TypeOK, Goto, Abort
<1>5. ASSUME NEW r \in Requests, SavePurchase(r) PROVE FailureExplained(q)'
  BY <1>0, <1>1, <1>5 DEF SavePurchase, KeyViolation, FailureExplained, TypeOK, Goto, Abort
<1>6. ASSUME NEW r \in Requests, SaveEvent(r) PROVE FailureExplained(q)'
  BY <1>0, <1>1, <1>6 DEF SaveEvent, FailureExplained, TypeOK, Goto
<1>7. ASSUME NEW r \in Requests, Catch(r) PROVE FailureExplained(q)'
  BY <1>0, <1>1, <1>7, AnswerAssumption DEF Catch, FailureExplained, FindByKey, TypeOK, Answer, tables
<1>8. ASSUME NEW r \in Requests, Publish(r) PROVE FailureExplained(q)'
  BY <1>0, <1>1, <1>8, FaultsGrow, AnswerAssumption DEF Publish, FailureExplained, TypeOK, Answer
<1>9. ASSUME NEW r \in Requests, QueryFails(r) PROVE FailureExplained(q)'
  BY <1>0, <1>1, <1>9, FaultsGrow DEF QueryFails, FailureExplained, TypeOK, Goto, Abort
<1>10. ASSUME NEW r \in Requests, LookupFails(r) PROVE FailureExplained(q)'
  BY <1>0, <1>1, <1>10, FaultsGrow DEF LookupFails, FailureExplained, TypeOK, Answer
<1>11. ASSUME NEW r \in Requests, Crash(r) PROVE FailureExplained(q)'
  BY <1>0, <1>1, <1>11, FaultsGrow DEF Crash, FailureExplained, TypeOK, Answer
<1>12. CASE UNCHANGED vars
  BY <1>0, <1>1, <1>12 DEF vars, FailureExplained
<1> QED BY <1>2, <1>3, <1>4, <1>5, <1>6, <1>7, <1>8, <1>9, <1>10, <1>11, <1>12 DEF Next, Step

\* Who loses the race for an idempotency key is answered with the winner's purchase,
\* whatever the number of requests.
THEOREM LosersGetThePurchase == Spec => []LostKeyRaceIsNoError
<1>1. Init => RaceInv
  BY DEF Init, RaceInv, FailureExplained
<1>2. RaceInv => LostKeyRaceIsNoError
  BY DEF RaceInv, FailureExplained, LostKeyRaceIsNoError
<1> QED BY <1>1, <1>2, RaceStep, TypeCorrect, PTL DEF Spec
=============================================================================
