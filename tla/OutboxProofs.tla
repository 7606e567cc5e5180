---------------------------- MODULE OutboxProofs ----------------------------
(***************************************************************************)
(* Safety of the outbox for any number of rows, handlers and pods, any      *)
(* maxAttempts and batchSize, and any number of lost answers and crashes.   *)
(*                                                                         *)
(* The proof is staged: TypeInv (types and ranges), then Ownership (the     *)
(* claim), then Delivery and Counting, each using the ones before it.       *)
(***************************************************************************)
EXTENDS Outbox, TLAPS

\* A worker that owns a row knows which one.
CurIsRow ==
    \A w \in Workers : pc[w] \in {"publish", "savePublished", "saveAttempt"} => cur[w] \in Rows

\* No worker holds an entity whose attempts were already used up when read.
SeenBelowMax == \A w \in Workers, r \in Rows : seen[w][r] < MaxAttempts

\* Only FAILED rows have used up their attempts.
OpenBelowMax == \A r \in Rows : status[r] # "FAILED" => attempts[r] < MaxAttempts

TypeInv == TypeOK /\ CurIsRow /\ SeenBelowMax /\ OpenBelowMax

\* A claimed row reads PUBLISHING until its owner saves, or PUBLISHED when the
\* owner's first save was written but its answer lost.
OwnedRowIsClaimed ==
    \A w \in Workers, r \in Rows : Owns(w, r) =>
        status[r] = "PUBLISHING" \/ (status[r] = "PUBLISHED" /\ pc[w] = "saveAttempt")

Ownership == OneOwnerPerRow /\ OwnedRowIsClaimed

-----------------------------------------------------------------------------
\* What Done leaves behind: the worker is back at the head of its loop.
LEMMA DoneType ==
    ASSUME TypeInv, NEW w \in Workers, NEW r \in Rows, Done(w, r)
    PROVE  /\ pc' \in [Workers -> PCs]
           /\ todo' \in [Workers -> SUBSET Rows]
           /\ cur' \in [Workers -> Rows \cup {None}]
           /\ seen' \in [Workers -> [Rows -> 0..MaxAttempts]]
           /\ CurIsRow'
           /\ SeenBelowMax'
<1>1. LoopHead(w, todo[w] \ {r}) \in {"release", "claim", "idle", "find"}
  BY DEF LoopHead
<1>2. /\ pc' \in [Workers -> PCs]
      /\ todo' \in [Workers -> SUBSET Rows]
      /\ cur' \in [Workers -> Rows \cup {None}]
  BY <1>1 DEF Done, TypeInv, TypeOK, PCs
<1>3. seen' \in [Workers -> [Rows -> 0..MaxAttempts]] /\ SeenBelowMax'
  BY MaxAttemptsAssumption DEF Done, TypeInv, TypeOK, SeenBelowMax
<1>4. CurIsRow'
  BY <1>1 DEF Done, TypeInv, TypeOK, CurIsRow, PCs
<1> QED BY <1>2, <1>3, <1>4

\* A dead pod's workers are idle with empty hands, the others do not notice.
LEMMA DeathForgets ==
    ASSUME TypeInv, NEW p, Die(p)
    PROVE  /\ pc' \in [Workers -> PCs]
           /\ todo' \in [Workers -> SUBSET Rows]
           /\ cur' \in [Workers -> Rows \cup {None}]
           /\ seen' \in [Workers -> [Rows -> 0..MaxAttempts]]
           /\ evicted' \in SUBSET Scanners
           /\ \A v \in Workers :
                \/ PodOf[v] # p /\ pc'[v] = pc[v] /\ cur'[v] = cur[v] /\ seen'[v] = seen[v]
                \/ PodOf[v] = p /\ pc'[v] = "idle" /\ \A r \in Rows : seen'[v][r] = 0
<1> DEFINE dead == {w \in Workers : PodOf[w] = p}
<1> USE DEF TypeInv, TypeOK
<1>1. pc' = [w \in Workers |-> IF w \in dead THEN "idle" ELSE pc[w]]
  BY DEF Die
<1>2. todo' = [w \in Workers |-> IF w \in dead THEN {} ELSE todo[w]]
  BY DEF Die
<1>3. cur' = [w \in Workers |-> IF w \in dead THEN None ELSE cur[w]]
  BY DEF Die
<1>4. seen' = [w \in Workers |-> IF w \in dead THEN [r \in Rows |-> 0] ELSE seen[w]]
  BY DEF Die
<1>5. pc' \in [Workers -> PCs]
  BY <1>1 DEF PCs
<1>6. todo' \in [Workers -> SUBSET Rows]
  BY <1>2
<1>7. cur' \in [Workers -> Rows \cup {None}]
  BY <1>3
<1>8. seen' \in [Workers -> [Rows -> 0..MaxAttempts]]
  <2>1. [r \in Rows |-> 0] \in [Rows -> 0..MaxAttempts]
    BY MaxAttemptsAssumption
  <2> QED BY <1>4, <2>1
<1>9. evicted' \in SUBSET Scanners
  BY DEF Die
<1>10. ASSUME NEW v \in Workers
       PROVE  \/ PodOf[v] # p /\ pc'[v] = pc[v] /\ cur'[v] = cur[v] /\ seen'[v] = seen[v]
              \/ PodOf[v] = p /\ pc'[v] = "idle" /\ \A r \in Rows : seen'[v][r] = 0
  <2>1. CASE v \in dead
    BY <1>1, <1>4, <2>1
  <2>2. CASE v \notin dead
    BY <1>1, <1>3, <1>4, <2>2
  <2> QED BY <2>1, <2>2
<1> QED BY <1>5, <1>6, <1>7, <1>8, <1>9, <1>10

\* An empty outbox has the types.
LEMMA TypeInit == Init => TypeInv
BY MaxAttemptsAssumption DEF Init, TypeInv, TypeOK, CurIsRow, SeenBelowMax, OpenBelowMax, Statuses, PCs

\* Every step keeps the types.  A saved counter stays at or below maxAttempts because
\* publishRecord only starts from a row that was still below it.
LEMMA TypeStep == TypeInv /\ [Next]_vars => TypeInv'
<1> SUFFICES ASSUME TypeInv, [Next]_vars PROVE TypeInv'
  OBVIOUS
<1> USE DEF TypeInv, TypeOK
<1>1. ASSUME NEW w \in Callers, NEW S \in SUBSET Rows, Create(w, S) PROVE TypeInv'
  BY <1>1 DEF Create, Goto, CurIsRow, SeenBelowMax, OpenBelowMax, Workers, Statuses, PCs, redis, history
<1>2. ASSUME NEW w \in Scanners, AcquireLock(w) PROVE TypeInv'
  BY <1>2 DEF AcquireLock, Goto, CurIsRow, SeenBelowMax, OpenBelowMax, Workers, PCs, db, history
<1>3. CASE LockExpires
  BY <1>3 DEF LockExpires, CurIsRow, SeenBelowMax, OpenBelowMax, db, local, history
<1>4. ASSUME NEW w \in Workers, NEW r \in Rows, Find(w, r) PROVE TypeInv'
  <2>1. CASE NothingToPublish(r)
    BY <1>4, <2>1, DoneType DEF Find, OpenBelowMax, db, redis, history
  <2>2. CASE ~NothingToPublish(r)
    <3>1. attempts[r] < MaxAttempts
      BY <2>2, MaxAttemptsAssumption DEF NothingToPublish
    <3>2. seen' = [seen EXCEPT ![w][r] = attempts[r]]
      BY <1>4, <2>2 DEF Find
    <3>3. seen' \in [Workers -> [Rows -> 0..MaxAttempts]] /\ SeenBelowMax'
      BY <3>1, <3>2 DEF SeenBelowMax
    <3>4. pc' \in [Workers -> PCs] /\ cur' \in [Workers -> Rows \cup {None}] /\ CurIsRow'
      BY <1>4, <2>2, ZenonT(60) DEF Find, Goto, CurIsRow, PCs
    <3> QED BY <1>4, <2>2, <3>3, <3>4 DEF Find, OpenBelowMax, db, redis, history
  <2> QED BY <2>1, <2>2
<1>5. ASSUME NEW w \in Workers, NEW r \in Rows, Claim(w, r) PROVE TypeInv'
  <2>1. CASE r \in Pending
    <3>1. status' \in [Rows -> Statuses] /\ OpenBelowMax'
      BY <1>5, <2>1 DEF Claim, ClaimForPublishing, Pending, OpenBelowMax, Statuses
    <3>5. cur' = [cur EXCEPT ![w] = r] /\ pc' = [pc EXCEPT ![w] = "publish"]
      BY <1>5, <2>1 DEF Claim, ClaimForPublishing, Goto
    <3>2. pc' \in [Workers -> PCs] /\ cur' \in [Workers -> Rows \cup {None}] /\ CurIsRow'
      BY <3>5 DEF CurIsRow, PCs
    <3> QED BY <1>5, <2>1, <3>1, <3>2 DEF Claim, ClaimForPublishing, SeenBelowMax, redis, history
  <2>2. CASE r \notin Pending
    BY <1>5, <2>2, DoneType DEF Claim, ClaimForPublishing, OpenBelowMax, redis, history
  <2> QED BY <2>1, <2>2
<1>6. ASSUME NEW w \in Workers, NEW B \in SUBSET Rows, Scan(w, B) PROVE TypeInv'
  <2>1. LoopHead(w, B) \in {"release", "claim", "idle", "find"}
    BY DEF LoopHead
  <2>2. \A r \in B : attempts[r] < MaxAttempts
    BY <1>6 DEF Scan, IsBatch, Pending, OpenBelowMax
  <2> QED BY <1>6, <2>1, <2>2, MaxAttemptsAssumption
          DEF Scan, Goto, CurIsRow, SeenBelowMax, OpenBelowMax, PCs, db, redis, history
<1>7. ASSUME NEW w \in Workers, Publish(w) PROVE TypeInv'
  <2>1. cur[w] \in Rows
    BY <1>7 DEF Publish, CurIsRow
  <2>2. pc' \in [Workers -> PCs] /\ CurIsRow'
    BY <1>7, <2>1 DEF Publish, PublishOutcome, Goto, CurIsRow, PCs
  <2>3. tries' \in [Rows -> Nat]
    BY <1>7, <2>1 DEF Publish
  <2>4. delivered' \in [Rows -> Nat] /\ faults' \in [Rows -> Nat]
    <3>1. /\ delivered' = delivered \/ delivered' = [delivered EXCEPT ![cur[w]] = @ + 1]
          /\ faults' = faults \/ faults' = [faults EXCEPT ![cur[w]] = @ + 1]
      BY <1>7 DEF Publish, PublishOutcome
    <3>2. [delivered EXCEPT ![cur[w]] = @ + 1] \in [Rows -> Nat]
      BY <2>1
    <3>3. [faults EXCEPT ![cur[w]] = @ + 1] \in [Rows -> Nat]
      BY <2>1
    <3> QED BY <3>1, <3>2, <3>3
  <2> QED BY <1>7, <2>2, <2>3, <2>4 DEF Publish, SeenBelowMax, OpenBelowMax, db, redis
<1>8. ASSUME NEW w \in Workers, SavePublished(w) PROVE TypeInv'
  <2> DEFINE r == cur[w]
  <2>1. r \in Rows
    BY <1>8 DEF SavePublished, CurIsRow
  <2>2. \/ UNCHANGED db
        \/ WritePublished(w, r)
    BY <1>8 DEF SavePublished
  <2>3. /\ status' \in [Rows -> Statuses]
        /\ attempts' \in [Rows -> 0..MaxAttempts]
        /\ OpenBelowMax'
    <3>1. CASE UNCHANGED db
      BY <3>1 DEF OpenBelowMax, db
    <3>2. CASE WritePublished(w, r)
      <4>1. seen[w][r] \in 0..MaxAttempts /\ seen[w][r] < MaxAttempts
        BY <2>1 DEF SeenBelowMax
      <4> QED BY <2>1, <3>2, <4>1 DEF WritePublished, OpenBelowMax, Statuses
    <3> QED BY <2>2, <3>1, <3>2
  <2>4. CASE Done(w, r) /\ UNCHANGED faults
    BY <1>8, <2>1, <2>3, <2>4, DoneType DEF SavePublished, redis
  <2>5. CASE faults' = [faults EXCEPT ![r] = @ + 1] /\ Goto(w, "saveAttempt") /\ UNCHANGED <<todo, cur, seen>>
    BY <1>8, <2>1, <2>3, <2>5 DEF SavePublished, Goto, CurIsRow, SeenBelowMax, PCs, redis
  <2> QED BY <1>8, <2>4, <2>5 DEF SavePublished
<1>9. ASSUME NEW w \in Workers, SaveAttempt(w) PROVE TypeInv'
  <2> DEFINE r == cur[w]
             n == NextAttempts(seen[w][r])
  <2>1. r \in Rows
    BY <1>9 DEF SaveAttempt, CurIsRow
  <2>2. n \in 0..MaxAttempts
    BY <2>1, MaxAttemptsAssumption DEF NextAttempts, SeenBelowMax
  <2>3. /\ status' \in [Rows -> Statuses]
        /\ attempts' \in [Rows -> 0..MaxAttempts]
        /\ OpenBelowMax'
    BY <1>9, <2>1, <2>2, MaxAttemptsAssumption DEF SaveAttempt, StatusAfterFailure, OpenBelowMax, Statuses
  <2> QED BY <1>9, <2>1, <2>3, DoneType DEF SaveAttempt, redis, history
<1>10. ASSUME NEW w \in Workers, ReleaseLock(w) PROVE TypeInv'
  BY <1>10 DEF ReleaseLock, Goto, CurIsRow, SeenBelowMax, OpenBelowMax, PCs, db, history
<1>11. ASSUME NEW w \in Workers, Throw(w) PROVE TypeInv'
  BY <1>11, MaxAttemptsAssumption DEF Throw, Goto, CurIsRow, SeenBelowMax, OpenBelowMax, PCs, db, redis
<1>12. ASSUME NEW p, Die(p), UNCHANGED <<db, tries, delivered, faults>>,
              lock' \in {lock, None}, crashes' \in Nat
       PROVE  TypeInv'
  <2>2. \A v \in Workers :
          \/ pc'[v] = pc[v] /\ cur'[v] = cur[v] /\ seen'[v] = seen[v]
          \/ pc'[v] = "idle" /\ \A r \in Rows : seen'[v][r] = 0
    BY <1>12, DeathForgets
  <2>3. CurIsRow'
    BY <2>2 DEF CurIsRow
  <2>4. SeenBelowMax'
    BY <2>2, MaxAttemptsAssumption DEF SeenBelowMax
  <2>1. CurIsRow' /\ SeenBelowMax'
    BY <2>3, <2>4
  <2> QED BY <1>12, <2>1, DeathForgets DEF OpenBelowMax, db
<1>14. ASSUME NEW w \in Workers, Abort(w) PROVE TypeInv'
  <2>1. lock' \in {lock, None}
    BY <1>14 DEF Abort
  <2>2. Die(PodOf[w]) /\ UNCHANGED <<db, tries, delivered, faults>> /\ crashes' \in Nat
    BY <1>14 DEF Abort, history
  <2> QED BY <1>12, <2>1, <2>2
<1>15. ASSUME NEW p \in Pods, Crash(p) PROVE TypeInv'
  BY <1>12, <1>15 DEF Crash
<1>13. CASE UNCHANGED vars
  BY <1>13 DEF vars, CurIsRow, SeenBelowMax, OpenBelowMax
<1> QED BY <1>1, <1>2, <1>3, <1>4, <1>5, <1>6, <1>7, <1>8, <1>9, <1>10, <1>11, <1>13, <1>14, <1>15 DEF Next, Work

\* The outbox keeps its types: in particular the attempts column never exceeds
\* maxAttempts, whatever stale copies are written back (publishRecord).
THEOREM TypeCorrect == Spec => []TypeOK
<1>1. Spec => []TypeInv
  BY TypeInit, TypeStep, PTL DEF Spec
<1> QED BY <1>1, PTL DEF TypeInv
-----------------------------------------------------------------------------
\* A step of worker w keeps Ownership when it moves nobody else, touches no row
\* that another worker has claimed, and w only gains rows that were PENDING.
LEMMA OwnershipKept ==
    ASSUME TypeInv, Ownership, NEW w \in Workers,
           \A v \in Workers : v # w => pc'[v] = pc[v] /\ cur'[v] = cur[v],
           \A r \in Rows : status'[r] = status[r] \/ Owns(w, r) \/ status[r] \in {"ABSENT", "PENDING"},
           \A r \in Rows : Owns(w, r)' =>
               /\ Owns(w, r) \/ status[r] = "PENDING"
               /\ status'[r] = "PUBLISHING" \/ (status'[r] = "PUBLISHED" /\ pc'[w] = "saveAttempt")
    PROVE  Ownership'
<1>1. ASSUME NEW r \in Rows, NEW v \in Workers, Owns(v, r)', v # w
      PROVE  Owns(v, r) /\ status'[r] = status[r] /\ pc'[v] = pc[v]
  <2>1. Owns(v, r) /\ pc'[v] = pc[v]
    BY <1>1 DEF Owns
  <2>2. ~Owns(w, r) /\ status[r] \notin {"ABSENT", "PENDING"}
    BY <1>1, <2>1 DEF Ownership, OneOwnerPerRow, OwnedRowIsClaimed
  <2> QED BY <2>1, <2>2
<1>2. OneOwnerPerRow'
  <2> SUFFICES ASSUME NEW r \in Rows, NEW u \in Workers, NEW v \in Workers,
                      Owns(u, r)', Owns(v, r)', v # w
               PROVE  u = v
    BY DEF OneOwnerPerRow
  <2>1. Owns(v, r) /\ status[r] # "PENDING"
    BY <1>1 DEF Ownership, OwnedRowIsClaimed
  <2>2. Owns(u, r)
    BY <1>1, <2>1
  <2> QED BY <2>1, <2>2 DEF Ownership, OneOwnerPerRow
<1>3. OwnedRowIsClaimed'
  <2> SUFFICES ASSUME NEW v \in Workers, NEW r \in Rows, Owns(v, r)'
               PROVE  status'[r] = "PUBLISHING" \/ (status'[r] = "PUBLISHED" /\ pc'[v] = "saveAttempt")
    BY DEF OwnedRowIsClaimed
  <2>1. CASE v = w
    BY <2>1
  <2>2. CASE v # w
    BY <1>1, <2>2 DEF Ownership, OwnedRowIsClaimed
  <2> QED BY <2>1, <2>2
<1> QED BY <1>2, <1>3 DEF Ownership

\* Done moves only w, and w owns nothing afterwards.
LEMMA DoneOwnsNothing ==
    ASSUME TypeInv, NEW w \in Workers, NEW r \in Rows, Done(w, r)
    PROVE  /\ \A v \in Workers : v # w => pc'[v] = pc[v] /\ cur'[v] = cur[v]
           /\ \A s \in Rows : ~Owns(w, s)'
BY DEF Done, LoopHead, Owns, TypeInv, TypeOK

\* Every step keeps Ownership: only claimForPublishing makes an owner, and it needs a
\* PENDING row, which nobody owns.
LEMMA OwnershipStep == TypeInv /\ Ownership /\ [Next]_vars => Ownership'
<1> SUFFICES ASSUME TypeInv, Ownership, [Next]_vars PROVE Ownership'
  OBVIOUS
<1>1. ASSUME NEW w \in Callers, NEW S \in SUBSET Rows, Create(w, S) PROVE Ownership'
  <2>1. w \in Workers
    BY DEF Workers
  <2>2. \A r \in Rows : ~Owns(w, r)'
    BY <1>1, <2>1 DEF Create, Goto, Owns, TypeInv, TypeOK
  <2>3. \A v \in Workers : v # w => pc'[v] = pc[v] /\ cur'[v] = cur[v]
    BY <1>1, <2>1 DEF Create, Goto, TypeInv, TypeOK
  <2>4. \A r \in Rows : status'[r] = status[r] \/ status[r] \in {"ABSENT", "PENDING"}
    BY <1>1 DEF Create, TypeInv, TypeOK
  <2> QED BY <2>1, <2>2, <2>3, <2>4, OwnershipKept
<1>2. ASSUME NEW w \in Scanners, AcquireLock(w) PROVE Ownership'
  <2>1. w \in Workers
    BY DEF Workers
  <2> QED BY <1>2, <2>1, OwnershipKept DEF AcquireLock, Goto, Owns, TypeInv, TypeOK, db
<1>3. CASE LockExpires
  BY <1>3 DEF LockExpires, Ownership, OneOwnerPerRow, OwnedRowIsClaimed, Owns, db, local
<1>4. ASSUME NEW w \in Workers, NEW r \in Rows, Find(w, r) PROVE Ownership'
  <2>1. UNCHANGED status
    BY <1>4 DEF Find, db
  <2>2. CASE NothingToPublish(r)
    BY <1>4, <2>1, <2>2, DoneOwnsNothing, OwnershipKept DEF Find
  <2>3. CASE ~NothingToPublish(r)
    <3>1. /\ \A v \in Workers : v # w => pc'[v] = pc[v] /\ cur'[v] = cur[v]
          /\ \A s \in Rows : ~Owns(w, s)'
      BY <1>4, <2>3 DEF Find, Goto, Owns, TypeInv, TypeOK
    <3> QED BY <2>1, <3>1, OwnershipKept
  <2> QED BY <2>2, <2>3
<1>5. ASSUME NEW w \in Workers, NEW r \in Rows, Claim(w, r) PROVE Ownership'
  <2>1. CASE r \in Pending
    <3>1. /\ status[r] = "PENDING"
          /\ status' = [status EXCEPT ![r] = "PUBLISHING"]
          /\ cur' = [cur EXCEPT ![w] = r]
          /\ pc' = [pc EXCEPT ![w] = "publish"]
      BY <1>5, <2>1 DEF Claim, ClaimForPublishing, Goto, Pending
    <3>2. \A v \in Workers : v # w => pc'[v] = pc[v] /\ cur'[v] = cur[v]
      BY <3>1 DEF TypeInv, TypeOK
    <3>3. \A s \in Rows : status'[s] = status[s] \/ status[s] = "PENDING"
      BY <3>1 DEF TypeInv, TypeOK
    <3>4. \A s \in Rows : Owns(w, s)' => s = r /\ status'[s] = "PUBLISHING"
      BY <3>1 DEF Owns, TypeInv, TypeOK
    <3> QED BY <3>1, <3>2, <3>3, <3>4, OwnershipKept
  <2>2. CASE r \notin Pending
    BY <1>5, <2>2, DoneOwnsNothing, OwnershipKept DEF Claim, ClaimForPublishing
  <2> QED BY <2>1, <2>2
<1>6. ASSUME NEW w \in Workers, NEW B \in SUBSET Rows, Scan(w, B) PROVE Ownership'
  <2>1. UNCHANGED <<status, cur>> /\ pc' = [pc EXCEPT ![w] = LoopHead(w, B)]
    BY <1>6 DEF Scan, Goto, db
  <2>2. \A r \in Rows : ~Owns(w, r)'
    BY <2>1 DEF LoopHead, Owns, TypeInv, TypeOK
  <2> QED BY <2>1, <2>2, OwnershipKept DEF TypeInv, TypeOK
<1>7. ASSUME NEW w \in Workers, Publish(w) PROVE Ownership'
  <2>1. /\ pc[w] = "publish"
        /\ UNCHANGED <<status, cur>>
        /\ \/ pc' = [pc EXCEPT ![w] = "savePublished"]
           \/ pc' = [pc EXCEPT ![w] = "saveAttempt"]
    BY <1>7 DEF Publish, PublishOutcome, Goto, db
  <2>2. \A r \in Rows : Owns(w, r)' => Owns(w, r) /\ status'[r] = "PUBLISHING"
    BY <2>1 DEF Owns, Ownership, OwnedRowIsClaimed
  <2> QED BY <2>1, <2>2, OwnershipKept DEF TypeInv, TypeOK
<1>8. ASSUME NEW w \in Workers, SavePublished(w) PROVE Ownership'
  <2> DEFINE r == cur[w]
  <2>1. r \in Rows /\ Owns(w, r) /\ status[r] = "PUBLISHING"
    BY <1>8 DEF SavePublished, TypeInv, CurIsRow, Owns, Ownership, OwnedRowIsClaimed
  <2>2. \/ UNCHANGED status
        \/ status' = [status EXCEPT ![r] = "PUBLISHED"]
    BY <1>8 DEF SavePublished, WritePublished, db
  <2>3. \A s \in Rows : status'[s] = status[s] \/ Owns(w, s)
    BY <2>1, <2>2 DEF TypeInv, TypeOK
  <2>4. CASE Done(w, r)
    BY <2>1, <2>3, <2>4, DoneOwnsNothing, OwnershipKept
  <2>5. CASE Goto(w, "saveAttempt") /\ UNCHANGED cur
    <3>1. \A v \in Workers : v # w => pc'[v] = pc[v] /\ cur'[v] = cur[v]
      BY <2>5 DEF Goto, TypeInv, TypeOK
    <3>2. pc'[w] = "saveAttempt"
      BY <2>5 DEF Goto, TypeInv, TypeOK
    <3>3. \A s \in Rows : Owns(w, s)' => s = r
      BY <2>5 DEF Owns
    <3>4. status'[r] \in {"PUBLISHING", "PUBLISHED"}
      BY <2>1, <2>2 DEF TypeInv, TypeOK
    <3> QED BY <2>1, <2>3, <3>1, <3>2, <3>3, <3>4, OwnershipKept
  <2> QED BY <1>8, <2>4, <2>5 DEF SavePublished
<1>9. ASSUME NEW w \in Workers, SaveAttempt(w) PROVE Ownership'
  <2> DEFINE r == cur[w]
  <2>1. r \in Rows /\ Owns(w, r)
    BY <1>9 DEF SaveAttempt, TypeInv, CurIsRow, Owns
  <2>2. \A s \in Rows : status'[s] = status[s] \/ Owns(w, s)
    BY <1>9, <2>1 DEF SaveAttempt, TypeInv, TypeOK
  <2>3. Done(w, r)
    BY <1>9 DEF SaveAttempt
  <2> QED BY <2>1, <2>2, <2>3, DoneOwnsNothing, OwnershipKept
<1>10. ASSUME NEW w \in Workers, ReleaseLock(w) PROVE Ownership'
  BY <1>10, OwnershipKept DEF ReleaseLock, Goto, Owns, TypeInv, TypeOK, db
<1>11. ASSUME NEW w \in Workers, Throw(w) PROVE Ownership'
  <2>1. /\ UNCHANGED status
        /\ \A v \in Workers : v # w => pc'[v] = pc[v] /\ cur'[v] = cur[v]
        /\ \A r \in Rows : ~Owns(w, r)'
    BY <1>11, NoneAssumption DEF Throw, Goto, Owns, TypeInv, TypeOK, db
  <2> QED BY <2>1, OwnershipKept
<1>13. ASSUME NEW p, Die(p), UNCHANGED db PROVE Ownership'
  <2>1. \A v \in Workers, r \in Rows : Owns(v, r)' => Owns(v, r) /\ pc'[v] = pc[v]
    BY <1>13, DeathForgets DEF Owns
  <2> QED BY <1>13, <2>1 DEF Ownership, OneOwnerPerRow, OwnedRowIsClaimed, db
<1>14. ASSUME NEW w \in Workers, Abort(w) PROVE Ownership'
  BY <1>13, <1>14 DEF Abort
<1>15. ASSUME NEW p \in Pods, Crash(p) PROVE Ownership'
  BY <1>13, <1>15 DEF Crash
<1>12. CASE UNCHANGED vars
  BY <1>12 DEF vars, Ownership, OneOwnerPerRow, OwnedRowIsClaimed, Owns
<1> QED BY <1>1, <1>2, <1>3, <1>4, <1>5, <1>6, <1>7, <1>8, <1>9, <1>10, <1>11, <1>12, <1>14, <1>15 DEF Next, Work

\* Types and Ownership together are inductive.
LEMMA OwnershipInvariant == Spec => [](TypeInv /\ Ownership)
<1>1. Init => Ownership
  BY DEF Init, Ownership, OneOwnerPerRow, OwnedRowIsClaimed, Owns
<1> QED BY <1>1, TypeInit, TypeStep, OwnershipStep, PTL DEF Spec

\* The conditional UPDATE of claimForPublishing gives a row at most one publisher
\* at a time, for any number of handlers and pods and with no help of the lock.
THEOREM ClaimIsExclusive == Spec => []OneOwnerPerRow
BY OwnershipInvariant, PTL DEF Ownership
-----------------------------------------------------------------------------
\* A row that may still be published has no surplus delivery: every copy beyond
\* the lost answers would need a second publish.
NoSurplus ==
    /\ \A r \in Rows : status[r] \in {"ABSENT", "PENDING"} => delivered[r] <= faults[r]
    /\ \A w \in Workers, r \in Rows :
         Owns(w, r) /\ pc[w] # "savePublished" => delivered[r] <= faults[r]

\* A worker about to save PUBLISHED has the broker's confirm.
ConfirmedWasDelivered ==
    \A w \in Workers, r \in Rows : Owns(w, r) /\ pc[w] = "savePublished" => delivered[r] > 0

Delivery == NoSurplus /\ ConfirmedWasDelivered /\ PublishedWasDelivered /\ DuplicatesNeedFaults

\* Attempts in the database and in memory only count publish calls that happened.
AttemptsAreTries ==
    /\ \A r \in Rows : attempts[r] <= tries[r]
    /\ \A w \in Workers, r \in Rows : seen[w][r] <= tries[r]
    /\ \A w \in Workers, r \in Rows : Owns(w, r) /\ pc[w] # "publish" => seen[w][r] < tries[r]

\* FAILED is only written with all attempts used up.
FailedIsExhausted == \A r \in Rows : status[r] = "FAILED" => attempts[r] >= MaxAttempts

Counting == AttemptsAreTries /\ FailedIsExhausted

\* Every step keeps Delivery: a second copy of an event is sent only by a later owner
\* of the row, after a fault.
LEMMA DeliveryStep == TypeInv /\ Ownership /\ Delivery /\ [Next]_vars => Delivery'
<1> SUFFICES ASSUME TypeInv, Ownership, Delivery, [Next]_vars PROVE Delivery'
  OBVIOUS
<1> USE DEF Delivery, NoSurplus, ConfirmedWasDelivered, PublishedWasDelivered, DuplicatesNeedFaults
\* Steps of w that publish nothing and save nothing: w owns nothing new.
<1>1. ASSUME NEW w \in Workers,
             UNCHANGED <<delivered, faults>>,
             \A v \in Workers : v # w => pc'[v] = pc[v] /\ cur'[v] = cur[v],
             \A r \in Rows : ~Owns(w, r)',
             \A r \in Rows : status'[r] = status[r] \/ (status[r] = "ABSENT" /\ status'[r] = "PENDING")
      PROVE  Delivery'
  BY <1>1 DEF Owns
<1>2. ASSUME NEW w \in Callers, NEW S \in SUBSET Rows, Create(w, S) PROVE Delivery'
  <2>1. w \in Workers
    BY DEF Workers
  <2>2. /\ \A v \in Workers : v # w => pc'[v] = pc[v] /\ cur'[v] = cur[v]
        /\ \A r \in Rows : ~Owns(w, r)'
    BY <1>2, <2>1 DEF Create, Goto, Owns, TypeInv, TypeOK
  <2> QED BY <1>1, <1>2, <2>1, <2>2 DEF Create, TypeInv, TypeOK, history
<1>3. ASSUME NEW w \in Scanners, AcquireLock(w) PROVE Delivery'
  <2>1. w \in Workers
    BY DEF Workers
  <2> QED BY <1>1, <1>3, <2>1 DEF AcquireLock, Goto, Owns, TypeInv, TypeOK, db, history
<1>4. CASE LockExpires
  BY <1>4 DEF LockExpires, Owns, db, local, history
<1>5. ASSUME NEW w \in Workers, NEW r \in Rows, Find(w, r) PROVE Delivery'
  <2>1. /\ \A v \in Workers : v # w => pc'[v] = pc[v] /\ cur'[v] = cur[v]
        /\ \A s \in Rows : ~Owns(w, s)'
    BY <1>5, DoneOwnsNothing DEF Find, Goto, Owns, TypeInv, TypeOK
  <2> QED BY <1>1, <1>5, <2>1 DEF Find, db, history
<1>6. ASSUME NEW w \in Workers, NEW r \in Rows, Claim(w, r) PROVE Delivery'
  <2>1. CASE r \in Pending
    <3>1. /\ status[r] = "PENDING"
          /\ status' = [status EXCEPT ![r] = "PUBLISHING"]
          /\ cur' = [cur EXCEPT ![w] = r]
          /\ pc' = [pc EXCEPT ![w] = "publish"]
          /\ UNCHANGED <<delivered, faults>>
      BY <1>6, <2>1 DEF Claim, ClaimForPublishing, Goto, Pending, history
    <3> QED BY <3>1 DEF Owns, TypeInv, TypeOK
  <2>2. CASE r \notin Pending
    BY <1>1, <1>6, <2>2, DoneOwnsNothing DEF Claim, ClaimForPublishing, history
  <2> QED BY <2>1, <2>2
<1>7. ASSUME NEW w \in Workers, NEW B \in SUBSET Rows, Scan(w, B) PROVE Delivery'
  <2>1. UNCHANGED <<status, cur>> /\ pc' = [pc EXCEPT ![w] = LoopHead(w, B)]
    BY <1>7 DEF Scan, Goto, db
  <2>2. \A r \in Rows : ~Owns(w, r)'
    BY <2>1 DEF LoopHead, Owns, TypeInv, TypeOK
  <2> QED BY <1>1, <1>7, <2>1, <2>2 DEF Scan, TypeInv, TypeOK, history
<1>8. ASSUME NEW w \in Workers, Publish(w) PROVE Delivery'
  <2> DEFINE r == cur[w]
  <2>1. r \in Rows /\ Owns(w, r) /\ status[r] = "PUBLISHING" /\ delivered[r] <= faults[r]
    BY <1>8 DEF Publish, TypeInv, CurIsRow, Owns, Ownership, OwnedRowIsClaimed
  <2>2. UNCHANGED <<status, cur>>
    BY <1>8 DEF Publish, db
  <2>3. \A v \in Workers : v # w => ~Owns(v, r)
    BY <2>1 DEF Ownership, OneOwnerPerRow
  <2>4. CASE delivered' = [delivered EXCEPT ![r] = @ + 1] /\ Goto(w, "savePublished") /\ UNCHANGED faults
    BY <2>1, <2>2, <2>3, <2>4 DEF Goto, Owns, TypeInv, TypeOK
  <2>5. CASE Goto(w, "saveAttempt") /\ UNCHANGED <<delivered, faults>>
    BY <2>1, <2>2, <2>3, <2>5 DEF Goto, Owns, TypeInv, TypeOK
  <2>6. CASE /\ delivered' = [delivered EXCEPT ![r] = @ + 1]
             /\ faults' = [faults EXCEPT ![r] = @ + 1]
             /\ Goto(w, "saveAttempt")
    BY <2>1, <2>2, <2>3, <2>6 DEF Goto, Owns, TypeInv, TypeOK
  <2> QED BY <1>8, <2>4, <2>5, <2>6 DEF Publish, PublishOutcome
<1>9. ASSUME NEW w \in Workers, SavePublished(w) PROVE Delivery'
  <2> DEFINE r == cur[w]
  <2>1. r \in Rows /\ Owns(w, r) /\ status[r] = "PUBLISHING" /\ delivered[r] > 0
    BY <1>9 DEF SavePublished, TypeInv, CurIsRow, Owns, Ownership, OwnedRowIsClaimed
  <2>2. UNCHANGED status \/ status' = [status EXCEPT ![r] = "PUBLISHED"]
    BY <1>9 DEF SavePublished, WritePublished, db
  <2>3. UNCHANGED delivered
    BY <1>9 DEF SavePublished
  <2>4. CASE Done(w, r) /\ UNCHANGED faults
    <3>1. /\ \A v \in Workers : v # w => pc'[v] = pc[v] /\ cur'[v] = cur[v]
          /\ \A s \in Rows : ~Owns(w, s)'
      BY <2>1, <2>4, DoneOwnsNothing
    <3>2. /\ status'[r] \notin {"ABSENT", "PENDING"}
          /\ \A s \in Rows : s # r => status'[s] = status[s]
      BY <2>1, <2>2 DEF TypeInv, TypeOK
    <3>3. NoSurplus' /\ ConfirmedWasDelivered'
      BY <2>3, <2>4, <3>1, <3>2 DEF Owns
    <3>4. PublishedWasDelivered' /\ DuplicatesNeedFaults'
      BY <2>1, <2>3, <2>4, <3>2
    <3> QED BY <3>3, <3>4
  <2>5. CASE faults' = [faults EXCEPT ![r] = @ + 1] /\ Goto(w, "saveAttempt") /\ UNCHANGED cur
    BY <2>1, <2>2, <2>3, <2>5 DEF Goto, Owns, TypeInv, TypeOK
  <2> QED BY <1>9, <2>4, <2>5 DEF SavePublished
<1>10. ASSUME NEW w \in Workers, SaveAttempt(w) PROVE Delivery'
  <2> DEFINE r == cur[w]
  <2>1. r \in Rows /\ Owns(w, r) /\ delivered[r] <= faults[r]
    BY <1>10 DEF SaveAttempt, TypeInv, CurIsRow, Owns
  <2>2. /\ UNCHANGED <<delivered, faults>>
        /\ \/ status' = [status EXCEPT ![r] = "FAILED"]
           \/ status' = [status EXCEPT ![r] = "PENDING"]
    BY <1>10 DEF SaveAttempt, StatusAfterFailure, history
  <2>3. /\ \A v \in Workers : v # w => pc'[v] = pc[v] /\ cur'[v] = cur[v]
        /\ \A s \in Rows : ~Owns(w, s)'
    BY <1>10, <2>1, DoneOwnsNothing DEF SaveAttempt
  <2>4. /\ status'[r] # "PUBLISHED"
        /\ \A s \in Rows : s # r => status'[s] = status[s]
    BY <2>1, <2>2 DEF TypeInv, TypeOK
  <2>5. NoSurplus' /\ ConfirmedWasDelivered'
    BY <2>1, <2>2, <2>3, <2>4 DEF Owns
  <2>6. PublishedWasDelivered' /\ DuplicatesNeedFaults'
    BY <2>2, <2>4
  <2> QED BY <2>5, <2>6
<1>11. ASSUME NEW w \in Workers, ReleaseLock(w) PROVE Delivery'
  BY <1>1, <1>11 DEF ReleaseLock, Goto, Owns, TypeInv, TypeOK, db, history
<1>12. ASSUME NEW w \in Workers, Throw(w) PROVE Delivery'
  <2>1. /\ UNCHANGED <<status, delivered, faults>>
        /\ \A v \in Workers : v # w => pc'[v] = pc[v] /\ cur'[v] = cur[v]
        /\ \A r \in Rows : ~Owns(w, r)'
    BY <1>12, NoneAssumption DEF Throw, Goto, Owns, TypeInv, TypeOK, db
  <2> QED BY <1>1, <2>1
<1>14. ASSUME NEW p, Die(p), UNCHANGED <<status, delivered, faults>> PROVE Delivery'
  <2>1. \A v \in Workers, r \in Rows : Owns(v, r)' => Owns(v, r) /\ pc'[v] = pc[v]
    BY <1>14, DeathForgets DEF Owns
  <2> QED BY <1>14, <2>1
<1>15. ASSUME NEW w \in Workers, Abort(w) PROVE Delivery'
  BY <1>14, <1>15 DEF Abort, db, history
<1>16. ASSUME NEW p \in Pods, Crash(p) PROVE Delivery'
  BY <1>14, <1>16 DEF Crash, db
<1>13. CASE UNCHANGED vars
  BY <1>13 DEF vars, Owns
<1> QED BY <1>2, <1>3, <1>4, <1>5, <1>6, <1>7, <1>8, <1>9, <1>10, <1>11, <1>12, <1>13, <1>15, <1>16 DEF Next, Work

\* Delivery holds in every state: PUBLISHED is saved after the confirm.
LEMMA DeliveryInvariant == Spec => []Delivery
<1>1. Init => Delivery
  BY DEF Init, Delivery, NoSurplus, ConfirmedWasDelivered, PublishedWasDelivered, DuplicatesNeedFaults, Owns
<1> QED BY <1>1, OwnershipInvariant, DeliveryStep, PTL DEF Spec

\* A row reads PUBLISHED only if RabbitMQ has accepted its event (publishRecord).
THEOREM PublishedIsDelivered == Spec => []PublishedWasDelivered
BY DeliveryInvariant, PTL DEF Delivery

\* RabbitMQ receives an event more than once only as often as an answer of the
\* broker or the database about it was lost.
THEOREM DuplicatesAreFaults == Spec => []DuplicatesNeedFaults
BY DeliveryInvariant, PTL DEF Delivery
-----------------------------------------------------------------------------
\* Forgetting entities and publishing more cannot break the counting.
LEMMA CountingKept ==
    ASSUME TypeInv, Counting, NEW w \in Workers,
           \A v \in Workers : v # w => pc'[v] = pc[v] /\ cur'[v] = cur[v] /\ seen'[v] = seen[v],
           \A r \in Rows : seen'[w][r] \in Nat /\ seen'[w][r] <= tries[r],
           \A r \in Rows : Owns(w, r)' /\ pc'[w] # "publish" => seen'[w][r] < tries'[r],
           \A r \in Rows : tries'[r] \in Nat /\ tries'[r] >= tries[r],
           \A r \in Rows : attempts'[r] \in Nat /\ attempts'[r] <= tries'[r],
           \A r \in Rows : status'[r] = "FAILED" => attempts'[r] >= MaxAttempts
    PROVE  Counting'
<1> USE DEF TypeInv, TypeOK, Counting, AttemptsAreTries
<1>1. \A v \in Workers, r \in Rows : seen'[v][r] \in Nat /\ seen'[v][r] <= tries'[r]
  <2> SUFFICES ASSUME NEW v \in Workers, NEW r \in Rows
               PROVE  seen'[v][r] \in Nat /\ seen'[v][r] <= tries'[r]
    OBVIOUS
  <2>1. CASE v = w
    BY <2>1
  <2>2. CASE v # w
    BY <2>2, MaxAttemptsAssumption
  <2> QED BY <2>1, <2>2
<1>2. ASSUME NEW v \in Workers, NEW r \in Rows, Owns(v, r)', pc'[v] # "publish"
      PROVE  seen'[v][r] < tries'[r]
  <2>1. CASE v = w
    BY <1>2, <2>1
  <2>2. CASE v # w
    <3>1. Owns(v, r) /\ pc[v] # "publish" /\ seen'[v] = seen[v]
      BY <1>2, <2>2 DEF Owns
    <3>2. seen[v][r] \in Nat /\ seen[v][r] < tries[r]
      BY <3>1, MaxAttemptsAssumption
    <3> QED BY <3>1, <3>2
  <2> QED BY <2>1, <2>2
<1> QED BY <1>1, <1>2 DEF FailedIsExhausted

\* A worker that owns nothing afterwards, over unchanged counters.
LEMMA CountingIdle ==
    ASSUME TypeInv, Counting, NEW w \in Workers,
           \A v \in Workers : v # w => pc'[v] = pc[v] /\ cur'[v] = cur[v] /\ seen'[v] = seen[v],
           \A r \in Rows : ~Owns(w, r)' \/ pc'[w] = "publish",
           \A r \in Rows : seen'[w][r] = seen[w][r] \/ seen'[w][r] = attempts[r] \/ seen'[w][r] = 0,
           UNCHANGED <<attempts, tries>>,
           \A r \in Rows : status'[r] = "FAILED" => status[r] = "FAILED"
    PROVE  Counting'
<1> USE DEF TypeInv, TypeOK, Counting, AttemptsAreTries
<1>1. \A r \in Rows : seen'[w][r] \in Nat /\ seen'[w][r] <= tries[r]
  BY MaxAttemptsAssumption
<1>2. \A r \in Rows : /\ tries'[r] \in Nat /\ tries'[r] >= tries[r]
                     /\ attempts'[r] \in Nat /\ attempts'[r] <= tries'[r]
  BY MaxAttemptsAssumption
<1>3. \A r \in Rows : status'[r] = "FAILED" => attempts'[r] >= MaxAttempts
  BY DEF FailedIsExhausted
<1> QED BY <1>1, <1>2, <1>3, CountingKept

\* After Done the worker remembers nothing of the row and the counters stand.
LEMMA DoneForgets ==
    ASSUME TypeInv, NEW w \in Workers, NEW r \in Rows, Done(w, r)
    PROVE  /\ \A v \in Workers : v # w => seen'[v] = seen[v]
           /\ \A s \in Rows : seen'[w][s] = seen[w][s] \/ seen'[w][s] = 0
BY DEF Done, TypeInv, TypeOK

\* The counting facts about one entity and its row, with the types they need.
CountsTries(w, r) ==
    /\ seen[w][r] \in Nat
    /\ tries[r] \in Nat
    /\ attempts[r] \in Nat
    /\ seen[w][r] <= tries[r]
    /\ attempts[r] <= tries[r]
    /\ (status[r] = "FAILED") => (attempts[r] >= MaxAttempts)

\* The counting invariant for one worker and one row.
LEMMA CountingFacts ==
    ASSUME TypeInv, Counting, NEW w \in Workers, NEW r \in Rows
    PROVE  CountsTries(w, r)
BY MaxAttemptsAssumption DEF CountsTries, Counting, AttemptsAreTries, FailedIsExhausted, TypeInv, TypeOK

\* Every step keeps Counting: publishRecord adds one to attempts after one publish.
LEMMA CountingStep == TypeInv /\ Ownership /\ Counting /\ [Next]_vars => Counting'
<1> SUFFICES ASSUME TypeInv, Ownership, Counting, [Next]_vars PROVE Counting'
  OBVIOUS
<1>1. ASSUME NEW w \in Callers, NEW S \in SUBSET Rows, Create(w, S) PROVE Counting'
  <2>1. w \in Workers
    BY DEF Workers
  <2>2. /\ \A v \in Workers : v # w => pc'[v] = pc[v] /\ cur'[v] = cur[v] /\ seen'[v] = seen[v]
        /\ \A r \in Rows : ~Owns(w, r)'
        /\ UNCHANGED <<attempts, tries, seen>>
    BY <1>1, <2>1 DEF Create, Goto, Owns, TypeInv, TypeOK, history
  <2>3. \A r \in Rows : status'[r] = "FAILED" => status[r] = "FAILED"
    BY <1>1 DEF Create, TypeInv, TypeOK
  <2> QED BY <2>1, <2>2, <2>3, CountingIdle
<1>2. ASSUME NEW w \in Scanners, AcquireLock(w) PROVE Counting'
  <2>1. w \in Workers
    BY DEF Workers
  <2> QED BY <1>2, <2>1, CountingIdle DEF AcquireLock, Goto, Owns, TypeInv, TypeOK, db, history
<1>3. CASE LockExpires
  BY <1>3 DEF LockExpires, Counting, AttemptsAreTries, FailedIsExhausted, Owns, db, local, history
<1>4. ASSUME NEW w \in Workers, NEW r \in Rows, Find(w, r) PROVE Counting'
  <2>1. UNCHANGED <<status, attempts, tries>>
    BY <1>4 DEF Find, db, history
  <2>2. CASE NothingToPublish(r)
    BY <1>4, <2>1, <2>2, DoneOwnsNothing, DoneForgets, CountingIdle DEF Find
  <2>3. CASE ~NothingToPublish(r)
    <3>1. /\ \A v \in Workers : v # w => pc'[v] = pc[v] /\ cur'[v] = cur[v]
          /\ \A s \in Rows : ~Owns(w, s)'
      BY <1>4, <2>3 DEF Find, Goto, Owns, TypeInv, TypeOK
    <3>2. seen' = [seen EXCEPT ![w][r] = attempts[r]]
      BY <1>4, <2>3 DEF Find
    <3>3. /\ \A v \in Workers : v # w => seen'[v] = seen[v]
          /\ \A s \in Rows : seen'[w][s] = seen[w][s] \/ seen'[w][s] = attempts[s]
      BY <3>2 DEF TypeInv, TypeOK
    <3> QED BY <2>1, <3>1, <3>3, CountingIdle
  <2> QED BY <2>2, <2>3
<1>5. ASSUME NEW w \in Workers, NEW r \in Rows, Claim(w, r) PROVE Counting'
  <2>1. UNCHANGED <<attempts, tries>>
    BY <1>5 DEF Claim, history
  <2>2. CASE r \in Pending
    <3>1. /\ status' = [status EXCEPT ![r] = "PUBLISHING"]
          /\ cur' = [cur EXCEPT ![w] = r]
          /\ pc' = [pc EXCEPT ![w] = "publish"]
          /\ UNCHANGED seen
      BY <1>5, <2>2 DEF Claim, ClaimForPublishing, Goto
    <3>2. /\ \A v \in Workers : v # w => pc'[v] = pc[v] /\ cur'[v] = cur[v]
          /\ pc'[w] = "publish"
          /\ \A s \in Rows : status'[s] = "FAILED" => status[s] = "FAILED"
      BY <3>1 DEF TypeInv, TypeOK
    <3> QED BY <2>1, <3>1, <3>2, CountingIdle
  <2>3. CASE r \notin Pending
    BY <1>5, <2>1, <2>3, DoneOwnsNothing, DoneForgets, CountingIdle DEF Claim, ClaimForPublishing
  <2> QED BY <2>2, <2>3
<1>6. ASSUME NEW w \in Workers, NEW B \in SUBSET Rows, Scan(w, B) PROVE Counting'
  <2>1. /\ UNCHANGED <<status, attempts, tries, cur>>
        /\ pc' = [pc EXCEPT ![w] = LoopHead(w, B)]
        /\ seen' = [seen EXCEPT ![w] = [r \in Rows |-> IF r \in B THEN attempts[r] ELSE 0]]
    BY <1>6 DEF Scan, Goto, db, history
  <2>2. \A r \in Rows : ~Owns(w, r)'
    BY <2>1 DEF LoopHead, Owns, TypeInv, TypeOK
  <2>3. /\ \A v \in Workers : v # w => pc'[v] = pc[v] /\ cur'[v] = cur[v] /\ seen'[v] = seen[v]
        /\ \A r \in Rows : seen'[w][r] = attempts[r] \/ seen'[w][r] = 0
    BY <2>1 DEF TypeInv, TypeOK
  <2> QED BY <2>1, <2>2, <2>3, CountingIdle
<1>7. ASSUME NEW w \in Workers, Publish(w) PROVE Counting'
  <2> DEFINE r == cur[w]
  <2>1. r \in Rows
    BY <1>7 DEF Publish, TypeInv, CurIsRow
  <2>2. /\ UNCHANGED <<status, attempts, cur, seen>>
        /\ \A v \in Workers : v # w => pc'[v] = pc[v]
    BY <1>7 DEF Publish, PublishOutcome, Goto, TypeInv, TypeOK, db
  <2>3. /\ tries'[r] = tries[r] + 1
        /\ \A s \in Rows : tries'[s] \in Nat /\ tries'[s] >= tries[s]
    BY <1>7, <2>1 DEF Publish, TypeInv, TypeOK
  <2>4. \A s \in Rows : Owns(w, s)' => s = r
    BY <2>2 DEF Owns
  <2>5. \A s \in Rows : CountsTries(w, s)
    BY CountingFacts
  <2>6. seen'[w][r] < tries'[r]
    BY <2>1, <2>2, <2>3, <2>5 DEF CountsTries
  <2>7. \A s \in Rows : attempts'[s] \in Nat /\ attempts'[s] <= tries'[s]
    BY <2>2, <2>3, <2>5 DEF CountsTries
  <2>8. \A s \in Rows : seen'[w][s] \in Nat /\ seen'[w][s] <= tries[s]
    BY <2>2, <2>5 DEF CountsTries
  <2>9. \A s \in Rows : status'[s] = "FAILED" => attempts'[s] >= MaxAttempts
    BY <2>2, <2>5 DEF CountsTries
  <2>10. \A v \in Workers : v # w => pc'[v] = pc[v] /\ cur'[v] = cur[v] /\ seen'[v] = seen[v]
    BY <2>2
  <2> QED BY <2>3, <2>4, <2>6, <2>7, <2>8, <2>9, <2>10, CountingKept
<1>8. ASSUME NEW w \in Workers, SavePublished(w) PROVE Counting'
  <2> DEFINE r == cur[w]
  <2>1. r \in Rows /\ Owns(w, r) /\ pc[w] = "savePublished" /\ UNCHANGED tries
    BY <1>8 DEF SavePublished, TypeInv, CurIsRow, Owns
  <2>2. \A s \in Rows : CountsTries(w, s)
    BY CountingFacts
  <2>3. seen[w][r] < tries[r]
    BY <2>1 DEF Counting, AttemptsAreTries
  <2>4. /\ \A s \in Rows : attempts'[s] \in Nat /\ attempts'[s] <= tries'[s]
        /\ \A s \in Rows : status'[s] = "FAILED" => attempts'[s] >= MaxAttempts
    <3>1. CASE UNCHANGED db
      BY <2>1, <2>2, <3>1 DEF db, CountsTries
    <3>2. CASE WritePublished(w, r)
      <4>1. /\ attempts'[r] = seen[w][r] /\ status'[r] = "PUBLISHED"
            /\ \A s \in Rows : s # r => attempts'[s] = attempts[s] /\ status'[s] = status[s]
        BY <2>1, <3>2 DEF WritePublished, TypeInv, TypeOK
      <4> QED BY <2>1, <2>2, <4>1 DEF CountsTries
    <3> QED BY <1>8, <3>1, <3>2 DEF SavePublished
  <2>7. \A s \in Rows : tries'[s] \in Nat /\ tries'[s] >= tries[s]
    BY <2>1, <2>2 DEF CountsTries
  <2>5. CASE Done(w, r)
    <3>1. /\ \A v \in Workers : v # w => pc'[v] = pc[v] /\ cur'[v] = cur[v] /\ seen'[v] = seen[v]
          /\ \A s \in Rows : ~Owns(w, s)'
          /\ \A s \in Rows : seen'[w][s] = seen[w][s] \/ seen'[w][s] = 0
      BY <2>1, <2>5, DoneOwnsNothing, DoneForgets
    <3>2. \A s \in Rows : seen'[w][s] \in Nat /\ seen'[w][s] <= tries[s]
      BY <2>2, <3>1 DEF CountsTries
    <3> QED BY <2>4, <2>7, <3>1, <3>2, CountingKept
  <2>6. CASE Goto(w, "saveAttempt") /\ UNCHANGED <<todo, cur, seen>>
    <3>1. \A v \in Workers : v # w => pc'[v] = pc[v] /\ cur'[v] = cur[v] /\ seen'[v] = seen[v]
      BY <2>6 DEF Goto, TypeInv, TypeOK
    <3>2. \A s \in Rows : Owns(w, s)' => seen'[w][s] < tries'[s]
      BY <2>1, <2>3, <2>6 DEF Owns
    <3>3. \A s \in Rows : seen'[w][s] \in Nat /\ seen'[w][s] <= tries[s]
      BY <2>2, <2>6 DEF CountsTries
    <3> QED BY <2>4, <2>7, <3>1, <3>2, <3>3, CountingKept
  <2> QED BY <1>8, <2>5, <2>6 DEF SavePublished
<1>9. ASSUME NEW w \in Workers, SaveAttempt(w) PROVE Counting'
  <2> DEFINE r == cur[w]
  <2>1. r \in Rows /\ Owns(w, r) /\ pc[w] = "saveAttempt" /\ UNCHANGED tries
    BY <1>9 DEF SaveAttempt, TypeInv, CurIsRow, Owns, history
  <2>2. \A s \in Rows : CountsTries(w, s)
    BY CountingFacts
  <2>3. seen[w][r] < tries[r]
    BY <2>1 DEF Counting, AttemptsAreTries
  <2>4. /\ attempts' = [attempts EXCEPT ![r] = seen[w][r] + 1]
        /\ status' = [status EXCEPT ![r] = IF seen[w][r] + 1 >= MaxAttempts THEN "FAILED" ELSE "PENDING"]
        /\ Done(w, r)
    BY <1>9 DEF SaveAttempt, NextAttempts, StatusAfterFailure
  <2>5. /\ attempts'[r] = seen[w][r] + 1
        /\ status'[r] = "FAILED" => seen[w][r] + 1 >= MaxAttempts
        /\ \A s \in Rows : s # r => attempts'[s] = attempts[s] /\ status'[s] = status[s]
    BY <2>1, <2>4 DEF TypeInv, TypeOK
  <2>6. /\ \A s \in Rows : attempts'[s] \in Nat /\ attempts'[s] <= tries'[s]
        /\ \A s \in Rows : status'[s] = "FAILED" => attempts'[s] >= MaxAttempts
    BY <2>1, <2>2, <2>3, <2>5 DEF CountsTries
  <2>7. /\ \A v \in Workers : v # w => pc'[v] = pc[v] /\ cur'[v] = cur[v] /\ seen'[v] = seen[v]
        /\ \A s \in Rows : ~Owns(w, s)'
        /\ \A s \in Rows : seen'[w][s] = seen[w][s] \/ seen'[w][s] = 0
    BY <2>1, <2>4, DoneOwnsNothing, DoneForgets
  <2>8. \A s \in Rows : seen'[w][s] \in Nat /\ seen'[w][s] <= tries[s]
    BY <2>2, <2>7 DEF CountsTries
  <2>9. \A s \in Rows : tries'[s] \in Nat /\ tries'[s] >= tries[s]
    BY <2>1, <2>2 DEF CountsTries
  <2> QED BY <2>6, <2>7, <2>8, <2>9, CountingKept
<1>10. ASSUME NEW w \in Workers, ReleaseLock(w) PROVE Counting'
  BY <1>10, CountingIdle DEF ReleaseLock, Goto, Owns, TypeInv, TypeOK, db, history
<1>11. ASSUME NEW w \in Workers, Throw(w) PROVE Counting'
  <2>1. /\ UNCHANGED <<status, attempts, tries>>
        /\ \A v \in Workers : v # w => pc'[v] = pc[v] /\ cur'[v] = cur[v] /\ seen'[v] = seen[v]
        /\ \A r \in Rows : ~Owns(w, r)' /\ seen'[w][r] = 0
    BY <1>11, NoneAssumption DEF Throw, Goto, Owns, TypeInv, TypeOK, db
  <2> QED BY <2>1, CountingIdle
<1>13. ASSUME NEW p, Die(p), UNCHANGED <<status, attempts, tries>> PROVE Counting'
  <2>1. ASSUME NEW v \in Workers, NEW r \in Rows
        PROVE  /\ seen'[v][r] <= tries'[r]
               /\ Owns(v, r)' /\ pc'[v] # "publish" => seen'[v][r] < tries'[r]
    <3>1. CountsTries(v, r)
      BY CountingFacts
    <3>2. CASE pc'[v] = pc[v] /\ cur'[v] = cur[v] /\ seen'[v] = seen[v]
      BY <1>13, <3>1, <3>2 DEF CountsTries, Owns, Counting, AttemptsAreTries
    <3>3. CASE pc'[v] = "idle" /\ seen'[v][r] = 0
      BY <1>13, <3>1, <3>3 DEF CountsTries, Owns
    <3> QED BY <1>13, <3>2, <3>3, DeathForgets
  <2> QED BY <1>13, <2>1 DEF Counting, AttemptsAreTries, FailedIsExhausted
<1>14. ASSUME NEW w \in Workers, Abort(w) PROVE Counting'
  BY <1>13, <1>14 DEF Abort, db, history
<1>15. ASSUME NEW p \in Pods, Crash(p) PROVE Counting'
  BY <1>13, <1>15 DEF Crash, db
<1>12. CASE UNCHANGED vars
  BY <1>12 DEF vars, Counting, AttemptsAreTries, FailedIsExhausted, Owns
<1> QED BY <1>1, <1>2, <1>3, <1>4, <1>5, <1>6, <1>7, <1>8, <1>9, <1>10, <1>11, <1>12, <1>14, <1>15 DEF Next, Work

\* The scanner never gives a row up before it was really tried maxAttempts times.
THEOREM FailedWasTried == Spec => []NeverGivesUpEarly
<1>1. Init => Counting
  BY DEF Init, Counting, AttemptsAreTries, FailedIsExhausted, Owns
<1>2. Spec => [](TypeInv /\ Counting)
  BY <1>1, OwnershipInvariant, CountingStep, PTL DEF Spec
<1>3. TypeInv /\ Counting => NeverGivesUpEarly
  BY MaxAttemptsAssumption DEF TypeInv, TypeOK, Counting, AttemptsAreTries, FailedIsExhausted, NeverGivesUpEarly
<1> QED BY <1>2, <1>3, PTL
-----------------------------------------------------------------------------
\* Only the TTL takes the Redis key from a scanner that is inside a batch: the
\* compare-and-delete of releaseLock cannot remove another pod's key.
THEOREM LockLostOnlyByExpiry == Spec => []OnlyExpiryLosesTheLock
<1>1. Init => OnlyExpiryLosesTheLock
  BY DEF Init, OnlyExpiryLosesTheLock, Workers
<1>2. TypeInv /\ OnlyExpiryLosesTheLock /\ [Next]_vars => OnlyExpiryLosesTheLock'
  <2> SUFFICES ASSUME TypeInv, OnlyExpiryLosesTheLock, [Next]_vars, NEW v \in Scanners,
                      pc'[v] # "idle", v \notin evicted'
               PROVE  lock' = v
    BY DEF OnlyExpiryLosesTheLock
  <2> USE DEF OnlyExpiryLosesTheLock, TypeInv, TypeOK
  <2>0. v \in Workers /\ v # None
    BY NoneAssumption DEF Workers
  \* A worker that neither leaves idle nor touches Redis keeps v where it was.
  <2>1. ASSUME NEW w \in Workers, UNCHANGED redis, pc[w] # "idle",
               \A u \in Workers : u # w => pc'[u] = pc[u]
        PROVE  lock' = v
    BY <2>0, <2>1 DEF redis
  <2>2. ASSUME NEW w \in Callers, NEW S \in SUBSET Rows, Create(w, S) PROVE lock' = v
    <3>1. w # v
      BY WorkersAssumption
    <3> QED BY <2>0, <2>2, <3>1 DEF Create, Goto, redis, Workers
  <2>3. ASSUME NEW w \in Scanners, AcquireLock(w) PROVE lock' = v
    BY <2>0, <2>3 DEF AcquireLock, Goto, Workers
  <2>4. CASE LockExpires
    BY <2>0, <2>4 DEF LockExpires, local
  <2>5. ASSUME NEW w \in Workers, NEW r \in Rows, Find(w, r) \/ Claim(w, r) PROVE lock' = v
    <3>1. \A u \in Workers : u # w => pc'[u] = pc[u]
      BY <2>5 DEF Find, Claim, ClaimForPublishing, Goto, Done
    <3> QED BY <2>1, <2>5, <3>1 DEF Find, Claim
  <2>6. ASSUME NEW w \in Workers, NEW B \in SUBSET Rows, Scan(w, B) PROVE lock' = v
    BY <2>1, <2>6 DEF Scan, Goto
  <2>7. ASSUME NEW w \in Workers, Publish(w) \/ SavePublished(w) \/ SaveAttempt(w) PROVE lock' = v
    <3>1. \A u \in Workers : u # w => pc'[u] = pc[u]
      BY <2>7 DEF Publish, PublishOutcome, SavePublished, SaveAttempt, Goto, Done
    <3> QED BY <2>1, <2>7, <3>1 DEF Publish, SavePublished, SaveAttempt
  <2>8. ASSUME NEW w \in Workers, ReleaseLock(w) PROVE lock' = v
    BY <2>0, <2>8 DEF ReleaseLock, Goto
  <2>9. ASSUME NEW w \in Workers, Throw(w) PROVE lock' = v
    BY <2>1, <2>9 DEF Throw, Goto
  <2>12. ASSUME NEW p, Die(p)
         PROVE  PodOf[v] # p /\ pc[v] # "idle" /\ v \notin evicted
    BY <2>0, <2>12, DeathForgets DEF Die
  <2>13. ASSUME NEW w \in Workers, Abort(w) PROVE lock' = v
    BY <2>0, <2>12, <2>13 DEF Abort
  <2>10. ASSUME NEW p \in Pods, Crash(p) PROVE lock' = v
    BY <2>0, <2>10, <2>12 DEF Crash
  <2>11. CASE UNCHANGED vars
    BY <2>0, <2>11 DEF vars
  <2> QED BY <2>2, <2>3, <2>4, <2>5, <2>6, <2>7, <2>8, <2>9, <2>10, <2>11, <2>13 DEF Next, Work
<1> QED BY <1>1, <1>2, OwnershipInvariant, PTL DEF Spec

\* FAILED rows are never touched again, PUBLISHED rows only by the catch block of
\* the worker that wrote PUBLISHED and did not hear back.
THEOREM SettledRowsAreStable == Spec => SettledRowsStay
<1> DEFINE Keeps == \A r \in Rows :
                /\ status[r] = "FAILED" => status'[r] = "FAILED"
                /\ status[r] = "PUBLISHED" /\ status'[r] # "PUBLISHED" =>
                     \E w \in Workers : Owns(w, r) /\ pc[w] = "saveAttempt"
<1>1. TypeInv /\ Ownership /\ [Next]_vars => Keeps
  <2> SUFFICES ASSUME TypeInv, Ownership, [Next]_vars, NEW r \in Rows, status'[r] # status[r]
               PROVE  \/ status[r] \in {"ABSENT", "PENDING", "PUBLISHING"}
                      \/ status[r] = "PUBLISHED" /\ \E w \in Workers : Owns(w, r) /\ pc[w] = "saveAttempt"
    OBVIOUS
  <2> USE DEF TypeInv, TypeOK
  <2>1. ASSUME NEW w \in Callers, NEW S \in SUBSET Rows, Create(w, S) PROVE status[r] = "ABSENT"
    BY <2>1 DEF Create
  <2>2. ASSUME NEW w \in Workers, NEW s \in Rows, Claim(w, s) PROVE status[r] = "PENDING"
    BY <2>2 DEF Claim, ClaimForPublishing, Pending
  <2>3. ASSUME NEW w \in Workers, SavePublished(w) PROVE status[r] = "PUBLISHING"
    <3>1. r = cur[w] /\ Owns(w, r)
      BY <2>3 DEF SavePublished, WritePublished, Owns, db
    <3> QED BY <2>3, <3>1 DEF SavePublished, Ownership, OwnedRowIsClaimed
  <2>4. ASSUME NEW w \in Workers, SaveAttempt(w)
        PROVE  Owns(w, r) /\ pc[w] = "saveAttempt" /\ status[r] \in {"PUBLISHING", "PUBLISHED"}
    <3>1. r = cur[w] /\ Owns(w, r)
      BY <2>4 DEF SaveAttempt, Owns
    <3> QED BY <2>4, <3>1 DEF SaveAttempt, Ownership, OwnedRowIsClaimed
  <2>5. CASE UNCHANGED status
    BY <2>5
  <2>6. ASSUME NEW w \in Scanners, AcquireLock(w) PROVE UNCHANGED status
    BY <2>6 DEF AcquireLock, db
  <2>7. ASSUME NEW w \in Workers, NEW s \in Rows, Find(w, s) PROVE UNCHANGED status
    BY <2>7 DEF Find, db
  <2>8. ASSUME NEW w \in Workers, NEW B \in SUBSET Rows, Scan(w, B) PROVE UNCHANGED status
    BY <2>8 DEF Scan, db
  <2>9. ASSUME NEW w \in Workers, Publish(w) \/ ReleaseLock(w) \/ Throw(w) \/ Abort(w)
        PROVE  UNCHANGED status
    BY <2>9 DEF Publish, ReleaseLock, Throw, Abort, db
  <2>11. ASSUME NEW p \in Pods, Crash(p) PROVE UNCHANGED status
    BY <2>11 DEF Crash, db
  <2>10. LockExpires \/ UNCHANGED vars => UNCHANGED status
    BY DEF LockExpires, vars, db
  <2> QED BY <2>1, <2>2, <2>3, <2>4, <2>5, <2>6, <2>7, <2>8, <2>9, <2>10, <2>11 DEF Next, Work
<1>2. TypeInv /\ Ownership /\ [Next]_vars => [Keeps]_vars
  BY <1>1
<1> QED BY <1>2, OwnershipInvariant, PTL DEF Spec, SettledRowsStay
-----------------------------------------------------------------------------
(* The outbox implements EventRelay. *)

\* A failed batch was counted as a loss when it threw.
AbortIsALoss == \A w \in Workers : pc[w] = "abort" => crashes > 0

\* Every step keeps AbortIsALoss.
LEMMA AbortStep == TypeInv /\ AbortIsALoss /\ [Next]_vars => AbortIsALoss'
<1> SUFFICES ASSUME TypeInv, AbortIsALoss, [Next]_vars PROVE AbortIsALoss'
  OBVIOUS
<1> USE DEF TypeInv, TypeOK, AbortIsALoss
<1>1. ASSUME crashes' = crashes, \A v \in Workers : pc'[v] = "abort" => pc[v] = "abort"
      PROVE  AbortIsALoss'
  BY <1>1
<1>2. ASSUME crashes' = crashes + 1 PROVE AbortIsALoss'
  BY <1>2
<1>3. ASSUME NEW w \in Callers, NEW S \in SUBSET Rows, Create(w, S) PROVE AbortIsALoss'
  BY <1>1, <1>3 DEF Create, Goto, Workers, history
<1>4. ASSUME NEW w \in Scanners, AcquireLock(w) PROVE AbortIsALoss'
  BY <1>1, <1>4 DEF AcquireLock, Goto, Workers, history
<1>5. CASE LockExpires
  BY <1>1, <1>5 DEF LockExpires, local, history
<1>6. ASSUME NEW w \in Workers, NEW r \in Rows, Find(w, r) \/ Claim(w, r) PROVE AbortIsALoss'
  BY <1>1, <1>6 DEF Find, Claim, ClaimForPublishing, Done, LoopHead, Goto, history
<1>7. ASSUME NEW w \in Workers, NEW B \in SUBSET Rows, Scan(w, B) PROVE AbortIsALoss'
  BY <1>1, <1>7 DEF Scan, LoopHead, Goto, history
<1>8. ASSUME NEW w \in Workers, Publish(w) PROVE AbortIsALoss'
  BY <1>1, <1>8 DEF Publish, PublishOutcome, Goto
<1>9. ASSUME NEW w \in Workers, SavePublished(w) PROVE AbortIsALoss'
  BY <1>1, <1>9 DEF SavePublished, Done, LoopHead, Goto
<1>10. ASSUME NEW w \in Workers, SaveAttempt(w) PROVE AbortIsALoss'
  BY <1>1, <1>10 DEF SaveAttempt, Done, LoopHead, history
<1>11. ASSUME NEW w \in Workers, ReleaseLock(w) PROVE AbortIsALoss'
  BY <1>1, <1>11 DEF ReleaseLock, Goto, history
<1>12. ASSUME NEW w \in Workers, Abort(w) PROVE AbortIsALoss'
  <2>1. crashes' = crashes /\ Die(PodOf[w])
    BY <1>12 DEF Abort, history
  <2> QED BY <1>1, <2>1, DeathForgets
<1>13. ASSUME NEW w \in Workers, Throw(w) PROVE AbortIsALoss'
  BY <1>2, <1>13 DEF Throw
<1>14. ASSUME NEW p \in Pods, Crash(p) PROVE AbortIsALoss'
  BY <1>2, <1>14 DEF Crash
<1>15. CASE UNCHANGED vars
  BY <1>15 DEF vars
<1> QED BY <1>3, <1>4, <1>5, <1>6, <1>7, <1>8, <1>9, <1>10, <1>11, <1>12, <1>13, <1>14, <1>15 DEF Next, Work

\* Stage, one row and one answer at a time.
LEMMA StageCases ==
    ASSUME TypeInv, Ownership, NEW r \in Rows
    PROVE  /\ status[r] = "ABSENT" => Stage(r) = "none" /\ ~Handled(r)
           /\ Handled(r) => Stage(r) = "open"
           /\ status[r] = "PENDING" => Stage(r) = "open"
           /\ ~Handled(r) /\ status[r] = "PUBLISHED" => Stage(r) = "published"
           /\ ~Handled(r) /\ status[r] = "FAILED" => Stage(r) = "failed"
           /\ ~Handled(r) /\ status[r] = "PUBLISHING" => Stage(r) = "stranded"
<1>1. Handled(r) => status[r] \in {"PUBLISHING", "PUBLISHED"}
  BY DEF Handled, Ownership, OwnedRowIsClaimed
<1> QED BY <1>1 DEF Stage

\* The same after a step.
LEMMA StageCasesPrimed ==
    ASSUME TypeInv', Ownership', NEW r \in Rows
    PROVE  /\ (status[r] = "ABSENT" => Stage(r) = "none" /\ ~Handled(r))'
           /\ (Handled(r) => Stage(r) = "open")'
           /\ (status[r] = "PENDING" => Stage(r) = "open")'
           /\ (~Handled(r) /\ status[r] = "PUBLISHED" => Stage(r) = "published")'
           /\ (~Handled(r) /\ status[r] = "FAILED" => Stage(r) = "failed")'
           /\ (~Handled(r) /\ status[r] = "PUBLISHING" => Stage(r) = "stranded")'
<1>1. Handled(r)' => status'[r] \in {"PUBLISHING", "PUBLISHED"}
  BY DEF Handled, Ownership, OwnedRowIsClaimed
<1> QED BY <1>1 DEF Stage
\* What the refinement rests on.
RelayInv == TypeInv /\ Ownership /\ Delivery /\ Counting /\ AbortIsALoss

\* A row nobody saved, claimed or dropped keeps its stage.
LEMMA StageKept ==
    ASSUME TypeInv, NEW r \in Rows, status'[r] = status[r], Handled(r)' <=> Handled(r)
    PROVE  Stage(r)' = Stage(r)
<1>1. status[r] \in Statuses
  BY DEF TypeInv, TypeOK
<1> QED BY <1>1 DEF Stage, Statuses

\* When only handled rows change their stage, the step is EventRelay's End.
LEMMA EndsHandled ==
    ASSUME RelayInv, RelayInv', UNCHANGED <<tries, delivered>>,
           crashes' \in {crashes, crashes + 1},
           \A r \in Rows :
               \/ Stage(r)' = Stage(r)
               \/ /\ Handled(r)
                  /\ status'[r] # "ABSENT"
                  /\ status'[r] = "PUBLISHING" => crashes' > 0
    PROVE  Relay!End
<1>1. ASSUME NEW r \in Rows
      PROVE  /\ Stage(r)' \in Relay!Stages
             /\ Stage(r)' # Stage(r) => Stage(r) = "open" /\ Relay!MayEnd(r, Stage(r)')
  <2>1. status'[r] \in Statuses
    BY DEF RelayInv, TypeInv, TypeOK
  <2>2. Stage(r)' \in Relay!Stages
    BY <2>1, StageCasesPrimed DEF RelayInv, Statuses, Relay!Stages, Relay!Ended
  <2>3. ASSUME Stage(r)' # Stage(r)
        PROVE  Stage(r) = "open" /\ Relay!MayEnd(r, Stage(r)')
    <3>1. Stage(r) = "open"
      BY <2>3, StageCases DEF RelayInv
    <3>2. ~Handled(r)' /\ status'[r] \in {"PUBLISHED", "FAILED", "PUBLISHING"}
      BY <2>1, <2>3, <3>1, StageCasesPrimed DEF RelayInv, Statuses
    <3>3. CASE status'[r] = "PUBLISHED"
      <4>1. delivered[r] > 0
        BY <3>3 DEF RelayInv, Delivery, PublishedWasDelivered
      <4> QED BY <3>1, <3>2, <3>3, <4>1, StageCasesPrimed DEF RelayInv, Relay!MayEnd
    <3>4. CASE status'[r] = "FAILED"
      <4>1. attempts'[r] >= MaxAttempts /\ attempts'[r] <= tries'[r]
        BY <3>4 DEF RelayInv, Counting, AttemptsAreTries, FailedIsExhausted
      <4>2. attempts'[r] \in Nat /\ tries'[r] \in Nat /\ MaxAttempts \in Nat
        BY MaxAttemptsAssumption DEF RelayInv, TypeInv, TypeOK
      <4>3. tries[r] >= MaxAttempts
        BY <4>1, <4>2
      <4> QED BY <3>1, <3>2, <3>4, <4>3, StageCasesPrimed DEF RelayInv, Relay!MayEnd
    <3>5. CASE status'[r] = "PUBLISHING"
      <4>1. crashes' > 0
        BY <2>3, <3>5
      <4> QED BY <3>1, <3>2, <3>5, <4>1, StageCasesPrimed DEF RelayInv, Relay!MayEnd
    <3> QED BY <3>1, <3>2, <3>3, <3>4, <3>5
  <2> QED BY <2>2, <2>3
<1>2. [r \in Rows |-> Stage(r)'] \in [Rows -> Relay!Stages]
  BY <1>1
<1> QED BY <1>1, <1>2 DEF Relay!End

\* Every step of the outbox is a step of EventRelay or changes none of its state.
LEMMA RelayStep == RelayInv /\ RelayInv' /\ [Next]_vars => [Relay!Next]_(Relay!relayVars)
<1> SUFFICES ASSUME RelayInv, RelayInv', [Next]_vars PROVE [Relay!Next]_(Relay!relayVars)
  OBVIOUS
<1> USE DEF RelayInv
\* Steps that neither save a row nor take one from its owner.
<1>1. ASSUME UNCHANGED <<tries, delivered, crashes>>, \A r \in Rows : Stage(r)' = Stage(r)
      PROVE  UNCHANGED Relay!relayVars
  BY <1>1 DEF Relay!relayVars
<1>2. ASSUME UNCHANGED <<tries, delivered, crashes, status>>,
             \A v \in Workers, r \in Rows : Owns(v, r)' <=> Owns(v, r)
      PROVE  UNCHANGED Relay!relayVars
  BY <1>1, <1>2, StageKept DEF Handled
<1>3. ASSUME NEW w \in Callers, NEW S \in SUBSET Rows, Create(w, S) PROVE Relay!Write(S)
  <2>1. w \in Workers
    BY DEF Workers
  <2>2. \A v \in Workers, r \in Rows : Owns(v, r)' <=> Owns(v, r)
    BY <1>3, <2>1 DEF Create, Goto, Owns, TypeInv, TypeOK
  <2>3. \A r \in Rows \ S : Stage(r)' = Stage(r)
    BY <1>3, <2>2, StageKept DEF Create, Handled, TypeInv, TypeOK
  <2>4. \A r \in S : Stage(r) = "none"
    BY <1>3, StageCases DEF Create
  <2>5. \A r \in S : Stage(r)' = "open"
    BY <1>3, StageCasesPrimed DEF Create
  <2> QED BY <1>3, <2>3, <2>4, <2>5 DEF Create, Relay!Write, history
<1>4. ASSUME NEW w \in Scanners, AcquireLock(w) PROVE UNCHANGED Relay!relayVars
  BY <1>2, <1>4 DEF AcquireLock, Goto, Owns, Workers, TypeInv, TypeOK, db, history
<1>5. CASE LockExpires
  BY <1>2, <1>5 DEF LockExpires, Owns, db, local, history
<1>6. ASSUME NEW w \in Workers, NEW r \in Rows, Find(w, r) PROVE UNCHANGED Relay!relayVars
  <2>1. /\ \A v \in Workers : v # w => pc'[v] = pc[v] /\ cur'[v] = cur[v]
        /\ \A s \in Rows : ~Owns(w, s)' /\ ~Owns(w, s)
    BY <1>6, DoneOwnsNothing DEF Find, Goto, Owns, TypeInv, TypeOK
  <2> QED BY <1>2, <1>6, <2>1 DEF Find, Owns, db, history
<1>7. ASSUME NEW w \in Workers, NEW r \in Rows, Claim(w, r) PROVE UNCHANGED Relay!relayVars
  <2>0. UNCHANGED <<tries, delivered, crashes>> /\ \A s \in Rows : ~Owns(w, s)
    BY <1>7 DEF Claim, Owns, history
  <2>1. CASE r \in Pending
    <3>1. /\ status[r] = "PENDING"
          /\ status' = [status EXCEPT ![r] = "PUBLISHING"]
          /\ cur' = [cur EXCEPT ![w] = r]
          /\ pc' = [pc EXCEPT ![w] = "publish"]
      BY <1>7, <2>1 DEF Claim, ClaimForPublishing, Goto, Pending
    <3>2. Stage(r) = "open" /\ Stage(r)' = "open"
      <4>1. Owns(w, r)'
        BY <3>1 DEF Owns, TypeInv, TypeOK
      <4> QED BY <3>1, <4>1, StageCases, StageCasesPrimed DEF Handled
    <3>3. ASSUME NEW s \in Rows, s # r PROVE Stage(s)' = Stage(s)
      <4>1. \A v \in Workers : Owns(v, s)' <=> Owns(v, s)
        BY <2>0, <3>1, <3>3 DEF Owns, TypeInv, TypeOK
      <4> QED BY <3>1, <3>3, <4>1, StageKept DEF Handled, TypeInv, TypeOK
    <3> QED BY <1>1, <2>0, <3>2, <3>3
  <2>2. CASE r \notin Pending
    <3>1. /\ \A v \in Workers : v # w => pc'[v] = pc[v] /\ cur'[v] = cur[v]
          /\ \A s \in Rows : ~Owns(w, s)'
          /\ UNCHANGED status
      BY <1>7, <2>2, DoneOwnsNothing DEF Claim, ClaimForPublishing
    <3> QED BY <1>2, <2>0, <3>1 DEF Owns
  <2> QED BY <2>1, <2>2
<1>8. ASSUME NEW w \in Workers, NEW B \in SUBSET Rows, Scan(w, B) PROVE UNCHANGED Relay!relayVars
  BY <1>2, <1>8 DEF Scan, LoopHead, Goto, Owns, TypeInv, TypeOK, db, history
<1>9. ASSUME NEW w \in Workers, Publish(w) PROVE Relay!Try(cur[w])
  <2> DEFINE r == cur[w]
  <2>1. r \in Rows /\ Owns(w, r)
    BY <1>9 DEF Publish, TypeInv, CurIsRow, Owns
  <2>2. Stage(r) = "open"
    BY <2>1, StageCases DEF Handled
  <2>3. \A v \in Workers, s \in Rows : Owns(v, s)' <=> Owns(v, s)
    BY <1>9 DEF Publish, PublishOutcome, Goto, Owns, TypeInv, TypeOK
  <2>4. \A s \in Rows : Stage(s)' = Stage(s)
    BY <1>9, <2>3, StageKept DEF Publish, Handled, db
  <2>5. delivered' \in {delivered, [delivered EXCEPT ![r] = @ + 1]}
    BY <1>9 DEF Publish, PublishOutcome
  <2> QED BY <1>9, <2>1, <2>2, <2>4, <2>5 DEF Publish, Relay!Try
<1>10. ASSUME NEW w \in Workers, NEW r \in Rows, Owns(w, r), UNCHANGED <<tries, delivered>>,
              crashes' \in {crashes, crashes + 1},
              \A v \in Workers : v # w => pc'[v] = pc[v] /\ cur'[v] = cur[v],
              \A s \in Rows \ {r} : ~Owns(w, s)' /\ status'[s] = status[s],
              status'[r] # "ABSENT",
              status'[r] = "PUBLISHING" => Handled(r)' \/ crashes' > 0
       PROVE  Relay!End
  <2>1. ASSUME NEW s \in Rows \ {r} PROVE Stage(s)' = Stage(s)
    <3>1. \A v \in Workers : Owns(v, s)' <=> Owns(v, s)
      BY <1>10, <2>1 DEF Owns
    <3> QED BY <1>10, <2>1, <3>1, StageKept DEF Handled
  <2>2. Handled(r) /\ Stage(r) = "open"
    BY <1>10, StageCases DEF Handled
  <2>3. Handled(r)' => Stage(r)' = "open"
    BY StageCasesPrimed
  <2> QED BY <1>10, <2>1, <2>2, <2>3, EndsHandled
<1>11. ASSUME NEW w \in Workers, SavePublished(w) PROVE Relay!End
  <2>0. PICK r \in Rows : r = cur[w]
    BY <1>11 DEF SavePublished, TypeInv, CurIsRow
  <2>1. Owns(w, r) /\ status[r] = "PUBLISHING"
    BY <1>11, <2>0 DEF SavePublished, Owns, Ownership, OwnedRowIsClaimed
  <2>2. UNCHANGED <<tries, delivered, crashes>>
    BY <1>11 DEF SavePublished
  <2>3. UNCHANGED status \/ status' = [status EXCEPT ![r] = "PUBLISHED"]
    BY <1>11, <2>0 DEF SavePublished, WritePublished, db
  <2>4. CASE WritePublished(w, r) /\ Done(w, r)
    <3>1. status'[r] = "PUBLISHED" /\ \A s \in Rows \ {r} : status'[s] = status[s]
      BY <2>1, <2>4 DEF WritePublished, TypeInv, TypeOK
    <3> QED BY <1>10, <2>1, <2>2, <2>4, <3>1, DoneOwnsNothing
  <2>5. CASE Goto(w, "saveAttempt") /\ UNCHANGED cur
    <3>1. /\ \A v \in Workers : v # w => pc'[v] = pc[v] /\ cur'[v] = cur[v]
          /\ Owns(w, r)'
          /\ \A s \in Rows \ {r} : ~Owns(w, s)'
      BY <2>0, <2>5 DEF Goto, Owns, TypeInv, TypeOK
    <3>2. status'[r] # "ABSENT" /\ \A s \in Rows \ {r} : status'[s] = status[s]
      BY <2>1, <2>3 DEF TypeInv, TypeOK
    <3>3. Handled(r)'
      BY <3>1 DEF Handled
    <3> QED BY <1>10, <2>1, <2>2, <3>1, <3>2, <3>3
  <2> QED BY <1>11, <2>0, <2>4, <2>5 DEF SavePublished
<1>12. ASSUME NEW w \in Workers, SaveAttempt(w) PROVE Relay!End
  <2> DEFINE r == cur[w]
  <2>1. r \in Rows /\ Owns(w, r) /\ Done(w, r) /\ UNCHANGED <<tries, delivered, crashes>>
    BY <1>12 DEF SaveAttempt, TypeInv, CurIsRow, Owns, history
  <2>2. status'[r] \in {"FAILED", "PENDING"} /\ \A s \in Rows \ {r} : status'[s] = status[s]
    BY <1>12, <2>1 DEF SaveAttempt, StatusAfterFailure, TypeInv, TypeOK
  <2> QED BY <1>10, <2>1, <2>2, DoneOwnsNothing
<1>13. ASSUME NEW w \in Workers, ReleaseLock(w) PROVE UNCHANGED Relay!relayVars
  BY <1>2, <1>13 DEF ReleaseLock, Goto, Owns, TypeInv, TypeOK, db, history
\* Workers are lost: a row they handled keeps its status and is nobody's.
<1>14. ASSUME UNCHANGED <<status, tries, delivered>>, crashes' \in {crashes, crashes + 1}, crashes' > 0,
              \A v \in Workers, r \in Rows : Owns(v, r)' => Owns(v, r)
       PROVE  Relay!End
  <2>1. ASSUME NEW r \in Rows PROVE Stage(r)' = Stage(r) \/ (Handled(r) /\ status'[r] # "ABSENT")
    <3>1. CASE Handled(r)
      BY <1>14, <3>1, StageCases
    <3>2. CASE ~Handled(r)
      <4>1. ~Handled(r)'
        BY <1>14, <3>2 DEF Handled
      <4> QED BY <1>14, <3>2, <4>1, StageKept
    <3> QED BY <3>1, <3>2
  <2> QED BY <1>14, <2>1, EndsHandled
<1>15. ASSUME NEW w \in Workers, Throw(w) PROVE Relay!End
  <2>1. \A v \in Workers, r \in Rows : Owns(v, r)' => Owns(v, r)
    BY <1>15, NoneAssumption DEF Throw, Goto, Owns, TypeInv, TypeOK
  <2> QED BY <1>14, <1>15, <2>1 DEF Throw, TypeInv, TypeOK, db
<1>16. ASSUME NEW p, Die(p), NEW v \in Workers, NEW r \in Rows, Owns(v, r)' PROVE Owns(v, r)
  BY <1>16, DeathForgets DEF Owns
<1>17. ASSUME NEW w \in Workers, Abort(w) PROVE Relay!End
  <2>1. crashes > 0
    BY <1>17 DEF Abort, AbortIsALoss
  <2>2. Die(PodOf[w]) /\ UNCHANGED <<status, tries, delivered, crashes>>
    BY <1>17 DEF Abort, db, history
  <2> QED BY <1>14, <1>16, <2>1, <2>2
<1>18. ASSUME NEW p \in Pods, Crash(p) PROVE Relay!End
  BY <1>14, <1>16, <1>18 DEF Crash, TypeInv, TypeOK, db
<1>19. CASE UNCHANGED vars
  BY <1>2, <1>19 DEF vars, Owns
<1>20. ASSUME NEW w \in Workers, Publish(w) PROVE cur[w] \in Rows
  BY <1>20 DEF Publish, TypeInv, CurIsRow
<1> QED BY <1>3, <1>4, <1>5, <1>6, <1>7, <1>8, <1>9, <1>11, <1>12, <1>13, <1>15, <1>17, <1>18, <1>19, <1>20
        DEF Next, Work, Relay!Next

\* The outbox with its claims, its lock and its two kinds of publishers implements
\* EventRelay: what has been published or given up stays so, nothing is marked
\* published that the broker does not have, nothing is given up before maxAttempts
\* tries, and only a lost worker leaves a row stranded.
THEOREM OutboxImplementsRelay == Spec => RelaysEvents
<1>1. Init => Relay!Init
  <2>1. ASSUME Init PROVE [r \in Rows |-> Stage(r)] = [r \in Rows |-> "none"]
    BY <2>1 DEF Init, Stage
  <2> QED BY <2>1 DEF Init, Relay!Init
<1>2. Init => Counting /\ AbortIsALoss
  BY DEF Init, Counting, AttemptsAreTries, FailedIsExhausted, AbortIsALoss, Owns
<1>3. Spec => []RelayInv
  BY <1>2, OwnershipInvariant, DeliveryInvariant, CountingStep, AbortStep, PTL DEF Spec, RelayInv
<1> QED BY <1>1, <1>3, RelayStep, PTL DEF Spec, RelaysEvents, Relay!Spec
=============================================================================
