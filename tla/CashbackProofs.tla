--------------------------- MODULE CashbackProofs ---------------------------
(***************************************************************************)
(* The cashback service for any transactions, events, deliveries, retries,  *)
(* webhooks and hazards.                                                    *)
(*                                                                         *)
(* Everything rests on the references.  A job makes a new reference for     *)
(* every claim, so Paystack never sees one twice; a reference leads to the  *)
(* transaction of its job, whichever stale copy of a row it is read from;   *)
(* and a job that has sent money without an error is over.  A success is    *)
(* first a notice, then a webhook under way, then announced: it moves on    *)
(* and is never copied unless a webhook is repeated or a save fails.        *)
(***************************************************************************)
EXTENDS Cashback, TLAPS, FiniteSetTheorems

\* The transfer has gone through, even if the bank has sent it back since.
PaidRef(r) == transfer[r].state \in {"success", "reversed"}

Paid(t) == \E r \in Refs : TxOfRef(r) = t /\ PaidRef(r)

\* What holds of the row of t, and of every copy of it that a call still has.
RowOK(t, e) ==
    /\ e.ref # None => TxOfRef(e.ref) = t
    /\ e.status = "SUCCESSFUL" => Paid(t)

RowsOK == \A t \in Txs : RowOK(t, row[t])

\* Jobs are added one after the other, and there is room for those of the retries under way.
QueueOK == \E n \in 0..MaxJobs : Queued = 1..n /\ n + Cardinality(Reserved) <= MaxJobs

\* The job has claimed its row and works on the reference of that claim.
Working(j) == job[j].pc \in {"account", "upsert", "send", "save", "publish", "catch"}

JobOK(j) ==
    /\ job[j].pc = "none" => job[j].tx = None /\ job[j].run = 0
    /\ job[j].pc # "none" => job[j].tx \in Txs
    /\ job[j].pc \notin {"none", "done"} => job[j].made < JobAttempts
    /\ job[j].pc \in {"waiting", "claim"} => job[j].run <= job[j].made + faults
    /\ Working(j) => /\ job[j].run <= job[j].made + 1 + faults
                     /\ job[j].run >= 1
                     /\ job[j].ent.ref = <<j, job[j].run>>
                     /\ job[j].ent.status = "PROCESSING"
    /\ \A n \in 1..JobAttempts + MaxFaults : n > job[j].run => transfer[<<j, n>>].state = "none"
    /\ job[j].pc \in {"account", "upsert", "send"} => transfer[<<j, job[j].run>>].state = "none"
    /\ job[j].pc = "save" /\ provider = "mock" => PaidRef(<<j, job[j].run>>)

JobsOK == \A j \in Jobs : JobOK(j)

HandlersOK == \A d \in Deliveries : handler[d].pc \in {"save", "commit"} => RowOK(TxOf[EventOf[d]], handler[d].ent)

\* A webhook works on the row that its reference led to, and reports what happened.
HookOK(h) ==
    hook[h].pc = "save" =>
        /\ hook[h].tx \in Txs /\ hook[h].ent.ref \in Refs /\ hook[h].kind \in {"success", "failed"}
        /\ RowOK(hook[h].tx, hook[h].ent)
        /\ hook[h].kind = "success" => PaidRef(hook[h].ent.ref)

HooksOK == \A h \in Hooks : HookOK(h)

NoticesOK == \A n \in notices : n.kind = "success" => PaidRef(n.ref)

RetriersOK == \A q \in Retriers : retrier[q].pc # "idle" => retrier[q].tx \in Txs

\* A delivery that is about to commit has queued a job of its own for its event.
CommitsOK ==
    /\ \A d \in Deliveries : handler[d].pc = "commit" =>
         /\ handler[d].job \in Jobs
         /\ job[handler[d].job].pc # "none"
         /\ job[handler[d].job].ev = EventOf[d]
         /\ ~job[handler[d].job].orphan
    /\ \A c, d \in Deliveries : handler[c].pc = "commit" /\ handler[d].pc = "commit" /\ c # d =>
         handler[c].job # handler[d].job

\* A processed event has a job that no delivery can make an orphan any more.
ProcessedOK ==
    \A e \in processed : \E j \in Jobs :
        /\ job[j].pc # "none" /\ job[j].ev = e /\ ~job[j].orphan
        /\ \A d \in Deliveries : handler[d].pc = "commit" => handler[d].job # j

\* The jobs of t that have sent money, if only in vain, and will not do it again.
Spent(t) == {j \in Jobs : job[j].tx = t /\ job[j].pc \in {"save", "publish", "done"}}

LiveOK == \A t \in Txs : Cardinality(LiveTransfers(t)) <= Cardinality(Spent(t)) + faults

CashInv ==
    /\ TypeOK
    /\ QueueOK /\ JobsOK /\ RowsOK /\ HandlersOK /\ HooksOK /\ NoticesOK /\ RetriersOK
    /\ CommitsOK /\ ProcessedOK /\ LiveOK

\* Nothing is sent or saved twice by mistake.
NoRepeats == "dupWebhook" \notin Hazards /\ "dbError" \notin Hazards

\* The webhook h is about to announce the success of r.
Announces(h, r) == hook[h].pc = "save" /\ hook[h].kind = "success" /\ hook[h].ent.ref = r

\* The one success of a reference is a notice, then a webhook in progress, then announced.
AnnounceOK ==
    /\ \A r \in Refs :
         /\ announced[r] <= 1
         /\ transfer[r].state \in {"none", "open"} => announced[r] = 0
         /\ [ref |-> r, kind |-> "success"] \in notices => announced[r] = 0 /\ \A h \in Hooks : ~Announces(h, r)
         /\ \A h \in Hooks : Announces(h, r) => announced[r] = 0
         /\ \A g, h \in Hooks : Announces(g, r) /\ Announces(h, r) => g = h
         /\ transfer[r].state = "open" => provider = "paystack"
    /\ \A j \in Jobs : job[j].pc = "save" /\ provider = "mock" => announced[<<j, job[j].run>>] = 0
    /\ provider = "mock" => /\ \A n \in notices : n.kind # "success"
                            /\ \A h \in Hooks, r \in Refs : ~Announces(h, r)

-----------------------------------------------------------------------------
(* Records. *)

\* The idle values have their types.
LEMMA IdleTypes ==
    /\ NoRow \in Rows /\ IdleJob \in JobCalls /\ IdleHandler \in HandlerCalls
    /\ IdleRetrier \in RetryCalls /\ IdleHook \in HookCalls /\ NoTransfer \in Transfers
<1>1. None \in AllDetails /\ 0 \in 0..JobAttempts /\ 0 \in 0..JobAttempts + MaxFaults
  BY BoundsAssumption DEF AllDetails
<1>2. NoRow \in Rows
  BY DEF NoRow, Rows
<1>3. IdleJob \in JobCalls
  BY <1>1, <1>2 DEF IdleJob, JobCalls
<1> QED BY <1>1, <1>2, <1>3 DEF IdleHandler, HandlerCalls, IdleRetrier, RetryCalls, IdleHook, HookCalls,
                                NoTransfer, Transfers

\* A reference is a job with the number of one of its claims.
LEMMA RefParts ==
    /\ \A r \in Refs : r[1] \in Jobs /\ r[2] \in 1..JobAttempts + MaxFaults /\ r = <<r[1], r[2]>>
    /\ \A j \in Jobs, n \in 1..JobAttempts + MaxFaults : <<j, n>> \in Refs /\ <<j, n>>[1] = j /\ <<j, n>>[2] = n
BY DEF Refs

\* What EndJob keeps.
LEMMA EndJobFields ==
    ASSUME TypeOK, NEW j \in Jobs
    PROVE  /\ EndJob(j) \in JobCalls /\ EndJob(j).pc = "done"
           /\ EndJob(j).tx = job[j].tx /\ EndJob(j).ev = job[j].ev /\ EndJob(j).orphan = job[j].orphan
           /\ EndJob(j).made = job[j].made /\ EndJob(j).run = job[j].run
<1>1. job[j] \in JobCalls
  BY DEF TypeOK
<1>2. None \in AllDetails /\ NoRow \in Rows
  BY IdleTypes DEF AllDetails
<1> QED BY <1>1, <1>2 DEF EndJob, JobCalls

\* What Rethrow keeps.
LEMMA RethrowFields ==
    ASSUME TypeOK, NEW j \in Jobs, job[j].made < JobAttempts
    PROVE  /\ Rethrow(j) \in JobCalls /\ Rethrow(j).pc \in {"waiting", "done"}
           /\ Rethrow(j).tx = job[j].tx /\ Rethrow(j).ev = job[j].ev /\ Rethrow(j).orphan = job[j].orphan
           /\ Rethrow(j).made = job[j].made + 1 /\ Rethrow(j).run = job[j].run
           /\ Rethrow(j).pc = "waiting" => job[j].made + 1 < JobAttempts
<1>1. PICK e \in JobCalls : e = EndJob(j)
  BY EndJobFields
<1>2. e.tx = job[j].tx /\ e.ev = job[j].ev /\ e.orphan = job[j].orphan /\ e.made = job[j].made /\ e.run = job[j].run
  BY <1>1, EndJobFields
<1>3. PICK p \in {"waiting", "done"} : p = IF job[j].made + 1 < JobAttempts THEN "waiting" ELSE "done"
  OBVIOUS
<1>4. PICK m \in 0..JobAttempts : m = job[j].made + 1
  <2>1. job[j].made \in 0..JobAttempts
    BY DEF TypeOK, JobCalls
  <2>2. job[j].made + 1 \in 0..JobAttempts
    BY <2>1, BoundsAssumption
  <2> QED BY <2>2
<1>5. Rethrow(j) = [e EXCEPT !.made = m, !.pc = p]
  BY <1>1, <1>2, <1>3, <1>4 DEF Rethrow
<1>6. [e EXCEPT !.made = m, !.pc = p] \in JobCalls
  BY DEF JobCalls
<1>7. Rethrow(j).pc = p /\ Rethrow(j).made = m /\ Rethrow(j).tx = e.tx /\ Rethrow(j).ev = e.ev
      /\ Rethrow(j).orphan = e.orphan /\ Rethrow(j).run = e.run
  BY <1>5 DEF JobCalls
<1> QED BY <1>2, <1>3, <1>4, <1>5, <1>6, <1>7

-----------------------------------------------------------------------------
(* Counting. *)

\* All jobs and all references are finitely many.
LEMMA FiniteParts ==
    /\ IsFiniteSet(Jobs) /\ IsFiniteSet(Refs)
    /\ \A t : IsFiniteSet(LiveTransfers(t)) /\ IsFiniteSet(Spent(t))
<1>1. IsFiniteSet(Jobs)
  BY FS_Interval, BoundsAssumption DEF Jobs
<1>2. IsFiniteSet(1..JobAttempts + MaxFaults)
  <2>1. JobAttempts + MaxFaults \in Int
    BY BoundsAssumption
  <2> QED BY <2>1, FS_Interval
<1>3. IsFiniteSet(Refs)
  BY <1>1, <1>2, FS_Product DEF Refs
<1> QED BY <1>1, <1>3, FS_Subset DEF LiveTransfers, Spent

\* The sum that bounds live transfers is kept by sets that grow and shrink together.
LEMMA CountsKeep ==
    ASSUME NEW L, NEW M, NEW S, NEW T, NEW f \in Nat, NEW g \in Nat, NEW r, NEW j,
           IsFiniteSet(L), IsFiniteSet(M), IsFiniteSet(S), IsFiniteSet(T),
           Cardinality(L) <= Cardinality(S) + f,
           \/ M \subseteq L /\ S \subseteq T /\ g >= f
           \/ M \subseteq L /\ S \subseteq T \cup {j} /\ g = f + 1
           \/ M \subseteq L \cup {r} /\ S \subseteq T /\ g = f + 1
           \/ M \subseteq L \cup {r} /\ S \cup {j} \subseteq T /\ j \notin S /\ g >= f
    PROVE  Cardinality(M) <= Cardinality(T) + g
<1>1. Cardinality(L) \in Nat /\ Cardinality(M) \in Nat /\ Cardinality(S) \in Nat /\ Cardinality(T) \in Nat
  BY FS_CardinalityType
<1>2. M \subseteq L => Cardinality(M) <= Cardinality(L)
  BY FS_Subset
<1>3. M \subseteq L \cup {r} => Cardinality(M) <= Cardinality(L) + 1
  <2>1. IsFiniteSet(L \cup {r}) /\ Cardinality(L \cup {r}) <= Cardinality(L) + 1
    <3>1. /\ IsFiniteSet(L \cup {r})
          /\ Cardinality(L \cup {r}) = IF r \in L THEN Cardinality(L) ELSE Cardinality(L) + 1
      BY FS_AddElement
    <3> QED BY <1>1, <3>1
  <2>2. Cardinality(L \cup {r}) \in Nat
    BY <2>1, FS_CardinalityType
  <2>3. M \subseteq L \cup {r} => Cardinality(M) <= Cardinality(L \cup {r})
    BY <2>1, FS_Subset
  <2> QED BY <1>1, <2>1, <2>2, <2>3
<1>4. S \subseteq T => Cardinality(S) <= Cardinality(T)
  BY FS_Subset
<1>5. S \subseteq T \cup {j} => Cardinality(S) <= Cardinality(T) + 1
  <2>1. IsFiniteSet(T \cup {j}) /\ Cardinality(T \cup {j}) <= Cardinality(T) + 1
    <3>1. /\ IsFiniteSet(T \cup {j})
          /\ Cardinality(T \cup {j}) = IF j \in T THEN Cardinality(T) ELSE Cardinality(T) + 1
      BY FS_AddElement
    <3> QED BY <1>1, <3>1
  <2>2. Cardinality(T \cup {j}) \in Nat
    BY <2>1, FS_CardinalityType
  <2>3. S \subseteq T \cup {j} => Cardinality(S) <= Cardinality(T \cup {j})
    BY <2>1, FS_Subset
  <2> QED BY <1>1, <2>1, <2>2, <2>3
<1>6. S \cup {j} \subseteq T /\ j \notin S => Cardinality(S) + 1 <= Cardinality(T)
  <2> SUFFICES ASSUME S \cup {j} \subseteq T, j \notin S PROVE Cardinality(S) + 1 <= Cardinality(T)
    OBVIOUS
  <2>1. IsFiniteSet(S \cup {j}) /\ Cardinality(S \cup {j}) = Cardinality(S) + 1
    BY FS_AddElement
  <2>2. Cardinality(S \cup {j}) <= Cardinality(T)
    BY FS_Subset
  <2> QED BY <2>1, <2>2
<1> QED BY <1>1, <1>2, <1>3, <1>4, <1>5, <1>6

-----------------------------------------------------------------------------
(* What the steps have in common. *)

\* Jobs keep their transaction and what is paid stays paid.
Steady ==
    /\ \A j \in Jobs : job[j].tx \in Txs => job'[j].tx = job[j].tx
    /\ \A r \in Refs : PaidRef(r) => PaidRef(r)'

\* A copy of a row stays as good as it was.
LEMMA CopyStays ==
    ASSUME Steady, NEW t \in Txs, NEW e \in Rows, RowOK(t, e)
    PROVE  RowOK(t, e)'
<1>1. \A r \in Refs : TxOfRef(r) = t => TxOfRef(r)' = t
  BY RefParts DEF Steady, TxOfRef
<1>2. e.ref # None => e.ref \in Refs
  BY DEF Rows
<1>3. Paid(t) => Paid(t)'
  BY <1>1 DEF Steady, Paid
<1> QED BY <1>1, <1>2, <1>3 DEF RowOK

\* All copies that are not touched stay good.
LEMMA CopiesStay ==
    ASSUME TypeOK, Steady
    PROVE  /\ RowsOK /\ UNCHANGED row => RowsOK'
           /\ HandlersOK /\ UNCHANGED handler => HandlersOK'
           /\ HooksOK /\ UNCHANGED hook => HooksOK'
           /\ NoticesOK /\ UNCHANGED notices => NoticesOK'
<1>1. ASSUME RowsOK, UNCHANGED row PROVE RowsOK'
  <2> SUFFICES ASSUME NEW t \in Txs PROVE RowOK(t, row[t])'
    BY DEF RowsOK
  <2>1. PICK e \in Rows : e = row[t]
    BY DEF TypeOK
  <2>2. RowOK(t, e)'
    BY <1>1, <2>1, CopyStays DEF RowsOK
  <2>3. row'[t] = e
    BY <1>1, <2>1
  <2> QED BY <2>2, <2>3 DEF RowOK
<1>2. ASSUME HandlersOK, UNCHANGED handler PROVE HandlersOK'
  <2> SUFFICES ASSUME NEW d \in Deliveries, handler[d].pc \in {"save", "commit"}
               PROVE  RowOK(TxOf[EventOf[d]], handler[d].ent)'
    BY <1>2 DEF HandlersOK
  <2>1. PICK e \in Rows : e = handler[d].ent
    BY DEF TypeOK, HandlerCalls
  <2>2. TxOf[EventOf[d]] \in Txs
    BY EventAssumption
  <2>3. RowOK(TxOf[EventOf[d]], e)'
    BY <1>2, <2>1, <2>2, CopyStays DEF HandlersOK
  <2>4. handler'[d].ent = e
    BY <1>2, <2>1
  <2> QED BY <2>3, <2>4 DEF RowOK
<1>3. ASSUME HooksOK, UNCHANGED hook PROVE HooksOK'
  <2> SUFFICES ASSUME NEW h \in Hooks, hook[h].pc = "save" PROVE HookOK(h)'
    BY <1>3 DEF HooksOK, HookOK
  <2>1. PICK e \in Rows : e = hook[h].ent
    BY DEF TypeOK, HookCalls
  <2>2. HookOK(h) /\ hook'[h] = hook[h]
    BY <1>3 DEF HooksOK
  <2>3. PICK t \in Txs : t = hook[h].tx
    BY <2>2 DEF HookOK
  <2>4. RowOK(t, e)'
    BY <2>1, <2>2, <2>3, CopyStays DEF HookOK
  <2>5. RowOK(hook[h].tx, hook[h].ent)'
    BY <2>1, <2>2, <2>3, <2>4 DEF RowOK
  <2>6. e.ref \in Refs /\ (hook[h].kind = "success" => PaidRef(e.ref)')
    BY <2>1, <2>2 DEF HookOK, Steady
  <2> QED BY <2>1, <2>2, <2>5, <2>6 DEF HookOK, PaidRef
<1>4. ASSUME NoticesOK, UNCHANGED notices PROVE NoticesOK'
  <2>1. \A n \in notices : n.ref \in Refs
    BY DEF TypeOK
  <2> QED BY <1>4, <2>1 DEF NoticesOK, Steady, PaidRef
<1> QED BY <1>1, <1>2, <1>3, <1>4

\* Only queue.add changes which jobs there are; retries that end make room.
LEMMA QueueStays ==
    ASSUME QueueOK, Reserved' \subseteq Reserved,
           \A j \in Jobs : job'[j].pc = "none" <=> job[j].pc = "none"
    PROVE  QueueOK'
<1>1. Queued' = Queued
  BY DEF Queued
<1>2. IsFiniteSet(Reserved)
  <2>1. IsFiniteSet(Retriers)
    BY RetrierAssumption, FS_Union DEF Retriers
  <2> QED BY <2>1, FS_Subset DEF Reserved
<1>3. PICK n \in 0..MaxJobs : Queued = 1..n /\ n + Cardinality(Reserved) <= MaxJobs
  BY DEF QueueOK
<1>4. /\ Cardinality(Reserved') <= Cardinality(Reserved) /\ IsFiniteSet(Reserved')
      /\ Cardinality(Reserved) \in Nat /\ Cardinality(Reserved') \in Nat
  BY <1>2, FS_Subset, FS_CardinalityType
<1>5. Cardinality(Reserved)' = Cardinality(Reserved')
  OBVIOUS
<1>6. n + Cardinality(Reserved') <= MaxJobs
  BY <1>3, <1>4, BoundsAssumption
<1>7. Queued' = 1..n
  BY <1>1, <1>3
<1> QED BY <1>5, <1>6, <1>7 DEF QueueOK

\* A job that nobody works on stays as it was, whatever fails and whatever the others send.
LEMMA JobStays ==
    ASSUME TypeOK, NEW j \in Jobs, JobOK(j), faults' \in Nat, faults' >= faults, UNCHANGED provider,
           job'[j].pc = job[j].pc, job'[j].tx = job[j].tx, job'[j].made = job[j].made, job'[j].run = job[j].run,
           job'[j].ent = job[j].ent,
           \A n \in 1..JobAttempts + MaxFaults :
               /\ transfer[<<j, n>>].state = "none" => transfer'[<<j, n>>].state = "none"
               /\ PaidRef(<<j, n>>) => PaidRef(<<j, n>>)'
    PROVE  JobOK(j)'
<1>1. faults \in Nat /\ job[j].run \in Nat /\ job[j].made \in Nat
  BY BoundsAssumption DEF TypeOK, JobCalls
<1>2. Working(j)' <=> Working(j)
  BY DEF Working
<1>3. job[j].run \in 0..JobAttempts + MaxFaults
  BY DEF TypeOK, JobCalls
<1>4. Working(j) => job[j].run \in 1..JobAttempts + MaxFaults
  BY <1>3, BoundsAssumption DEF JobOK
<1>5. \A n \in 1..JobAttempts + MaxFaults : n > job'[j].run => transfer'[<<j, n>>].state = "none"
  BY DEF JobOK
<1>6. job[j].pc \in {"account", "upsert", "send"} => transfer'[<<j, job[j].run>>].state = "none"
  BY <1>4 DEF JobOK, Working
<1>7. job[j].pc = "save" /\ provider = "mock" => PaidRef(<<j, job[j].run>>)'
  BY <1>4 DEF JobOK, Working
<1>8. job[j].pc = "save" /\ provider = "mock" => transfer'[<<j, job[j].run>>].state \in {"success", "reversed"}
  BY <1>4 DEF JobOK, Working, PaidRef
<1>9. /\ job[j].pc \in {"waiting", "claim"} => job[j].run <= job[j].made + faults'
      /\ Working(j) => job[j].run <= job[j].made + 1 + faults'
  BY <1>1 DEF JobOK
<1> QED BY <1>2, <1>5, <1>6, <1>8, <1>9 DEF JobOK, PaidRef

\* A step of the others keeps what concerns the jobs.
LEMMA JobsUntouched ==
    ASSUME CashInv, UNCHANGED <<job, transfer, provider>>, faults' \in Nat, faults' >= faults
    PROVE  JobsOK' /\ LiveOK' /\ Steady
<1> USE DEF CashInv
<1>1. Steady
  BY DEF Steady, PaidRef
<1>2. JobsOK'
  BY JobStays DEF JobsOK, PaidRef
<1>3. LiveOK'
  <2> SUFFICES ASSUME NEW t \in Txs PROVE Cardinality(LiveTransfers(t))' <= Cardinality(Spent(t))' + faults'
    BY DEF LiveOK
  <2>1. LiveTransfers(t)' = LiveTransfers(t) /\ Spent(t)' = Spent(t)
    BY DEF LiveTransfers, Spent, TxOfRef
  <2>2. Cardinality(LiveTransfers(t)) <= Cardinality(Spent(t)) + faults
    BY DEF LiveOK
  <2>3. Cardinality(LiveTransfers(t)) \in Nat /\ Cardinality(Spent(t)) \in Nat /\ faults \in Nat
    BY FiniteParts, FS_CardinalityType, BoundsAssumption DEF TypeOK
  <2>4. Cardinality(LiveTransfers(t))' = Cardinality(LiveTransfers(t)) /\ Cardinality(Spent(t))' = Cardinality(Spent(t))
    BY <2>1
  <2> QED BY <2>2, <2>3, <2>4
<1> QED BY <1>1, <1>2, <1>3

\* Handlers and processed events look at what of a job never changes.
LEMMA CommitsStay ==
    ASSUME CommitsOK, ProcessedOK, UNCHANGED <<handler, processed>>,
           \A j \in Jobs : /\ job'[j].pc = "none" <=> job[j].pc = "none"
                           /\ job'[j].ev = job[j].ev /\ job'[j].orphan = job[j].orphan
    PROVE  CommitsOK' /\ ProcessedOK'
<1>1. CommitsOK'
  BY DEF CommitsOK
<1>2. ProcessedOK'
  <2> SUFFICES ASSUME NEW e \in processed
               PROVE  \E j \in Jobs :
                        /\ job'[j].pc # "none" /\ job'[j].ev = e /\ ~job'[j].orphan
                        /\ \A d \in Deliveries : handler'[d].pc = "commit" => handler'[d].job # j
    BY DEF ProcessedOK
  <2>1. PICK j \in Jobs :
          /\ job[j].pc # "none" /\ job[j].ev = e /\ ~job[j].orphan
          /\ \A d \in Deliveries : handler[d].pc = "commit" => handler[d].job # j
    BY DEF ProcessedOK
  <2> QED BY <2>1
<1> QED BY <1>1, <1>2

\* The worker's step on job j: it turns into c and the row of its transaction into e.  Money
\* moves on the reference of the claim only.
LEMMA JobStepKeeps ==
    ASSUME CashInv, NEW j \in Jobs, NEW c \in JobCalls, NEW t \in Txs, NEW e \in Rows,
           job[j].pc # "none", c.pc # "none", t = job[j].tx,
           c.tx = t, c.ev = job[j].ev, c.orphan = job[j].orphan,
           job' = [job EXCEPT ![j] = c], row' = [row EXCEPT ![t] = e],
           UNCHANGED <<processed, handler, retrier, hook, notices, provider>>,
           account' \in [Users -> [details : AllDetails, recipient : AllDetails]],
           announced' \in [Refs -> 0..2], transfer' \in [Refs -> Transfers],
           faults' \in 0..MaxFaults, faults' >= faults,
           \A r \in Refs : r # <<j, job[j].run>> => transfer'[r] = transfer[r],
           transfer' # transfer => job[j].pc = "send",
           e = row[t] \/ RowOK(t, e)',
           JobOK(j)',
           LiveOK'
    PROVE  CashInv'
<1> USE DEF CashInv
<1>1. job'[j] = c /\ \A i \in Jobs \ {j} : job'[i] = job[i]
  BY DEF TypeOK
<1>2. TypeOK'
  <2>1. row' \in [Txs -> Rows] /\ job' \in [Jobs -> JobCalls]
    BY DEF TypeOK
  <2> QED BY <2>1 DEF TypeOK
<1>3. \A i \in Jobs : /\ job'[i].pc = "none" <=> job[i].pc = "none"
                      /\ job'[i].ev = job[i].ev /\ job'[i].orphan = job[i].orphan
                      /\ job'[i].tx = job[i].tx
  BY <1>1
<1>4. JobOK(j)
  BY DEF JobsOK
<1>5. job[j].pc = "send" => /\ transfer[<<j, job[j].run>>].state = "none"
                           /\ job[j].run \in 1..JobAttempts + MaxFaults
  BY <1>4, BoundsAssumption DEF JobOK, Working, TypeOK, JobCalls
<1>6. Steady
  <2>1. ASSUME NEW r \in Refs, PaidRef(r) PROVE PaidRef(r)'
    <3>1. CASE transfer' = transfer
      BY <2>1, <3>1 DEF PaidRef
    <3>2. CASE transfer' # transfer
      <4>1. r # <<j, job[j].run>>
        BY <1>5, <2>1, <3>2 DEF PaidRef
      <4> QED BY <2>1, <4>1 DEF PaidRef
    <3> QED BY <3>1, <3>2
  <2> QED BY <1>3, <2>1 DEF Steady
<1>7. HandlersOK' /\ HooksOK' /\ NoticesOK'
  BY <1>6, CopiesStay
<1>8. RowsOK'
  <2> SUFFICES ASSUME NEW u \in Txs PROVE RowOK(u, row[u])'
    BY DEF RowsOK
  <2>1. CASE u # t \/ e = row[t]
    <3>1. PICK f \in Rows : f = row[u]
      BY DEF TypeOK
    <3>2. RowOK(u, f)'
      BY <1>6, <3>1, CopyStays DEF RowsOK
    <3>3. row'[u] = f
      BY <2>1, <3>1 DEF TypeOK
    <3> QED BY <3>2, <3>3 DEF RowOK
  <2>2. CASE u = t /\ e # row[t]
    <3>1. row'[u] = e /\ RowOK(u, e)'
      BY <2>2 DEF TypeOK
    <3> QED BY <3>1 DEF RowOK
  <2> QED BY <2>1, <2>2
<1>9. QueueOK'
  <2>1. Reserved' = Reserved
    BY DEF Reserved
  <2> QED BY <1>3, <2>1, QueueStays
<1>10. JobsOK'
  <2> SUFFICES ASSUME NEW i \in Jobs \ {j} PROVE JobOK(i)'
    BY DEF JobsOK
  <2>1. \A n \in 1..JobAttempts + MaxFaults : transfer'[<<i, n>>] = transfer[<<i, n>>]
    <3> SUFFICES ASSUME NEW n \in 1..JobAttempts + MaxFaults PROVE transfer'[<<i, n>>] = transfer[<<i, n>>]
      OBVIOUS
    <3>1. <<i, n>> \in Refs /\ <<i, n>> # <<j, job[j].run>>
      BY RefParts
    <3> QED BY <3>1
  <2>2. faults' \in Nat /\ JobOK(i)
    BY BoundsAssumption DEF JobsOK
  <2> QED BY <1>1, <2>1, <2>2, JobStays DEF PaidRef
<1>11. RetriersOK' /\ CommitsOK' /\ ProcessedOK'
  BY <1>3, CommitsStay DEF RetriersOK
<1> QED BY <1>2, <1>7, <1>8, <1>9, <1>10, <1>11

\* Live transfers and spent jobs after a worker's step: a job that has sent money is spent, or
\* something has failed.
LEMMA JobStepCounts ==
    ASSUME CashInv, NEW j \in Jobs, NEW c \in JobCalls, c.tx = job[j].tx,
           job' = [job EXCEPT ![j] = c], faults' \in {faults, faults + 1},
           \/ /\ transfer' = transfer
              /\ \/ c.pc \in {"save", "publish", "done"}
                 \/ job[j].pc \notin {"save", "publish", "done"}
                 \/ faults' = faults + 1
           \/ /\ \A r \in Refs : r # <<j, job[j].run>> => transfer'[r] = transfer[r]
              /\ job[j].pc = "send"
              /\ c.pc \in {"save", "publish", "done"} \/ faults' = faults + 1
    PROVE  LiveOK'
<1> USE DEF CashInv
<1>1. job'[j] = c /\ \A i \in Jobs \ {j} : job'[i] = job[i]
  BY DEF TypeOK
<1>2. \A r \in Refs : TxOfRef(r)' = TxOfRef(r)
  BY <1>1, RefParts DEF TxOfRef
<1> SUFFICES ASSUME NEW t \in Txs PROVE Cardinality(LiveTransfers(t))' <= Cardinality(Spent(t))' + faults'
  BY DEF LiveOK
<1>3. PICK L, M, S, T : L = LiveTransfers(t) /\ M = LiveTransfers(t)' /\ S = Spent(t) /\ T = Spent(t)'
  OBVIOUS
<1>4. Cardinality(LiveTransfers(t))' = Cardinality(M) /\ Cardinality(Spent(t))' = Cardinality(T)
  BY <1>3
<1>5. faults \in Nat /\ faults' \in Nat
  BY BoundsAssumption DEF TypeOK
<1>6. IsFiniteSet(L) /\ IsFiniteSet(M) /\ IsFiniteSet(S) /\ IsFiniteSet(T)
  <2>1. M \subseteq Refs /\ T \subseteq Jobs /\ L \subseteq Refs /\ S \subseteq Jobs
    BY <1>3 DEF LiveTransfers, Spent
  <2> QED BY <2>1, FiniteParts, FS_Subset
<1>7. Cardinality(L) <= Cardinality(S) + faults
  BY <1>3 DEF LiveOK
<1>8. S \ {j} = T \ {j} /\ (c.tx # t => j \notin S /\ j \notin T)
  BY <1>1, <1>3 DEF Spent
<1>9. /\ j \in T <=> c.tx = t /\ c.pc \in {"save", "publish", "done"}
      /\ j \in S <=> c.tx = t /\ job[j].pc \in {"save", "publish", "done"}
  BY <1>1, <1>3 DEF Spent
<1>10. PICK r : r = <<j, job[j].run>>
  OBVIOUS
<1>11. CASE transfer' = transfer
  <2>1. M = L
    BY <1>2, <1>3, <1>11 DEF LiveTransfers
  <2>2. \/ S \subseteq T /\ faults' >= faults
        \/ S \subseteq T \cup {j} /\ faults' = faults + 1
    BY <1>5, <1>8, <1>9, <1>11
  <2>3. Cardinality(M) <= Cardinality(T) + faults'
    BY <1>5, <1>6, <1>7, <2>1, <2>2, CountsKeep
  <2> QED BY <1>4, <2>3
<1>12. CASE transfer' # transfer
  <2>1. \A s \in Refs : s # r => transfer'[s] = transfer[s]
    BY <1>10, <1>12
  <2>2. TxOfRef(r) = c.tx
    BY <1>10 DEF TxOfRef
  <2>3. M \subseteq L \cup {r} /\ (c.tx # t => M \subseteq L)
    BY <1>2, <1>3, <2>1, <2>2 DEF LiveTransfers
  <2>4. j \notin S
    BY <1>9, <1>12
  <2>5. \/ M \subseteq L /\ S \subseteq T /\ faults' >= faults
        \/ M \subseteq L \cup {r} /\ S \subseteq T /\ faults' = faults + 1
        \/ M \subseteq L \cup {r} /\ S \cup {j} \subseteq T /\ j \notin S /\ faults' >= faults
    BY <1>5, <1>8, <1>9, <1>12, <2>3, <2>4
  <2>6. Cardinality(M) <= Cardinality(T) + faults'
    BY <1>5, <1>6, <1>7, <2>5, CountsKeep
  <2> QED BY <1>4, <2>6
<1> QED BY <1>11, <1>12

-----------------------------------------------------------------------------
(* The worker. *)

\* A job that does nothing any more, or waits to be run again.
LEMMA JobRests ==
    ASSUME CashInv, NEW j \in Jobs, NEW c \in JobCalls, job[j].pc # "none", job' = [job EXCEPT ![j] = c],
           c.pc \in {"waiting", "done"}, c.tx = job[j].tx, c.run = job[j].run,
           c.pc = "waiting" => c.made < JobAttempts /\ c.run <= c.made + faults',
           UNCHANGED transfer
    PROVE  JobOK(j)'
<1>1. job'[j] = c /\ JobOK(j)
  BY DEF CashInv, TypeOK, JobsOK
<1>2. ~Working(j)'
  BY <1>1 DEF Working
<1> QED BY <1>1, <1>2 DEF JobOK

\* A job that goes on working on the reference of its claim.
LEMMA JobWorks ==
    ASSUME CashInv, NEW j \in Jobs, NEW c \in JobCalls, Working(j), job' = [job EXCEPT ![j] = c],
           c.pc \in {"upsert", "send", "save", "publish", "catch"},
           c.tx = job[j].tx, c.run = job[j].run, c.made = job[j].made, c.ent = job[j].ent,
           faults' \in Nat, faults' >= faults,
           \A r \in Refs : r # <<j, job[j].run>> => transfer'[r] = transfer[r],
           c.pc \in {"upsert", "send"} => transfer[<<j, job[j].run>>].state = "none" /\ UNCHANGED transfer,
           c.pc = "save" /\ provider' = "mock" => transfer'[<<j, job[j].run>>].state \in {"success", "reversed"}
    PROVE  JobOK(j)'
<1>1. job'[j] = c /\ JobOK(j) /\ job[j] \in JobCalls
  BY DEF CashInv, TypeOK, JobsOK
<1>2. faults \in Nat /\ job[j].run \in Nat /\ job[j].made \in Nat
  BY <1>1, BoundsAssumption DEF CashInv, TypeOK, JobCalls
<1>3. Working(j)'
  BY <1>1 DEF Working
<1>4. \A n \in 1..JobAttempts + MaxFaults : n > job[j].run => transfer'[<<j, n>>].state = "none"
  <2> SUFFICES ASSUME NEW n \in 1..JobAttempts + MaxFaults, n > job[j].run
               PROVE  transfer'[<<j, n>>].state = "none"
    OBVIOUS
  <2>1. <<j, n>> \in Refs /\ <<j, n>> # <<j, job[j].run>>
    BY <1>2, RefParts
  <2> QED BY <1>1, <2>1 DEF JobOK
<1>5. /\ job[j].made < JobAttempts /\ c.run <= c.made + 1 + faults' /\ c.run >= 1
      /\ c.ent.ref = <<j, c.run>> /\ c.ent.status = "PROCESSING" /\ c.tx \in Txs
  BY <1>1, <1>2 DEF JobOK, Working
<1> QED BY <1>1, <1>3, <1>4, <1>5 DEF JobOK, PaidRef

\* A step that leaves accounts, announcements, transfers and faults alone.
LEMMA QuietStep ==
    ASSUME CashInv, UNCHANGED <<account, announced, transfer, faults>>
    PROVE  /\ account' \in [Users -> [details : AllDetails, recipient : AllDetails]]
           /\ announced' \in [Refs -> 0..2] /\ transfer' \in [Refs -> Transfers]
           /\ faults' \in 0..MaxFaults /\ faults' \in Nat /\ faults' >= faults
           /\ transfer' = transfer /\ \A r \in Refs : transfer'[r] = transfer[r]
BY BoundsAssumption DEF CashInv, TypeOK

\* findOneByOrFail and the status check.
LEMMA JobStartKeeps ==
    ASSUME CashInv, NEW j \in Jobs, JobStart(j), UNCHANGED provider
    PROVE  CashInv'
<1>1. /\ job[j].pc = "waiting" /\ UNCHANGED <<row, account, processed, handler, retrier, hook, transfer, notices>>
      /\ UNCHANGED <<announced, faults>>
  BY DEF JobStart
<1>2. JobOK(j) /\ TypeOK /\ job[j] \in JobCalls
  BY DEF CashInv, JobsOK, TypeOK
<1>3. PICK t \in Txs : t = job[j].tx
  BY <1>1, <1>2 DEF JobOK
<1>4. PICK e \in Rows : e = row[t]
  BY <1>2 DEF TypeOK
<1>5. faults \in Nat /\ job[j].run \in Nat /\ job[j].made \in Nat /\ faults \in 0..MaxFaults
      /\ job[j].made < JobAttempts /\ job[j].run <= job[j].made + faults
  BY <1>1, <1>2, BoundsAssumption DEF TypeOK, JobCalls, JobOK
<1>6. PICK c \in JobCalls :
        /\ job' = [job EXCEPT ![j] = c]
        /\ c = Rethrow(j) \/ c = EndJob(j) \/ c = [job[j] EXCEPT !.pc = "claim", !.ent = e]
  <2>1. Rethrow(j) \in JobCalls /\ EndJob(j) \in JobCalls
    BY <1>2, <1>5, RethrowFields, EndJobFields
  <2>2. [job[j] EXCEPT !.pc = "claim", !.ent = e] \in JobCalls
    BY <1>2 DEF JobCalls
  <2>3. \/ job' = [job EXCEPT ![j] = Rethrow(j)]
        \/ job' = [job EXCEPT ![j] = EndJob(j)]
        \/ job' = [job EXCEPT ![j] = [job[j] EXCEPT !.pc = "claim", !.ent = e]]
    BY <1>3, <1>4 DEF JobStart
  <2> QED BY <2>1, <2>2, <2>3
<1>7. /\ c.pc \in {"waiting", "done", "claim"} /\ c.tx = t /\ c.ev = job[j].ev /\ c.orphan = job[j].orphan
      /\ c.run = job[j].run
      /\ c.pc = "waiting" => c.made = job[j].made + 1 /\ c.made < JobAttempts
      /\ c.pc = "claim" => c.made = job[j].made
  <2>1. CASE c = Rethrow(j)
    BY <1>2, <1>3, <1>5, <2>1, RethrowFields
  <2>2. CASE c = EndJob(j)
    BY <1>2, <1>3, <2>2, EndJobFields
  <2>3. CASE c = [job[j] EXCEPT !.pc = "claim", !.ent = e]
    BY <1>2, <1>3, <2>3 DEF JobCalls
  <2> QED BY <1>6, <2>1, <2>2, <2>3
<1>8. JobOK(j)'
  <2>1. CASE c.pc = "claim"
    <3>1. job'[j] = c
      BY <1>6 DEF CashInv, TypeOK
    <3>2. ~Working(j)'
      BY <2>1, <3>1 DEF Working
    <3> QED BY <1>1, <1>2, <1>3, <1>5, <1>7, <2>1, <3>1, <3>2 DEF JobOK
  <2>2. CASE c.pc # "claim"
    <3>1. c.pc = "waiting" => c.run <= c.made + faults'
      BY <1>1, <1>5, <1>7
    <3> QED BY <1>1, <1>3, <1>6, <1>7, <2>2, <3>1, JobRests
  <2> QED BY <2>1, <2>2
<1>9. LiveOK'
  BY <1>1, <1>3, <1>6, <1>7, JobStepCounts
<1>10. row' = [row EXCEPT ![t] = e]
  BY <1>1, <1>4 DEF CashInv, TypeOK
<1>11. UNCHANGED <<account, announced, transfer, faults>>
  BY <1>1
<1>12. c.pc # "none" /\ job[j].pc # "none"
  BY <1>1, <1>7
<1> QED BY <1>1, <1>3, <1>4, <1>6, <1>7, <1>8, <1>9, <1>10, <1>11, <1>12, QuietStep, JobStepKeeps, ZenonT(30)

\* The claim.
LEMMA JobClaimKeeps ==
    ASSUME CashInv, NEW j \in Jobs, JobClaim(j), UNCHANGED provider
    PROVE  CashInv'
<1>1. /\ job[j].pc = "claim" /\ UNCHANGED <<account, processed, handler, retrier, hook, transfer, notices>>
      /\ UNCHANGED <<announced, faults>>
  BY DEF JobClaim
<1>2. JobOK(j) /\ TypeOK /\ job[j] \in JobCalls
  BY DEF CashInv, JobsOK, TypeOK
<1>3. PICK t \in Txs : t = job[j].tx
  BY <1>1, <1>2 DEF JobOK
<1>4. faults \in Nat /\ job[j].run \in Nat /\ job[j].made \in Nat /\ faults \in 0..MaxFaults
      /\ job[j].made < JobAttempts /\ job[j].run <= job[j].made + faults
  BY <1>1, <1>2, BoundsAssumption DEF TypeOK, JobCalls, JobOK
<1>5. CASE ~Claimed(j)
  <2>1. PICK e \in Rows : e = row[t]
    BY <1>2 DEF TypeOK
  <2>2. PICK c \in JobCalls : c = EndJob(j)
    BY <1>2, EndJobFields
  <2>3. job' = [job EXCEPT ![j] = c] /\ UNCHANGED row
    BY <1>5, <2>2 DEF JobClaim
  <2>4. c.pc = "done" /\ c.tx = t /\ c.ev = job[j].ev /\ c.orphan = job[j].orphan /\ c.run = job[j].run
    BY <1>2, <1>3, <2>2, EndJobFields
  <2>5. JobOK(j)'
    BY <1>1, <1>3, <2>3, <2>4, JobRests
  <2>6. LiveOK'
    BY <1>1, <1>3, <2>3, <2>4, JobStepCounts
  <2>7. row' = [row EXCEPT ![t] = e]
    BY <2>1, <2>3 DEF CashInv, TypeOK
  <2>8. UNCHANGED <<account, announced, transfer, faults>> /\ c.pc # "none" /\ job[j].pc # "none"
    BY <1>1, <2>4
  <2> QED BY <1>1, <1>3, <2>1, <2>3, <2>4, <2>5, <2>6, <2>7, <2>8, QuietStep, JobStepKeeps
<1>6. CASE Claimed(j)
  <2>1. PICK n \in 1..JobAttempts + MaxFaults : n = job[j].run + 1
    <3>1. job[j].run + 1 \in 1..JobAttempts + MaxFaults
      BY <1>4, BoundsAssumption
    <3> QED BY <3>1
  <2>2. PICK ref \in Refs : ref = <<j, n>>
    BY RefParts
  <2>3. PICK e \in Rows : e = ClaimedRow(row[t], ref)
    <3>1. row[t] \in Rows
      BY <1>2 DEF TypeOK
    <3>2. ClaimedRow(row[t], ref) \in Rows
      BY <3>1 DEF Rows, ClaimedRow
    <3> QED BY <3>2
  <2>4. PICK f \in Rows : f = [job[j].ent EXCEPT !.status = "PROCESSING", !.ref = ref]
    <3>1. [job[j].ent EXCEPT !.status = "PROCESSING", !.ref = ref] \in Rows
      BY <1>2 DEF JobCalls, Rows
    <3> QED BY <3>1
  <2>5. PICK c \in JobCalls : c = [job[j] EXCEPT !.pc = "account", !.run = n, !.ent = f]
    <3>1. n \in 0..JobAttempts + MaxFaults
      BY <2>1
    <3>2. [job[j] EXCEPT !.pc = "account", !.run = n, !.ent = f] \in JobCalls
      BY <1>2, <3>1 DEF JobCalls
    <3> QED BY <3>2
  <2>6. row' = [row EXCEPT ![t] = e]
    BY <1>3, <1>6, <2>1, <2>2, <2>3 DEF JobClaim
  <2>7. job' = [job EXCEPT ![j] = c]
    <3>1. job' = [job EXCEPT ![j].pc = "account", ![j].run = @ + 1,
                             ![j].ent = [@ EXCEPT !.status = "PROCESSING", !.ref = <<j, job[j].run + 1>>]]
      BY <1>6 DEF JobClaim
    <3> QED BY <1>2, <2>1, <2>2, <2>4, <2>5, <3>1 DEF TypeOK, JobCalls
  <2>8. /\ c.pc = "account" /\ c.tx = t /\ c.ev = job[j].ev /\ c.orphan = job[j].orphan /\ c.run = n
        /\ c.made = job[j].made /\ c.ent = f /\ f.ref = <<j, n>> /\ f.status = "PROCESSING"
    BY <1>2, <1>3, <2>2, <2>4, <2>5 DEF JobCalls, Rows
  <2>9. job'[j] = c
    BY <2>7 DEF CashInv, TypeOK
  <2>10. transfer[<<j, n>>].state = "none" /\ \A m \in 1..JobAttempts + MaxFaults : m > n => transfer[<<j, m>>].state = "none"
    BY <1>2, <1>4, <2>1 DEF JobOK
  <2>11. JobOK(j)'
    <3>1. n <= c.made + 1 + faults' /\ n >= 1 /\ c.made < JobAttempts
      BY <1>1, <1>4, <2>1, <2>8
    <3> QED BY <1>1, <2>8, <2>9, <2>10, <3>1 DEF JobOK, Working
  <2>12. RowOK(t, e)'
    <3>1. e.ref = ref /\ e.status = "PROCESSING"
      BY <1>2, <2>3 DEF TypeOK, Rows, ClaimedRow
    <3>2. TxOfRef(ref)' = t
      BY <2>2, <2>8, <2>9 DEF TxOfRef
    <3> QED BY <3>1, <3>2 DEF RowOK
  <2>13. LiveOK'
    BY <1>1, <1>3, <2>7, <2>8, JobStepCounts
  <2>14. UNCHANGED <<account, announced, transfer, faults>> /\ c.pc # "none" /\ job[j].pc # "none"
    BY <1>1, <2>8
  <2> QED BY <1>1, <1>3, <2>6, <2>7, <2>8, <2>11, <2>12, <2>13, <2>14, QuietStep, JobStepKeeps
<1> QED BY <1>5, <1>6

\* A job that has claimed its row.
LEMMA WorkingJob ==
    ASSUME CashInv, NEW j \in Jobs, Working(j)
    PROVE  /\ job[j] \in JobCalls /\ job[j].tx \in Txs /\ job[j].made < JobAttempts /\ job[j].pc # "none"
           /\ job[j].run \in 1..JobAttempts + MaxFaults /\ <<j, job[j].run>> \in Refs
           /\ job[j].ent \in Rows /\ job[j].ent.ref = <<j, job[j].run>> /\ job[j].ent.status = "PROCESSING"
           /\ job[j].run <= job[j].made + 1 + faults
           /\ faults \in Nat /\ faults \in 0..MaxFaults /\ job[j].run \in Nat /\ job[j].made \in Nat
           /\ UserOf[job[j].tx] \in Users
<1>1. JobOK(j) /\ job[j] \in JobCalls /\ job[j].pc \notin {"none", "done"}
  BY DEF CashInv, JobsOK, TypeOK, Working
<1>2. /\ job[j].run \in 0..JobAttempts + MaxFaults /\ job[j].made \in 0..JobAttempts /\ job[j].ent \in Rows
      /\ faults \in 0..MaxFaults
  BY <1>1 DEF JobCalls, CashInv, TypeOK
<1>3. job[j].run \in 1..JobAttempts + MaxFaults
  BY <1>1, <1>2, BoundsAssumption DEF JobOK
<1> QED BY <1>1, <1>2, <1>3, RefParts, BoundsAssumption DEF JobOK, Users

\* A worker goes on, and may write the entity of its claim over the row.
LEMMA JobGoesOn ==
    ASSUME CashInv, NEW j \in Jobs, Working(j), NEW c \in JobCalls, NEW e \in Rows,
           job' = [job EXCEPT ![j] = c], c.pc \in {"upsert", "send", "save", "publish", "catch"},
           c.tx = job[j].tx, c.ev = job[j].ev, c.orphan = job[j].orphan,
           c.run = job[j].run, c.made = job[j].made, c.ent = job[j].ent,
           row' = [row EXCEPT ![job[j].tx] = e],
           \/ e = row[job[j].tx]
           \/ /\ e.ref = <<j, job[j].run>>
              /\ e.status = "SUCCESSFUL" => transfer'[<<j, job[j].run>>].state \in {"success", "reversed"},
           UNCHANGED <<processed, handler, retrier, hook, notices, provider>>,
           account' \in [Users -> [details : AllDetails, recipient : AllDetails]],
           announced' \in [Refs -> 0..2], transfer' \in [Refs -> Transfers],
           faults' \in {faults, faults + 1}, faults' \in 0..MaxFaults,
           \/ /\ transfer' = transfer
              /\ \/ c.pc \in {"save", "publish"}
                 \/ job[j].pc \notin {"save", "publish"}
                 \/ faults' = faults + 1
           \/ /\ \A r \in Refs : r # <<j, job[j].run>> => transfer'[r] = transfer[r]
              /\ job[j].pc = "send"
              /\ c.pc = "save" \/ faults' = faults + 1,
           c.pc \in {"upsert", "send"} => job[j].pc \in {"account", "upsert"} /\ transfer' = transfer,
           c.pc = "save" /\ provider' = "mock" => transfer'[<<j, job[j].run>>].state \in {"success", "reversed"}
    PROVE  CashInv'
<1>1. PICK t \in Txs : t = job[j].tx
  BY WorkingJob
<1>2. faults \in Nat /\ faults' \in Nat /\ faults' >= faults
  BY WorkingJob, BoundsAssumption
<1>3. \A r \in Refs : r # <<j, job[j].run>> => transfer'[r] = transfer[r]
  OBVIOUS
<1>4. c.pc \in {"upsert", "send"} => transfer[<<j, job[j].run>>].state = "none" /\ UNCHANGED transfer
  BY DEF CashInv, JobsOK, JobOK
<1>5. JobOK(j)'
  BY <1>2, <1>3, <1>4, JobWorks
<1>6. LiveOK'
  <2>1. c.pc \in {"save", "publish"} => c.pc \in {"save", "publish", "done"}
    OBVIOUS
  <2>2. job[j].pc \notin {"save", "publish"} => job[j].pc \notin {"save", "publish", "done"}
    BY DEF Working
  <2> QED BY <2>1, <2>2, JobStepCounts
<1>7. e = row[t] \/ RowOK(t, e)'
  <2> SUFFICES ASSUME e # row[t] PROVE RowOK(t, e)'
    OBVIOUS
  <2>1. PICK r \in Refs : r = <<j, job[j].run>>
    BY WorkingJob
  <2>2. e.ref = r /\ (e.status = "SUCCESSFUL" => transfer'[r].state \in {"success", "reversed"})
    BY <1>1, <2>1
  <2>3. job'[j] = c /\ r[1] = j
    BY <2>1 DEF CashInv, TypeOK
  <2>4. TxOfRef(r)' = t
    BY <1>1, <2>3 DEF TxOfRef
  <2>5. e.status = "SUCCESSFUL" => Paid(t)'
    BY <2>2, <2>4 DEF Paid, PaidRef
  <2> QED BY <2>2, <2>4, <2>5 DEF RowOK
<1>8. job[j].pc # "none" /\ c.pc # "none"
  BY WorkingJob
<1>9. transfer' # transfer => job[j].pc = "send"
  OBVIOUS
<1>10. row' = [row EXCEPT ![t] = e]
  BY <1>1
<1> QED BY <1>1, <1>2, <1>3, <1>5, <1>6, <1>7, <1>8, <1>9, <1>10, JobStepKeeps

\* A failure is counted.
LEMMA FaultCounts ==
    ASSUME CashInv, NEW kind, UNCHANGED faults \/ Fault(kind)
    PROVE  /\ faults' \in {faults, faults + 1} /\ faults' \in 0..MaxFaults /\ faults' \in Nat /\ faults' >= faults
           /\ Fault(kind) => faults' = faults + 1
BY BoundsAssumption DEF CashInv, TypeOK, Fault

\* The catch block is entered: nothing has been written, and money may have been sent only
\* if something failed.
LEMMA JobFailsKeeps ==
    ASSUME CashInv, NEW j \in Jobs, Working(j), NEW retryable \in BOOLEAN, Fails(j, retryable),
           UNCHANGED <<row, account, processed, handler, retrier, hook, notices, announced, provider>>,
           transfer' \in [Refs -> Transfers],
           faults' \in {faults, faults + 1}, faults' \in 0..MaxFaults,
           \/ /\ transfer' = transfer
              /\ job[j].pc \notin {"save", "publish"} \/ faults' = faults + 1
           \/ /\ \A r \in Refs : r # <<j, job[j].run>> => transfer'[r] = transfer[r]
              /\ job[j].pc = "send"
              /\ faults' = faults + 1
    PROVE  CashInv'
<1>1. job[j] \in JobCalls /\ TypeOK
  BY DEF CashInv, TypeOK
<1>2. PICK c \in JobCalls : c = [job[j] EXCEPT !.pc = "catch", !.retryable = retryable]
  <2>1. [job[j] EXCEPT !.pc = "catch", !.retryable = retryable] \in JobCalls
    BY <1>1 DEF JobCalls
  <2> QED BY <2>1
<1>3. job' = [job EXCEPT ![j] = c]
  BY <1>1, <1>2 DEF Fails, TypeOK, JobCalls
<1>4. /\ c.pc = "catch" /\ c.tx = job[j].tx /\ c.ev = job[j].ev /\ c.orphan = job[j].orphan
      /\ c.run = job[j].run /\ c.made = job[j].made /\ c.ent = job[j].ent
  BY <1>1, <1>2 DEF JobCalls
<1>5. PICK e \in Rows : e = row[job[j].tx]
  BY <1>1, WorkingJob DEF TypeOK
<1>6. row' = [row EXCEPT ![job[j].tx] = e]
  BY <1>1, <1>5 DEF TypeOK
<1>7. /\ account' \in [Users -> [details : AllDetails, recipient : AllDetails]]
      /\ announced' \in [Refs -> 0..2]
  BY <1>1 DEF TypeOK
<1>8. UNCHANGED <<processed, handler, retrier, hook, notices, provider>>
  OBVIOUS
<1> QED BY <1>3, <1>4, <1>5, <1>6, <1>7, <1>8, JobGoesOn

\* A worker goes on inside its try block and leaves rows, transfers and faults alone.
LEMMA JobMovesKeeps ==
    ASSUME CashInv, NEW j \in Jobs, job[j].pc \in {"account", "upsert"}, NEW c \in JobCalls,
           job' = [job EXCEPT ![j] = c], c.pc \in {"upsert", "send"},
           c.tx = job[j].tx, c.ev = job[j].ev, c.orphan = job[j].orphan,
           c.run = job[j].run, c.made = job[j].made, c.ent = job[j].ent,
           UNCHANGED <<row, processed, handler, retrier, hook, transfer, notices, announced, faults, provider>>,
           account' \in [Users -> [details : AllDetails, recipient : AllDetails]]
    PROVE  CashInv'
<1>1. TypeOK /\ Working(j)
  BY DEF CashInv, Working
<1>2. PICK e \in Rows : e = row[job[j].tx]
  BY <1>1, WorkingJob DEF TypeOK
<1>3. row' = [row EXCEPT ![job[j].tx] = e]
  BY <1>1, <1>2 DEF TypeOK
<1>4. announced' \in [Refs -> 0..2] /\ transfer' \in [Refs -> Transfers] /\ transfer' = transfer
      /\ faults' \in 0..MaxFaults /\ faults' \in {faults, faults + 1}
  BY <1>1 DEF TypeOK
<1>5. UNCHANGED <<processed, handler, retrier, hook, notices, provider>> /\ job[j].pc \notin {"save", "publish"}
  OBVIOUS
<1> QED BY <1>1, <1>2, <1>3, <1>4, <1>5, JobGoesOn

\* A worker fails before it has sent anything.
LEMMA JobFailsEarlyKeeps ==
    ASSUME CashInv, NEW j \in Jobs, job[j].pc \in {"account", "upsert"}, NEW retryable \in BOOLEAN,
           Fails(j, retryable), UNCHANGED faults \/ Fault("dbError"),
           UNCHANGED <<row, account, processed, handler, retrier, hook, transfer, notices, announced, provider>>
    PROVE  CashInv'
<1>1. Working(j) /\ transfer' \in [Refs -> Transfers] /\ transfer' = transfer /\ job[j].pc \notin {"save", "publish"}
  BY DEF CashInv, TypeOK, Working
<1>2. faults' \in {faults, faults + 1} /\ faults' \in 0..MaxFaults
  BY FaultCounts
<1> QED BY <1>1, <1>2, JobFailsKeeps

\* The account of a payment is looked up.
LEMMA JobAccountKeeps ==
    ASSUME CashInv, NEW j \in Jobs, JobAccount(j), UNCHANGED provider
    PROVE  CashInv'
<1>1. /\ job[j].pc = "account"
      /\ UNCHANGED <<row, account, processed, handler, retrier, hook, transfer, notices, announced>>
  BY DEF JobAccount
<1>2. TypeOK /\ job[j] \in JobCalls /\ UserOf[job[j].tx] \in Users
  BY <1>1, WorkingJob DEF CashInv, TypeOK, Working
<1>3. CASE \E retryable \in BOOLEAN : Fails(j, retryable) /\ (UNCHANGED faults \/ Fault("dbError"))
  BY <1>1, <1>3, JobFailsEarlyKeeps
<1>4. CASE /\ job' = [job EXCEPT ![j].pc = "upsert", ![j].found = HasAccount(UserOf[job[j].tx]),
                                 ![j].recipient = account[UserOf[job[j].tx]].recipient]
           /\ UNCHANGED faults
  <2>1. PICK a \in AllDetails : a = account[UserOf[job[j].tx]].recipient
    BY <1>2 DEF TypeOK
  <2>2. PICK b \in BOOLEAN : b = HasAccount(UserOf[job[j].tx])
    BY DEF HasAccount
  <2>3. PICK c \in JobCalls : c = [job[j] EXCEPT !.pc = "upsert", !.found = b, !.recipient = a]
    <3>1. [job[j] EXCEPT !.pc = "upsert", !.found = b, !.recipient = a] \in JobCalls
      BY <1>2 DEF JobCalls
    <3> QED BY <3>1
  <2>4. job' = [job EXCEPT ![j] = c]
    BY <1>2, <1>4, <2>1, <2>2, <2>3 DEF TypeOK, JobCalls
  <2>5. /\ c.pc = "upsert" /\ c.tx = job[j].tx /\ c.ev = job[j].ev /\ c.orphan = job[j].orphan
        /\ c.run = job[j].run /\ c.made = job[j].made /\ c.ent = job[j].ent
    BY <1>2, <2>3 DEF JobCalls
  <2>6. account' \in [Users -> [details : AllDetails, recipient : AllDetails]]
    BY <1>1, <1>2 DEF TypeOK
  <2> QED BY <1>1, <1>4, <2>4, <2>5, <2>6, JobMovesKeeps
<1> QED BY <1>3, <1>4 DEF JobAccount

\* The account is saved.
LEMMA JobUpsertKeeps ==
    ASSUME CashInv, NEW j \in Jobs, JobUpsert(j), UNCHANGED provider
    PROVE  CashInv'
<1>1. /\ job[j].pc = "upsert"
      /\ UNCHANGED <<row, processed, handler, retrier, hook, transfer, notices, announced>>
  BY DEF JobUpsert
<1>2. TypeOK /\ job[j] \in JobCalls /\ UserOf[job[j].tx] \in Users
  BY <1>1, WorkingJob DEF CashInv, TypeOK, Working
<1>3. CASE UNCHANGED account /\ \E retryable \in BOOLEAN : Fails(j, retryable) /\ (UNCHANGED faults \/ Fault("dbError"))
  BY <1>1, <1>3, JobFailsEarlyKeeps
<1>4. CASE /\ account' = [account EXCEPT ![UserOf[job[j].tx]] = SavedAccount(job[j].details, job[j].recipient)]
           /\ job' = [job EXCEPT ![j].pc = "send"]
           /\ UNCHANGED faults
  <2>1. PICK c \in JobCalls : c = [job[j] EXCEPT !.pc = "send"]
    <3>1. [job[j] EXCEPT !.pc = "send"] \in JobCalls
      BY <1>2 DEF JobCalls
    <3> QED BY <3>1
  <2>2. job' = [job EXCEPT ![j] = c]
    BY <1>2, <1>4, <2>1 DEF TypeOK, JobCalls
  <2>3. /\ c.pc = "send" /\ c.tx = job[j].tx /\ c.ev = job[j].ev /\ c.orphan = job[j].orphan
        /\ c.run = job[j].run /\ c.made = job[j].made /\ c.ent = job[j].ent
    BY <1>2, <2>1 DEF JobCalls
  <2>4. account' \in [Users -> [details : AllDetails, recipient : AllDetails]]
    <3>1. SavedAccount(job[j].details, job[j].recipient) \in [details : AllDetails, recipient : AllDetails]
      BY <1>2 DEF JobCalls, SavedAccount
    <3> QED BY <1>2, <1>4, <3>1 DEF TypeOK
  <2> QED BY <1>1, <1>4, <2>2, <2>3, <2>4, JobMovesKeeps
<1> QED BY <1>3, <1>4 DEF JobUpsert

\* A worker leaves its job, which is over or will be run again.
LEMMA JobStops ==
    ASSUME CashInv, NEW j \in Jobs, job[j].pc \notin {"none", "done"}, NEW c \in JobCalls, NEW t \in Txs, NEW e \in Rows,
           t = job[j].tx, job' = [job EXCEPT ![j] = c], c.pc \in {"waiting", "done"},
           c.tx = job[j].tx, c.ev = job[j].ev, c.orphan = job[j].orphan, c.run = job[j].run,
           c.pc = "waiting" => c.made < JobAttempts /\ c.run <= c.made + faults',
           c.pc = "done" \/ job[j].pc \notin {"save", "publish"} \/ faults' = faults + 1,
           row' = [row EXCEPT ![t] = e],
           \/ e = row[t]
           \/ e.status # "SUCCESSFUL" /\ (e.ref = row[t].ref \/ (Working(j) /\ e.ref = <<j, job[j].run>>)),
           UNCHANGED <<processed, handler, retrier, hook, notices, transfer, announced, provider>>,
           account' \in [Users -> [details : AllDetails, recipient : AllDetails]],
           faults' \in {faults, faults + 1}, faults' \in 0..MaxFaults
    PROVE  CashInv'
<1>1. faults \in Nat /\ faults' >= faults /\ TypeOK
  BY BoundsAssumption DEF CashInv, TypeOK
<1>2. JobOK(j)'
  BY JobRests
<1>3. LiveOK'
  BY JobStepCounts
<1>4. job'[j] = c /\ \A i \in Jobs \ {j} : job'[i] = job[i]
  BY <1>1 DEF TypeOK
<1>5. Steady
  BY <1>4 DEF Steady, PaidRef
<1>6. e = row[t] \/ RowOK(t, e)'
  <2> SUFFICES ASSUME e # row[t] PROVE RowOK(t, e)'
    OBVIOUS
  <2>1. e.status # "SUCCESSFUL"
    OBVIOUS
  <2>2. CASE e.ref = row[t].ref
    <3>1. RowOK(t, e)
      BY <2>1, <2>2 DEF RowOK, CashInv, RowsOK
    <3> QED BY <1>5, <3>1, CopyStays
  <2>3. CASE Working(j) /\ e.ref = <<j, job[j].run>>
    <3>1. PICK r \in Refs : r = <<j, job[j].run>>
      BY <2>3, WorkingJob
    <3>2. TxOfRef(r)' = t
      BY <1>4, <3>1 DEF TxOfRef
    <3> QED BY <2>1, <2>3, <3>1, <3>2 DEF RowOK
  <2> QED BY <2>2, <2>3
<1>7. announced' \in [Refs -> 0..2] /\ transfer' \in [Refs -> Transfers] /\ transfer' = transfer
      /\ \A r \in Refs : transfer'[r] = transfer[r]
  BY <1>1 DEF TypeOK
<1>8. job[j].pc # "none" /\ c.pc # "none"
  OBVIOUS
<1>9. UNCHANGED <<processed, handler, retrier, hook, notices, provider>>
  OBVIOUS
<1> QED BY <1>1, <1>2, <1>3, <1>6, <1>7, <1>8, <1>9, JobStepKeeps

\* sendCashback.
LEMMA JobSendKeeps ==
    ASSUME CashInv, NEW j \in Jobs, JobSend(j), UNCHANGED provider
    PROVE  CashInv'
<1>1. /\ job[j].pc = "send" /\ UNCHANGED <<row, account, processed, handler, retrier, hook, notices, announced>>
      /\ Working(j)
  BY DEF JobSend, Working
<1>2. TypeOK /\ job[j] \in JobCalls
  BY DEF CashInv, TypeOK
<1>3. PICK r \in Refs : r = <<j, job[j].run>> /\ r = job[j].ent.ref
  BY <1>1, WorkingJob
<1>4. PICK a \in AllDetails : a = Destination(j)
  BY <1>2 DEF Destination, JobCalls
<1>5. Accept(j) => /\ transfer' \in [Refs -> Transfers]
                   /\ \A s \in Refs : s # r => transfer'[s] = transfer[s]
                   /\ provider = "mock" => transfer'[r].state = "success"
  <2> SUFFICES ASSUME Accept(j)
               PROVE  /\ transfer' \in [Refs -> Transfers]
                      /\ \A s \in Refs : s # r => transfer'[s] = transfer[s]
                      /\ provider = "mock" => transfer'[r].state = "success"
    OBVIOUS
  <2>1. PICK s \in {"success", "open"} : s = IF provider = "mock" THEN "success" ELSE "open"
    OBVIOUS
  <2>2. PICK x \in Transfers : x = [state |-> s, dest |-> a]
    <3>1. [state |-> s, dest |-> a] \in Transfers
      BY DEF Transfers
    <3> QED BY <3>1
  <2>3. transfer' = [transfer EXCEPT ![r] = x]
    BY <1>3, <1>4, <2>1, <2>2 DEF Accept
  <2>4. x.state = s
    BY <2>2
  <2> QED BY <1>2, <2>1, <2>3, <2>4 DEF TypeOK
<1>6. CASE UNCHANGED <<transfer, faults>> /\ \E retryable \in BOOLEAN : Fails(j, retryable)
  <2>1. PICK retryable \in BOOLEAN : Fails(j, retryable)
    BY <1>6
  <2>2. faults' \in {faults, faults + 1} /\ faults' \in 0..MaxFaults /\ transfer' \in [Refs -> Transfers]
        /\ transfer' = transfer /\ job[j].pc \notin {"save", "publish"}
    BY <1>1, <1>2, <1>6 DEF TypeOK
  <2> QED BY <1>1, <2>1, <2>2, JobFailsKeeps
<1>7. CASE Fault("lostResponse") /\ Accept(j) /\ \E retryable \in BOOLEAN : Fails(j, retryable)
  <2>1. PICK retryable \in BOOLEAN : Fails(j, retryable)
    BY <1>7
  <2>2. faults' \in {faults, faults + 1} /\ faults' \in 0..MaxFaults /\ faults' = faults + 1
    BY <1>7, FaultCounts
  <2>3. transfer' \in [Refs -> Transfers] /\ \A s \in Refs : s # <<j, job[j].run>> => transfer'[s] = transfer[s]
    BY <1>3, <1>5, <1>7
  <2> QED BY <1>1, <2>1, <2>2, <2>3, JobFailsKeeps
<1>8. CASE Accept(j) /\ UNCHANGED faults /\ job' = [job EXCEPT ![j].pc = "save", ![j].recipient = Destination(j)]
  <2>1. PICK c \in JobCalls : c = [job[j] EXCEPT !.pc = "save", !.recipient = a]
    <3>1. [job[j] EXCEPT !.pc = "save", !.recipient = a] \in JobCalls
      BY <1>2 DEF JobCalls
    <3> QED BY <3>1
  <2>2. job' = [job EXCEPT ![j] = c]
    BY <1>2, <1>4, <1>8, <2>1 DEF TypeOK, JobCalls
  <2>3. /\ c.pc = "save" /\ c.tx = job[j].tx /\ c.ev = job[j].ev /\ c.orphan = job[j].orphan
        /\ c.run = job[j].run /\ c.made = job[j].made /\ c.ent = job[j].ent
    BY <1>2, <2>1 DEF JobCalls
  <2>4. PICK e \in Rows : e = row[job[j].tx]
    BY <1>1, <1>2, WorkingJob DEF TypeOK
  <2>5. row' = [row EXCEPT ![job[j].tx] = e]
    BY <1>1, <1>2, <2>4 DEF TypeOK
  <2>6. /\ account' \in [Users -> [details : AllDetails, recipient : AllDetails]]
        /\ announced' \in [Refs -> 0..2] /\ faults' \in 0..MaxFaults /\ faults' \in {faults, faults + 1}
    BY <1>1, <1>2, <1>8 DEF TypeOK
  <2>7. /\ transfer' \in [Refs -> Transfers]
        /\ \A s \in Refs : s # <<j, job[j].run>> => transfer'[s] = transfer[s]
        /\ provider' = "mock" => transfer'[<<j, job[j].run>>].state \in {"success", "reversed"}
    BY <1>3, <1>5, <1>8
  <2>8. UNCHANGED <<processed, handler, retrier, hook, notices, provider>>
    BY <1>1
  <2> QED BY <1>1, <2>2, <2>3, <2>4, <2>5, <2>6, <2>7, <2>8, JobGoesOn
<1> QED BY <1>6, <1>7, <1>8 DEF JobSend

\* The result is saved.
LEMMA JobSaveKeeps ==
    ASSUME CashInv, NEW j \in Jobs, JobSave(j), UNCHANGED provider
    PROVE  CashInv'
<1>1. /\ job[j].pc = "save" /\ UNCHANGED <<processed, handler, retrier, hook, transfer, notices>>
      /\ Working(j)
  BY DEF JobSave, Working
<1>2. TypeOK /\ job[j] \in JobCalls /\ transfer' \in [Refs -> Transfers] /\ provider \in {"paystack", "mock"}
  BY <1>1, ProviderAssumption DEF CashInv, TypeOK
<1>3. PICK r \in Refs : r = <<j, job[j].run>> /\ r = job[j].ent.ref
  BY <1>1, WorkingJob
<1>4. CASE Fault("dbError") /\ UNCHANGED <<row, account, announced>> /\ \E retryable \in BOOLEAN : Fails(j, retryable)
  <2>1. PICK retryable \in BOOLEAN : Fails(j, retryable)
    BY <1>4
  <2>2. faults' \in {faults, faults + 1} /\ faults' \in 0..MaxFaults /\ faults' = faults + 1
    BY <1>4, FaultCounts
  <2> QED BY <1>1, <1>2, <1>4, <2>1, <2>2, JobFailsKeeps
<1>5. CASE ~(Fault("dbError") /\ UNCHANGED <<row, account, announced>> /\ \E retryable \in BOOLEAN : Fails(j, retryable))
  <2>1. PICK t \in Txs : t = job[j].tx
    BY <1>1, WorkingJob
  <2>2. PICK s \in {"SUCCESSFUL", "PENDING"} : s = ResultStatus(provider)
    BY DEF ResultStatus
  <2>3. s = "SUCCESSFUL" <=> provider = "mock"
    BY <2>2 DEF ResultStatus
  <2>4. PICK e \in Rows : e = [job[j].ent EXCEPT !.status = s, !.retryable = None]
    <3>1. [job[j].ent EXCEPT !.status = s, !.retryable = None] \in Rows
      BY <1>2 DEF JobCalls, Rows
    <3> QED BY <3>1
  <2>5. e.ref = r /\ e.status = s
    BY <1>2, <1>3, <2>4 DEF JobCalls, Rows
  <2>6. row' = [row EXCEPT ![t] = e] /\ UNCHANGED faults
    BY <1>5, <2>1, <2>2, <2>4 DEF JobSave
  <2>7. account' = IF provider = "paystack"
                   THEN [account EXCEPT ![UserOf[t]] = [details |-> job[j].details, recipient |-> job[j].recipient]]
                   ELSE account
    BY <1>5, <2>1 DEF JobSave, SavedAccount
  <2>8. account' \in [Users -> [details : AllDetails, recipient : AllDetails]]
    <3>1. [details |-> job[j].details, recipient |-> job[j].recipient] \in [details : AllDetails, recipient : AllDetails]
      BY <1>2 DEF JobCalls
    <3> QED BY <1>2, <2>7, <3>1 DEF TypeOK
  <2>9. faults' \in {faults, faults + 1} /\ faults' \in 0..MaxFaults
    BY <1>2, <2>6 DEF TypeOK
  <2>10. CASE s = "SUCCESSFUL"
    <3>1. Announce(r) /\ job' = [job EXCEPT ![j].pc = "publish"]
      BY <1>3, <1>5, <2>2, <2>10 DEF JobSave
    <3>2. announced' \in [Refs -> 0..2]
      BY <1>2, <3>1 DEF Announce, TypeOK
    <3>3. PICK c \in JobCalls : c = [job[j] EXCEPT !.pc = "publish"]
      <4>1. [job[j] EXCEPT !.pc = "publish"] \in JobCalls
        BY <1>2 DEF JobCalls
      <4> QED BY <4>1
    <3>4. job' = [job EXCEPT ![j] = c]
      BY <1>2, <3>1, <3>3 DEF TypeOK, JobCalls
    <3>5. /\ c.pc = "publish" /\ c.tx = job[j].tx /\ c.ev = job[j].ev /\ c.orphan = job[j].orphan
          /\ c.run = job[j].run /\ c.made = job[j].made /\ c.ent = job[j].ent
      BY <1>2, <3>3 DEF JobCalls
    <3>6. transfer'[<<j, job[j].run>>].state \in {"success", "reversed"}
      BY <1>1, <2>3, <2>10 DEF CashInv, JobsOK, JobOK, PaidRef
    <3>7. UNCHANGED <<processed, handler, retrier, hook, notices, provider>> /\ transfer' = transfer
      BY <1>1
    <3>8. row' = [row EXCEPT ![job[j].tx] = e] /\ e.ref = <<j, job[j].run>>
      BY <1>3, <2>1, <2>5, <2>6
    <3> QED BY <1>1, <1>2, <2>8, <2>9, <3>2, <3>4, <3>5, <3>6, <3>7, <3>8, JobGoesOn
  <2>11. CASE s = "PENDING"
    <3>1. UNCHANGED announced /\ job' = [job EXCEPT ![j] = EndJob(j)]
      BY <1>5, <2>2, <2>11 DEF JobSave, AfterAccepted
    <3>2. PICK c \in JobCalls : c = EndJob(j)
      BY <1>2, EndJobFields
    <3>3. /\ c.pc = "done" /\ c.tx = job[j].tx /\ c.ev = job[j].ev /\ c.orphan = job[j].orphan
          /\ c.run = job[j].run
      BY <1>2, <3>2, EndJobFields
    <3>4. job' = [job EXCEPT ![j] = c] /\ UNCHANGED <<processed, handler, retrier, hook, notices, transfer, announced, provider>>
      BY <1>1, <3>1, <3>2
    <3>5. e.status # "SUCCESSFUL" /\ e.ref = <<j, job[j].run>> /\ job[j].pc \notin {"none", "done"}
      BY <1>1, <1>3, <2>5, <2>11
    <3> QED BY <1>1, <2>1, <2>6, <2>8, <2>9, <3>3, <3>4, <3>5, JobStops
  <2> QED BY <2>10, <2>11
<1> QED BY <1>4, <1>5

\* The event of a paid transaction is published.
LEMMA JobPublishKeeps ==
    ASSUME CashInv, NEW j \in Jobs, JobPublish(j), UNCHANGED provider
    PROVE  CashInv'
<1>1. /\ job[j].pc = "publish" /\ Working(j)
      /\ UNCHANGED <<row, account, processed, handler, retrier, hook, transfer, notices, announced, provider>>
  BY DEF JobPublish, Working
<1>2. TypeOK /\ transfer' \in [Refs -> Transfers]
  BY <1>1 DEF CashInv, TypeOK
<1>3. CASE Fault("dbError") /\ \E retryable \in BOOLEAN : Fails(j, retryable)
  <2>1. PICK retryable \in BOOLEAN : Fails(j, retryable)
    BY <1>3
  <2>2. faults' \in {faults, faults + 1} /\ faults' \in 0..MaxFaults /\ faults' = faults + 1
    BY <1>3, FaultCounts
  <2> QED BY <1>1, <1>2, <2>1, <2>2, JobFailsKeeps
<1>4. CASE job' = [job EXCEPT ![j] = EndJob(j)] /\ UNCHANGED faults
  <2>1. PICK c \in JobCalls : c = EndJob(j)
    BY <1>2, EndJobFields
  <2>2. c.pc = "done" /\ c.tx = job[j].tx /\ c.ev = job[j].ev /\ c.orphan = job[j].orphan /\ c.run = job[j].run
    BY <1>2, <2>1, EndJobFields
  <2>3. PICK t \in Txs : t = job[j].tx
    BY <1>1, WorkingJob
  <2>4. PICK e \in Rows : e = row[t]
    BY <1>2 DEF TypeOK
  <2>5. row' = [row EXCEPT ![t] = e] /\ job' = [job EXCEPT ![j] = c]
    BY <1>1, <1>2, <1>4, <2>1, <2>4 DEF TypeOK
  <2>6. /\ account' \in [Users -> [details : AllDetails, recipient : AllDetails]]
        /\ faults' \in {faults, faults + 1} /\ faults' \in 0..MaxFaults /\ job[j].pc \notin {"none", "done"}
    BY <1>1, <1>2, <1>4 DEF TypeOK
  <2>7. UNCHANGED <<processed, handler, retrier, hook, notices, transfer, announced, provider>> /\ c.pc # "waiting"
    BY <1>1, <2>2
  <2> QED BY <2>2, <2>3, <2>4, <2>5, <2>6, <2>7, JobStops
<1> QED BY <1>3, <1>4 DEF JobPublish

\* The catch block.
LEMMA JobCatchKeeps ==
    ASSUME CashInv, NEW j \in Jobs, JobCatch(j), UNCHANGED provider
    PROVE  CashInv'
<1>1. /\ job[j].pc = "catch" /\ Working(j) /\ job[j].pc \notin {"none", "done", "save", "publish"}
      /\ UNCHANGED <<processed, handler, retrier, hook, notices, transfer, announced, provider>>
      /\ UNCHANGED account
  BY DEF JobCatch, Working
<1>2. TypeOK /\ job[j] \in JobCalls
  BY DEF CashInv, TypeOK
<1>3. PICK t \in Txs : t = job[j].tx
  BY <1>1, WorkingJob
<1>4. job[j].made < JobAttempts /\ job[j].run <= job[j].made + 1 + faults /\ faults \in Nat /\ job[j].run \in Nat
      /\ job[j].made \in Nat
  BY <1>1, WorkingJob
<1>5. faults' \in {faults, faults + 1} /\ faults' \in 0..MaxFaults
  <2>1. UNCHANGED faults \/ Fault("dbError")
    BY DEF JobCatch
  <2> QED BY <2>1, FaultCounts
<1>6. PICK c \in JobCalls : job' = [job EXCEPT ![j] = c] /\ (c = Rethrow(j) \/ c = EndJob(j))
  <2>1. Rethrow(j) \in JobCalls /\ EndJob(j) \in JobCalls
    BY <1>2, <1>4, RethrowFields, EndJobFields
  <2>2. job' = [job EXCEPT ![j] = Rethrow(j)] \/ job' = [job EXCEPT ![j] = EndJob(j)]
    BY DEF JobCatch
  <2> QED BY <2>1, <2>2
<1>7. /\ c.pc \in {"waiting", "done"} /\ c.tx = job[j].tx /\ c.ev = job[j].ev /\ c.orphan = job[j].orphan
      /\ c.run = job[j].run
      /\ c.pc = "waiting" => c.made = job[j].made + 1 /\ c.made < JobAttempts
  <2>1. CASE c = Rethrow(j)
    BY <1>2, <1>4, <2>1, RethrowFields
  <2>2. CASE c = EndJob(j)
    BY <1>2, <2>2, EndJobFields
  <2> QED BY <1>6, <2>1, <2>2
<1>8. c.pc = "waiting" => c.made < JobAttempts /\ c.run <= c.made + faults'
  BY <1>4, <1>5, <1>7
<1>9. PICK e \in Rows :
        /\ row' = [row EXCEPT ![t] = e]
        /\ \/ e = row[t]
           \/ e.status # "SUCCESSFUL" /\ (e.ref = row[t].ref \/ e.ref = <<j, job[j].run>>)
  <2>1. row[t] \in Rows /\ job[j].ent \in Rows /\ job[j].retryable \in BOOLEAN
    BY <1>2 DEF TypeOK, JobCalls
  <2>2. CASE row' = row
    <3>1. row' = [row EXCEPT ![t] = row[t]]
      BY <1>2, <2>2 DEF TypeOK
    <3> QED BY <2>1, <3>1
  <2>3. CASE row' = [row EXCEPT ![t].status = "PENDING"]
    <3>1. PICK e \in Rows : e = [row[t] EXCEPT !.status = "PENDING"]
      <4>1. [row[t] EXCEPT !.status = "PENDING"] \in Rows
        BY <2>1 DEF Rows
      <4> QED BY <4>1
    <3>2. e.ref = row[t].ref /\ e.status = "PENDING" /\ row' = [row EXCEPT ![t] = e]
      BY <1>2, <2>1, <2>3, <3>1 DEF TypeOK, Rows
    <3> QED BY <3>2
  <2>4. CASE row' = [row EXCEPT ![t] = [job[j].ent EXCEPT !.status = "FAILED", !.retryable = job[j].retryable,
                                                           !.retryCount = @ + 1]]
    <3>1. PICK b \in BOOLEAN : b = job[j].retryable
      BY <2>1
    <3>2. PICK n \in Nat : n = job[j].ent.retryCount + 1
      <4>1. PICK m \in Nat : m = job[j].ent.retryCount
        BY <2>1 DEF Rows
      <4> QED BY <4>1
    <3>3. PICK e \in Rows : e = [job[j].ent EXCEPT !.status = "FAILED", !.retryable = b, !.retryCount = n]
      <4>1. [job[j].ent EXCEPT !.status = "FAILED", !.retryable = b, !.retryCount = n] \in Rows
        BY <2>1 DEF Rows
      <4> QED BY <4>1
    <3>4. e.status = "FAILED" /\ e.ref = job[j].ent.ref
      BY <2>1, <3>3 DEF Rows
    <3>5. row' = [row EXCEPT ![t] = e]
      BY <2>4, <3>1, <3>2, <3>3
    <3>6. e.ref = <<j, job[j].run>>
      BY <1>1, <3>4, WorkingJob
    <3> QED BY <3>4, <3>5, <3>6
  <2> QED BY <1>3, <2>2, <2>3, <2>4 DEF JobCatch
<1>10. account' \in [Users -> [details : AllDetails, recipient : AllDetails]]
  BY <1>1, <1>2 DEF TypeOK
<1>11. UNCHANGED <<processed, handler, retrier, hook, notices, transfer, announced, provider>>
  BY <1>1
<1>12. job[j].pc \notin {"none", "done"} /\ job[j].pc \notin {"save", "publish"} /\ Working(j)
  BY <1>1
<1>13. \/ e = row[t]
       \/ e.status # "SUCCESSFUL" /\ (e.ref = row[t].ref \/ (Working(j) /\ e.ref = <<j, job[j].run>>))
  BY <1>9, <1>12
<1>14. row' = [row EXCEPT ![t] = e] /\ job' = [job EXCEPT ![j] = c]
  BY <1>6, <1>9
<1>15. c.tx = job[j].tx /\ c.ev = job[j].ev /\ c.orphan = job[j].orphan /\ c.run = job[j].run /\ c.pc \in {"waiting", "done"}
  BY <1>7
<1> QED BY <1>3, <1>5, <1>8, <1>10, <1>11, <1>12, <1>13, <1>14, <1>15, JobStops

\* The worker dies.
LEMMA JobCrashKeeps ==
    ASSUME CashInv, NEW j \in Jobs, JobCrash(j), UNCHANGED provider
    PROVE  CashInv'
<1>1. /\ job[j].pc \in {"claim", "account", "upsert", "send", "save", "publish", "catch"}
      /\ job[j].pc \notin {"none", "done"}
      /\ UNCHANGED <<processed, handler, retrier, hook, notices, transfer, announced, provider>>
      /\ UNCHANGED <<row, account>>
      /\ job' = [job EXCEPT ![j] = [EndJob(j) EXCEPT !.pc = "waiting"]]
  BY DEF JobCrash
<1>2. TypeOK /\ job[j] \in JobCalls /\ JobOK(j)
  BY DEF CashInv, TypeOK, JobsOK
<1>3. PICK t \in Txs : t = job[j].tx
  BY <1>1, <1>2 DEF JobOK
<1>4. job[j].made < JobAttempts /\ job[j].run <= job[j].made + 1 + faults /\ faults \in Nat /\ job[j].run \in Nat
      /\ job[j].made \in Nat
  BY <1>1, <1>2, BoundsAssumption DEF JobOK, Working, JobCalls, TypeOK
<1>5. faults' \in {faults, faults + 1} /\ faults' \in 0..MaxFaults /\ faults' = faults + 1
  BY FaultCounts DEF JobCrash
<1>6. PICK f \in JobCalls : f = EndJob(j)
  BY <1>2, EndJobFields
<1>7. PICK c \in JobCalls : c = [f EXCEPT !.pc = "waiting"]
  <2>1. [f EXCEPT !.pc = "waiting"] \in JobCalls
    BY DEF JobCalls
  <2> QED BY <2>1
<1>8. job' = [job EXCEPT ![j] = c]
  BY <1>1, <1>6, <1>7
<1>9. /\ f.tx = job[j].tx /\ f.ev = job[j].ev /\ f.orphan = job[j].orphan /\ f.run = job[j].run
      /\ f.made = job[j].made
  BY <1>2, <1>6, EndJobFields
<1>10. /\ c.pc = "waiting" /\ c.tx = job[j].tx /\ c.ev = job[j].ev /\ c.orphan = job[j].orphan /\ c.run = job[j].run
       /\ c.made = job[j].made
  BY <1>7, <1>9 DEF JobCalls
<1>11. c.made < JobAttempts /\ c.run <= c.made + faults'
  BY <1>4, <1>5, <1>10
<1>12. PICK e \in Rows : e = row[t]
  BY <1>2 DEF TypeOK
<1>13. row' = [row EXCEPT ![t] = e] /\ account' \in [Users -> [details : AllDetails, recipient : AllDetails]]
  BY <1>1, <1>2, <1>12 DEF TypeOK
<1>14. UNCHANGED <<processed, handler, retrier, hook, notices, transfer, announced, provider>>
  BY <1>1
<1>15. job[j].pc \notin {"none", "done"} /\ c.pc \in {"waiting", "done"}
  BY <1>1, <1>10
<1> QED BY <1>3, <1>5, <1>8, <1>10, <1>11, <1>12, <1>13, <1>14, <1>15, JobStops

\* A query before the try fails.
LEMMA JobQueryFailsKeeps ==
    ASSUME CashInv, NEW j \in Jobs, JobQueryFails(j), UNCHANGED provider
    PROVE  CashInv'
<1>1. /\ job[j].pc \in {"waiting", "claim"} /\ job[j].pc \notin {"none", "done", "save", "publish"}
      /\ UNCHANGED <<account, processed, handler, retrier, hook, notices, transfer, announced, provider>>
  BY DEF JobQueryFails
<1>2. TypeOK /\ job[j] \in JobCalls /\ JobOK(j)
  BY DEF CashInv, TypeOK, JobsOK
<1>3. PICK t \in Txs : t = job[j].tx
  BY <1>1, <1>2 DEF JobOK
<1>4. /\ job[j].made < JobAttempts /\ job[j].run <= job[j].made + faults /\ faults \in Nat /\ faults < MaxFaults
      /\ job[j].run \in Nat /\ job[j].made \in Nat
  BY <1>1, <1>2, BoundsAssumption DEF JobOK, JobCalls, TypeOK, JobQueryFails, Fault
<1>5. faults' \in {faults, faults + 1} /\ faults' \in 0..MaxFaults /\ faults' = faults + 1
  BY FaultCounts DEF JobQueryFails
<1>6. PICK f \in JobCalls : f = Rethrow(j)
  BY <1>2, <1>4, RethrowFields
<1>7. /\ f.pc \in {"waiting", "done"} /\ f.tx = t /\ f.ev = job[j].ev /\ f.orphan = job[j].orphan
      /\ f.run = job[j].run
      /\ f.pc = "waiting" => f.made = job[j].made + 1 /\ f.made < JobAttempts
  BY <1>2, <1>3, <1>4, <1>6, RethrowFields
<1>8. account' \in [Users -> [details : AllDetails, recipient : AllDetails]] /\ announced' \in [Refs -> 0..2]
      /\ transfer' \in [Refs -> Transfers] /\ transfer' = transfer /\ \A r \in Refs : transfer'[r] = transfer[r]
  BY <1>1, <1>2 DEF TypeOK
<1>9. UNCHANGED <<processed, handler, retrier, hook, notices, provider>>
  BY <1>1
<1>10. CASE job' = [job EXCEPT ![j] = Rethrow(j)] /\ UNCHANGED row
  <2>1. PICK e \in Rows : e = row[t]
    BY <1>2 DEF TypeOK
  <2>2. row' = [row EXCEPT ![t] = e] /\ job' = [job EXCEPT ![j] = f]
    BY <1>2, <1>6, <1>10, <2>1 DEF TypeOK
  <2>3. f.pc = "waiting" => f.made < JobAttempts /\ f.run <= f.made + faults'
    BY <1>4, <1>5, <1>7
  <2>4. UNCHANGED <<processed, handler, retrier, hook, notices, transfer, announced, provider>>
        /\ job[j].pc \notin {"none", "done"} /\ job[j].pc \notin {"save", "publish"}
    BY <1>1
  <2> QED BY <1>3, <1>5, <1>7, <1>8, <2>1, <2>2, <2>3, <2>4, JobStops
<1>11. CASE /\ job[j].pc = "claim"
            /\ row' = [row EXCEPT ![job[j].tx] = ClaimedRow(@, <<j, job[j].run + 1>>)]
            /\ job' = [job EXCEPT ![j] = [Rethrow(j) EXCEPT !.run = @ + 1]]
  <2>1. PICK n \in 1..JobAttempts + MaxFaults : n = job[j].run + 1
    <3>1. job[j].run + 1 \in 1..JobAttempts + MaxFaults
      BY <1>4, BoundsAssumption
    <3> QED BY <3>1
  <2>2. PICK ref \in Refs : ref = <<j, n>>
    BY RefParts
  <2>3. PICK e \in Rows : e = ClaimedRow(row[t], ref)
    <3>1. row[t] \in Rows
      BY <1>2 DEF TypeOK
    <3>2. ClaimedRow(row[t], ref) \in Rows
      BY <3>1 DEF Rows, ClaimedRow
    <3> QED BY <3>2
  <2>4. PICK c \in JobCalls : c = [f EXCEPT !.run = n]
    <3>1. n \in 0..JobAttempts + MaxFaults
      BY <2>1
    <3>2. [f EXCEPT !.run = n] \in JobCalls
      BY <3>1 DEF JobCalls
    <3> QED BY <3>2
  <2>5. row' = [row EXCEPT ![t] = e]
    BY <1>3, <1>11, <2>1, <2>2, <2>3
  <2>6. job' = [job EXCEPT ![j] = c]
    BY <1>6, <1>7, <1>11, <2>1, <2>4
  <2>7. /\ c.pc \in {"waiting", "done"} /\ c.tx = t /\ c.ev = job[j].ev /\ c.orphan = job[j].orphan /\ c.run = n
        /\ c.pc = "waiting" => c.made = job[j].made + 1 /\ c.made < JobAttempts
    BY <1>7, <2>4 DEF JobCalls
  <2>8. job'[j] = c
    BY <2>6 DEF CashInv, TypeOK
  <2>9. \A m \in 1..JobAttempts + MaxFaults : m > n => transfer[<<j, m>>].state = "none"
    BY <1>2, <1>4, <2>1 DEF JobOK
  <2>10. JobOK(j)'
    <3>1. c.pc = "waiting" => c.run <= c.made + faults'
      BY <1>4, <1>5, <2>1, <2>7
    <3>2. ~Working(j)'
      BY <2>7, <2>8 DEF Working
    <3> QED BY <1>1, <2>7, <2>8, <2>9, <3>1, <3>2 DEF JobOK
  <2>11. RowOK(t, e)'
    <3>1. e.ref = ref /\ e.status = "PROCESSING"
      BY <1>2, <2>3 DEF TypeOK, Rows, ClaimedRow
    <3>2. TxOfRef(ref)' = t
      BY <2>2, <2>7, <2>8 DEF TxOfRef
    <3> QED BY <3>1, <3>2 DEF RowOK
  <2>12. LiveOK'
    BY <1>1, <1>3, <1>5, <2>6, <2>7, JobStepCounts
  <2>13. faults' >= faults /\ c.pc # "none" /\ job[j].pc # "none"
    BY <1>1, <1>4, <1>5, <2>7
  <2> QED BY <1>3, <1>5, <1>8, <1>9, <2>5, <2>6, <2>7, <2>10, <2>11, <2>12, <2>13, JobStepKeeps
<1> QED BY <1>10, <1>11 DEF JobQueryFails

-----------------------------------------------------------------------------
(* queue.add *)

\* A new job takes the first free place.
LEMMA NewJobKeeps ==
    ASSUME CashInv, NEW t \in Txs, NEW ev \in Events \cup {None}, NEW details \in AllDetails,
           NEW n, n = NextJob, Cardinality(Queued) < MaxJobs,
           job' = [job EXCEPT ![n] = NewJob(t, ev, details)], UNCHANGED <<transfer, faults, provider>>,
           Reserved' \subseteq Reserved,
           QueueHasRoom \/ Reserved' # Reserved
    PROVE  /\ n \in Jobs /\ job[n].pc = "none"
           /\ job' \in [Jobs -> JobCalls]
           /\ job'[n].pc = "waiting" /\ job'[n].ev = ev /\ ~job'[n].orphan
           /\ \A j \in Jobs \ {n} : job'[j] = job[j]
           /\ Steady /\ QueueOK' /\ JobsOK' /\ LiveOK'
<1> USE DEF CashInv
<1>1. PICK m \in 0..MaxJobs : Queued = 1..m /\ m + Cardinality(Reserved) <= MaxJobs
  BY DEF QueueOK
<1>2. Cardinality(Queued) = m /\ m \in Nat
  BY <1>1, FS_Interval, BoundsAssumption
<1>3. n = m + 1 /\ n \in Jobs /\ n \notin Queued /\ n \in Nat
  BY <1>1, <1>2, BoundsAssumption DEF NextJob, Jobs
<1>4. job[n].pc = "none"
  BY <1>3 DEF Queued
<1>5. PICK c \in JobCalls : c = NewJob(t, ev, details)
  <2>1. NewJob(t, ev, details) \in JobCalls
    BY IdleTypes DEF NewJob, JobCalls
  <2> QED BY <2>1
<1>6. c.pc = "waiting" /\ c.tx = t /\ c.ev = ev /\ ~c.orphan /\ c.made = 0 /\ c.run = 0
  BY <1>5 DEF NewJob, IdleJob
<1>7. job' = [job EXCEPT ![n] = c] /\ job'[n] = c /\ \A j \in Jobs \ {n} : job'[j] = job[j]
  BY <1>3, <1>5 DEF TypeOK
<1>8. JobOK(n) /\ job[n].tx = None /\ job[n].run = 0
  BY <1>3, <1>4 DEF JobsOK, JobOK
<1>9. Steady
  BY <1>7, <1>8, NoneAssumption DEF Steady, PaidRef
<1>10. faults \in Nat /\ faults' = faults
  BY BoundsAssumption DEF TypeOK
<1>11. JobsOK'
  <2>1. ASSUME NEW j \in Jobs \ {n} PROVE JobOK(j)'
    BY <1>7, <1>10, JobStays DEF JobsOK, PaidRef
  <2>2. JobOK(n)'
    <3>1. ~Working(n)'
      BY <1>6, <1>7 DEF Working
    <3>2. c.made < JobAttempts /\ c.run <= c.made + faults'
      BY <1>6, <1>10, BoundsAssumption
    <3>3. \A k \in 1..JobAttempts + MaxFaults : k > c.run => transfer'[<<n, k>>].state = "none"
      BY <1>6, <1>8 DEF JobOK
    <3> QED BY <1>6, <1>7, <3>1, <3>2, <3>3 DEF JobOK
  <2> QED BY <2>1, <2>2 DEF JobsOK
<1>12. LiveOK'
  <2> SUFFICES ASSUME NEW u \in Txs PROVE Cardinality(LiveTransfers(u))' <= Cardinality(Spent(u))' + faults'
    BY DEF LiveOK
  <2>1. Spent(u)' = Spent(u)
    BY <1>4, <1>6, <1>7 DEF Spent
  <2>2. \A r \in Refs : r[1] = n => transfer[r].state = "none"
    BY <1>8, RefParts DEF JobOK
  <2>3. LiveTransfers(u)' = LiveTransfers(u)
    BY <1>7, <2>2, RefParts DEF LiveTransfers, TxOfRef
  <2>4. Cardinality(LiveTransfers(u)) <= Cardinality(Spent(u)) + faults
    BY DEF LiveOK
  <2> QED BY <1>10, <2>1, <2>3, <2>4
<1>13. QueueOK'
  <2>1. Queued' = 1..n
    <3>1. Queued' = Queued \cup {n}
      BY <1>3, <1>6, <1>7 DEF Queued
    <3> QED BY <1>1, <1>3, <3>1
  <2>2. IsFiniteSet(Reserved)
    <3>1. IsFiniteSet(Retriers)
      BY RetrierAssumption, FS_Union DEF Retriers
    <3> QED BY <3>1, FS_Subset DEF Reserved
  <2>3. PICK R, Q : R = Reserved /\ Q = Reserved'
    OBVIOUS
  <2>4. /\ Cardinality(Q) <= Cardinality(R) /\ Cardinality(Q) \in Nat /\ Cardinality(R) \in Nat
        /\ Q # R => Cardinality(Q) < Cardinality(R)
    <3>1. IsFiniteSet(R) /\ Q \subseteq R /\ IsFiniteSet(Q)
      BY <2>2, <2>3, FS_Subset
    <3>2. Cardinality(Q) <= Cardinality(R) /\ (Cardinality(Q) = Cardinality(R) => Q = R)
      BY <3>1, FS_Subset
    <3>3. Cardinality(Q) \in Nat /\ Cardinality(R) \in Nat
      BY <3>1, FS_CardinalityType
    <3> QED BY <3>2, <3>3
  <2>5. n + Cardinality(Q) <= MaxJobs
    <3>1. m + Cardinality(R) < MaxJobs \/ Q # R
      BY <1>2, <2>3 DEF QueueHasRoom
    <3>2. m + Cardinality(R) <= MaxJobs
      BY <1>1, <2>3
    <3> QED BY <1>2, <1>3, <2>4, <3>1, <3>2, BoundsAssumption
  <2>6. Cardinality(Reserved)' = Cardinality(Q) /\ n \in 0..MaxJobs
    BY <1>3, <2>3, BoundsAssumption DEF Jobs
  <2> QED BY <2>1, <2>5, <2>6 DEF QueueOK
<1>14. job' \in [Jobs -> JobCalls]
  BY <1>7 DEF TypeOK
<1> QED BY <1>3, <1>4, <1>6, <1>7, <1>9, <1>11, <1>12, <1>13, <1>14

-----------------------------------------------------------------------------
(* handleBadgeUnlocked *)

\* A delivery turns into c: the copies of rows.
LEMMA HandlerCopies ==
    ASSUME TypeOK, HandlersOK, Steady, NEW d \in Deliveries, NEW c \in HandlerCalls,
           handler' = [handler EXCEPT ![d] = c],
           c.pc \in {"save", "commit"} => RowOK(TxOf[EventOf[d]], c.ent)
    PROVE  HandlersOK' /\ handler'[d] = c /\ \A b \in Deliveries \ {d} : handler'[b] = handler[b]
<1>1. handler'[d] = c /\ \A b \in Deliveries \ {d} : handler'[b] = handler[b]
  BY DEF TypeOK
<1>2. ASSUME NEW b \in Deliveries, handler'[b].pc \in {"save", "commit"}
      PROVE  RowOK(TxOf[EventOf[b]], handler[b].ent)'
  <2>1. PICK e \in Rows : e = handler'[b].ent /\ RowOK(TxOf[EventOf[b]], e)
    BY <1>1, <1>2 DEF TypeOK, HandlerCalls, HandlersOK
  <2>2. TxOf[EventOf[b]] \in Txs
    BY EventAssumption
  <2>3. RowOK(TxOf[EventOf[b]], e)'
    BY <2>1, <2>2, CopyStays
  <2> QED BY <2>1, <2>3 DEF RowOK
<1> QED BY <1>1, <1>2 DEF HandlersOK

\* processed_events is consulted; the row is read.
LEMMA HandlerLooksKeeps ==
    ASSUME CashInv, NEW d \in Deliveries, HandlerCheck(d) \/ HandlerRead(d), UNCHANGED provider
    PROVE  CashInv'
<1>1. /\ handler[d].pc \in {"new", "read"}
      /\ UNCHANGED <<row, account, processed, job, retrier, hook, transfer, notices, announced, faults>>
  BY DEF HandlerCheck, HandlerRead
<1>2. TypeOK /\ handler[d] \in HandlerCalls /\ TxOf[EventOf[d]] \in Txs
  BY EventAssumption DEF CashInv, TypeOK
<1>3. PICK e \in Rows : e = row[TxOf[EventOf[d]]] /\ RowOK(TxOf[EventOf[d]], e)
  BY <1>2 DEF CashInv, TypeOK, RowsOK
<1>4. PICK c \in HandlerCalls :
        /\ handler' = [handler EXCEPT ![d] = c]
        /\ c.pc \in {"done", "read", "save"}
        /\ c.pc = "save" => c.ent = e
  <2>1. CASE HandlerCheck(d)
    <3>1. PICK p \in {"done", "read"} : p = IF EventOf[d] \in processed THEN "done" ELSE "read"
      OBVIOUS
    <3>2. PICK c \in HandlerCalls : c = [handler[d] EXCEPT !.pc = p]
      <4>1. [handler[d] EXCEPT !.pc = p] \in HandlerCalls
        BY <1>2 DEF HandlerCalls
      <4> QED BY <4>1
    <3>3. handler' = [handler EXCEPT ![d] = c] /\ c.pc = p
      BY <1>2, <2>1, <3>1, <3>2 DEF HandlerCheck, HandlerCalls
    <3> QED BY <3>3
  <2>2. CASE HandlerRead(d)
    <3>1. PICK c \in HandlerCalls : c = [handler[d] EXCEPT !.pc = "save", !.ent = e]
      <4>1. [handler[d] EXCEPT !.pc = "save", !.ent = e] \in HandlerCalls
        BY <1>2 DEF HandlerCalls
      <4> QED BY <4>1
    <3>2. handler' = [handler EXCEPT ![d] = c] /\ c.pc = "save" /\ c.ent = e
      BY <1>2, <1>3, <2>2, <3>1 DEF HandlerRead, HandlerCalls, TypeOK
    <3> QED BY <3>2
  <2> QED BY <2>1, <2>2
<1>5. faults' \in Nat /\ faults' >= faults
  BY <1>1, <1>2, BoundsAssumption DEF TypeOK
<1>6. JobsOK' /\ LiveOK' /\ Steady
  BY <1>1, <1>5, JobsUntouched
<1>7. HandlersOK' /\ handler'[d] = c /\ \A b \in Deliveries \ {d} : handler'[b] = handler[b]
  BY <1>3, <1>4, <1>6, HandlerCopies DEF CashInv
<1>8. TypeOK'
  BY <1>1, <1>2, <1>4 DEF TypeOK
<1>9. RowsOK' /\ HooksOK' /\ NoticesOK'
  BY <1>1, <1>6, CopiesStay DEF CashInv
<1>10. QueueOK' /\ RetriersOK'
  <2>1. Reserved' = Reserved /\ \A j \in Jobs : job'[j] = job[j]
    BY <1>1 DEF Reserved
  <2> QED BY <1>1, <2>1, QueueStays DEF CashInv, RetriersOK
<1>11. CommitsOK'
  BY <1>1, <1>4, <1>7 DEF CashInv, CommitsOK
<1>12. ProcessedOK'
  <2>1. \A b \in Deliveries : handler'[b].pc = "commit" => handler'[b] = handler[b]
    BY <1>4, <1>7
  <2> QED BY <1>1, <2>1 DEF CashInv, ProcessedOK
<1> QED BY <1>6, <1>7, <1>8, <1>9, <1>10, <1>11, <1>12 DEF CashInv

\* The row and the processed event are saved and the job is queued.
LEMMA HandlerSaveKeeps ==
    ASSUME CashInv, NEW d \in Deliveries, HandlerSave(d), UNCHANGED provider
    PROVE  CashInv'
<1>1. handler[d].pc = "save" /\ UNCHANGED <<account, retrier, hook, transfer, notices, announced, faults>>
  BY DEF HandlerSave
<1>2. /\ TypeOK /\ handler[d] \in HandlerCalls /\ EventOf[d] \in Events
      /\ handler[d].ent \in Rows /\ RowOK(TxOf[EventOf[d]], handler[d].ent)
  BY <1>1, EventAssumption DEF CashInv, TypeOK, HandlersOK, HandlerCalls
<1>3. PICK ev \in Events, t \in Txs : ev = EventOf[d] /\ t = TxOf[ev]
  BY <1>2, EventAssumption
<1>4. faults' \in Nat /\ faults' >= faults
  BY <1>1, <1>2, BoundsAssumption DEF TypeOK
<1>5. CASE KeyTaken(d)
  <2>1. PICK c \in HandlerCalls : c = IdleHandler
    BY IdleTypes
  <2>2. handler' = [handler EXCEPT ![d] = c] /\ c.pc = "new" /\ UNCHANGED <<row, processed, job>>
    BY <1>5, <2>1 DEF HandlerSave, IdleHandler
  <2>3. JobsOK' /\ LiveOK' /\ Steady
    BY <1>1, <1>4, <2>2, JobsUntouched
  <2>4. HandlersOK' /\ handler'[d] = c /\ \A b \in Deliveries \ {d} : handler'[b] = handler[b]
    BY <2>2, <2>3, HandlerCopies DEF CashInv
  <2>5. TypeOK'
    BY <1>1, <1>2, <2>2 DEF TypeOK
  <2>6. RowsOK' /\ HooksOK' /\ NoticesOK'
    BY <1>1, <2>2, <2>3, CopiesStay DEF CashInv
  <2>7. QueueOK' /\ RetriersOK'
    <3>1. Reserved' = Reserved /\ \A j \in Jobs : job'[j] = job[j]
      BY <1>1, <2>2 DEF Reserved
    <3> QED BY <1>1, <3>1, QueueStays DEF CashInv, RetriersOK
  <2>8. CommitsOK'
    BY <2>2, <2>4 DEF CashInv, CommitsOK
  <2>9. ProcessedOK'
    <3>1. \A b \in Deliveries : handler'[b].pc = "commit" => handler'[b] = handler[b]
      BY <2>2, <2>4
    <3> QED BY <2>2, <3>1 DEF CashInv, ProcessedOK
  <2> QED BY <2>3, <2>4, <2>5, <2>6, <2>7, <2>8, <2>9 DEF CashInv
<1>6. CASE ~KeyTaken(d)
  <2>1. PICK n : n = NextJob
    OBVIOUS
  <2>2. PICK details \in AllDetails : details = DetailsOf[ev]
    BY DEF AllDetails
  <2>3. QueueHasRoom /\ job' = [job EXCEPT ![n] = NewJob(t, ev, details)]
    BY <1>3, <1>6, <2>1, <2>2 DEF HandlerSave
  <2>4. Cardinality(Queued) < MaxJobs
    <3>1. PICK m \in 0..MaxJobs : Queued = 1..m
      BY DEF CashInv, QueueOK
    <3>2. Cardinality(Queued) \in Nat
      BY <3>1, FS_Interval, FS_CardinalityType
    <3>3. IsFiniteSet(Reserved)
      <4>1. IsFiniteSet(Retriers)
        BY RetrierAssumption, FS_Union DEF Retriers
      <4> QED BY <4>1, FS_Subset DEF Reserved
    <3>4. Cardinality(Reserved) \in Nat
      BY <3>3, FS_CardinalityType
    <3> QED BY <2>3, <3>2, <3>4, BoundsAssumption DEF QueueHasRoom
  <2>5. Reserved' = Reserved
    BY <1>1 DEF Reserved
  <2>6. /\ n \in Jobs /\ job[n].pc = "none"
        /\ job' \in [Jobs -> JobCalls]
        /\ job'[n].pc = "waiting" /\ job'[n].ev = ev /\ ~job'[n].orphan
        /\ \A j \in Jobs \ {n} : job'[j] = job[j]
        /\ Steady /\ QueueOK' /\ JobsOK' /\ LiveOK'
    <3>1. UNCHANGED <<transfer, faults, provider>> /\ ev \in Events \cup {None} /\ Reserved' \subseteq Reserved
      BY <1>1, <2>5
    <3> QED BY <2>1, <2>3, <2>4, <3>1, NewJobKeeps
  <2>7. \A b \in Deliveries : handler[b].pc = "commit" => handler[b].job \in Jobs \ {n}
    BY <2>6 DEF CashInv, CommitsOK
  <2>8. HooksOK' /\ NoticesOK' /\ RetriersOK'
    BY <1>1, <1>2, <2>6, CopiesStay DEF CashInv, RetriersOK
  <2>9. \A e \in processed : \E j \in Jobs :
          /\ job'[j].pc # "none" /\ job'[j].ev = e /\ ~job'[j].orphan /\ j # n
          /\ \A b \in Deliveries : handler[b].pc = "commit" => handler[b].job # j
    <3> SUFFICES ASSUME NEW e \in processed
                 PROVE  \E j \in Jobs :
                          /\ job'[j].pc # "none" /\ job'[j].ev = e /\ ~job'[j].orphan /\ j # n
                          /\ \A b \in Deliveries : handler[b].pc = "commit" => handler[b].job # j
      OBVIOUS
    <3>1. PICK j \in Jobs : /\ job[j].pc # "none" /\ job[j].ev = e /\ ~job[j].orphan
                            /\ \A b \in Deliveries : handler[b].pc = "commit" => handler[b].job # j
      BY DEF CashInv, ProcessedOK
    <3>2. j # n /\ job'[j] = job[j]
      BY <2>6, <3>1
    <3> QED BY <3>1, <3>2
  <2>10. CASE handler' = [handler EXCEPT ![d].pc = "commit", ![d].job = NextJob] /\ UNCHANGED <<row, processed>>
    <3>1. PICK c \in HandlerCalls : c = [handler[d] EXCEPT !.pc = "commit", !.job = n]
      <4>1. [handler[d] EXCEPT !.pc = "commit", !.job = n] \in HandlerCalls
        BY <1>2, <2>6 DEF HandlerCalls
      <4> QED BY <4>1
    <3>2. handler' = [handler EXCEPT ![d] = c] /\ c.pc = "commit" /\ c.job = n /\ c.ent = handler[d].ent
      BY <1>2, <2>1, <2>10, <3>1 DEF TypeOK, HandlerCalls
    <3>3. HandlersOK' /\ handler'[d] = c /\ \A b \in Deliveries \ {d} : handler'[b] = handler[b]
      BY <1>2, <2>6, <3>2, HandlerCopies DEF CashInv
    <3>4. TypeOK'
      BY <1>1, <1>2, <2>6, <2>10, <3>2 DEF TypeOK
    <3>5. RowsOK'
      BY <1>2, <2>6, <2>10, CopiesStay DEF CashInv
    <3>6. CommitsOK'
      <4>1. \A b \in Deliveries : handler'[b].pc = "commit" =>
              /\ handler'[b].job \in Jobs /\ job'[handler'[b].job].pc # "none"
              /\ job'[handler'[b].job].ev = EventOf[b] /\ ~job'[handler'[b].job].orphan
        <5> SUFFICES ASSUME NEW b \in Deliveries, handler'[b].pc = "commit"
                     PROVE  /\ handler'[b].job \in Jobs /\ job'[handler'[b].job].pc # "none"
                            /\ job'[handler'[b].job].ev = EventOf[b] /\ ~job'[handler'[b].job].orphan
          OBVIOUS
        <5>1. CASE b = d
          BY <1>3, <2>6, <3>2, <3>3, <5>1
        <5>2. CASE b # d
          <6>1. handler'[b] = handler[b] /\ handler[b].job \in Jobs \ {n}
            BY <2>7, <3>3, <5>2
          <6>2. job'[handler[b].job] = job[handler[b].job]
            BY <2>6, <6>1
          <6> QED BY <6>1, <6>2 DEF CashInv, CommitsOK
        <5> QED BY <5>1, <5>2
      <4>2. \A b, a \in Deliveries : handler'[b].pc = "commit" /\ handler'[a].pc = "commit" /\ b # a =>
              handler'[b].job # handler'[a].job
        BY <2>7, <3>2, <3>3 DEF CashInv, CommitsOK
      <4> QED BY <4>1, <4>2 DEF CommitsOK
    <3>7. ProcessedOK'
      <4>1. \A b \in Deliveries : handler'[b].pc = "commit" => handler'[b] = handler[b] \/ handler'[b].job = n
        BY <3>2, <3>3
      <4>2. \A e \in processed : \E j \in Jobs :
              /\ job'[j].pc # "none" /\ job'[j].ev = e /\ ~job'[j].orphan
              /\ \A b \in Deliveries : handler'[b].pc = "commit" => handler'[b].job # j
        BY <2>9, <4>1
      <4> QED BY <2>10, <4>2 DEF ProcessedOK
    <3> QED BY <2>6, <2>8, <3>3, <3>4, <3>5, <3>6, <3>7 DEF CashInv
  <2>11. CASE /\ row' = [row EXCEPT ![t] = handler[d].ent]
              /\ processed' = processed \cup {ev}
              /\ handler' = [handler EXCEPT ![d] = [IdleHandler EXCEPT !.pc = "done"]]
    <3>1. PICK c \in HandlerCalls : c = [IdleHandler EXCEPT !.pc = "done"]
      <4>1. [IdleHandler EXCEPT !.pc = "done"] \in HandlerCalls
        BY IdleTypes DEF HandlerCalls
      <4> QED BY <4>1
    <3>2. handler' = [handler EXCEPT ![d] = c] /\ c.pc = "done"
      BY <2>11, <3>1 DEF IdleHandler
    <3>3. HandlersOK' /\ handler'[d] = c /\ \A b \in Deliveries \ {d} : handler'[b] = handler[b]
      BY <2>6, <3>2, HandlerCopies DEF CashInv
    <3>4. TypeOK'
      <4>1. row' \in [Txs -> Rows] /\ processed' \subseteq Events
        BY <1>2, <2>11 DEF TypeOK
      <4> QED BY <1>1, <1>2, <2>6, <3>2, <4>1 DEF TypeOK
    <3>5. RowsOK'
      <4> SUFFICES ASSUME NEW u \in Txs PROVE RowOK(u, row[u])'
        BY DEF RowsOK
      <4>1. PICK e \in Rows : e = row'[u] /\ RowOK(u, e)
        BY <1>2, <1>3, <2>11 DEF CashInv, TypeOK, RowsOK
      <4>2. RowOK(u, e)'
        BY <2>6, <4>1, CopyStays
      <4> QED BY <4>1, <4>2 DEF RowOK
    <3>6. \A b \in Deliveries : handler'[b].pc = "commit" => handler'[b] = handler[b] /\ b # d
      BY <3>2, <3>3
    <3>7. CommitsOK'
      <4>1. \A b \in Deliveries : handler'[b].pc = "commit" =>
              /\ handler'[b] = handler[b] /\ handler[b].job \in Jobs /\ job'[handler[b].job] = job[handler[b].job]
        BY <2>6, <2>7, <3>6
      <4> QED BY <4>1 DEF CashInv, CommitsOK
    <3>8. ProcessedOK'
      <4>1. \A b \in Deliveries : handler'[b].pc = "commit" => handler'[b].job # n
        BY <2>7, <3>6
      <4>2. \A e \in processed : \E j \in Jobs :
              /\ job'[j].pc # "none" /\ job'[j].ev = e /\ ~job'[j].orphan
              /\ \A b \in Deliveries : handler'[b].pc = "commit" => handler'[b].job # j
        BY <2>9, <3>6
      <4> QED BY <2>6, <2>11, <4>1, <4>2 DEF ProcessedOK
    <3> QED BY <2>6, <2>8, <3>3, <3>4, <3>5, <3>7, <3>8 DEF CashInv
  <2> QED BY <1>3, <1>6, <2>10, <2>11 DEF HandlerSave
<1> QED BY <1>5, <1>6

\* COMMIT.
LEMMA HandlerCommitKeeps ==
    ASSUME CashInv, NEW d \in Deliveries, HandlerCommit(d), UNCHANGED provider
    PROVE  CashInv'
<1>1. handler[d].pc = "commit" /\ UNCHANGED <<account, job, retrier, hook, transfer, notices, announced, faults>>
      /\ processed' = processed \cup {EventOf[d]}
  BY DEF HandlerCommit
<1>2. TypeOK /\ EventOf[d] \in Events /\ TxOf[EventOf[d]] \in Txs /\ faults' \in Nat /\ faults' >= faults
  BY <1>1, EventAssumption, BoundsAssumption DEF CashInv, TypeOK
<1>3. PICK t \in Txs : t = TxOf[EventOf[d]]
  BY <1>2
<1>4. PICK c \in HandlerCalls : c = [IdleHandler EXCEPT !.pc = "done"]
  <2>1. [IdleHandler EXCEPT !.pc = "done"] \in HandlerCalls
    BY IdleTypes DEF HandlerCalls
  <2> QED BY <2>1
<1>5. handler' = [handler EXCEPT ![d] = c] /\ c.pc = "done"
  BY <1>4 DEF HandlerCommit, IdleHandler
<1>6. JobsOK' /\ LiveOK' /\ Steady
  BY <1>1, <1>2, JobsUntouched
<1>7. HandlersOK' /\ handler'[d] = c /\ \A b \in Deliveries \ {d} : handler'[b] = handler[b]
  BY <1>5, <1>6, HandlerCopies DEF CashInv
<1>8. PICK e \in Rows : row' = [row EXCEPT ![t] = e] /\ RowOK(t, e)
  <2>1. CASE handler[d].ent.status = "ABSENT"
    <3>1. PICK e \in Rows : e = [NoRow EXCEPT !.status = "PENDING"]
      <4>1. [NoRow EXCEPT !.status = "PENDING"] \in Rows
        BY IdleTypes DEF Rows
      <4> QED BY <4>1
    <3>2. e.ref = None /\ e.status = "PENDING"
      BY <3>1 DEF NoRow
    <3>3. row' = [row EXCEPT ![t] = e]
      BY <1>3, <2>1, <3>1 DEF HandlerCommit
    <3> QED BY <3>2, <3>3 DEF RowOK
  <2>2. CASE handler[d].ent.status # "ABSENT"
    <3>1. row' = [row EXCEPT ![t] = row[t]]
      BY <1>2, <2>2 DEF HandlerCommit, TypeOK
    <3>2. row[t] \in Rows /\ RowOK(t, row[t])
      BY <1>2 DEF CashInv, RowsOK, TypeOK
    <3> QED BY <3>1, <3>2
  <2> QED BY <2>1, <2>2
<1>9. TypeOK'
  <2>1. row' \in [Txs -> Rows] /\ processed' \subseteq Events
    BY <1>1, <1>2, <1>8 DEF TypeOK
  <2> QED BY <1>1, <1>2, <1>5, <2>1 DEF TypeOK
<1>10. RowsOK'
  <2> SUFFICES ASSUME NEW u \in Txs PROVE RowOK(u, row[u])'
    BY DEF RowsOK
  <2>1. PICK f \in Rows : f = row'[u] /\ RowOK(u, f)
    BY <1>2, <1>8 DEF CashInv, TypeOK, RowsOK
  <2>2. RowOK(u, f)'
    BY <1>6, <2>1, CopyStays
  <2> QED BY <2>1, <2>2 DEF RowOK
<1>11. HooksOK' /\ NoticesOK'
  BY <1>1, <1>2, <1>6, CopiesStay DEF CashInv
<1>12. QueueOK' /\ RetriersOK'
  <2>1. Reserved' = Reserved /\ \A j \in Jobs : job'[j] = job[j]
    BY <1>1 DEF Reserved
  <2> QED BY <1>1, <2>1, QueueStays DEF CashInv, RetriersOK
<1>13. \A b \in Deliveries : handler'[b].pc = "commit" => handler'[b] = handler[b] /\ b # d
  BY <1>5, <1>7
<1>14. CommitsOK'
  BY <1>1, <1>13 DEF CashInv, CommitsOK
<1>15. ProcessedOK'
  <2>1. PICK j \in Jobs : j = handler[d].job /\ job[j].pc # "none" /\ job[j].ev = EventOf[d] /\ ~job[j].orphan
    BY <1>1 DEF CashInv, CommitsOK
  <2>2. \A b \in Deliveries : handler'[b].pc = "commit" => handler'[b].job # j
    BY <1>1, <1>13, <2>1 DEF CashInv, CommitsOK
  <2>3. \A v \in processed : \E i \in Jobs :
          /\ job'[i].pc # "none" /\ job'[i].ev = v /\ ~job'[i].orphan
          /\ \A b \in Deliveries : handler'[b].pc = "commit" => handler'[b].job # i
    BY <1>1, <1>13 DEF CashInv, ProcessedOK
  <2> QED BY <1>1, <2>1, <2>2, <2>3 DEF ProcessedOK
<1> QED BY <1>6, <1>7, <1>9, <1>10, <1>11, <1>12, <1>14, <1>15 DEF CashInv

\* The commit fails, and the job may be left without a row.
LEMMA HandlerRollbackKeeps ==
    ASSUME CashInv, NEW d \in Deliveries, HandlerRollback(d), UNCHANGED provider
    PROVE  CashInv'
<1>1. /\ handler[d].pc = "commit" /\ Fault("dbError")
      /\ UNCHANGED <<row, account, processed, retrier, hook, transfer, notices, announced>>
  BY DEF HandlerRollback
<1>2. TypeOK /\ faults' \in {faults, faults + 1} /\ faults' \in 0..MaxFaults /\ faults' \in Nat /\ faults' >= faults
      /\ faults' = faults + 1
  BY <1>1, FaultCounts DEF CashInv
<1>3. PICK j \in Jobs : j = handler[d].job
  BY <1>1 DEF CashInv, CommitsOK
<1>4. PICK o \in BOOLEAN : o = (handler[d].ent.status = "ABSENT")
  OBVIOUS
<1>5. job[j] \in JobCalls
  BY <1>2 DEF TypeOK
<1>6. PICK c \in JobCalls : c = [job[j] EXCEPT !.orphan = o]
  <2>1. [job[j] EXCEPT !.orphan = o] \in JobCalls
    BY <1>5 DEF JobCalls
  <2> QED BY <2>1
<1>7. job' = [job EXCEPT ![j] = c]
  BY <1>2, <1>3, <1>4, <1>6 DEF HandlerRollback, TypeOK, JobCalls
<1>8. /\ c.pc = job[j].pc /\ c.tx = job[j].tx /\ c.ev = job[j].ev /\ c.made = job[j].made /\ c.run = job[j].run
      /\ c.ent = job[j].ent
  BY <1>5, <1>6 DEF JobCalls
<1>9. job'[j] = c /\ \A i \in Jobs \ {j} : job'[i] = job[i]
  BY <1>2, <1>7 DEF TypeOK
<1>10. Steady
  BY <1>1, <1>8, <1>9 DEF Steady, PaidRef
<1>11. JobsOK'
  <2> SUFFICES ASSUME NEW i \in Jobs PROVE JobOK(i)'
    BY DEF JobsOK
  <2>1. /\ job'[i].pc = job[i].pc /\ job'[i].tx = job[i].tx /\ job'[i].made = job[i].made /\ job'[i].run = job[i].run
        /\ job'[i].ent = job[i].ent
    BY <1>8, <1>9
  <2> QED BY <1>1, <1>2, <2>1, JobStays DEF CashInv, JobsOK, PaidRef
<1>12. LiveOK'
  BY <1>1, <1>2, <1>7, <1>8, JobStepCounts
<1>13. PICK g \in HandlerCalls : g = IdleHandler
  BY IdleTypes
<1>14. handler' = [handler EXCEPT ![d] = g] /\ g.pc = "new"
  BY <1>13 DEF HandlerRollback, IdleHandler
<1>15. HandlersOK' /\ handler'[d] = g /\ \A b \in Deliveries \ {d} : handler'[b] = handler[b]
  BY <1>10, <1>14, HandlerCopies DEF CashInv
<1>16. TypeOK'
  BY <1>1, <1>2, <1>7, <1>14 DEF TypeOK
<1>17. RowsOK' /\ HooksOK' /\ NoticesOK'
  BY <1>1, <1>10, CopiesStay DEF CashInv
<1>18. QueueOK' /\ RetriersOK'
  <2>1. Reserved' = Reserved /\ \A i \in Jobs : job'[i].pc = job[i].pc
    BY <1>1, <1>8, <1>9 DEF Reserved
  <2> QED BY <1>1, <2>1, QueueStays DEF CashInv, RetriersOK
<1>19. \A b \in Deliveries : handler'[b].pc = "commit" => handler'[b] = handler[b] /\ b # d
  BY <1>14, <1>15
<1>20. CommitsOK'
  <2>1. \A b \in Deliveries : handler'[b].pc = "commit" =>
          /\ handler'[b] = handler[b] /\ handler[b].job \in Jobs \ {j} /\ job'[handler[b].job] = job[handler[b].job]
    BY <1>1, <1>3, <1>9, <1>19 DEF CashInv, CommitsOK
  <2> QED BY <2>1 DEF CashInv, CommitsOK
<1>21. ProcessedOK'
  <2> SUFFICES ASSUME NEW e \in processed
               PROVE  \E i \in Jobs :
                        /\ job'[i].pc # "none" /\ job'[i].ev = e /\ ~job'[i].orphan
                        /\ \A b \in Deliveries : handler'[b].pc = "commit" => handler'[b].job # i
    BY <1>1 DEF ProcessedOK
  <2>1. PICK i \in Jobs : /\ job[i].pc # "none" /\ job[i].ev = e /\ ~job[i].orphan
                          /\ \A b \in Deliveries : handler[b].pc = "commit" => handler[b].job # i
    BY DEF CashInv, ProcessedOK
  <2>2. i # j /\ job'[i] = job[i]
    BY <1>1, <1>3, <1>9, <2>1
  <2> QED BY <1>19, <2>1, <2>2
<1> QED BY <1>11, <1>12, <1>15, <1>16, <1>17, <1>18, <1>20, <1>21 DEF CashInv

-----------------------------------------------------------------------------
(* Retries. *)

\* A retry goes on or begins, and may write to columns of a row other than its reference.
LEMMA RetrierMoves ==
    ASSUME CashInv, NEW q \in Retriers, NEW c \in RetryCalls, NEW t \in Txs, NEW e \in Rows,
           retrier' = [retrier EXCEPT ![q] = c], c.pc # "idle" => c.tx \in Txs,
           retrier[q].pc # "idle" \/ QueueHasRoom,
           UNCHANGED <<processed, handler, job, hook, transfer, notices, announced, provider>>,
           account' \in [Users -> [details : AllDetails, recipient : AllDetails]],
           faults' \in 0..MaxFaults, faults' \in Nat, faults' >= faults,
           row' = [row EXCEPT ![t] = e],
           e.ref = row[t].ref, e.status = row[t].status \/ e.status # "SUCCESSFUL"
    PROVE  CashInv'
<1>1. TypeOK /\ retrier'[q] = c /\ \A p \in Retriers \ {q} : retrier'[p] = retrier[p]
  BY DEF CashInv, TypeOK
<1>2. JobsOK' /\ LiveOK' /\ Steady
  BY JobsUntouched
<1>3. TypeOK'
  <2>1. row' \in [Txs -> Rows] /\ retrier' \in [Retriers -> RetryCalls]
    BY <1>1 DEF TypeOK
  <2> QED BY <1>1, <2>1 DEF TypeOK
<1>4. HandlersOK' /\ HooksOK' /\ NoticesOK'
  BY <1>1, <1>2, CopiesStay DEF CashInv
<1>5. RowsOK'
  <2> SUFFICES ASSUME NEW u \in Txs PROVE RowOK(u, row[u])'
    BY DEF RowsOK
  <2>1. PICK f \in Rows : f = row'[u] /\ RowOK(u, f)
    <3>1. CASE u = t
      <4>1. RowOK(t, row[t])
        BY DEF CashInv, RowsOK
      <4>2. RowOK(t, e)
        BY <4>1 DEF RowOK
      <4> QED BY <1>1, <3>1, <4>2 DEF TypeOK
    <3>2. CASE u # t
      BY <1>1, <3>2 DEF CashInv, RowsOK, TypeOK
    <3> QED BY <3>1, <3>2
  <2>2. RowOK(u, f)'
    BY <1>2, <2>1, CopyStays
  <2> QED BY <2>1, <2>2 DEF RowOK
<1>6. RetriersOK'
  BY <1>1 DEF CashInv, RetriersOK
<1>7. CommitsOK' /\ ProcessedOK'
  BY CommitsStay DEF CashInv
<1>8. QueueOK'
  <2>1. CASE retrier[q].pc # "idle"
    <3>1. Reserved' \subseteq Reserved
      BY <1>1, <2>1 DEF Reserved
    <3> QED BY <3>1, QueueStays DEF CashInv
  <2>2. CASE QueueHasRoom
    <3>1. PICK R, Q : R = Reserved /\ Q = Reserved'
      OBVIOUS
    <3>2. Q \subseteq R \cup {q}
      BY <1>1, <3>1 DEF Reserved
    <3>3. IsFiniteSet(R)
      <4>1. IsFiniteSet(Retriers)
        BY RetrierAssumption, FS_Union DEF Retriers
      <4> QED BY <3>1, <4>1, FS_Subset DEF Reserved
    <3>4. /\ IsFiniteSet(R \cup {q})
          /\ Cardinality(R \cup {q}) = IF q \in R THEN Cardinality(R) ELSE Cardinality(R) + 1
      BY <3>3, FS_AddElement
    <3>5. IsFiniteSet(Q) /\ Cardinality(Q) <= Cardinality(R \cup {q})
      BY <3>2, <3>4, FS_Subset
    <3>6. Cardinality(R) \in Nat /\ Cardinality(Q) \in Nat
      BY <3>3, <3>5, FS_CardinalityType
    <3>7. PICK m \in 0..MaxJobs : Queued = 1..m
      BY DEF CashInv, QueueOK
    <3>8. Cardinality(Queued) = m /\ m \in Nat
      BY <3>7, FS_Interval, BoundsAssumption
    <3>9. m + Cardinality(R) < MaxJobs
      BY <2>2, <3>1, <3>8 DEF QueueHasRoom
    <3>10. m + Cardinality(Q) <= MaxJobs
      BY <3>4, <3>5, <3>6, <3>8, <3>9, BoundsAssumption
    <3>11. Queued' = 1..m /\ Cardinality(Reserved)' = Cardinality(Q)
      BY <3>1, <3>7 DEF Queued
    <3> QED BY <3>10, <3>11 DEF QueueOK
  <2> QED BY <2>1, <2>2
<1> QED BY <1>2, <1>3, <1>4, <1>5, <1>6, <1>7, <1>8 DEF CashInv

\* A transaction is picked for a retry.
LEMMA PickKeeps ==
    ASSUME CashInv, NEW q \in Retriers, NEW t \in Txs, NEW override \in NewDetails \cup {None},
           ScanPick(q, t) \/ ManualPick(q, t, override), UNCHANGED provider
    PROVE  CashInv'
<1>1. /\ QueueHasRoom
      /\ UNCHANGED <<row, account, processed, handler, job, hook, transfer, notices, announced, faults>>
  BY DEF ScanPick, ManualPick
<1>2. TypeOK /\ UserOf[t] \in Users
  BY DEF CashInv, Users
<1>3. account[UserOf[t]].details \in AllDetails /\ override \in AllDetails
  BY <1>2 DEF TypeOK, AllDetails
<1>4. PICK c : retrier' = [retrier EXCEPT ![q] = c] /\ c.tx = t /\ c \in RetryCalls
  <2>1. PICK a \in AllDetails, f \in BOOLEAN, b \in AllDetails :
          /\ f = HasAccount(UserOf[t]) /\ b = account[UserOf[t]].recipient
          /\ a = IF override # None THEN override ELSE account[UserOf[t]].details
    BY <1>2, <1>3 DEF HasAccount, TypeOK
  <2>2. PICK d \in AllDetails : d = account[UserOf[t]].details
    BY <1>3
  <2>3. [pc |-> "override", tx |-> t, details |-> a, found |-> f, recipient |-> b] \in RetryCalls
    BY DEF RetryCalls
  <2>4. \A x \in AllDetails : /\ [IdleRetrier EXCEPT !.pc = "check", !.tx = t, !.details = x] \in RetryCalls
                             /\ [IdleRetrier EXCEPT !.pc = "check", !.tx = t, !.details = x].tx = t
    BY DEF RetryCalls, IdleRetrier, AllDetails
  <2>5. \/ retrier' = [retrier EXCEPT ![q] = [pc |-> "override", tx |-> t, details |-> a, found |-> f, recipient |-> b]]
        \/ \E x \in AllDetails :
             retrier' = [retrier EXCEPT ![q] = [IdleRetrier EXCEPT !.pc = "check", !.tx = t, !.details = x]]
    BY <2>1, <2>2 DEF ScanPick, ManualPick
  <2> QED BY <2>3, <2>4, <2>5
<1>7. PICK e \in Rows : e = row[t]
  BY <1>2 DEF TypeOK
<1>8. row' = [row EXCEPT ![t] = e] /\ account' \in [Users -> [details : AllDetails, recipient : AllDetails]]
      /\ faults' \in 0..MaxFaults /\ faults' \in Nat /\ faults' >= faults
  BY <1>1, <1>2, <1>7, BoundsAssumption DEF TypeOK
<1>9. UNCHANGED <<processed, handler, job, hook, transfer, notices, announced, provider>>
  BY <1>1
<1> QED BY <1>1, <1>4, <1>7, <1>8, <1>9, RetrierMoves

\* The steps of a retry up to its queue.add, and its end by a crash.
LEMMA RetryKeeps ==
    ASSUME CashInv, NEW q \in Retriers,
           ManualOverride(q) \/ ManualReset(q) \/ RetryCheck(q) \/ RetryUpdate(q) \/ RetryCrash(q), UNCHANGED provider
    PROVE  CashInv'
<1>1. /\ retrier[q].pc # "idle" /\ TypeOK /\ retrier[q] \in RetryCalls
      /\ UNCHANGED <<processed, handler, job, hook, transfer, notices, announced, provider>>
  BY DEF ManualOverride, ManualReset, RetryCheck, RetryUpdate, RetryCrash, CashInv, TypeOK
<1>2. PICK t \in Txs : t = retrier[q].tx
  BY <1>1 DEF CashInv, RetriersOK
<1>3. faults' \in 0..MaxFaults /\ faults' \in Nat /\ faults' >= faults
  <2>1. UNCHANGED faults \/ Fault("crash")
    BY DEF ManualOverride, ManualReset, RetryCheck, RetryUpdate, RetryCrash
  <2> QED BY <2>1, FaultCounts
<1>4. PICK c \in RetryCalls : retrier' = [retrier EXCEPT ![q] = c] /\ (c.pc # "idle" => c.tx \in Txs)
  <2>1. IdleRetrier \in RetryCalls /\ IdleRetrier.pc = "idle"
    BY IdleTypes DEF IdleRetrier
  <2>2. \A p \in {"check", "update", "enqueue"} :
          [retrier[q] EXCEPT !.pc = p] \in RetryCalls /\ [retrier[q] EXCEPT !.pc = p].tx = t
    BY <1>1, <1>2 DEF RetryCalls
  <2>3. PICK x \in RetryCalls : x = [IdleRetrier EXCEPT !.pc = "reset", !.tx = t, !.details = retrier[q].details]
    <3>1. [IdleRetrier EXCEPT !.pc = "reset", !.tx = t, !.details = retrier[q].details] \in RetryCalls
      BY <1>1 DEF RetryCalls, IdleRetrier, AllDetails
    <3> QED BY <3>1
  <2>4. x.tx = t
    BY <2>3 DEF IdleRetrier
  <2>5. \/ retrier' = [retrier EXCEPT ![q] = IdleRetrier]
        \/ retrier' = [retrier EXCEPT ![q] = x]
        \/ \E p \in {"check", "update", "enqueue"} : retrier' = [retrier EXCEPT ![q] = [retrier[q] EXCEPT !.pc = p]]
    <3>1. CASE ManualOverride(q)
      BY <1>2, <2>3, <3>1 DEF ManualOverride
    <3>2. CASE RetryCheck(q)
      BY <1>1, <3>2 DEF RetryCheck, TypeOK
    <3>3. CASE RetryUpdate(q)
      BY <1>1, <3>3 DEF RetryUpdate, TypeOK
    <3>4. CASE RetryCrash(q)
      BY <3>4 DEF RetryCrash
    <3>5. CASE ManualReset(q)
      BY <1>1, <3>5 DEF ManualReset, TypeOK
    <3> QED BY <3>1, <3>2, <3>3, <3>4, <3>5
  <2> QED BY <2>1, <2>2, <2>4, <2>5
<1>5. PICK e \in Rows : /\ row' = [row EXCEPT ![t] = e] /\ e.ref = row[t].ref
                        /\ e.status = row[t].status \/ e.status # "SUCCESSFUL"
  <2>1. row[t] \in Rows
    BY <1>1 DEF TypeOK
  <2>2. CASE row' = row
    <3>1. row' = [row EXCEPT ![t] = row[t]]
      BY <1>1, <2>2 DEF TypeOK
    <3> QED BY <2>1, <3>1
  <2>3. CASE row' = [row EXCEPT ![t].retryCount = 0]
    <3>1. PICK e \in Rows : e = [row[t] EXCEPT !.retryCount = 0]
      <4>1. [row[t] EXCEPT !.retryCount = 0] \in Rows
        BY <2>1 DEF Rows
      <4> QED BY <4>1
    <3>2. e.ref = row[t].ref /\ e.status = row[t].status /\ row' = [row EXCEPT ![t] = e]
      BY <1>1, <2>1, <2>3, <3>1 DEF TypeOK, Rows
    <3> QED BY <3>2
  <2>4. CASE row' = [row EXCEPT ![t].status = "PENDING"]
    <3>1. PICK e \in Rows : e = [row[t] EXCEPT !.status = "PENDING"]
      <4>1. [row[t] EXCEPT !.status = "PENDING"] \in Rows
        BY <2>1 DEF Rows
      <4> QED BY <4>1
    <3>2. e.ref = row[t].ref /\ e.status = "PENDING" /\ row' = [row EXCEPT ![t] = e]
      BY <1>1, <2>1, <2>4, <3>1 DEF TypeOK, Rows
    <3> QED BY <3>2
  <2> QED BY <1>2, <2>2, <2>3, <2>4 DEF ManualOverride, ManualReset, RetryCheck, RetryUpdate, RetryCrash
<1>6. account' \in [Users -> [details : AllDetails, recipient : AllDetails]]
  <2>1. CASE UNCHANGED account
    BY <1>1, <2>1 DEF TypeOK
  <2>2. CASE account' = [account EXCEPT ![UserOf[t]] = SavedAccount(retrier[q].details, retrier[q].recipient)]
    <3>1. /\ SavedAccount(retrier[q].details, retrier[q].recipient) \in [details : AllDetails, recipient : AllDetails]
          /\ UserOf[t] \in Users
      BY <1>1 DEF RetryCalls, Users, SavedAccount
    <3> QED BY <1>1, <2>2, <3>1 DEF TypeOK
  <2> QED BY <1>2, <2>1, <2>2 DEF ManualOverride, ManualReset, RetryCheck, RetryUpdate, RetryCrash
<1>7. retrier[q].pc # "idle" /\ UNCHANGED <<processed, handler, job, hook, transfer, notices, announced, provider>>
  BY <1>1
<1> QED BY <1>3, <1>4, <1>5, <1>6, <1>7, RetrierMoves

\* The retry adds its job.
LEMMA RetryEnqueueKeeps ==
    ASSUME CashInv, NEW q \in Retriers, RetryEnqueue(q), UNCHANGED provider
    PROVE  CashInv'
<1>1. /\ retrier[q].pc = "enqueue"
      /\ UNCHANGED <<row, account, processed, handler, hook, transfer, notices, announced, faults>>
      /\ retrier' = [retrier EXCEPT ![q] = IdleRetrier]
  BY DEF RetryEnqueue
<1>2. TypeOK /\ retrier[q] \in RetryCalls
  BY DEF CashInv, TypeOK
<1>3. PICK t \in Txs : t = retrier[q].tx
  BY <1>1 DEF CashInv, RetriersOK
<1>4. PICK details \in AllDetails : details = retrier[q].details
  BY <1>2 DEF RetryCalls
<1>5. PICK n : n = NextJob
  OBVIOUS
<1>6. job' = [job EXCEPT ![n] = NewJob(t, None, details)]
  BY <1>3, <1>4, <1>5 DEF RetryEnqueue
<1>7. IdleRetrier.pc = "idle" /\ IdleRetrier \in RetryCalls
  BY IdleTypes DEF IdleRetrier
<1>8. retrier'[q].pc = "idle" /\ \A p \in Retriers \ {q} : retrier'[p] = retrier[p]
  BY <1>1, <1>2, <1>7 DEF TypeOK
<1>9. q \in Reserved /\ Reserved' \subseteq Reserved /\ q \notin Reserved'
  BY <1>1, <1>8 DEF Reserved
<1>10. Cardinality(Queued) < MaxJobs
  <2>1. PICK m \in 0..MaxJobs : Queued = 1..m /\ m + Cardinality(Reserved) <= MaxJobs
    BY DEF CashInv, QueueOK
  <2>2. Cardinality(Queued) = m /\ m \in Nat
    BY <2>1, FS_Interval, BoundsAssumption
  <2>3. IsFiniteSet(Reserved)
    <3>1. IsFiniteSet(Retriers)
      BY RetrierAssumption, FS_Union DEF Retriers
    <3> QED BY <3>1, FS_Subset DEF Reserved
  <2>4. Cardinality(Reserved) \in Nat /\ Cardinality(Reserved) # 0
    BY <1>9, <2>3, FS_CardinalityType, FS_EmptySet
  <2> QED BY <2>1, <2>2, <2>4, BoundsAssumption
<1>11. /\ n \in Jobs /\ job[n].pc = "none"
       /\ job' \in [Jobs -> JobCalls]
       /\ job'[n].pc = "waiting" /\ job'[n].ev = None /\ ~job'[n].orphan
       /\ \A j \in Jobs \ {n} : job'[j] = job[j]
       /\ Steady /\ QueueOK' /\ JobsOK' /\ LiveOK'
  <2>1. UNCHANGED <<transfer, faults, provider>> /\ None \in Events \cup {None} /\ Reserved' # Reserved
    BY <1>1, <1>9
  <2> QED BY <1>5, <1>6, <1>9, <1>10, <2>1, NewJobKeeps
<1>12. TypeOK'
  BY <1>1, <1>2, <1>7, <1>11 DEF TypeOK
<1>13. RowsOK' /\ HandlersOK' /\ HooksOK' /\ NoticesOK'
  BY <1>1, <1>2, <1>11, CopiesStay DEF CashInv
<1>14. RetriersOK'
  BY <1>8 DEF CashInv, RetriersOK
<1>15. CommitsOK'
  <2>1. \A d \in Deliveries : handler[d].pc = "commit" => job'[handler[d].job] = job[handler[d].job]
    BY <1>11 DEF CashInv, CommitsOK
  <2> QED BY <1>1, <2>1 DEF CashInv, CommitsOK
<1>16. ProcessedOK'
  <2> SUFFICES ASSUME NEW e \in processed
               PROVE  \E i \in Jobs :
                        /\ job'[i].pc # "none" /\ job'[i].ev = e /\ ~job'[i].orphan
                        /\ \A b \in Deliveries : handler'[b].pc = "commit" => handler'[b].job # i
    BY <1>1 DEF ProcessedOK
  <2>1. PICK i \in Jobs : /\ job[i].pc # "none" /\ job[i].ev = e /\ ~job[i].orphan
                          /\ \A b \in Deliveries : handler[b].pc = "commit" => handler[b].job # i
    BY DEF CashInv, ProcessedOK
  <2>2. i # n /\ job'[i] = job[i]
    BY <1>11, <2>1
  <2> QED BY <1>1, <2>1, <2>2
<1> QED BY <1>11, <1>12, <1>13, <1>14, <1>15, <1>16 DEF CashInv

-----------------------------------------------------------------------------
(* Paystack and its webhooks. *)

\* A transfer settles or is sent back: what has paid stays paid, and no transfer begins.
LEMMA TransferMoves ==
    ASSUME CashInv, NEW r \in Refs, NEW s \in {"success", "failed", "reversed"}, NEW k \in {"success", "failed"},
           \/ transfer[r].state = "open" /\ s = k
           \/ transfer[r].state = "success" /\ s = "reversed" /\ k = "failed",
           transfer' = [transfer EXCEPT ![r].state = s],
           notices' = notices \cup {[ref |-> r, kind |-> k]},
           UNCHANGED <<row, account, processed, handler, job, retrier, hook, announced, faults, provider>>
    PROVE  CashInv'
<1>1. TypeOK /\ transfer[r] \in Transfers
  BY DEF CashInv, TypeOK
<1>2. PICK c \in Transfers : c = [transfer[r] EXCEPT !.state = s]
  <2>1. [transfer[r] EXCEPT !.state = s] \in Transfers
    BY <1>1 DEF Transfers
  <2> QED BY <2>1
<1>3. c.state = s /\ transfer' = [transfer EXCEPT ![r] = c]
  BY <1>1, <1>2 DEF TypeOK, Transfers
<1>4. transfer'[r].state = s /\ \A q \in Refs \ {r} : transfer'[q] = transfer[q]
  BY <1>1, <1>3 DEF TypeOK
<1>5. TypeOK'
  <2>1. [ref |-> r, kind |-> k] \in [ref : Refs, kind : {"success", "failed"}]
    OBVIOUS
  <2>2. transfer' \in [Refs -> Transfers] /\ notices' \subseteq [ref : Refs, kind : {"success", "failed"}]
    BY <1>1, <1>3, <2>1 DEF TypeOK
  <2> QED BY <1>1, <2>2 DEF TypeOK
<1>6. \A q \in Refs : /\ PaidRef(q) => transfer'[q].state \in {"success", "reversed"}
                      /\ transfer[q].state = "none" => transfer'[q].state = "none"
                      /\ transfer'[q].state \in {"open", "success"} => transfer[q].state \in {"open", "success"}
  BY <1>4 DEF PaidRef
<1>7. Steady
  BY <1>6 DEF Steady, PaidRef
<1>8. JobsOK'
  <2> SUFFICES ASSUME NEW j \in Jobs PROVE JobOK(j)'
    BY DEF JobsOK
  <2>1. \A n \in 1..JobAttempts + MaxFaults :
          /\ transfer[<<j, n>>].state = "none" => transfer'[<<j, n>>].state = "none"
          /\ PaidRef(<<j, n>>) => PaidRef(<<j, n>>)'
    <3> SUFFICES ASSUME NEW n \in 1..JobAttempts + MaxFaults
                 PROVE  /\ transfer[<<j, n>>].state = "none" => transfer'[<<j, n>>].state = "none"
                        /\ PaidRef(<<j, n>>) => PaidRef(<<j, n>>)'
      OBVIOUS
    <3>1. <<j, n>> \in Refs
      BY RefParts
    <3> QED BY <1>6, <3>1 DEF PaidRef
  <2>2. faults' \in Nat /\ faults' >= faults /\ UNCHANGED provider /\ UNCHANGED job
    BY <1>1, BoundsAssumption DEF TypeOK
  <2>3. JobOK(j)
    BY DEF CashInv, JobsOK
  <2> QED BY <1>1, <2>1, <2>2, <2>3, JobStays
<1>9. LiveOK'
  <2> SUFFICES ASSUME NEW t \in Txs PROVE Cardinality(LiveTransfers(t))' <= Cardinality(Spent(t))' + faults'
    BY DEF LiveOK
  <2>1. PICK L, M : L = LiveTransfers(t) /\ M = LiveTransfers(t)'
    OBVIOUS
  <2>2. M \subseteq L
    BY <1>6, <2>1 DEF LiveTransfers, TxOfRef
  <2>3. IsFiniteSet(L) /\ Cardinality(L) <= Cardinality(Spent(t)) + faults
    BY <2>1, FiniteParts DEF CashInv, LiveOK
  <2>4. IsFiniteSet(M) /\ Cardinality(M) <= Cardinality(L)
    BY <2>2, <2>3, FS_Subset
  <2>5. Cardinality(L) \in Nat /\ Cardinality(M) \in Nat /\ Cardinality(Spent(t)) \in Nat /\ faults \in Nat
    BY <1>1, <2>3, <2>4, FiniteParts, FS_CardinalityType, BoundsAssumption DEF TypeOK
  <2>6. Spent(t)' = Spent(t)
    BY DEF Spent
  <2>7. Cardinality(LiveTransfers(t))' = Cardinality(M) /\ Cardinality(Spent(t))' = Cardinality(Spent(t))
    BY <2>1, <2>6
  <2> QED BY <2>3, <2>4, <2>5, <2>7
<1>10. NoticesOK'
  <2> SUFFICES ASSUME NEW n \in notices', n.kind = "success" PROVE transfer'[n.ref].state \in {"success", "reversed"}
    BY DEF NoticesOK, PaidRef
  <2>1. CASE n \in notices
    <3>1. n.ref \in Refs /\ PaidRef(n.ref)
      BY <1>1, <2>1 DEF CashInv, NoticesOK, TypeOK
    <3> QED BY <1>6, <3>1
  <2>2. CASE n = [ref |-> r, kind |-> k]
    BY <1>4, <2>2
  <2> QED BY <2>1, <2>2
<1>11. RowsOK' /\ HandlersOK' /\ HooksOK'
  BY <1>1, <1>7, CopiesStay DEF CashInv
<1>12. QueueOK' /\ RetriersOK' /\ CommitsOK' /\ ProcessedOK'
  <2>1. Reserved' = Reserved /\ UNCHANGED <<handler, processed, job, retrier>>
    BY DEF Reserved
  <2> QED BY <2>1, QueueStays, CommitsStay DEF CashInv, RetriersOK
<1> QED BY <1>5, <1>8, <1>9, <1>10, <1>11, <1>12 DEF CashInv

\* Paystack settles a transfer, or the bank sends it back.
LEMMA PaystackKeeps ==
    ASSUME CashInv, NEW r \in Refs, NEW kind \in {"success", "failed"},
           TransferSettles(r, kind) \/ TransferReversed(r), UNCHANGED provider
    PROVE  CashInv'
<1>1. UNCHANGED <<row, account, processed, handler, job, retrier, hook, announced, faults, provider>>
  BY DEF TransferSettles, TransferReversed
<1>2. CASE TransferSettles(r, kind)
  <2>1. /\ transfer[r].state = "open" /\ transfer' = [transfer EXCEPT ![r].state = kind]
        /\ notices' = notices \cup {[ref |-> r, kind |-> kind]}
    BY <1>2 DEF TransferSettles
  <2> QED BY <1>1, <2>1, TransferMoves
<1>3. CASE TransferReversed(r)
  <2>1. /\ transfer[r].state = "success" /\ transfer' = [transfer EXCEPT ![r].state = "reversed"]
        /\ notices' = notices \cup {[ref |-> r, kind |-> "failed"]}
    BY <1>3 DEF TransferReversed
  <2> QED BY <1>1, <2>1, TransferMoves
<1> QED BY <1>2, <1>3

\* A webhook turns into c, a row may be rewritten as e and a notice n come back.
LEMMA HookMoves ==
    ASSUME CashInv, NEW h \in Hooks, NEW c \in HookCalls, hook' = [hook EXCEPT ![h] = c],
           c.pc = "save" => /\ c.tx \in Txs /\ c.ent.ref \in Refs /\ c.kind \in {"success", "failed"}
                            /\ RowOK(c.tx, c.ent)
                            /\ c.kind = "success" => PaidRef(c.ent.ref),
           NEW t \in Txs, NEW e \in Rows, row' = [row EXCEPT ![t] = e], RowOK(t, e),
           notices' \subseteq [ref : Refs, kind : {"success", "failed"}],
           \A n \in notices' : n.kind = "success" => PaidRef(n.ref),
           announced' \in [Refs -> 0..2],
           faults' \in 0..MaxFaults, faults' \in Nat, faults' >= faults,
           UNCHANGED <<account, processed, handler, job, retrier, transfer, provider>>
    PROVE  CashInv'
<1>1. TypeOK /\ hook'[h] = c /\ \A g \in Hooks \ {h} : hook'[g] = hook[g]
  BY DEF CashInv, TypeOK
<1>2. JobsOK' /\ LiveOK' /\ Steady
  BY JobsUntouched
<1>3. TypeOK'
  <2>1. row' \in [Txs -> Rows] /\ hook' \in [Hooks -> HookCalls]
    BY <1>1 DEF TypeOK
  <2> QED BY <1>1, <2>1 DEF TypeOK
<1>4. RowsOK'
  <2> SUFFICES ASSUME NEW u \in Txs PROVE RowOK(u, row[u])'
    BY DEF RowsOK
  <2>1. PICK f \in Rows : f = row'[u] /\ RowOK(u, f)
    BY <1>1 DEF CashInv, TypeOK, RowsOK
  <2>2. RowOK(u, f)'
    BY <1>2, <2>1, CopyStays
  <2> QED BY <2>1, <2>2 DEF RowOK
<1>5. HooksOK'
  <2> SUFFICES ASSUME NEW g \in Hooks, hook'[g].pc = "save" PROVE HookOK(g)'
    BY DEF HooksOK, HookOK
  <2>1. PICK b \in HookCalls : b = hook'[g]
    BY <1>3 DEF TypeOK
  <2>2. /\ b.tx \in Txs /\ b.ent.ref \in Refs /\ b.kind \in {"success", "failed"}
        /\ RowOK(b.tx, b.ent)
        /\ b.kind = "success" => PaidRef(b.ent.ref)
    <3>1. CASE g = h
      BY <1>1, <2>1, <3>1
    <3>2. CASE g # h
      <4>1. HookOK(g) /\ hook[g] = b
        BY <1>1, <2>1, <3>2 DEF CashInv, HooksOK
      <4> QED BY <2>1, <4>1 DEF HookOK
    <3> QED BY <3>1, <3>2
  <2>3. b.ent \in Rows
    BY DEF HookCalls
  <2>4. RowOK(b.tx, b.ent)'
    BY <1>2, <2>2, <2>3, CopyStays
  <2>5. b.kind = "success" => transfer'[b.ent.ref].state \in {"success", "reversed"}
    BY <2>2 DEF PaidRef
  <2> QED BY <2>1, <2>2, <2>4, <2>5 DEF HookOK, PaidRef, RowOK
<1>6. NoticesOK'
  BY DEF NoticesOK, PaidRef
<1>7. HandlersOK'
  BY <1>1, <1>2, CopiesStay DEF CashInv
<1>8. QueueOK' /\ RetriersOK' /\ CommitsOK' /\ ProcessedOK'
  <2>1. Reserved' = Reserved /\ UNCHANGED <<handler, processed, job, retrier>>
    BY DEF Reserved
  <2> QED BY <2>1, QueueStays, CommitsStay DEF CashInv, RetriersOK
<1> QED BY <1>2, <1>3, <1>4, <1>5, <1>6, <1>7, <1>8 DEF CashInv

\* A webhook looks up the row of its reference.
LEMMA HookReadKeeps ==
    ASSUME CashInv, NEW h \in Hooks, NEW n \in notices, HookRead(h, n), UNCHANGED provider
    PROVE  CashInv'
<1>1. TypeOK /\ n.ref \in Refs /\ n.kind \in {"success", "failed"} /\ hook[h] \in HookCalls
  BY DEF CashInv, TypeOK
<1>2. /\ hook[h].pc = "idle"
      /\ UNCHANGED <<account, processed, handler, job, retrier, transfer, provider>>
      /\ UNCHANGED <<row, announced, faults>>
      /\ notices' \subseteq notices
  BY DEF HookRead, Answered
<1>3. /\ notices' \subseteq [ref : Refs, kind : {"success", "failed"}]
      /\ \A m \in notices' : m.kind = "success" => PaidRef(m.ref)
      /\ announced' \in [Refs -> 0..2]
      /\ faults' \in 0..MaxFaults /\ faults' \in Nat /\ faults' >= faults
  BY <1>1, <1>2, BoundsAssumption DEF CashInv, TypeOK, NoticesOK
<1>4. CASE UNCHANGED hook
  <2>1. JobsOK' /\ LiveOK' /\ Steady
    BY <1>2, <1>3, JobsUntouched
  <2>2. TypeOK'
    BY <1>1, <1>2, <1>3, <1>4 DEF TypeOK
  <2>3. RowsOK' /\ HandlersOK' /\ HooksOK'
    BY <1>1, <1>2, <1>4, <2>1, CopiesStay DEF CashInv
  <2>4. NoticesOK'
    BY <1>2, <1>3 DEF NoticesOK, PaidRef
  <2>5. QueueOK' /\ RetriersOK' /\ CommitsOK' /\ ProcessedOK'
    <3>1. Reserved' = Reserved /\ UNCHANGED <<handler, processed, job, retrier>>
      BY <1>2 DEF Reserved
    <3> QED BY <3>1, QueueStays, CommitsStay DEF CashInv, RetriersOK
  <2> QED BY <2>1, <2>2, <2>3, <2>4, <2>5 DEF CashInv
<1>5. CASE \E t \in Concerned(n) :
             hook' = [hook EXCEPT ![h] = [pc |-> "save", tx |-> t, ent |-> row[t], kind |-> n.kind]]
  <2>1. PICK t \in Concerned(n) :
             hook' = [hook EXCEPT ![h] = [pc |-> "save", tx |-> t, ent |-> row[t], kind |-> n.kind]]
    BY <1>5
  <2>2. t \in Txs /\ row[t].ref = n.ref
    BY DEF Concerned
  <2>3. PICK e \in Rows : e = row[t] /\ RowOK(t, e) /\ e.ref = n.ref
    BY <1>1, <2>2 DEF CashInv, RowsOK, TypeOK
  <2>4. PICK c \in HookCalls : c = [pc |-> "save", tx |-> t, ent |-> e, kind |-> n.kind]
    <3>1. [pc |-> "save", tx |-> t, ent |-> e, kind |-> n.kind] \in HookCalls
      BY <1>1, <2>2 DEF HookCalls
    <3> QED BY <3>1
  <2>5. c.tx = t /\ c.ent = e /\ c.kind = n.kind
    BY <2>4
  <2>6. hook' = [hook EXCEPT ![h] = c] /\ row' = [row EXCEPT ![t] = e]
    BY <1>1, <1>2, <2>1, <2>2, <2>3, <2>4 DEF TypeOK
  <2>7. /\ c.tx \in Txs /\ c.ent.ref \in Refs /\ c.kind \in {"success", "failed"}
        /\ RowOK(c.tx, c.ent)
        /\ c.kind = "success" => PaidRef(c.ent.ref)
    BY <1>1, <2>2, <2>3, <2>5 DEF CashInv, NoticesOK
  <2> QED BY <1>2, <1>3, <2>2, <2>3, <2>6, <2>7, HookMoves
<1> QED BY <1>4, <1>5 DEF HookRead

\* A webhook saves its result, or fails and will be sent again.
LEMMA HookEndsKeeps ==
    ASSUME CashInv, NEW h \in Hooks, HookSave(h) \/ HookFails(h), UNCHANGED provider
    PROVE  CashInv'
<1>1. TypeOK /\ hook[h] \in HookCalls
  BY DEF CashInv, TypeOK
<1>2. /\ hook[h].pc = "save" /\ hook' = [hook EXCEPT ![h] = IdleHook]
      /\ UNCHANGED <<account, processed, handler, job, retrier, transfer, provider>>
  BY DEF HookSave, HookFails
<1>3. PICK t \in Txs, f \in Rows, r \in Refs, k \in {"success", "failed"} :
        /\ t = hook[h].tx /\ f = hook[h].ent /\ r = f.ref /\ k = hook[h].kind
        /\ RowOK(t, f) /\ (k = "success" => PaidRef(r))
  <2>1. HookOK(h) /\ hook[h].ent \in Rows
    BY <1>1 DEF CashInv, HooksOK, HookCalls
  <2> QED BY <1>2, <2>1 DEF HookOK
<1>4. PICK c \in HookCalls : c = IdleHook /\ c.pc = "idle"
  BY IdleTypes DEF IdleHook
<1>5. hook' = [hook EXCEPT ![h] = c] /\ c.pc # "save"
  BY <1>2, <1>4
<1>6. faults' \in 0..MaxFaults /\ faults' \in Nat /\ faults' >= faults
  <2>1. UNCHANGED faults \/ Fault("dbError")
    BY DEF HookSave, HookFails
  <2> QED BY <2>1, FaultCounts DEF CashInv
<1>7. announced' \in [Refs -> 0..2]
  <2>1. UNCHANGED announced \/ Announce(r)
    BY <1>3 DEF HookSave, HookFails
  <2> QED BY <1>1, <2>1 DEF Announce, TypeOK
<1>8. /\ notices' \subseteq [ref : Refs, kind : {"success", "failed"}]
      /\ \A m \in notices' : m.kind = "success" => PaidRef(m.ref)
  <2>1. UNCHANGED notices \/ notices' = notices \cup {[ref |-> r, kind |-> k]}
    BY <1>3 DEF HookSave, HookFails
  <2>2. \A m \in notices : m.kind = "success" => PaidRef(m.ref)
    BY DEF CashInv, NoticesOK
  <2>3. [ref |-> r, kind |-> k].kind = k /\ [ref |-> r, kind |-> k].ref = r
    OBVIOUS
  <2> QED BY <1>1, <1>3, <2>1, <2>2, <2>3 DEF TypeOK
<1>9. PICK e \in Rows : row' = [row EXCEPT ![t] = e] /\ RowOK(t, e)
  <2>1. CASE HookFails(h)
    <3>1. row' = [row EXCEPT ![t] = row[t]]
      BY <1>1, <2>1 DEF HookFails, TypeOK
    <3>2. row[t] \in Rows /\ RowOK(t, row[t])
      BY <1>1 DEF CashInv, RowsOK, TypeOK
    <3> QED BY <3>1, <3>2
  <2>2. CASE HookSave(h)
    <3>1. PICK b \in BOOLEAN : row' = [row EXCEPT ![hook[h].tx] = HookRow(h, b)]
      BY <2>2 DEF HookSave
    <3>2. PICK s \in {"SUCCESSFUL", "FAILED"}, a \in {TRUE, FALSE, None} :
            s = StatusFor(k) /\ a = IF k = "success" THEN None ELSE b
      BY DEF StatusFor
    <3>3. PICK e \in Rows : e = [f EXCEPT !.status = s, !.retryable = a]
      <4>1. [f EXCEPT !.status = s, !.retryable = a] \in Rows
        BY DEF Rows
      <4> QED BY <4>1
    <3>4. row' = [row EXCEPT ![t] = e]
      BY <1>3, <3>1, <3>2, <3>3 DEF HookRow
    <3>5. e.status = s /\ e.ref = r
      BY <1>3, <3>3 DEF Rows
    <3>6. r # None
      BY NoneAssumption
    <3>7. TxOfRef(r) = t
      BY <1>3, <3>6 DEF RowOK
    <3>8. s = "SUCCESSFUL" => Paid(t)
      BY <1>3, <3>2, <3>7 DEF StatusFor, Paid
    <3>9. RowOK(t, e)
      BY <3>5, <3>7, <3>8 DEF RowOK
    <3> QED BY <3>4, <3>9
  <2> QED BY <2>1, <2>2
<1> QED BY <1>2, <1>5, <1>6, <1>7, <1>8, <1>9, HookMoves

-----------------------------------------------------------------------------
(* The invariant. *)

\* It holds when nothing has happened yet.
LEMMA InitKeeps == Init => CashInv
<1> SUFFICES ASSUME Init PROVE CashInv
  OBVIOUS
<1>1. TypeOK
  <2>1. None \in AllDetails /\ 0 \in 0..MaxFaults
    BY BoundsAssumption DEF AllDetails
  <2> QED BY <2>1, IdleTypes DEF Init, TypeOK
<1>2. /\ \A j \in Jobs : job[j].pc = "none" /\ job[j].tx = None /\ job[j].run = 0
      /\ \A r \in Refs : transfer[r].state = "none"
      /\ \A q \in Retriers : retrier[q].pc = "idle"
      /\ \A d \in Deliveries : handler[d].pc = "new"
      /\ \A h \in Hooks : hook[h].pc = "idle"
      /\ \A t \in Txs : row[t].ref = None /\ row[t].status = "ABSENT"
      /\ notices = {} /\ processed = {} /\ faults = 0
  BY DEF Init, IdleJob, NoTransfer, IdleRetrier, IdleHandler, IdleHook, NoRow
<1>3. QueueOK
  <2>1. Queued = 1..0 /\ Reserved = {}
    BY <1>2 DEF Queued, Reserved
  <2>2. 0 \in 0..MaxJobs /\ Cardinality(Reserved) = 0
    BY <2>1, FS_EmptySet, BoundsAssumption
  <2> QED BY <2>1, <2>2, BoundsAssumption DEF QueueOK
<1>4. JobsOK
  <2> SUFFICES ASSUME NEW j \in Jobs PROVE JobOK(j)
    BY DEF JobsOK
  <2>1. \A n \in 1..JobAttempts + MaxFaults : transfer[<<j, n>>].state = "none"
    BY <1>2, RefParts
  <2> QED BY <1>2, <2>1 DEF JobOK, Working
<1>5. RowsOK /\ HandlersOK /\ HooksOK /\ NoticesOK /\ RetriersOK /\ CommitsOK /\ ProcessedOK
  BY <1>2 DEF RowsOK, RowOK, HandlersOK, HooksOK, HookOK, NoticesOK, RetriersOK, CommitsOK, ProcessedOK
<1>6. LiveOK
  <2> SUFFICES ASSUME NEW t \in Txs PROVE Cardinality(LiveTransfers(t)) <= Cardinality(Spent(t)) + faults
    BY DEF LiveOK
  <2>1. LiveTransfers(t) = {}
    BY <1>2 DEF LiveTransfers
  <2>2. Cardinality(LiveTransfers(t)) = 0
    BY <2>1, FS_EmptySet
  <2>3. Cardinality(Spent(t)) \in Nat
    BY FiniteParts, FS_CardinalityType
  <2> QED BY <1>2, <2>2, <2>3
<1> QED BY <1>1, <1>3, <1>4, <1>5, <1>6 DEF CashInv

\* Every action keeps it.
LEMMA NextKeeps ==
    ASSUME CashInv, Next, UNCHANGED provider
    PROVE  CashInv'
<1>1. CASE \E d \in Deliveries : HandlerStep(d) \/ HandlerRollback(d)
  <2>1. PICK d \in Deliveries : HandlerStep(d) \/ HandlerRollback(d)
    BY <1>1
  <2>2. CASE HandlerCheck(d) \/ HandlerRead(d)
    BY <2>2, HandlerLooksKeeps
  <2>3. CASE HandlerSave(d)
    BY <2>3, HandlerSaveKeeps
  <2>4. CASE HandlerCommit(d)
    BY <2>4, HandlerCommitKeeps
  <2>5. CASE HandlerRollback(d)
    BY <2>5, HandlerRollbackKeeps
  <2> QED BY <2>1, <2>2, <2>3, <2>4, <2>5 DEF HandlerStep
<1>2. CASE \E j \in Jobs : JobStep(j) \/ JobCrash(j) \/ JobQueryFails(j)
  <2>1. PICK j \in Jobs : JobStep(j) \/ JobCrash(j) \/ JobQueryFails(j)
    BY <1>2
  <2>2. CASE JobStart(j)
    BY <2>2, JobStartKeeps
  <2>3. CASE JobClaim(j)
    BY <2>3, JobClaimKeeps
  <2>4. CASE JobAccount(j)
    BY <2>4, JobAccountKeeps
  <2>5. CASE JobSend(j)
    BY <2>5, JobSendKeeps
  <2>6. CASE JobSave(j)
    BY <2>6, JobSaveKeeps
  <2>7. CASE JobPublish(j)
    BY <2>7, JobPublishKeeps
  <2>8. CASE JobCatch(j)
    BY <2>8, JobCatchKeeps
  <2>9. CASE JobCrash(j)
    BY <2>9, JobCrashKeeps
  <2>10. CASE JobUpsert(j)
    BY <2>10, JobUpsertKeeps
  <2>11. CASE JobQueryFails(j)
    BY <2>11, JobQueryFailsKeeps
  <2> QED BY <2>1, <2>2, <2>3, <2>4, <2>5, <2>6, <2>7, <2>8, <2>9, <2>10, <2>11 DEF JobStep
<1>3. CASE \E q \in Scanners, t \in Txs : ScanPick(q, t)
  <2>1. PICK q \in Retriers, t \in Txs : ScanPick(q, t)
    BY <1>3 DEF Retriers
  <2>2. PICK d \in NewDetails \cup {None} : d = None
    OBVIOUS
  <2> QED BY <2>1, PickKeeps
<1>4. CASE \E q \in Admins, t \in Txs, d \in NewDetails \cup {None} : ManualPick(q, t, d)
  <2>1. PICK q \in Retriers, t \in Txs, d \in NewDetails \cup {None} : ManualPick(q, t, d)
    BY <1>4 DEF Retriers
  <2> QED BY <2>1, PickKeeps
<1>5. CASE \E q \in Retriers : RetryStep(q) \/ RetryCrash(q)
  <2>1. PICK q \in Retriers : RetryStep(q) \/ RetryCrash(q)
    BY <1>5
  <2> QED BY <2>1, RetryKeeps, RetryEnqueueKeeps DEF RetryStep
<1>6. CASE \E r \in Refs : TransferReversed(r) \/ \E kind \in {"success", "failed"} : TransferSettles(r, kind)
  <2>1. PICK r \in Refs : TransferReversed(r) \/ \E kind \in {"success", "failed"} : TransferSettles(r, kind)
    BY <1>6
  <2>2. PICK kind \in {"success", "failed"} : TransferReversed(r) \/ TransferSettles(r, kind)
    BY <2>1
  <2> QED BY <2>2, PaystackKeeps
<1>7. CASE \E h \in Hooks : HookSave(h) \/ HookFails(h) \/ \E n \in notices : HookRead(h, n)
  <2>1. PICK h \in Hooks : HookSave(h) \/ HookFails(h) \/ \E n \in notices : HookRead(h, n)
    BY <1>7
  <2> QED BY <2>1, HookEndsKeeps, HookReadKeeps
<1> QED BY <1>1, <1>2, <1>3, <1>4, <1>5, <1>6, <1>7 DEF Next

\* Every reference that the service keeps, in the row or in a copy of it, leads to the transaction it
\* belongs to and to at most one transfer, and successes that are written down have happened.
THEOREM CashInvariant == Spec => []CashInv
<1>1. Init => CashInv
  BY InitKeeps
<1>2. CashInv /\ [Next /\ UNCHANGED provider]_<<vars, provider>> => CashInv'
  <2> SUFFICES ASSUME CashInv, [Next /\ UNCHANGED provider]_<<vars, provider>> PROVE CashInv'
    OBVIOUS
  <2>1. CASE Next /\ UNCHANGED provider
    BY <2>1, NextKeeps
  <2>2. CASE UNCHANGED <<vars, provider>>
    <3>1. UNCHANGED <<account, processed, handler, job, retrier, transfer, provider>>
          /\ UNCHANGED <<row, hook, notices, announced, faults>>
      BY <2>2 DEF vars
    <3>2. TypeOK /\ faults' \in Nat /\ faults' >= faults
      BY <3>1, BoundsAssumption DEF CashInv, TypeOK
    <3>3. JobsOK' /\ LiveOK' /\ Steady
      BY <3>1, <3>2, JobsUntouched
    <3>4. TypeOK'
      BY <3>1, <3>2 DEF TypeOK
    <3>5. RowsOK' /\ HandlersOK' /\ HooksOK' /\ NoticesOK'
      BY <3>1, <3>2, <3>3, CopiesStay DEF CashInv
    <3>6. QueueOK' /\ RetriersOK' /\ CommitsOK' /\ ProcessedOK'
      <4>1. Reserved' = Reserved /\ UNCHANGED <<handler, processed, job, retrier>>
        BY <3>1 DEF Reserved
      <4> QED BY <4>1, QueueStays, CommitsStay DEF CashInv, RetriersOK
    <3> QED BY <3>3, <3>4, <3>5, <3>6 DEF CashInv
  <2> QED BY <2>1, <2>2
<1> QED BY <1>1, <1>2, PTL DEF Spec

\* The variables of the cashback service keep their types.
THEOREM CashbackTypes == Spec => []TypeOK
<1>1. CashInv => TypeOK
  BY DEF CashInv
<1> QED BY <1>1, CashInvariant, PTL

\* A row is only SUCCESSFUL when one of its transfers has gone through: markTransferSuccessful and
\* processPayment write back copies of the row that lead to the right transfer, however old they are.
THEOREM SuccessIsNeverInvented == Spec => []SuccessWasPaid
<1>1. CashInv => SuccessWasPaid
  BY DEF CashInv, RowsOK, RowOK, Paid, PaidRef, SuccessWasPaid
<1> QED BY <1>1, CashInvariant, PTL

\* handleBadgeUnlocked records an event as processed only with a job in the queue, for any number of
\* concurrent deliveries and any failures between the queue and the commit.
THEOREM ProcessedEventsAreQueued == Spec => []ProcessedMeansQueued
<1>1. CashInv => ProcessedMeansQueued
  BY DEF CashInv, ProcessedOK, ProcessedMeansQueued, Queued
<1> QED BY <1>1, CashInvariant, PTL

\* The transfers that pay a user are at most the jobs queued for the transaction and the failures.
THEOREM PaymentsAreCounted == Spec => []PaymentsAreAccountedFor
<1>1. CashInv => PaymentsAreAccountedFor
  <2> SUFFICES ASSUME CashInv, NEW t \in Txs
               PROVE  Cardinality(LiveTransfers(t)) <= Cardinality({j \in Queued : job[j].tx = t}) + faults
    BY DEF PaymentsAreAccountedFor
  <2> DEFINE Q == {j \in Queued : job[j].tx = t}
  <2>1. IsFiniteSet(Q)
    BY FiniteParts, FS_Subset DEF Queued
  <2>2. Spent(t) \subseteq Q
    BY DEF Spent, Queued
  <2>3. Cardinality(Spent(t)) <= Cardinality(Q)
    BY <2>1, <2>2, FS_Subset
  <2>4. /\ Cardinality(Spent(t)) \in Nat /\ Cardinality(Q) \in Nat
        /\ Cardinality(LiveTransfers(t)) \in Nat /\ faults \in Nat
    BY <2>1, FiniteParts, FS_CardinalityType, BoundsAssumption DEF CashInv, TypeOK
  <2>5. Cardinality(LiveTransfers(t)) <= Cardinality(Spent(t)) + faults
    BY DEF CashInv, LiveOK
  <2> HIDE DEF Q
  <2>6. Cardinality(LiveTransfers(t)) <= Cardinality(Q) + faults
    BY <2>3, <2>4, <2>5
  <2> QED BY <2>6 DEF Q
<1> QED BY <1>1, CashInvariant, PTL

-----------------------------------------------------------------------------
(* Announcements. *)

\* Nothing that is announced changes, and no job has just been paid.
LEMMA AnnounceStays ==
    ASSUME AnnounceOK, UNCHANGED <<announced, notices, hook, transfer, provider>>,
           \A j \in Jobs : job'[j].pc = "save" => job[j].pc = "save" /\ job'[j].run = job[j].run
    PROVE  AnnounceOK'
<1>1. \A h \in Hooks, r \in Refs : Announces(h, r)' <=> Announces(h, r)
  BY DEF Announces
<1>2. \A j \in Jobs : job'[j].pc = "save" /\ provider' = "mock" => announced'[<<j, job'[j].run>>] = 0
  BY DEF AnnounceOK
<1> QED BY <1>1, <1>2 DEF AnnounceOK

\* No job gets to the point where it saves the result of a call.
NoResults == \A j \in Jobs : job'[j].pc = "save" => job[j].pc = "save" /\ job'[j].run = job[j].run

\* What a worker does besides sending and saving the result.
OtherJobStep(j) ==
    \/ JobStart(j) \/ JobClaim(j) \/ JobAccount(j) \/ JobUpsert(j)
    \/ JobPublish(j) \/ JobCatch(j) \/ JobCrash(j) \/ JobQueryFails(j)

\* The steps of the others do not make a job that is about to save its result.
LEMMA OthersSendNothing ==
    ASSUME CashInv,
           \/ \E d \in Deliveries : HandlerStep(d) \/ HandlerRollback(d)
           \/ \E j \in Jobs : OtherJobStep(j)
           \/ \E q \in Retriers, t \in Txs, d \in NewDetails \cup {None} : ScanPick(q, t) \/ ManualPick(q, t, d)
           \/ \E q \in Retriers : RetryStep(q) \/ RetryCrash(q)
    PROVE  NoResults /\ UNCHANGED <<announced, notices, hook, transfer>>
<1>1. UNCHANGED <<announced, notices, hook, transfer>>
  BY DEF HandlerStep, HandlerCheck, HandlerRead, HandlerSave, HandlerCommit, HandlerRollback, OtherJobStep, JobStart, JobClaim,
         JobAccount, JobUpsert, JobPublish, JobCatch, JobCrash, JobQueryFails, ScanPick, ManualPick, RetryStep,
         ManualOverride, ManualReset, RetryCheck, RetryUpdate, RetryEnqueue, RetryCrash
<1> SUFFICES NoResults
  BY <1>1
<1>2. TypeOK /\ job \in [Jobs -> JobCalls]
  BY DEF CashInv, TypeOK
<1>3. ASSUME NEW j \in Jobs, NEW c, job' = [job EXCEPT ![j] = c], c.pc # "save" PROVE NoResults
  <2>1. \A i \in Jobs : job'[i].pc = "save" => job[i].pc = "save" /\ job'[i].run = job[i].run
    BY <1>2, <1>3
  <2> QED BY <2>1 DEF NoResults
<1>4. ASSUME NEW n, NEW t, NEW ev, NEW details, job' = [job EXCEPT ![n] = NewJob(t, ev, details)] PROVE NoResults
  <2>1. NewJob(t, ev, details).pc = "waiting"
    BY DEF NewJob, IdleJob
  <2>2. \A i \in Jobs : job'[i].pc = "save" => job[i].pc = "save" /\ job'[i].run = job[i].run
    BY <1>2, <1>4, <2>1
  <2> QED BY <2>2 DEF NoResults
<1>5. CASE UNCHANGED job
  BY <1>5 DEF NoResults
<1>6. CASE \E d \in Deliveries : HandlerStep(d) \/ HandlerRollback(d)
  <2>1. PICK d \in Deliveries : HandlerStep(d) \/ HandlerRollback(d)
    BY <1>6
  <2>2. CASE HandlerRollback(d)
    <3>1. PICK j \in Jobs : j = handler[d].job
      BY <2>2 DEF HandlerRollback, CashInv, CommitsOK
    <3>2. PICK o : job' = [job EXCEPT ![j].orphan = o]
      BY <2>2, <3>1 DEF HandlerRollback
    <3>3. \A i \in Jobs : job'[i].pc = job[i].pc /\ job'[i].run = job[i].run
      BY <1>2, <3>2 DEF JobCalls
    <3> QED BY <3>3 DEF NoResults
  <2>3. CASE HandlerSave(d)
    BY <1>4, <1>5, <2>3, SMTT(30) DEF HandlerSave
  <2>4. CASE HandlerCheck(d) \/ HandlerRead(d) \/ HandlerCommit(d)
    BY <1>5, <2>4 DEF HandlerCheck, HandlerRead, HandlerCommit
  <2> QED BY <2>1, <2>2, <2>3, <2>4 DEF HandlerStep
<1>7. CASE \E j \in Jobs : OtherJobStep(j)
  <2>1. PICK j \in Jobs : OtherJobStep(j)
    BY <1>7
  <2>2. job[j] \in JobCalls /\ (job[j].pc \notin {"none", "done"} => job[j].made < JobAttempts)
    BY <1>2 DEF CashInv, JobsOK, JobOK
  <2>3. EndJob(j).pc # "save" /\ (job[j].pc \notin {"none", "done"} => Rethrow(j).pc # "save")
    BY <1>2, <2>2, EndJobFields, RethrowFields
  <2>4. PICK f : f = EndJob(j) /\ f \in JobCalls
    BY <1>2, EndJobFields
  <2>5. ASSUME NEW retryable, Fails(j, retryable) PROVE NoResults
    <3>1. PICK c : c = [job[j] EXCEPT !.pc = "catch", !.retryable = retryable]
      OBVIOUS
    <3>2. job' = [job EXCEPT ![j] = c] /\ c.pc = "catch"
      BY <1>2, <2>2, <2>5, <3>1 DEF Fails, JobCalls
    <3> QED BY <1>3, <3>2
  <2>6. CASE JobStart(j)
    <3>1. PICK c : c = [job[j] EXCEPT !.pc = "claim", !.ent = row[job[j].tx]]
      OBVIOUS
    <3>2. c.pc = "claim"
      BY <2>2, <3>1 DEF JobCalls
    <3>3. \/ job' = [job EXCEPT ![j] = Rethrow(j)] \/ job' = [job EXCEPT ![j] = EndJob(j)]
          \/ job' = [job EXCEPT ![j] = c]
      BY <1>2, <2>6, <3>1 DEF JobStart
    <3>4. job[j].pc \notin {"none", "done"}
      BY <2>6 DEF JobStart
    <3> QED BY <1>3, <2>3, <3>2, <3>3, <3>4
  <2>7. CASE JobClaim(j)
    <3>1. CASE job' = [job EXCEPT ![j] = EndJob(j)]
      BY <1>3, <2>3, <3>1
    <3>2. CASE job' # [job EXCEPT ![j] = EndJob(j)]
      <4>1. job' = [job EXCEPT ![j].pc = "account", ![j].run = @ + 1,
                               ![j].ent = [job[j].ent EXCEPT !.status = "PROCESSING", !.ref = <<j, job[j].run + 1>>]]
        BY <1>2, <2>2, <2>7, <3>2 DEF JobClaim, JobCalls
      <4>2. job'[j].pc = "account" /\ \A i \in Jobs \ {j} : job'[i] = job[i]
        BY <1>2, <2>2, <4>1 DEF JobCalls
      <4>3. \A i \in Jobs : job'[i].pc = "save" => job[i].pc = "save" /\ job'[i].run = job[i].run
        BY <4>2
      <4> QED BY <4>3 DEF NoResults
    <3> QED BY <3>1, <3>2
  <2>8. CASE JobAccount(j)
    <3>1. CASE \E retryable : Fails(j, retryable)
      BY <2>5, <3>1
    <3>2. CASE ~\E retryable : Fails(j, retryable)
      <4>1. job' = [job EXCEPT ![j].pc = "upsert", ![j].found = HasAccount(UserOf[job[j].tx]),
                               ![j].recipient = account[UserOf[job[j].tx]].recipient]
        BY <2>8, <3>2 DEF JobAccount
      <4>2. job'[j].pc = "upsert" /\ \A i \in Jobs \ {j} : job'[i] = job[i]
        BY <1>2, <2>2, <4>1 DEF JobCalls
      <4>3. \A i \in Jobs : job'[i].pc = "save" => job[i].pc = "save" /\ job'[i].run = job[i].run
        BY <4>2
      <4> QED BY <4>3 DEF NoResults
    <3> QED BY <3>1, <3>2
  <2>9. CASE JobPublish(j)
    BY <1>3, <2>3, <2>5, <2>9 DEF JobPublish
  <2>10. CASE JobCatch(j)
    <3>1. job[j].pc \notin {"none", "done"} /\ (job' = [job EXCEPT ![j] = Rethrow(j)] \/ job' = [job EXCEPT ![j] = EndJob(j)])
      BY <2>10 DEF JobCatch
    <3> QED BY <1>3, <2>3, <3>1
  <2>11. CASE JobCrash(j)
    <3>1. PICK c : c = [f EXCEPT !.pc = "waiting"]
      OBVIOUS
    <3>2. c.pc = "waiting" /\ job' = [job EXCEPT ![j] = c]
      BY <2>4, <2>11, <3>1 DEF JobCrash, JobCalls
    <3> QED BY <1>3, <3>2
  <2>12. CASE JobUpsert(j)
    <3>1. CASE \E retryable : Fails(j, retryable)
      BY <2>5, <3>1
    <3>2. CASE ~\E retryable : Fails(j, retryable)
      <4>1. job' = [job EXCEPT ![j].pc = "send"]
        BY <2>12, <3>2 DEF JobUpsert
      <4>2. job'[j].pc = "send" /\ \A i \in Jobs \ {j} : job'[i] = job[i]
        BY <1>2, <2>2, <4>1 DEF JobCalls
      <4>3. \A i \in Jobs : job'[i].pc = "save" => job[i].pc = "save" /\ job'[i].run = job[i].run
        BY <4>2
      <4> QED BY <4>3 DEF NoResults
    <3> QED BY <3>1, <3>2
  <2>13. CASE JobQueryFails(j)
    <3>1. PICK g : g = Rethrow(j) /\ g \in JobCalls
      BY <1>2, <2>2, <2>13, RethrowFields DEF JobQueryFails
    <3>2. PICK c : c = [g EXCEPT !.run = @ + 1]
      OBVIOUS
    <3>3. g.pc # "save" /\ c.pc = g.pc
      BY <2>3, <2>13, <3>1, <3>2 DEF JobQueryFails, JobCalls
    <3>4. job' = [job EXCEPT ![j] = g] \/ job' = [job EXCEPT ![j] = c]
      BY <2>13, <3>1, <3>2 DEF JobQueryFails
    <3> QED BY <1>3, <3>3, <3>4
  <2> QED BY <2>1, <2>6, <2>7, <2>8, <2>9, <2>10, <2>11, <2>12, <2>13 DEF OtherJobStep
<1>8. CASE \E q \in Retriers, t \in Txs, d \in NewDetails \cup {None} : ScanPick(q, t) \/ ManualPick(q, t, d)
  BY <1>5, <1>8 DEF ScanPick, ManualPick
<1>9. CASE \E q \in Retriers : RetryStep(q) \/ RetryCrash(q)
  <2>1. PICK q \in Retriers : RetryStep(q) \/ RetryCrash(q)
    BY <1>9
  <2>2. CASE RetryEnqueue(q)
    BY <1>4, <2>2 DEF RetryEnqueue
  <2>3. CASE ManualOverride(q) \/ ManualReset(q) \/ RetryCheck(q) \/ RetryUpdate(q) \/ RetryCrash(q)
    BY <1>5, <2>3 DEF ManualOverride, ManualReset, RetryCheck, RetryUpdate, RetryCrash
  <2> QED BY <2>1, <2>2, <2>3 DEF RetryStep
<1> QED BY <1>1, <1>6, <1>7, <1>8, <1>9

\* So they do not concern the announcements.
LEMMA OthersAnnounceNothing ==
    ASSUME CashInv, AnnounceOK, UNCHANGED provider,
           \/ \E d \in Deliveries : HandlerStep(d) \/ HandlerRollback(d)
           \/ \E j \in Jobs : OtherJobStep(j)
           \/ \E q \in Retriers, t \in Txs, d \in NewDetails \cup {None} : ScanPick(q, t) \/ ManualPick(q, t, d)
           \/ \E q \in Retriers : RetryStep(q) \/ RetryCrash(q)
    PROVE  AnnounceOK'
<1>1. NoResults /\ UNCHANGED <<announced, notices, hook, transfer>>
  BY OthersSendNothing
<1>2. /\ UNCHANGED <<announced, notices, hook, transfer, provider>>
      /\ \A j \in Jobs : job'[j].pc = "save" => job[j].pc = "save" /\ job'[j].run = job[j].run
  BY <1>1 DEF NoResults
<1> QED BY <1>2, AnnounceStays

\* The provider accepts a transfer whose reference it has not seen, so nothing is announced of it yet.
LEMMA SendAnnounces ==
    ASSUME CashInv, AnnounceOK, NEW j \in Jobs, JobSend(j), UNCHANGED provider
    PROVE  AnnounceOK'
<1>1. /\ job[j].pc = "send" /\ Working(j) /\ job \in [Jobs -> JobCalls] /\ transfer \in [Refs -> Transfers]
      /\ provider \in {"paystack", "mock"} /\ UNCHANGED <<notices, announced, hook, provider>>
  BY ProviderAssumption DEF JobSend, Working, CashInv, TypeOK
<1>2. PICK r \in Refs : r = <<j, job[j].run>> /\ r = job[j].ent.ref
  BY <1>1, WorkingJob
<1>3. transfer[r].state = "none" /\ announced[r] = 0
  <2>1. transfer[r].state = "none"
    BY <1>1, <1>2 DEF CashInv, JobsOK, JobOK
  <2> QED BY <2>1 DEF AnnounceOK
<1>4. \A q \in Refs : /\ transfer'[q].state \in {"none", "open"} => transfer[q].state \in {"none", "open"}
                      /\ transfer'[q].state = "open" => transfer[q].state = "open" \/ provider = "paystack"
  <2>1. CASE UNCHANGED transfer
    BY <2>1
  <2>2. CASE Accept(j)
    <3>1. PICK c : /\ c = [state |-> IF provider = "mock" THEN "success" ELSE "open", dest |-> Destination(j)]
                   /\ transfer' = [transfer EXCEPT ![r] = c]
      BY <1>2, <2>2 DEF Accept
    <3>2. c.state = IF provider = "mock" THEN "success" ELSE "open"
      BY <3>1
    <3> QED BY <1>1, <1>3, <3>1, <3>2
  <2> QED BY <2>1, <2>2 DEF JobSend
<1>5. \A i \in Jobs : job'[i].pc = "save" => job'[i].run = job[i].run /\ (job[i].pc = "save" \/ i = j)
  <2>1. \/ \E retryable \in BOOLEAN : Fails(j, retryable)
        \/ job' = [job EXCEPT ![j].pc = "save", ![j].recipient = Destination(j)]
    BY DEF JobSend
  <2> QED BY <1>1, <2>1 DEF Fails, JobCalls
<1>6. \A h \in Hooks, q \in Refs : Announces(h, q)' <=> Announces(h, q)
  BY <1>1 DEF Announces
<1>7. \A i \in Jobs : job'[i].pc = "save" /\ provider' = "mock" => announced'[<<i, job'[i].run>>] = 0
  BY <1>1, <1>2, <1>3, <1>5 DEF AnnounceOK
<1> QED BY <1>1, <1>4, <1>6, <1>7 DEF AnnounceOK

\* The result of the mock is announced by the job, which is the only one to know of it.
LEMMA SaveAnnounces ==
    ASSUME CashInv, NoRepeats, AnnounceOK, NEW j \in Jobs, JobSave(j), UNCHANGED provider
    PROVE  AnnounceOK'
<1>1. /\ job[j].pc = "save" /\ Working(j) /\ job \in [Jobs -> JobCalls] /\ announced \in [Refs -> 0..2]
      /\ UNCHANGED <<notices, transfer, hook, provider>> /\ TypeOK
  BY DEF JobSave, Working, CashInv, TypeOK
<1>2. PICK r \in Refs : r = <<j, job[j].run>> /\ r = job[j].ent.ref
  BY <1>1, WorkingJob
<1>3. ~Fault("dbError")
  BY DEF NoRepeats, Fault
<1>4. CASE provider # "mock"
  <2>1. UNCHANGED announced /\ job' = [job EXCEPT ![j] = EndJob(j)]
    BY <1>3, <1>4 DEF JobSave, ResultStatus, AfterAccepted
  <2>2. EndJob(j).pc # "save"
    BY <1>1, EndJobFields
  <2>3. \A i \in Jobs : job'[i].pc = "save" => job[i].pc = "save" /\ job'[i].run = job[i].run
    BY <1>1, <2>1, <2>2
  <2>4. UNCHANGED <<announced, notices, hook, transfer, provider>>
    BY <1>1, <2>1
  <2> QED BY <2>3, <2>4, AnnounceStays
<1>5. CASE provider = "mock"
  <2>1. Announce(r) /\ job' = [job EXCEPT ![j].pc = "publish"]
    BY <1>2, <1>3, <1>5 DEF JobSave, ResultStatus
  <2>2. announced[r] = 0
    BY <1>1, <1>2, <1>5 DEF AnnounceOK
  <2>3. announced'[r] = 1 /\ \A q \in Refs \ {r} : announced'[q] = announced[q]
    BY <1>1, <2>1, <2>2 DEF Announce
  <2>4. transfer[r].state \in {"success", "reversed"}
    BY <1>1, <1>2, <1>5 DEF CashInv, JobsOK, JobOK, PaidRef
  <2>5. /\ \A n \in notices : n.kind # "success"
        /\ \A h \in Hooks, q \in Refs : ~Announces(h, q) /\ ~Announces(h, q)'
    BY <1>1, <1>5 DEF AnnounceOK, Announces
  <2>6. \A i \in Jobs : job'[i].pc = "save" => i # j /\ job'[i] = job[i]
    BY <1>1, <2>1 DEF JobCalls
  <2>7. \A i \in Jobs : job'[i].pc = "save" /\ provider' = "mock" => announced'[<<i, job'[i].run>>] = 0
    <3> SUFFICES ASSUME NEW i \in Jobs, job'[i].pc = "save" PROVE announced'[<<i, job'[i].run>>] = 0
      OBVIOUS
    <3>1. i # j /\ job'[i] = job[i] /\ Working(i)
      BY <2>6 DEF Working
    <3>2. PICK q \in Refs : q = <<i, job[i].run>>
      BY <3>1, WorkingJob
    <3>3. q # r
      BY <1>2, <3>1, <3>2
    <3>4. announced[q] = 0
      BY <1>5, <3>1, <3>2 DEF AnnounceOK
    <3> QED BY <2>3, <3>1, <3>2, <3>3, <3>4
  <2>8. \A q \in Refs : /\ announced'[q] <= 1
                        /\ transfer[q].state \in {"none", "open"} => announced'[q] = 0
                        /\ transfer[q].state = "open" => provider = "paystack"
                        /\ [ref |-> q, kind |-> "success"] \notin notices
    <3> SUFFICES ASSUME NEW q \in Refs
                 PROVE  /\ announced'[q] <= 1
                        /\ transfer[q].state \in {"none", "open"} => announced'[q] = 0
                        /\ transfer[q].state = "open" => provider = "paystack"
                        /\ [ref |-> q, kind |-> "success"] \notin notices
      OBVIOUS
    <3>1. [ref |-> q, kind |-> "success"] \notin notices
      BY <2>5
    <3>2. CASE q = r
      BY <2>3, <2>4, <3>1, <3>2
    <3>3. CASE q # r
      BY <2>3, <3>1, <3>3 DEF AnnounceOK
    <3> QED BY <3>2, <3>3
  <2> QED BY <1>1, <2>5, <2>7, <2>8 DEF AnnounceOK
<1> QED BY <1>4, <1>5

\* A transfer succeeds once, with the one notice of it.
LEMMA PaystackAnnounces ==
    ASSUME CashInv, AnnounceOK, NEW r \in Refs, NEW kind \in {"success", "failed"},
           TransferSettles(r, kind) \/ TransferReversed(r), UNCHANGED provider
    PROVE  AnnounceOK'
<1>1. transfer \in [Refs -> Transfers] /\ UNCHANGED <<announced, hook, job, provider>>
  BY DEF CashInv, TypeOK, TransferSettles, TransferReversed
<1>2. PICK k \in {"success", "failed"} :
        /\ notices' = notices \cup {[ref |-> r, kind |-> k]}
        /\ k = "success" => transfer[r].state = "open"
  BY DEF TransferSettles, TransferReversed
<1>3. \A q \in Refs : /\ transfer'[q].state \in {"none", "open"} => transfer'[q] = transfer[q]
  BY <1>1 DEF TransferSettles, TransferReversed, Transfers
<1>4. \A h \in Hooks, q \in Refs : Announces(h, q)' <=> Announces(h, q)
  BY <1>1 DEF Announces
<1>5. k = "success" => /\ announced[r] = 0 /\ provider = "paystack"
                       /\ \A h \in Hooks : ~Announces(h, r)
  <2> SUFFICES ASSUME transfer[r].state = "open"
               PROVE  announced[r] = 0 /\ provider = "paystack" /\ \A h \in Hooks : ~Announces(h, r)
    BY <1>2
  <2>1. announced[r] = 0 /\ provider = "paystack"
    BY DEF AnnounceOK
  <2>2. \A h \in Hooks : ~Announces(h, r)
    BY DEF CashInv, HooksOK, HookOK, Announces, PaidRef
  <2> QED BY <2>1, <2>2
<1>6. \A n \in notices' : n.kind = "success" => n \in notices \/ (n = [ref |-> r, kind |-> "success"] /\ k = "success")
  BY <1>2
<1>7. \A q \in Refs : [ref |-> q, kind |-> "success"] \in notices' =>
        announced[q] = 0 /\ \A h \in Hooks : ~Announces(h, q)
  <2> SUFFICES ASSUME NEW q \in Refs, [ref |-> q, kind |-> "success"] \in notices'
               PROVE  announced[q] = 0 /\ \A h \in Hooks : ~Announces(h, q)
    OBVIOUS
  <2>1. CASE [ref |-> q, kind |-> "success"] \in notices
    BY <2>1 DEF AnnounceOK
  <2>2. CASE [ref |-> q, kind |-> "success"] \notin notices
    <3>1. [ref |-> q, kind |-> "success"] = [ref |-> r, kind |-> "success"] /\ k = "success"
      BY <1>6, <2>2
    <3>2. q = r
      BY <3>1
    <3> QED BY <1>5, <3>1, <3>2
  <2> QED BY <2>1, <2>2
<1>8. \A q \in Refs : /\ announced[q] <= 1
                      /\ transfer'[q].state \in {"none", "open"} => announced[q] = 0
                      /\ transfer'[q].state = "open" => provider = "paystack"
                      /\ \A h \in Hooks : Announces(h, q) => announced[q] = 0
                      /\ \A g, h \in Hooks : Announces(g, q) /\ Announces(h, q) => g = h
  BY <1>3 DEF AnnounceOK
<1>9. /\ \A j \in Jobs : job[j].pc = "save" /\ provider = "mock" => announced[<<j, job[j].run>>] = 0
      /\ provider = "mock" => /\ \A n \in notices' : n.kind # "success"
                              /\ \A h \in Hooks, q \in Refs : ~Announces(h, q)
  BY <1>5, <1>6 DEF AnnounceOK
<1> QED BY <1>1, <1>4, <1>7, <1>8, <1>9 DEF AnnounceOK

\* A webhook takes over the notice that it answers.
LEMMA HookReadAnnounces ==
    ASSUME CashInv, NoRepeats, AnnounceOK, NEW h \in Hooks, NEW n \in notices, HookRead(h, n), UNCHANGED provider
    PROVE  AnnounceOK'
<1>1. /\ hook \in [Hooks -> HookCalls] /\ hook[h].pc = "idle" /\ TypeOK
      /\ UNCHANGED <<announced, job, transfer, provider>> /\ notices' = notices \ {n}
  BY DEF CashInv, TypeOK, HookRead, Answered, NoRepeats
<1>2. n.ref \in Refs /\ n = [ref |-> n.ref, kind |-> n.kind]
  BY <1>1 DEF TypeOK
<1>3. \A g \in Hooks, q \in Refs : Announces(g, q)' =>
        \/ Announces(g, q) /\ g # h
        \/ g = h /\ n = [ref |-> q, kind |-> "success"]
  <2>1. CASE UNCHANGED hook
    BY <1>1, <2>1 DEF Announces
  <2>2. CASE ~UNCHANGED hook
    <3>1. PICK t \in Concerned(n) :
            hook' = [hook EXCEPT ![h] = [pc |-> "save", tx |-> t, ent |-> row[t], kind |-> n.kind]]
      BY <2>2 DEF HookRead
    <3>2. row[t].ref = n.ref
      BY DEF Concerned
    <3>3. hook'[h].kind = n.kind /\ hook'[h].ent = row[t] /\ \A g \in Hooks \ {h} : hook'[g] = hook[g]
      BY <1>1, <3>1
    <3> QED BY <1>2, <3>2, <3>3 DEF Announces
  <2> QED BY <2>1, <2>2
<1>4. \A q \in Refs : n = [ref |-> q, kind |-> "success"] =>
        /\ announced[q] = 0 /\ (\A g \in Hooks : ~Announces(g, q)) /\ [ref |-> q, kind |-> "success"] \notin notices'
        /\ provider # "mock"
  BY <1>1 DEF AnnounceOK
<1>5. \A q \in Refs :
        /\ announced[q] <= 1
        /\ transfer[q].state \in {"none", "open"} => announced[q] = 0
        /\ transfer[q].state = "open" => provider = "paystack"
        /\ [ref |-> q, kind |-> "success"] \in notices' =>
             announced[q] = 0 /\ \A g \in Hooks : ~Announces(g, q)
        /\ \A g \in Hooks : Announces(g, q) => announced[q] = 0
        /\ \A f, g \in Hooks : Announces(f, q) /\ Announces(g, q) => f = g
  BY <1>1 DEF AnnounceOK
<1>6. \A q \in Refs :
        /\ [ref |-> q, kind |-> "success"] \in notices' =>
             announced[q] = 0 /\ \A g \in Hooks : ~Announces(g, q)'
        /\ \A g \in Hooks : Announces(g, q)' => announced[q] = 0
        /\ \A f, g \in Hooks : Announces(f, q)' /\ Announces(g, q)' => f = g
  BY <1>3, <1>4, <1>5
<1>7. /\ \A j \in Jobs : job[j].pc = "save" /\ provider = "mock" => announced[<<j, job[j].run>>] = 0
      /\ provider = "mock" => /\ \A m \in notices' : m.kind # "success"
                              /\ \A g \in Hooks, q \in Refs : ~Announces(g, q)'
  BY <1>1, <1>3, <1>4 DEF AnnounceOK
<1> QED BY <1>1, <1>5, <1>6, <1>7 DEF AnnounceOK

\* A webhook announces the success that it has taken over, and no other one has.
LEMMA HookSaveAnnounces ==
    ASSUME CashInv, NoRepeats, AnnounceOK, NEW h \in Hooks, HookSave(h) \/ HookFails(h), UNCHANGED provider
    PROVE  AnnounceOK'
<1>1. ~Fault("dbError")
  BY DEF NoRepeats, Fault
<1>2. /\ hook \in [Hooks -> HookCalls] /\ hook[h].pc = "save" /\ TypeOK /\ HookOK(h)
      /\ hook' = [hook EXCEPT ![h] = IdleHook]
      /\ UNCHANGED <<notices, job, transfer, provider>>
      /\ IF hook[h].kind = "success" THEN Announce(hook[h].ent.ref) ELSE UNCHANGED announced
  BY <1>1 DEF CashInv, TypeOK, HookSave, HookFails, HooksOK
<1>3. \A g \in Hooks, q \in Refs : Announces(g, q)' => Announces(g, q) /\ g # h
  BY <1>2 DEF Announces, IdleHook
<1>4. CASE hook[h].kind # "success"
  BY <1>2, <1>3, <1>4 DEF AnnounceOK
<1>5. CASE hook[h].kind = "success"
  <2>1. PICK r \in Refs : r = hook[h].ent.ref /\ Announce(r) /\ Announces(h, r) /\ PaidRef(r)
    BY <1>2, <1>5 DEF HookOK, Announces
  <2>2. announced[r] = 0 /\ provider # "mock" /\ [ref |-> r, kind |-> "success"] \notin notices
    BY <2>1 DEF AnnounceOK
  <2>3. announced'[r] = 1 /\ \A q \in Refs \ {r} : announced'[q] = announced[q]
    BY <1>2, <2>1, <2>2 DEF Announce, TypeOK
  <2>4. \A g \in Hooks : ~Announces(g, r)'
    <3>1. \A g \in Hooks : Announces(g, r) => g = h
      BY <2>1 DEF AnnounceOK
    <3> QED BY <1>3, <3>1
  <2>5. transfer[r].state \notin {"none", "open"}
    BY <2>1 DEF PaidRef
  <2>6. \A q \in Refs :
          /\ announced'[q] <= 1
          /\ transfer[q].state \in {"none", "open"} => announced'[q] = 0
          /\ transfer[q].state = "open" => provider = "paystack"
          /\ [ref |-> q, kind |-> "success"] \in notices => announced'[q] = 0 /\ \A g \in Hooks : ~Announces(g, q)'
          /\ \A g \in Hooks : Announces(g, q)' => announced'[q] = 0
          /\ \A f, g \in Hooks : Announces(f, q)' /\ Announces(g, q)' => f = g
    <3> SUFFICES ASSUME NEW q \in Refs
                 PROVE  /\ announced'[q] <= 1
                        /\ transfer[q].state \in {"none", "open"} => announced'[q] = 0
                        /\ transfer[q].state = "open" => provider = "paystack"
                        /\ [ref |-> q, kind |-> "success"] \in notices =>
                             announced'[q] = 0 /\ \A g \in Hooks : ~Announces(g, q)'
                        /\ \A g \in Hooks : Announces(g, q)' => announced'[q] = 0
                        /\ \A f, g \in Hooks : Announces(f, q)' /\ Announces(g, q)' => f = g
      OBVIOUS
    <3>1. CASE q = r
      BY <2>2, <2>3, <2>4, <2>5, <3>1
    <3>2. CASE q # r
      BY <1>3, <2>3, <3>2 DEF AnnounceOK
    <3> QED BY <3>1, <3>2
  <2> QED BY <1>2, <2>2, <2>6 DEF AnnounceOK
<1> QED BY <1>4, <1>5

\* Unless Paystack sends a webhook again or the database fails under us, the success of a transfer is
\* announced with one CashbackProcessed event, by processPayment or by the webhook and never by both,
\* for any crashes, lost responses, early webhooks, reversals and concurrent retries.
THEOREM AnnouncedAtMostOnce ==
    ASSUME NoRepeats
    PROVE  Spec => []AnnouncedOnce
<1>1. Init => AnnounceOK
  BY DEF Init, AnnounceOK, NoTransfer, Announces, IdleHook, IdleJob
<1>2. CashInv /\ AnnounceOK /\ [Next /\ UNCHANGED provider]_<<vars, provider>> => AnnounceOK'
  <2> SUFFICES ASSUME CashInv, AnnounceOK, [Next /\ UNCHANGED provider]_<<vars, provider>> PROVE AnnounceOK'
    OBVIOUS
  <2>1. CASE UNCHANGED <<vars, provider>>
    BY <2>1, AnnounceStays DEF vars
  <2>2. CASE Next /\ UNCHANGED provider
    <3>1. CASE \E q \in Scanners, t \in Txs : ScanPick(q, t)
      <4>1. PICK q \in Retriers, t \in Txs, d \in NewDetails \cup {None} : ScanPick(q, t)
        BY <3>1 DEF Retriers
      <4> QED BY <2>2, <4>1, OthersAnnounceNothing
    <3>2. CASE \E q \in Admins, t \in Txs, d \in NewDetails \cup {None} : ManualPick(q, t, d)
      <4>1. PICK q \in Retriers, t \in Txs, d \in NewDetails \cup {None} : ManualPick(q, t, d)
        BY <3>2 DEF Retriers
      <4> QED BY <2>2, <4>1, OthersAnnounceNothing
    <3>3. CASE \E d \in Deliveries : HandlerStep(d) \/ HandlerRollback(d)
      BY <2>2, <3>3, OthersAnnounceNothing
    <3>4. CASE \E q \in Retriers : RetryStep(q) \/ RetryCrash(q)
      BY <2>2, <3>4, OthersAnnounceNothing
    <3>5. CASE \E j \in Jobs : JobStep(j) \/ JobCrash(j) \/ JobQueryFails(j)
      <4>1. PICK j \in Jobs : JobStep(j) \/ JobCrash(j) \/ JobQueryFails(j)
        BY <3>5
      <4>2. CASE JobSend(j)
        BY <2>2, <4>2, SendAnnounces
      <4>3. CASE JobSave(j)
        BY <2>2, <4>3, SaveAnnounces
      <4>4. CASE OtherJobStep(j)
        BY <2>2, <4>4, OthersAnnounceNothing
      <4> QED BY <4>1, <4>2, <4>3, <4>4 DEF JobStep, OtherJobStep
    <3>6. CASE \E r \in Refs : TransferReversed(r) \/ \E kind \in {"success", "failed"} : TransferSettles(r, kind)
      <4>1. PICK r \in Refs, kind \in {"success", "failed"} : TransferReversed(r) \/ TransferSettles(r, kind)
        BY <3>6
      <4> QED BY <2>2, <4>1, PaystackAnnounces
    <3>7. CASE \E h \in Hooks : HookSave(h) \/ HookFails(h) \/ \E n \in notices : HookRead(h, n)
      <4>1. PICK h \in Hooks : HookSave(h) \/ HookFails(h) \/ \E n \in notices : HookRead(h, n)
        BY <3>7
      <4> QED BY <2>2, <4>1, HookSaveAnnounces, HookReadAnnounces
    <3> QED BY <2>2, <3>1, <3>2, <3>3, <3>4, <3>5, <3>6, <3>7 DEF Next
  <2> QED BY <2>1, <2>2
<1>3. AnnounceOK => AnnouncedOnce
  BY DEF AnnounceOK, AnnouncedOnce
<1> QED BY <1>1, <1>2, <1>3, CashInvariant, PTL DEF Spec

-----------------------------------------------------------------------------
(* Recipient codes. *)

\* Paystack has accepted a transfer of user u to the bank details a of its job.
Funded(u, a) ==
    \E s \in Refs :
        /\ transfer[s].state # "none" /\ UserOf[TxOfRef(s)] = u
        /\ transfer[s].dest = job[s[1]].details /\ transfer[s].dest = a

\* A recipient code that may be kept for user u.
Earned(u, a) == a = None \/ Funded(u, a)

\* All copies of recipient codes come from transfers that were accepted.
RecipientsOK ==
    /\ \A u \in Users : Earned(u, account[u].recipient)
    /\ \A j \in Jobs : job[j].pc # "none" => Earned(UserOf[job[j].tx], job[j].recipient)
    /\ \A q \in Retriers : retrier[q].pc # "idle" => Earned(UserOf[retrier[q].tx], retrier[q].recipient)
    /\ \A r \in Refs : transfer[r].state # "none" => Funded(UserOf[TxOfRef(r)], transfer[r].dest)

\* Jobs keep what they were queued with; a recipient code is only taken from the account.
JobsKept ==
    \A j \in Jobs :
        /\ job[j].pc # "none" => /\ job'[j].pc # "none" /\ job'[j].tx = job[j].tx /\ job'[j].details = job[j].details
                                 /\ \/ job'[j].recipient \in {job[j].recipient, None}
                                    \/ job'[j].recipient = account[UserOf[job[j].tx]].recipient
        /\ job[j].pc = "none" => job'[j].pc = "none" \/ job'[j].recipient = None

\* The code in an account is left, or written back by a job or a retry of the user.
AccountsKept ==
    \A u \in Users :
        \/ account'[u].recipient = account[u].recipient
        \/ \E j \in Jobs : /\ job[j].pc # "none" /\ UserOf[job[j].tx] = u
                           /\ account'[u].recipient = job[j].recipient
        \/ \E q \in Retriers : /\ retrier[q].pc # "idle" /\ UserOf[retrier[q].tx] = u
                               /\ account'[u].recipient = retrier[q].recipient

RetriersKept ==
    \A q \in Retriers : retrier'[q].pc # "idle" =>
        \/ retrier'[q].recipient = None
        \/ retrier'[q].tx \in Txs /\ retrier'[q].recipient = account[UserOf[retrier'[q].tx]].recipient
        \/ retrier[q].pc # "idle" /\ retrier'[q].tx = retrier[q].tx /\ retrier'[q].recipient = retrier[q].recipient

\* No transfer begins.
TransfersKept ==
    \A r \in Refs : /\ transfer'[r].state = "none" <=> transfer[r].state = "none"
                    /\ transfer'[r].dest = transfer[r].dest

\* A transfer has a job.
LEMMA TransferHasJob ==
    ASSUME CashInv, NEW s \in Refs, transfer[s].state # "none"
    PROVE  s[1] \in Jobs /\ job[s[1]].pc # "none" /\ job[s[1]].tx \in Txs /\ TxOfRef(s) = job[s[1]].tx
<1>1. PICK j \in Jobs, n \in 1..JobAttempts + MaxFaults : s = <<j, n>> /\ s[1] = j
  BY RefParts
<1>2. JobOK(j) /\ job[j].run \in Nat
  BY DEF CashInv, JobsOK, TypeOK, JobCalls
<1>3. job[j].pc # "none"
  <2>1. ASSUME job[j].pc = "none" PROVE FALSE
    <3>1. job[j].run = 0 /\ n > 0
      BY <1>2, <2>1 DEF JobOK
    <3> QED BY <1>1, <1>2, <3>1 DEF JobOK
  <2> QED BY <2>1
<1> QED BY <1>1, <1>2, <1>3 DEF JobOK, TxOfRef

\* What has been funded stays so while jobs are kept and transfers are not undone.
LEMMA FundedStays ==
    ASSUME CashInv, NEW u, NEW a, Funded(u, a),
           \A j \in Jobs : job[j].pc # "none" => job'[j].tx = job[j].tx /\ job'[j].details = job[j].details,
           \A r \in Refs : transfer[r].state # "none" => transfer'[r].state # "none" /\ transfer'[r].dest = transfer[r].dest
    PROVE  Funded(u, a)'
<1>1. PICK s \in Refs : /\ transfer[s].state # "none" /\ UserOf[TxOfRef(s)] = u
                        /\ transfer[s].dest = job[s[1]].details /\ transfer[s].dest = a
  BY DEF Funded
<1>2. s[1] \in Jobs /\ job[s[1]].pc # "none"
  BY <1>1, TransferHasJob
<1>3. /\ transfer'[s].state # "none" /\ UserOf[job'[s[1]].tx] = u
      /\ transfer'[s].dest = job'[s[1]].details /\ transfer'[s].dest = a
  BY <1>1, <1>2 DEF TxOfRef
<1> QED BY <1>3 DEF Funded, TxOfRef

\* Steps that send nothing hand on codes that were earned before.
LEMMA RecipientsStay ==
    ASSUME CashInv, RecipientsOK, JobsKept, AccountsKept, RetriersKept, TransfersKept
    PROVE  RecipientsOK'
<1>1. \A u, a : Funded(u, a) => Funded(u, a)'
  BY FundedStays DEF JobsKept, TransfersKept
<1>2. \A u, a : Earned(u, a) => Earned(u, a)'
  BY <1>1 DEF Earned
<1>3. ASSUME NEW u \in Users PROVE Earned(u, account[u].recipient)'
  <2>1. PICK a : a = account'[u].recipient
    OBVIOUS
  <2>2. Earned(u, a)
    BY <2>1 DEF AccountsKept, RecipientsOK
  <2> QED BY <1>2, <2>1, <2>2 DEF Earned, Funded
<1>4. ASSUME NEW j \in Jobs, job'[j].pc # "none" PROVE Earned(UserOf[job[j].tx], job[j].recipient)'
  <2>1. PICK u, a : u = UserOf[job'[j].tx] /\ a = job'[j].recipient
    OBVIOUS
  <2>2. job[j].pc # "none" => job[j].tx \in Txs
    BY DEF CashInv, JobsOK, JobOK
  <2>3. Earned(u, a)
    <3>1. CASE job[j].pc = "none"
      BY <1>4, <2>1, <3>1 DEF JobsKept, Earned
    <3>2. CASE job[j].pc # "none"
      <4>1. u = UserOf[job[j].tx] /\ u \in Users
        BY <2>1, <2>2, <3>2 DEF JobsKept, Users
      <4>2. Earned(u, None) /\ Earned(u, account[u].recipient) /\ Earned(u, job[j].recipient)
        BY <3>2, <4>1 DEF RecipientsOK, Earned
      <4> QED BY <2>1, <3>2, <4>1, <4>2 DEF JobsKept
    <3> QED BY <3>1, <3>2
  <2> QED BY <1>2, <2>1, <2>3, SMTT(30) DEF Earned, Funded
<1>5. ASSUME NEW q \in Retriers, retrier'[q].pc # "idle" PROVE Earned(UserOf[retrier[q].tx], retrier[q].recipient)'
  <2>1. PICK u, a : u = UserOf[retrier'[q].tx] /\ a = retrier'[q].recipient
    OBVIOUS
  <2>2. Earned(u, a)
    <3>1. CASE a = None
      BY <3>1 DEF Earned
    <3>2. CASE retrier'[q].tx \in Txs /\ a = account[u].recipient
      BY <2>1, <3>2 DEF RecipientsOK, Users
    <3>3. CASE retrier[q].pc # "idle" /\ retrier'[q].tx = retrier[q].tx /\ a = retrier[q].recipient
      BY <2>1, <3>3 DEF RecipientsOK
    <3> QED BY <1>5, <2>1, <3>1, <3>2, <3>3 DEF RetriersKept
  <2> QED BY <1>2, <2>1, <2>2 DEF Earned, Funded
<1>6. ASSUME NEW r \in Refs, transfer'[r].state # "none" PROVE Funded(UserOf[TxOfRef(r)], transfer[r].dest)'
  <2>1. transfer[r].state # "none" /\ transfer'[r].dest = transfer[r].dest
    BY <1>6 DEF TransfersKept
  <2>2. job'[r[1]].tx = job[r[1]].tx
    BY <2>1, TransferHasJob DEF JobsKept
  <2>3. PICK u, a : u = UserOf[TxOfRef(r)] /\ a = transfer[r].dest
    OBVIOUS
  <2>4. Funded(u, a)'
    BY <1>1, <2>1, <2>3 DEF RecipientsOK
  <2>5. u = UserOf[TxOfRef(r)]' /\ a = transfer'[r].dest
    BY <2>1, <2>2, <2>3 DEF TxOfRef
  <2> QED BY <2>4, <2>5 DEF Funded
<1> QED BY <1>3, <1>4, <1>5, <1>6 DEF RecipientsOK

\* What is not touched is kept.
LEMMA UntouchedKept ==
    /\ UNCHANGED account => AccountsKept
    /\ UNCHANGED job => JobsKept
    /\ UNCHANGED retrier => RetriersKept
    /\ UNCHANGED transfer => TransfersKept
BY DEF AccountsKept, JobsKept, RetriersKept, TransfersKept

\* A step of one job that keeps what the job was queued with.
LEMMA OneJobKept ==
    ASSUME TypeOK, NEW j \in Jobs, NEW c, job' = [job EXCEPT ![j] = c], job[j].pc # "none", c.pc # "none",
           c.tx = job[j].tx, c.details = job[j].details,
           \/ c.recipient \in {job[j].recipient, None}
           \/ c.recipient = account[UserOf[job[j].tx]].recipient
    PROVE  JobsKept
<1>1. job'[j] = c /\ \A i \in Jobs \ {j} : job'[i] = job[i]
  BY DEF TypeOK
<1> QED BY <1>1 DEF JobsKept

\* A new job takes the place of none.
LEMMA NewJobKept ==
    ASSUME CashInv, NEW t, NEW ev, NEW details, job' = [job EXCEPT ![NextJob] = NewJob(t, ev, details)]
    PROVE  JobsKept
<1>1. PICK m \in 0..MaxJobs : Queued = 1..m
  BY DEF CashInv, QueueOK
<1>2. Cardinality(Queued) = m
  BY <1>1, FS_Interval, BoundsAssumption
<1>3. PICK n : n = NextJob
  OBVIOUS
<1>4. n \in Jobs => job[n].pc = "none"
  BY <1>1, <1>2, <1>3, BoundsAssumption DEF NextJob, Queued
<1>5. NewJob(t, ev, details).pc = "waiting" /\ NewJob(t, ev, details).recipient = None
  BY DEF NewJob, IdleJob
<1>6. \A i \in Jobs : job'[i] = job[i] \/ (job[i].pc = "none" /\ job'[i].recipient = None)
  BY <1>3, <1>4, <1>5 DEF CashInv, TypeOK
<1> QED BY <1>6 DEF JobsKept

\* A job that ends or is run again forgets its recipient code and nothing it was queued with.
LEMMA EndedJobKept ==
    ASSUME CashInv, NEW j \in Jobs, job[j].pc \notin {"none", "done"}, NEW c,
           \/ c = EndJob(j) \/ c = Rethrow(j) \/ c = [EndJob(j) EXCEPT !.pc = "waiting"]
           \/ c = [Rethrow(j) EXCEPT !.run = @ + 1],
           job' = [job EXCEPT ![j] = c]
    PROVE  JobsKept
<1>1. TypeOK /\ job[j] \in JobCalls /\ job[j].made < JobAttempts
  BY DEF CashInv, JobsOK, JobOK, TypeOK
<1>2. PICK f \in JobCalls : f = EndJob(j)
  BY <1>1, EndJobFields
<1>3. f.tx = job[j].tx /\ f.details = job[j].details /\ f.recipient = None /\ f.pc = "done"
  BY <1>1, <1>2 DEF EndJob, JobCalls
<1>4. PICK g \in JobCalls : g = Rethrow(j)
  BY <1>1, RethrowFields
<1>5. g.tx = job[j].tx /\ g.details = job[j].details /\ g.recipient = None /\ g.pc # "none"
  BY <1>2, <1>3, <1>4 DEF Rethrow, JobCalls
<1>6. c.tx = job[j].tx /\ c.details = job[j].details /\ c.recipient = None /\ c.pc # "none"
  BY <1>2, <1>3, <1>4, <1>5 DEF JobCalls
<1> QED BY <1>1, <1>6, OneJobKept

\* A job that fails keeps everything else.
LEMMA FailedJobKept ==
    ASSUME TypeOK, NEW j \in Jobs, NEW retryable, Fails(j, retryable), job[j].pc # "none"
    PROVE  JobsKept
<1>1. job[j] \in JobCalls
  BY DEF TypeOK
<1>2. PICK c : c = [job[j] EXCEPT !.pc = "catch", !.retryable = retryable]
  OBVIOUS
<1>3. job' = [job EXCEPT ![j] = c]
  BY <1>1, <1>2 DEF Fails, TypeOK, JobCalls
<1>4. c.pc = "catch" /\ c.tx = job[j].tx /\ c.details = job[j].details /\ c.recipient = job[j].recipient
  BY <1>1, <1>2 DEF JobCalls
<1> QED BY <1>3, <1>4, OneJobKept

\* The worker's steps other than sending.
LEMMA JobKeepsRecipients ==
    ASSUME CashInv, RecipientsOK, NEW j \in Jobs, OtherJobStep(j) \/ JobSave(j)
    PROVE  RecipientsOK'
<1>1. /\ UNCHANGED <<retrier, transfer>> /\ TypeOK /\ job[j] \in JobCalls /\ job[j].pc \notin {"none", "done"}
      /\ job[j].tx \in Txs /\ UserOf[job[j].tx] \in Users
  <2>1. UNCHANGED <<retrier, transfer>> /\ job[j].pc \notin {"none", "done"}
    BY DEF OtherJobStep, JobStart, JobClaim, JobAccount, JobUpsert, JobPublish, JobCatch, JobCrash, JobQueryFails, JobSave
  <2> QED BY <2>1 DEF CashInv, JobsOK, JobOK, TypeOK, Users
<1>2. RetriersKept /\ TransfersKept
  BY <1>1, UntouchedKept
<1>3. ASSUME NEW retryable, Fails(j, retryable) PROVE JobsKept
  BY <1>1, <1>3, FailedJobKept
<1>4. ASSUME NEW c, c = EndJob(j) \/ c = Rethrow(j) \/ c = [EndJob(j) EXCEPT !.pc = "waiting"]
                    \/ c = [Rethrow(j) EXCEPT !.run = @ + 1],
             job' = [job EXCEPT ![j] = c]
      PROVE  JobsKept
  BY <1>1, <1>4, EndedJobKept
<1>5. ASSUME NEW p, p # "none", job' = [job EXCEPT ![j].pc = p] PROVE JobsKept
  <2>1. PICK c : c = [job[j] EXCEPT !.pc = p]
    OBVIOUS
  <2>2. job' = [job EXCEPT ![j] = c] /\ c.pc = p /\ c.tx = job[j].tx /\ c.details = job[j].details
        /\ c.recipient = job[j].recipient
    BY <1>1, <1>5, <2>1 DEF TypeOK, JobCalls
  <2> QED BY <1>1, <1>5, <2>2, OneJobKept
<1>6. JobsKept
  <2>1. CASE JobStart(j)
    <3>1. PICK c : c = [job[j] EXCEPT !.pc = "claim", !.ent = row[job[j].tx]]
      OBVIOUS
    <3>2. c.pc = "claim" /\ c.tx = job[j].tx /\ c.details = job[j].details /\ c.recipient = job[j].recipient
      BY <1>1, <3>1 DEF JobCalls
    <3>3. \/ job' = [job EXCEPT ![j] = Rethrow(j)] \/ job' = [job EXCEPT ![j] = EndJob(j)]
          \/ job' = [job EXCEPT ![j] = c]
      BY <1>1, <2>1, <3>1 DEF JobStart, TypeOK
    <3> QED BY <1>1, <1>4, <3>2, <3>3, OneJobKept
  <2>2. CASE JobClaim(j)
    <3>1. CASE job' = [job EXCEPT ![j] = EndJob(j)]
      BY <1>4, <3>1
    <3>2. CASE job' # [job EXCEPT ![j] = EndJob(j)]
      <4>1. PICK n, f : n = job[j].run + 1 /\ f = [job[j].ent EXCEPT !.status = "PROCESSING", !.ref = <<j, job[j].run + 1>>]
        OBVIOUS
      <4>2. PICK c : c = [job[j] EXCEPT !.pc = "account", !.run = n, !.ent = f]
        OBVIOUS
      <4>3. job' = [job EXCEPT ![j].pc = "account", ![j].run = @ + 1,
                               ![j].ent = [@ EXCEPT !.status = "PROCESSING", !.ref = <<j, job[j].run + 1>>]]
        BY <2>2, <3>2 DEF JobClaim
      <4>4. job' = [job EXCEPT ![j] = c]
        BY <1>1, <4>1, <4>2, <4>3 DEF TypeOK, JobCalls
      <4>5. c.pc = "account" /\ c.tx = job[j].tx /\ c.details = job[j].details /\ c.recipient = job[j].recipient
        BY <1>1, <4>2 DEF JobCalls
      <4> QED BY <1>1, <4>4, <4>5, OneJobKept
    <3> QED BY <3>1, <3>2
  <2>3. CASE JobAccount(j)
    <3>1. CASE \E retryable : Fails(j, retryable)
      BY <1>3, <3>1
    <3>2. CASE ~\E retryable : Fails(j, retryable)
      <4>1. PICK b, a : b = HasAccount(UserOf[job[j].tx]) /\ a = account[UserOf[job[j].tx]].recipient
        OBVIOUS
      <4>2. PICK c : c = [job[j] EXCEPT !.pc = "upsert", !.found = b, !.recipient = a]
        OBVIOUS
      <4>3. job' = [job EXCEPT ![j] = c]
        BY <1>1, <2>3, <3>2, <4>1, <4>2 DEF JobAccount, TypeOK, JobCalls
      <4>4. c.pc = "upsert" /\ c.tx = job[j].tx /\ c.details = job[j].details /\ c.recipient = a
        BY <1>1, <4>2 DEF JobCalls
      <4> QED BY <1>1, <4>1, <4>3, <4>4, OneJobKept
    <3> QED BY <3>1, <3>2
  <2>4. CASE JobUpsert(j)
    BY <1>3, <1>5, <2>4 DEF JobUpsert
  <2>5. CASE JobPublish(j)
    BY <1>3, <1>4, <2>5 DEF JobPublish
  <2>6. CASE JobCatch(j)
    BY <1>4, <2>6 DEF JobCatch
  <2>7. CASE JobCrash(j)
    BY <1>4, <2>7 DEF JobCrash
  <2>8. CASE JobQueryFails(j)
    BY <1>4, <2>8 DEF JobQueryFails
  <2>9. CASE JobSave(j)
    BY <1>3, <1>4, <1>5, <2>9 DEF JobSave, AfterAccepted
  <2> QED BY <2>1, <2>2, <2>3, <2>4, <2>5, <2>6, <2>7, <2>8, <2>9 DEF OtherJobStep
<1>7. AccountsKept
  <2>1. CASE UNCHANGED account
    BY <2>1, UntouchedKept
  <2>2. CASE account' = [account EXCEPT ![UserOf[job[j].tx]] = SavedAccount(job[j].details, job[j].recipient)]
    <3>1. \A u \in Users : account'[u] = account[u] \/ (u = UserOf[job[j].tx] /\ account'[u].recipient = job[j].recipient)
      BY <1>1, <2>2 DEF TypeOK, SavedAccount
    <3> QED BY <1>1, <3>1 DEF AccountsKept
  <2> QED BY <2>1, <2>2 DEF OtherJobStep, JobStart, JobClaim, JobAccount, JobUpsert, JobPublish, JobCatch, JobCrash,
                            JobQueryFails, JobSave
<1> QED BY <1>2, <1>6, <1>7, RecipientsStay

\* The provider accepts a transfer to the code that was earned or to the details of the job.
LEMMA SendKeepsRecipients ==
    ASSUME CashInv, RecipientsOK, NEW j \in Jobs, JobSend(j)
    PROVE  RecipientsOK'
<1>1. /\ job[j].pc = "send" /\ Working(j) /\ TypeOK /\ job[j] \in JobCalls
      /\ UNCHANGED <<account, retrier>>
  BY DEF JobSend, Working, CashInv, TypeOK
<1>2. PICK r \in Refs : r = <<j, job[j].run>> /\ r = job[j].ent.ref /\ r[1] = j
  BY <1>1, WorkingJob
<1>3. AccountsKept /\ RetriersKept
  BY <1>1, UntouchedKept
<1>4. CASE UNCHANGED transfer /\ \E retryable : Fails(j, retryable)
  BY <1>1, <1>3, <1>4, FailedJobKept, UntouchedKept, RecipientsStay
<1>5. CASE Accept(j)
  <2>1. PICK u, a : u = UserOf[job[j].tx] /\ a = Destination(j)
    OBVIOUS
  <2>2. PICK x : /\ x = [state |-> IF provider = "mock" THEN "success" ELSE "open", dest |-> a]
                 /\ transfer' = [transfer EXCEPT ![r] = x]
    BY <1>2, <1>5, <2>1 DEF Accept
  <2>3. x.state # "none" /\ x.dest = a
    BY <2>2
  <2>4. transfer'[r] = x /\ \A s \in Refs \ {r} : transfer'[s] = transfer[s]
    BY <1>1, <2>2 DEF TypeOK
  <2>5. transfer[r].state = "none"
    BY <1>1, <1>2 DEF CashInv, JobsOK, JobOK
  <2>6. PICK c : /\ job' = [job EXCEPT ![j] = c] /\ c.pc \in {"save", "catch"} /\ c.tx = job[j].tx
                 /\ c.details = job[j].details /\ c.recipient \in {job[j].recipient, a}
    <3>1. PICK b, p, q : /\ job' = [job EXCEPT ![j].pc = p, ![j].recipient = b, ![j].retryable = q]
                         /\ p \in {"save", "catch"} /\ b \in {job[j].recipient, a}
      <4>1. CASE \E retryable : Fails(j, retryable)
        <5>1. PICK q : job' = [job EXCEPT ![j].pc = "catch", ![j].retryable = q]
          BY <4>1 DEF Fails
        <5>2. job' = [job EXCEPT ![j].pc = "catch", ![j].recipient = job[j].recipient, ![j].retryable = q]
          BY <1>1, <5>1 DEF TypeOK, JobCalls
        <5> QED BY <5>2
      <4>2. CASE job' = [job EXCEPT ![j].pc = "save", ![j].recipient = Destination(j)]
        <5>1. job' = [job EXCEPT ![j].pc = "save", ![j].recipient = a, ![j].retryable = job[j].retryable]
          BY <1>1, <2>1, <4>2 DEF TypeOK, JobCalls
        <5> QED BY <5>1
      <4> QED BY <4>1, <4>2 DEF JobSend
    <3>2. PICK c : c = [job[j] EXCEPT !.pc = p, !.recipient = b, !.retryable = q]
      OBVIOUS
    <3>3. job' = [job EXCEPT ![j] = c]
      BY <1>1, <3>1, <3>2 DEF TypeOK, JobCalls
    <3>4. c.pc = p /\ c.tx = job[j].tx /\ c.details = job[j].details /\ c.recipient = b
      BY <1>1, <3>2 DEF JobCalls
    <3> QED BY <3>1, <3>3, <3>4
  <2>7. job'[j] = c /\ \A i \in Jobs \ {j} : job'[i] = job[i]
    BY <1>1, <2>6 DEF TypeOK
  <2>8. \A v, b : Funded(v, b) => Funded(v, b)'
    <3>1. /\ \A i \in Jobs : job[i].pc # "none" => job'[i].tx = job[i].tx /\ job'[i].details = job[i].details
          /\ \A s \in Refs : transfer[s].state # "none" => transfer'[s].state # "none" /\ transfer'[s].dest = transfer[s].dest
      BY <2>4, <2>5, <2>6, <2>7
    <3> QED BY <3>1, FundedStays
  <2>9. Funded(u, a)'
    <3>1. CASE job[j].recipient # None
      <4>1. a = job[j].recipient
        BY <2>1, <3>1 DEF Destination
      <4>2. Funded(u, a)
        BY <1>1, <2>1, <3>1, <4>1 DEF RecipientsOK, Earned
      <4> QED BY <2>8, <4>2
    <3>2. CASE job[j].recipient = None
      <4>1. a = job[j].details
        BY <2>1, <3>2 DEF Destination
      <4>2. transfer'[r].state # "none" /\ UserOf[job'[r[1]].tx] = u /\ transfer'[r].dest = job'[r[1]].details
            /\ transfer'[r].dest = a
        BY <1>2, <2>1, <2>3, <2>4, <2>6, <2>7, <4>1
      <4> QED BY <4>2 DEF Funded, TxOfRef
    <3> QED BY <3>1, <3>2
  <2>10. \A v, b : Earned(v, b) => Earned(v, b)'
    BY <2>8 DEF Earned
  <2>11. ASSUME NEW v \in Users PROVE Earned(v, account[v].recipient)'
    <3>1. PICK b : b = account[v].recipient
      OBVIOUS
    <3>2. Earned(v, b)'
      BY <2>10, <3>1 DEF RecipientsOK
    <3> QED BY <1>1, <3>1, <3>2 DEF Earned, Funded
  <2>12. ASSUME NEW q \in Retriers, retrier'[q].pc # "idle" PROVE Earned(UserOf[retrier[q].tx], retrier[q].recipient)'
    <3>1. PICK v, b : v = UserOf[retrier[q].tx] /\ b = retrier[q].recipient
      OBVIOUS
    <3>2. Earned(v, b)'
      BY <1>1, <2>10, <2>12, <3>1 DEF RecipientsOK
    <3> QED BY <1>1, <3>1, <3>2 DEF Earned, Funded
  <2>13. ASSUME NEW i \in Jobs, job'[i].pc # "none" PROVE Earned(UserOf[job[i].tx], job[i].recipient)'
    <3>1. PICK v, b : v = UserOf[job'[i].tx] /\ b = job'[i].recipient
      OBVIOUS
    <3>2. Earned(v, b)'
      <4>1. CASE i # j
        BY <2>7, <2>10, <2>13, <3>1, <4>1 DEF RecipientsOK
      <4>2. CASE i = j
        <5>1. v = u /\ b \in {job[j].recipient, a}
          BY <2>1, <2>6, <2>7, <3>1, <4>2
        <5>2. Earned(u, job[j].recipient)
          BY <1>1, <2>1 DEF RecipientsOK
        <5> QED BY <2>9, <2>10, <5>1, <5>2 DEF Earned
      <4> QED BY <4>1, <4>2
    <3> QED BY <3>1, <3>2 DEF Earned, Funded
  <2>14. ASSUME NEW s \in Refs, transfer'[s].state # "none" PROVE Funded(UserOf[TxOfRef(s)], transfer[s].dest)'
    <3>1. PICK v, b : v = UserOf[TxOfRef(s)]' /\ b = transfer'[s].dest
      OBVIOUS
    <3>2. Funded(v, b)'
      <4>1. CASE s = r
        <5>1. v = u /\ b = a
          BY <1>2, <2>1, <2>3, <2>4, <2>6, <2>7, <3>1, <4>1, SMTT(30) DEF TxOfRef
        <5> QED BY <2>9, <5>1
      <4>2. CASE s # r
        <5>1. transfer[s].state # "none" /\ b = transfer[s].dest
          BY <2>4, <2>14, <3>1, <4>2
        <5>2. job'[s[1]].tx = job[s[1]].tx
          BY <2>6, <2>7, <5>1, TransferHasJob
        <5>3. v = UserOf[TxOfRef(s)]
          BY <3>1, <5>2 DEF TxOfRef
        <5> QED BY <2>8, <5>1, <5>3 DEF RecipientsOK
      <4> QED BY <4>1, <4>2
    <3> QED BY <3>1, <3>2 DEF Funded
  <2> QED BY <2>11, <2>12, <2>13, <2>14 DEF RecipientsOK
<1> QED BY <1>4, <1>5 DEF JobSend

\* The retries.
LEMMA RetriersKeepRecipients ==
    ASSUME CashInv, RecipientsOK, NEW q \in Retriers,
           \/ \E t \in Txs, d \in NewDetails \cup {None} : ScanPick(q, t) \/ ManualPick(q, t, d)
           \/ RetryStep(q) \/ RetryCrash(q)
    PROVE  RecipientsOK'
<1>1. TypeOK /\ retrier[q] \in RetryCalls /\ UNCHANGED transfer
  BY DEF CashInv, TypeOK, ScanPick, ManualPick, RetryStep, ManualOverride, ManualReset, RetryCheck, RetryUpdate,
         RetryEnqueue, RetryCrash
<1>2. TransfersKept
  BY <1>1, UntouchedKept
<1>3. JobsKept
  <2>1. CASE UNCHANGED job
    BY <2>1, UntouchedKept
  <2>2. CASE RetryEnqueue(q)
    BY <2>2, NewJobKept DEF RetryEnqueue
  <2> QED BY <2>1, <2>2 DEF ScanPick, ManualPick, RetryStep, ManualOverride, ManualReset, RetryCheck, RetryUpdate, RetryCrash
<1>4. AccountsKept
  <2>1. CASE UNCHANGED account
    BY <2>1, UntouchedKept
  <2>2. CASE /\ retrier[q].pc # "idle"
             /\ account' = [account EXCEPT ![UserOf[retrier[q].tx]] = SavedAccount(retrier[q].details, retrier[q].recipient)]
    <3>1. \A u \in Users : account'[u] = account[u]
                           \/ (u = UserOf[retrier[q].tx] /\ account'[u].recipient = retrier[q].recipient)
      BY <1>1, <2>2 DEF TypeOK, SavedAccount
    <3> QED BY <2>2, <3>1 DEF AccountsKept
  <2> QED BY <2>1, <2>2 DEF ScanPick, ManualPick, RetryStep, ManualOverride, ManualReset, RetryCheck, RetryUpdate,
                            RetryEnqueue, RetryCrash
<1>5. RetriersKept
  <2>1. ASSUME NEW c, retrier' = [retrier EXCEPT ![q] = c],
               \/ c.pc = "idle"
               \/ c.recipient = None
               \/ c.tx \in Txs /\ c.recipient = account[UserOf[c.tx]].recipient
               \/ retrier[q].pc # "idle" /\ c.tx = retrier[q].tx /\ c.recipient = retrier[q].recipient
        PROVE  RetriersKept
    <3>1. retrier'[q] = c /\ \A p \in Retriers \ {q} : retrier'[p] = retrier[p]
      BY <1>1, <2>1 DEF TypeOK
    <3> QED BY <2>1, <3>1 DEF RetriersKept
  <2>2. IdleRetrier.pc = "idle"
    BY DEF IdleRetrier
  <2>3. ASSUME NEW p, NEW t, NEW a, retrier' = [retrier EXCEPT ![q] = [IdleRetrier EXCEPT !.pc = p, !.tx = t, !.details = a]]
        PROVE  RetriersKept
    <3>1. PICK c : c = [IdleRetrier EXCEPT !.pc = p, !.tx = t, !.details = a]
      OBVIOUS
    <3>2. retrier' = [retrier EXCEPT ![q] = c] /\ c.recipient = None
      BY <2>3, <3>1 DEF IdleRetrier
    <3> QED BY <2>1, <3>2
  <2>4. ASSUME NEW p, retrier[q].pc # "idle", retrier' = [retrier EXCEPT ![q].pc = p] PROVE RetriersKept
    <3>1. PICK c : c = [retrier[q] EXCEPT !.pc = p]
      OBVIOUS
    <3>2. retrier' = [retrier EXCEPT ![q] = c] /\ c.tx = retrier[q].tx /\ c.recipient = retrier[q].recipient
      BY <1>1, <2>4, <3>1 DEF TypeOK, RetryCalls
    <3> QED BY <2>1, <2>4, <3>2
  <2>5. CASE \E t \in Txs, d \in NewDetails \cup {None} : ScanPick(q, t) \/ ManualPick(q, t, d)
    <3>1. PICK t \in Txs, d \in NewDetails \cup {None} : ScanPick(q, t) \/ ManualPick(q, t, d)
      BY <2>5
    <3>2. PICK a, f, b : /\ f = HasAccount(UserOf[t]) /\ b = account[UserOf[t]].recipient
                         /\ a = IF d # None THEN d ELSE account[UserOf[t]].details
      OBVIOUS
    <3>3. PICK c : c = [pc |-> "override", tx |-> t, details |-> a, found |-> f, recipient |-> b]
      OBVIOUS
    <3>4. c.tx \in Txs /\ c.recipient = account[UserOf[c.tx]].recipient
      BY <3>2, <3>3
    <3>5. \/ retrier' = [retrier EXCEPT ![q] = c]
          \/ \E x : retrier' = [retrier EXCEPT ![q] = [IdleRetrier EXCEPT !.pc = "check", !.tx = t, !.details = x]]
      BY <3>1, <3>2, <3>3 DEF ScanPick, ManualPick
    <3> QED BY <2>1, <2>3, <3>4, <3>5
  <2>6. CASE ManualOverride(q)
    <3>1. \/ retrier' = [retrier EXCEPT ![q] = IdleRetrier]
          \/ \E t, a : retrier' = [retrier EXCEPT ![q] = [IdleRetrier EXCEPT !.pc = "reset", !.tx = t, !.details = a]]
      BY <2>6 DEF ManualOverride
    <3> QED BY <2>1, <2>2, <2>3, <3>1
  <2>7. CASE ManualReset(q) \/ RetryUpdate(q)
    BY <2>4, <2>7 DEF ManualReset, RetryUpdate
  <2>8. CASE RetryCheck(q)
    <3>1. \/ retrier' = [retrier EXCEPT ![q] = IdleRetrier]
          \/ retrier' = [retrier EXCEPT ![q].pc = "update"]
      BY <1>1, <2>8 DEF RetryCheck, TypeOK
    <3> QED BY <2>1, <2>2, <2>4, <2>8, <3>1 DEF RetryCheck
  <2>9. CASE RetryEnqueue(q) \/ RetryCrash(q)
    BY <2>1, <2>2, <2>9 DEF RetryEnqueue, RetryCrash
  <2> QED BY <2>5, <2>6, <2>7, <2>8, <2>9 DEF RetryStep
<1> QED BY <1>2, <1>3, <1>4, <1>5, RecipientsStay

\* Deliveries only queue jobs.
LEMMA HandlersKeepRecipients ==
    ASSUME CashInv, RecipientsOK, NEW d \in Deliveries, HandlerStep(d) \/ HandlerRollback(d)
    PROVE  RecipientsOK'
<1>1. UNCHANGED <<account, retrier, transfer>>
  BY DEF HandlerStep, HandlerCheck, HandlerRead, HandlerSave, HandlerCommit, HandlerRollback
<1>2. AccountsKept /\ RetriersKept /\ TransfersKept
  BY <1>1, UntouchedKept
<1>3. JobsKept
  <2>1. CASE UNCHANGED job
    BY <2>1, UntouchedKept
  <2>2. CASE HandlerRollback(d)
    <3>1. PICK j \in Jobs : j = handler[d].job
      BY <2>2 DEF HandlerRollback, CashInv, CommitsOK
    <3>2. PICK o : job' = [job EXCEPT ![j].orphan = o]
      BY <2>2, <3>1 DEF HandlerRollback
    <3>3. \A i \in Jobs : /\ job'[i].pc = job[i].pc /\ job'[i].tx = job[i].tx /\ job'[i].details = job[i].details
                          /\ job'[i].recipient = job[i].recipient
      BY <3>2 DEF CashInv, TypeOK, JobCalls
    <3> QED BY <3>3 DEF JobsKept
  <2>3. CASE HandlerSave(d)
    BY <2>1, <2>3, NewJobKept DEF HandlerSave
  <2> QED BY <2>1, <2>2, <2>3 DEF HandlerStep, HandlerCheck, HandlerRead, HandlerCommit
<1> QED BY <1>2, <1>3, RecipientsStay

\* Paystack settles what has begun, and webhooks only report it.
LEMMA PaystackKeepsRecipients ==
    ASSUME CashInv, RecipientsOK,
           \/ \E r \in Refs : TransferReversed(r) \/ \E kind \in {"success", "failed"} : TransferSettles(r, kind)
           \/ \E h \in Hooks : HookSave(h) \/ HookFails(h) \/ \E n \in notices : HookRead(h, n)
    PROVE  RecipientsOK'
<1>1. UNCHANGED <<account, job, retrier>>
  BY DEF TransferReversed, TransferSettles, HookSave, HookFails, HookRead
<1>2. TransfersKept
  <2>1. CASE UNCHANGED transfer
    BY <2>1, UntouchedKept
  <2>2. ASSUME NEW r \in Refs, NEW s, s # "none", transfer[r].state # "none", transfer' = [transfer EXCEPT ![r].state = s]
        PROVE  TransfersKept
    <3>1. \A x \in Refs : /\ transfer'[x].state = "none" <=> transfer[x].state = "none"
                          /\ transfer'[x].dest = transfer[x].dest
      BY <2>2 DEF CashInv, TypeOK, Transfers
    <3> QED BY <3>1 DEF TransfersKept
  <2> QED BY <2>1, <2>2 DEF TransferReversed, TransferSettles, HookSave, HookFails, HookRead
<1> QED BY <1>1, <1>2, UntouchedKept, RecipientsStay

\* Money goes to the bank details of its own job, or to those of an earlier job of the same user
\* to which the provider accepted a transfer: details that were never paid to do not come back
\* once they are corrected, however payments, retries and the saves of the account interleave.
THEOREM CorrectionsAreKept == Spec => []MoneyFollowsDetails
<1>1. Init => RecipientsOK
  BY DEF Init, RecipientsOK, Earned, IdleJob, IdleRetrier, NoTransfer
<1>2. CashInv /\ RecipientsOK /\ [Next /\ UNCHANGED provider]_<<vars, provider>> => RecipientsOK'
  <2> SUFFICES ASSUME CashInv, RecipientsOK, [Next /\ UNCHANGED provider]_<<vars, provider>> PROVE RecipientsOK'
    OBVIOUS
  <2>1. CASE UNCHANGED <<vars, provider>>
    BY <2>1, UntouchedKept, RecipientsStay DEF vars
  <2>2. CASE Next
    <3>1. CASE \E d \in Deliveries : HandlerStep(d) \/ HandlerRollback(d)
      BY <3>1, HandlersKeepRecipients
    <3>2. CASE \E j \in Jobs : JobStep(j) \/ JobCrash(j) \/ JobQueryFails(j)
      BY <3>2, JobKeepsRecipients, SendKeepsRecipients DEF JobStep, OtherJobStep
    <3>3. CASE \E q \in Scanners, t \in Txs : ScanPick(q, t)
      <4>1. PICK q \in Retriers, t \in Txs, d \in NewDetails \cup {None} : ScanPick(q, t)
        BY <3>3 DEF Retriers
      <4> QED BY <4>1, RetriersKeepRecipients
    <3>4. CASE \E q \in Admins, t \in Txs, d \in NewDetails \cup {None} : ManualPick(q, t, d)
      <4>1. PICK q \in Retriers, t \in Txs, d \in NewDetails \cup {None} : ManualPick(q, t, d)
        BY <3>4 DEF Retriers
      <4> QED BY <4>1, RetriersKeepRecipients
    <3>5. CASE \E q \in Retriers : RetryStep(q) \/ RetryCrash(q)
      BY <3>5, RetriersKeepRecipients
    <3>6. CASE \/ \E r \in Refs : TransferReversed(r) \/ \E kind \in {"success", "failed"} : TransferSettles(r, kind)
               \/ \E h \in Hooks : HookSave(h) \/ HookFails(h) \/ \E n \in notices : HookRead(h, n)
      BY <3>6, PaystackKeepsRecipients
    <3> QED BY <2>2, <3>1, <3>2, <3>3, <3>4, <3>5, <3>6 DEF Next
  <2> QED BY <2>1, <2>2
<1>3. RecipientsOK => MoneyFollowsDetails
  <2> SUFFICES ASSUME RecipientsOK, NEW r \in Refs, transfer[r].state # "none"
               PROVE  \E s \in Refs : /\ transfer[s].state # "none"
                                      /\ UserOf[TxOfRef(s)] = UserOf[TxOfRef(r)]
                                      /\ transfer[s].dest = job[s[1]].details
                                      /\ transfer[r].dest = transfer[s].dest
    BY DEF MoneyFollowsDetails
  <2>1. Funded(UserOf[TxOfRef(r)], transfer[r].dest)
    BY DEF RecipientsOK
  <2> QED BY <2>1 DEF Funded
<1> QED BY <1>1, <1>2, <1>3, CashInvariant, PTL DEF Spec
=============================================================================
