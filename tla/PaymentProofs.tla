--------------------------- MODULE PaymentProofs ---------------------------
(***************************************************************************)
(* A badge is paid once: what the cashback service promises when nothing    *)
(* fails, for any transactions, deliveries, attempts, webhooks and retries. *)
(*                                                                         *)
(* Whatever can still lead to a payment of a transaction is a chance: a job *)
(* that has not sent yet, a retry under way, a transfer that is open or has *)
(* paid, the news that it failed, the webhook that works on this news, and  *)
(* the row that says so.  A step turns one chance into another and never    *)
(* makes a second one.                                                      *)
(***************************************************************************)
EXTENDS CashbackProofs

\* The environment of the calm runs: deliveries are handled one at a time, nothing fails and no
\* webhook is repeated; a badge has one event, however often delivered, and there is one retrier.
Orderly ==
    /\ Hazards \subseteq {"slowCommit", "earlyWebhook", "reversal"}
    /\ \A d, e \in Events : TxOf[d] = TxOf[e] => d = e
    /\ \A p, q \in Retriers : p = q

-----------------------------------------------------------------------------
(* Chances. *)

\* Jobs of t that may still send money.
Sending(t) == {j \in Jobs : job[j].tx = t /\ job[j].pc \in {"waiting", "claim", "account", "upsert", "send", "catch"}}

Retrying(t) == {q \in Retriers : retrier[q].pc # "idle" /\ retrier[q].tx = t}

\* Transfers of t whose failure is yet to be told.
Bouncing(t) == {r \in Refs : TxOfRef(r) = t /\ [ref |-> r, kind |-> "failed"] \in notices}

\* Webhooks that are about to save a failure of t.
Failing(t) == {h \in Hooks : hook[h].pc = "save" /\ hook[h].kind = "failed" /\ hook[h].tx = t}

\* The row of t may be picked for a retry.
Retryable(t) == {u \in {t} : row[u].status = "FAILED" /\ Retrying(u) = {}}

Chances(t) == <<Sending(t), Retrying(t), LiveTransfers(t), Bouncing(t), Failing(t), Retryable(t)>>

\* Together the sets of P have at most one element.
AtMostOne(P) == \A a, b \in 1..6 : \A x \in P[a], y \in P[b] : a = b /\ x = y

OneChance == \A t \in Txs : AtMostOne(Chances(t))

-----------------------------------------------------------------------------
(* The first job. *)

Started(t) == \E j \in Jobs : job[j].tx = t

OneBusy == \A c, d \in Deliveries : Busy(c) /\ Busy(d) => c = d

\* A handler that has not added its job is the first to do so.
HandlersAreFirst ==
    \A d \in Deliveries :
        /\ handler[d].pc \in {"read", "save"} => ~Started(TxOf[EventOf[d]])
        /\ handler[d].pc \in {"save", "commit"} => handler[d].ent = NoRow
        /\ handler[d].pc = "commit" => Started(TxOf[EventOf[d]]) /\ row[TxOf[EventOf[d]]].status = "ABSENT"

\* The event behind a job is processed or about to be.
JobsHaveEvents ==
    \A j \in Jobs : job[j].tx \in Txs =>
        \E e \in Events : /\ TxOf[e] = job[j].tx
                          /\ e \in processed \/ \E d \in Deliveries : handler[d].pc = "commit" /\ EventOf[d] = e

\* Nobody works on a row that is not there.
AbsentRows ==
    \A t \in Txs :
        /\ ~Started(t) => row[t].status = "ABSENT"
        /\ row[t].status = "ABSENT" =>
             /\ row[t] = NoRow
             /\ \A j \in Jobs : job[j].tx = t => job[j].pc \in {"waiting", "done"}
             /\ \A h \in Hooks : hook[h].pc = "save" => hook[h].tx # t
             /\ Retrying(t) = {}

\* The row of a retry that has done its update does not wait for another one.
UpdatesHold == \A q \in Retriers : retrier[q].pc = "enqueue" => row[retrier[q].tx].status # "FAILED"

\* Paystack reports a failure after it has happened.
FailuresAreReal == \A n \in notices : n.kind = "failed" => transfer[n.ref].state \in {"failed", "reversed"}

PayInv ==
    /\ OneChance /\ OneBusy /\ HandlersAreFirst /\ JobsHaveEvents
    /\ AbsentRows /\ UpdatesHold /\ FailuresAreReal

-----------------------------------------------------------------------------
(* Results that are saved in time. *)

\* Without early webhooks a transfer is open until the result of its call is saved.
SavesInTime ==
    \A j \in Jobs : job[j].pc = "save" =>
        transfer[<<j, job[j].run>>].state \in (IF provider = "mock" THEN {"success", "reversed"} ELSE {"open"})

\* Without reversals too, a row has the reference its job works on.
RefsFit ==
    /\ \A r \in Refs : transfer[r].state # "reversed"
    /\ \A j \in Jobs : job[j].pc \in {"account", "upsert", "send"} => row[job[j].tx].ref = <<j, job[j].run>>
    /\ LiveTransferIsFindable

-----------------------------------------------------------------------------
(* Counting chances. *)

\* No chance is added.
LEMMA ChancesStay ==
    ASSUME NEW t, AtMostOne(Chances(t)),
           Sending(t)' \subseteq Sending(t), Retrying(t)' \subseteq Retrying(t),
           LiveTransfers(t)' \subseteq LiveTransfers(t), Bouncing(t)' \subseteq Bouncing(t),
           Failing(t)' \subseteq Failing(t), Retryable(t)' \subseteq Retryable(t)
    PROVE  AtMostOne(Chances(t))'
<1>1. PICK P : P = Chances(t)
  OBVIOUS
<1>2. PICK Q : Q = Chances(t)'
  OBVIOUS
<1>3. \A a \in 1..6 : Q[a] \subseteq P[a]
  <2>1. Q[1] \subseteq P[1] /\ Q[2] \subseteq P[2] /\ Q[3] \subseteq P[3] /\ Q[4] \subseteq P[4]
        /\ Q[5] \subseteq P[5] /\ Q[6] \subseteq P[6]
    BY <1>1, <1>2 DEF Chances
  <2>2. 1..6 = {1, 2, 3, 4, 5, 6}
    OBVIOUS
  <2> QED BY <2>1, <2>2
<1>4. AtMostOne(P)
  BY <1>1
<1>5. \A a, b \in 1..6 : \A x \in Q[a], y \in Q[b] : a = b /\ x = y
  BY <1>3, <1>4 DEF AtMostOne
<1> QED BY <1>2, <1>5 DEF AtMostOne

\* Where there is a chance there is no other.
LEMMA OnlyChance ==
    ASSUME NEW t, AtMostOne(Chances(t))
    PROVE  /\ \A x \in Sending(t) : /\ Sending(t) = {x} /\ Retrying(t) = {} /\ LiveTransfers(t) = {}
                                    /\ Bouncing(t) = {} /\ Failing(t) = {} /\ Retryable(t) = {}
           /\ \A x \in Retrying(t) : /\ Sending(t) = {} /\ Retrying(t) = {x} /\ LiveTransfers(t) = {}
                                     /\ Bouncing(t) = {} /\ Failing(t) = {} /\ Retryable(t) = {}
           /\ \A x \in LiveTransfers(t) : /\ Sending(t) = {} /\ Retrying(t) = {} /\ LiveTransfers(t) = {x}
                                          /\ Bouncing(t) = {} /\ Failing(t) = {} /\ Retryable(t) = {}
           /\ \A x \in Bouncing(t) : /\ Sending(t) = {} /\ Retrying(t) = {} /\ LiveTransfers(t) = {}
                                     /\ Bouncing(t) = {x} /\ Failing(t) = {} /\ Retryable(t) = {}
           /\ \A x \in Failing(t) : /\ Sending(t) = {} /\ Retrying(t) = {} /\ LiveTransfers(t) = {}
                                    /\ Bouncing(t) = {} /\ Failing(t) = {x} /\ Retryable(t) = {}
           /\ \A x \in Retryable(t) : /\ Sending(t) = {} /\ Retrying(t) = {} /\ LiveTransfers(t) = {}
                                      /\ Bouncing(t) = {} /\ Failing(t) = {} /\ Retryable(t) = {x}
<1>1. PICK P : P = Chances(t)
  OBVIOUS
<1>2. /\ P[1] = Sending(t) /\ P[2] = Retrying(t) /\ P[3] = LiveTransfers(t)
      /\ P[4] = Bouncing(t) /\ P[5] = Failing(t) /\ P[6] = Retryable(t)
  BY <1>1 DEF Chances
<1>3. \A a, b \in 1..6 : \A x \in P[a], y \in P[b] : a = b /\ x = y
  BY <1>1 DEF AtMostOne
<1>4. ASSUME NEW a \in 1..6, NEW x \in P[a]
      PROVE  P[a] = {x} /\ \A b \in 1..6 : b # a => P[b] = {}
  BY <1>3
<1>5. ASSUME NEW x \in P[1] PROVE P[1] = {x} /\ P[2] = {} /\ P[3] = {} /\ P[4] = {} /\ P[5] = {} /\ P[6] = {}
  BY <1>4
<1>6. ASSUME NEW x \in P[2] PROVE P[1] = {} /\ P[2] = {x} /\ P[3] = {} /\ P[4] = {} /\ P[5] = {} /\ P[6] = {}
  BY <1>4
<1>7. ASSUME NEW x \in P[3] PROVE P[1] = {} /\ P[2] = {} /\ P[3] = {x} /\ P[4] = {} /\ P[5] = {} /\ P[6] = {}
  BY <1>4
<1>8. ASSUME NEW x \in P[4] PROVE P[1] = {} /\ P[2] = {} /\ P[3] = {} /\ P[4] = {x} /\ P[5] = {} /\ P[6] = {}
  BY <1>4
<1>9. ASSUME NEW x \in P[5] PROVE P[1] = {} /\ P[2] = {} /\ P[3] = {} /\ P[4] = {} /\ P[5] = {x} /\ P[6] = {}
  BY <1>4
<1>10. ASSUME NEW x \in P[6] PROVE P[1] = {} /\ P[2] = {} /\ P[3] = {} /\ P[4] = {} /\ P[5] = {} /\ P[6] = {x}
  BY <1>4
<1> QED BY <1>2, <1>5, <1>6, <1>7, <1>8, <1>9, <1>10

\* All chances are of one kind, and there is one of it at most.
LEMMA ChanceIsOne ==
    ASSUME NEW t, NEW y,
           \/ /\ Sending(t)' \subseteq {y} /\ Retrying(t)' = {} /\ LiveTransfers(t)' = {}
              /\ Bouncing(t)' = {} /\ Failing(t)' = {} /\ Retryable(t)' = {}
           \/ /\ Sending(t)' = {} /\ Retrying(t)' \subseteq {y} /\ LiveTransfers(t)' = {}
              /\ Bouncing(t)' = {} /\ Failing(t)' = {} /\ Retryable(t)' = {}
           \/ /\ Sending(t)' = {} /\ Retrying(t)' = {} /\ LiveTransfers(t)' \subseteq {y}
              /\ Bouncing(t)' = {} /\ Failing(t)' = {} /\ Retryable(t)' = {}
           \/ /\ Sending(t)' = {} /\ Retrying(t)' = {} /\ LiveTransfers(t)' = {}
              /\ Bouncing(t)' \subseteq {y} /\ Failing(t)' = {} /\ Retryable(t)' = {}
           \/ /\ Sending(t)' = {} /\ Retrying(t)' = {} /\ LiveTransfers(t)' = {}
              /\ Bouncing(t)' = {} /\ Failing(t)' \subseteq {y} /\ Retryable(t)' = {}
           \/ /\ Sending(t)' = {} /\ Retrying(t)' = {} /\ LiveTransfers(t)' = {}
              /\ Bouncing(t)' = {} /\ Failing(t)' = {} /\ Retryable(t)' \subseteq {y}
    PROVE  AtMostOne(Chances(t))'
<1>1. PICK Q : Q = Chances(t)'
  OBVIOUS
<1>2. /\ Q[1] = Sending(t)' /\ Q[2] = Retrying(t)' /\ Q[3] = LiveTransfers(t)'
      /\ Q[4] = Bouncing(t)' /\ Q[5] = Failing(t)' /\ Q[6] = Retryable(t)'
  BY <1>1 DEF Chances
<1>3. \E a \in {1, 2, 3, 4, 5, 6} : Q[a] \subseteq {y} /\ \A b \in {1, 2, 3, 4, 5, 6} : b # a => Q[b] = {}
  BY <1>2
<1>4. 1..6 = {1, 2, 3, 4, 5, 6}
  OBVIOUS
<1>5. \A a, b \in 1..6 : \A x \in Q[a], z \in Q[b] : a = b /\ x = z
  BY <1>3, <1>4
<1> QED BY <1>1, <1>5 DEF AtMostOne

-----------------------------------------------------------------------------
(* What the steps have in common. *)

\* Nothing fails.
LEMMA NoFaults ==
    ASSUME Orderly
    PROVE  /\ ~Fault("dbError") /\ ~Fault("crash") /\ ~Fault("lostResponse")
           /\ "dupDelivery" \notin Hazards /\ "dupWebhook" \notin Hazards
BY DEF Orderly, Fault

\* Steps that are not a handler's do not concern them.
LEMMA HandlersRest ==
    ASSUME PayInv, UNCHANGED <<handler, processed>>,
           \A t \in Txs : Started(t)' <=> Started(t),
           \A t \in Txs : row'[t].status = "ABSENT" <=> row[t].status = "ABSENT"
    PROVE  OneBusy' /\ HandlersAreFirst' /\ JobsHaveEvents' /\ \A t \in Txs : ~Started(t)' => row'[t].status = "ABSENT"
<1>1. OneBusy'
  BY DEF PayInv, OneBusy, Busy
<1>2. HandlersAreFirst'
  <2> SUFFICES ASSUME NEW d \in Deliveries
               PROVE  /\ handler[d].pc \in {"read", "save"} => ~Started(TxOf[EventOf[d]])'
                      /\ handler[d].pc \in {"save", "commit"} => handler[d].ent = NoRow
                      /\ handler[d].pc = "commit" =>
                           Started(TxOf[EventOf[d]])' /\ row'[TxOf[EventOf[d]]].status = "ABSENT"
    BY DEF HandlersAreFirst
  <2>1. TxOf[EventOf[d]] \in Txs
    BY EventAssumption
  <2> QED BY <2>1 DEF PayInv, HandlersAreFirst
<1>3. JobsHaveEvents'
  <2> SUFFICES ASSUME NEW j \in Jobs, job'[j].tx \in Txs
               PROVE  \E e \in Events : /\ TxOf[e] = job'[j].tx
                                        /\ e \in processed \/ \E d \in Deliveries : handler[d].pc = "commit" /\ EventOf[d] = e
    BY DEF JobsHaveEvents
  <2>1. PICK t \in Txs : t = job'[j].tx
    OBVIOUS
  <2>2. Started(t)'
    BY <2>1 DEF Started
  <2>3. PICK i \in Jobs : job[i].tx = t
    BY <2>2 DEF Started
  <2> QED BY <2>1, <2>3 DEF PayInv, JobsHaveEvents
<1>4. \A t \in Txs : ~Started(t)' => row'[t].status = "ABSENT"
  BY DEF PayInv, AbsentRows
<1> QED BY <1>1, <1>2, <1>3, <1>4

\* The worker's step on job j of t, which leaves t with one chance.
LEMMA JobPays ==
    ASSUME CashInv, PayInv, NEW j \in Jobs, NEW c, NEW t \in Txs, NEW e,
           t = job[j].tx, c.tx = t, job' = [job EXCEPT ![j] = c], row' = [row EXCEPT ![t] = e],
           UNCHANGED <<processed, handler, retrier, hook, notices>>,
           \A r \in Refs : r[1] # j \/ transfer[r].state # "none" => transfer'[r] = transfer[r],
           row[t].status = "ABSENT" => e = row[t] /\ c.pc \in {"waiting", "done"},
           e.status = "ABSENT" => row[t].status = "ABSENT",
           e.status = "FAILED" => row[t].status = "FAILED" \/ Retrying(t) = {},
           AtMostOne(Chances(t))'
    PROVE  PayInv'
<1>1. /\ job \in [Jobs -> JobCalls] /\ row \in [Txs -> Rows]
      /\ job'[j] = c /\ row'[t] = e
      /\ \A i \in Jobs \ {j} : job'[i] = job[i]
      /\ \A u \in Txs \ {t} : row'[u] = row[u]
  BY DEF CashInv, TypeOK
<1>2. \A i \in Jobs : job'[i].tx = job[i].tx
  BY <1>1
<1>3. \A u \in Txs : Started(u)' <=> Started(u)
  BY <1>2 DEF Started
<1>4. \A u \in Txs : row'[u].status = "ABSENT" <=> row[u].status = "ABSENT"
  BY <1>1
<1>5. OneBusy' /\ HandlersAreFirst' /\ JobsHaveEvents' /\ \A u \in Txs : ~Started(u)' => row'[u].status = "ABSENT"
  BY <1>3, <1>4, HandlersRest
<1>6. AbsentRows'
  <2> SUFFICES ASSUME NEW u \in Txs, row'[u].status = "ABSENT"
               PROVE  /\ row'[u] = NoRow
                      /\ \A i \in Jobs : job'[i].tx = u => job'[i].pc \in {"waiting", "done"}
                      /\ \A h \in Hooks : hook[h].pc = "save" => hook[h].tx # u
                      /\ Retrying(u)' = {}
    BY <1>5 DEF AbsentRows
  <2>1. /\ row[u] = NoRow /\ row[u].status = "ABSENT"
        /\ \A i \in Jobs : job[i].tx = u => job[i].pc \in {"waiting", "done"}
        /\ \A h \in Hooks : hook[h].pc = "save" => hook[h].tx # u
        /\ Retrying(u) = {}
    BY <1>4 DEF PayInv, AbsentRows
  <2>2. Retrying(u)' = Retrying(u)
    BY DEF Retrying
  <2> QED BY <1>1, <1>2, <2>1, <2>2
<1>7. UpdatesHold'
  <2> SUFFICES ASSUME NEW q \in Retriers, retrier[q].pc = "enqueue" PROVE row'[retrier[q].tx].status # "FAILED"
    BY DEF UpdatesHold
  <2>1. retrier[q].tx \in Txs /\ row[retrier[q].tx].status # "FAILED"
    BY DEF CashInv, RetriersOK, PayInv, UpdatesHold
  <2>2. CASE retrier[q].tx = t
    <3>1. q \in Retrying(t)
      BY <2>2 DEF Retrying
    <3> QED BY <1>1, <2>1, <2>2, <3>1
  <2>3. CASE retrier[q].tx # t
    BY <1>1, <2>1, <2>3
  <2> QED BY <2>2, <2>3
<1>8. OneChance'
  <2> SUFFICES ASSUME NEW u \in Txs PROVE AtMostOne(Chances(u))'
    BY DEF OneChance
  <2>1. CASE u = t
    BY <2>1
  <2>2. CASE u # t
    <3>1. Sending(u)' \subseteq Sending(u)
      BY <1>1, <1>2, <2>2 DEF Sending
    <3>2. LiveTransfers(u)' \subseteq LiveTransfers(u)
      <4> SUFFICES ASSUME NEW r \in Refs, job'[r[1]].tx = u, transfer'[r].state \in {"open", "success"}
                   PROVE  job[r[1]].tx = u /\ transfer[r].state \in {"open", "success"}
        BY DEF LiveTransfers, TxOfRef
      <4>1. r[1] \in Jobs
        BY RefParts
      <4> QED BY <1>2, <2>2, <4>1
    <3>3. Bouncing(u)' \subseteq Bouncing(u)
      <4> SUFFICES ASSUME NEW r \in Refs, job'[r[1]].tx = u PROVE job[r[1]].tx = u
        BY DEF Bouncing, TxOfRef
      <4>1. r[1] \in Jobs
        BY RefParts
      <4> QED BY <1>2, <4>1
    <3>4. Retrying(u)' = Retrying(u) /\ Failing(u)' = Failing(u)
      BY DEF Retrying, Failing
    <3>5. Retryable(u)' \subseteq Retryable(u)
      BY <1>1, <2>2, <3>4 DEF Retryable
    <3>6. AtMostOne(Chances(u))
      BY DEF PayInv, OneChance
    <3> QED BY <3>1, <3>2, <3>3, <3>4, <3>5, <3>6, ChancesStay
  <2> QED BY <2>1, <2>2
<1>9. FailuresAreReal'
  BY DEF PayInv, FailuresAreReal, CashInv, TypeOK
<1> QED BY <1>5, <1>6, <1>7, <1>8, <1>9 DEF PayInv

\* A transfer that was made has a job.
LEMMA RefHasJob ==
    ASSUME CashInv, NEW r \in Refs, transfer[r].state # "none"
    PROVE  r[1] \in Jobs /\ job[r[1]].pc # "none" /\ TxOfRef(r) \in Txs
<1>1. r[1] \in Jobs /\ r[2] \in 1..JobAttempts + MaxFaults /\ r = <<r[1], r[2]>> /\ r[2] > 0
  BY RefParts
<1>2. JobOK(r[1]) /\ transfer[<<r[1], r[2]>>].state # "none"
  BY <1>1 DEF CashInv, JobsOK
<1>3. job[r[1]].pc # "none"
  BY <1>1, <1>2 DEF JobOK
<1> QED BY <1>1, <1>2, <1>3 DEF JobOK, TxOfRef

\* Transfers belong to the transaction they were made for.
LEMMA RefsStay ==
    ASSUME \A i \in Jobs : job'[i].tx = job[i].tx
    PROVE  \A r \in Refs : TxOfRef(r)' = TxOfRef(r)
BY RefParts DEF TxOfRef

\* A step of the worker that leaves t no new chance.
LEMMA JobRuns ==
    ASSUME CashInv, PayInv, NEW j \in Jobs, NEW c, NEW t \in Txs, NEW e,
           t = job[j].tx, c.tx = t, job' = [job EXCEPT ![j] = c], row' = [row EXCEPT ![t] = e],
           UNCHANGED <<processed, handler, retrier, hook, notices, transfer>>,
           c.pc \in {"waiting", "claim", "account", "upsert", "send", "catch"} =>
               job[j].pc \in {"waiting", "claim", "account", "upsert", "send", "catch"},
           row[t].status = "ABSENT" => e = row[t] /\ c.pc \in {"waiting", "done"},
           e.status = "ABSENT" => row[t].status = "ABSENT",
           e.status = "FAILED" => row[t].status = "FAILED"
    PROVE  PayInv'
<1>1. /\ job'[j] = c /\ row'[t] = e
      /\ \A i \in Jobs \ {j} : job'[i] = job[i]
  BY DEF CashInv, TypeOK
<1>2. \A r \in Refs : TxOfRef(r)' = TxOfRef(r)
  <2>1. \A i \in Jobs : job'[i].tx = job[i].tx
    BY <1>1
  <2> QED BY <2>1, RefsStay
<1>3. Sending(t)' \subseteq Sending(t)
  BY <1>1 DEF Sending
<1>4. LiveTransfers(t)' \subseteq LiveTransfers(t) /\ Bouncing(t)' \subseteq Bouncing(t)
  BY <1>2 DEF LiveTransfers, Bouncing
<1>5. Retrying(t)' = Retrying(t) /\ Failing(t)' = Failing(t)
  BY DEF Retrying, Failing
<1>6. Retryable(t)' \subseteq Retryable(t)
  BY <1>1, <1>5 DEF Retryable
<1>7. AtMostOne(Chances(t))
  BY DEF PayInv, OneChance
<1>8. AtMostOne(Chances(t))'
  BY <1>3, <1>4, <1>5, <1>6, <1>7, ChancesStay
<1>9. /\ UNCHANGED <<processed, handler, retrier, hook, notices>>
      /\ \A r \in Refs : r[1] # j \/ transfer[r].state # "none" => transfer'[r] = transfer[r]
  OBVIOUS
<1>10. e.status = "FAILED" => row[t].status = "FAILED" \/ Retrying(t) = {}
  OBVIOUS
<1> QED BY <1>8, <1>9, <1>10, JobPays

\* A job that has read its row works on a row that is there.
LEMMA JobSeesRow ==
    ASSUME CashInv, PayInv, NEW j \in Jobs, job[j].pc \notin {"none", "waiting", "done"}
    PROVE  job[j].tx \in Txs /\ row[job[j].tx].status # "ABSENT"
<1>1. job[j].tx \in Txs
  BY DEF CashInv, JobsOK, JobOK
<1> QED BY <1>1 DEF PayInv, AbsentRows

\* A job starts.
LEMMA JobStartPays ==
    ASSUME CashInv, PayInv, NEW j \in Jobs, JobStart(j)
    PROVE  PayInv'
<1>1. /\ job[j].pc = "waiting" /\ row' = row
      /\ UNCHANGED <<processed, handler, retrier, hook, notices, transfer>>
      /\ job[j] \in JobCalls /\ TypeOK /\ job[j].made < JobAttempts
  BY DEF JobStart, CashInv, TypeOK, JobsOK, JobOK
<1>2. PICK t \in Txs : t = job[j].tx
  BY <1>1 DEF CashInv, JobsOK, JobOK
<1>3. PICK e \in Rows : e = row[t]
  BY <1>1 DEF TypeOK
<1>4. row' = [row EXCEPT ![t] = e]
  BY <1>1, <1>3 DEF TypeOK
<1>5. \E c \in JobCalls : /\ job' = [job EXCEPT ![j] = c] /\ c.tx = t
                          /\ e.status = "ABSENT" => c.pc \in {"waiting", "done"}
  <2>1. CASE job[j].orphan \/ e.status = "ABSENT"
    <3>1. PICK c \in JobCalls : c = Rethrow(j)
      BY <1>1, RethrowFields
    <3>2. c.tx = t /\ c.pc \in {"waiting", "done"}
      BY <1>1, <1>2, <3>1, RethrowFields
    <3>3. job' = [job EXCEPT ![j] = c]
      BY <1>2, <1>3, <2>1, <3>1 DEF JobStart
    <3> QED BY <3>2, <3>3
  <2>2. CASE ~(job[j].orphan \/ e.status = "ABSENT") /\ e.status # "PENDING"
    <3>1. PICK c \in JobCalls : c = EndJob(j)
      BY <1>1, EndJobFields
    <3>2. c.tx = t
      BY <1>1, <1>2, <3>1, EndJobFields
    <3>3. job' = [job EXCEPT ![j] = c]
      BY <1>2, <1>3, <2>2, <3>1 DEF JobStart
    <3> QED BY <2>2, <3>2, <3>3
  <2>3. CASE ~(job[j].orphan \/ e.status = "ABSENT") /\ e.status = "PENDING"
    <3>1. [job[j] EXCEPT !.pc = "claim", !.ent = e] \in JobCalls
      BY <1>1 DEF JobCalls
    <3>2. PICK c \in JobCalls : c = [job[j] EXCEPT !.pc = "claim", !.ent = e]
      BY <3>1
    <3>3. c.tx = t
      BY <1>1, <1>2, <3>2 DEF JobCalls
    <3>4. job' = [job EXCEPT ![j] = c]
      BY <1>2, <1>3, <2>3, <3>2 DEF JobStart
    <3> QED BY <2>3, <3>3, <3>4
  <2> QED BY <2>1, <2>2, <2>3
<1>6. PICK c \in JobCalls : /\ job' = [job EXCEPT ![j] = c] /\ c.tx = t
                            /\ e.status = "ABSENT" => c.pc \in {"waiting", "done"}
  BY <1>5
<1>7. /\ job[j].pc \in {"waiting", "claim", "account", "upsert", "send", "catch"}
      /\ row[t].status = "ABSENT" => e = row[t] /\ c.pc \in {"waiting", "done"}
      /\ e.status = "ABSENT" => row[t].status = "ABSENT"
      /\ e.status = "FAILED" => row[t].status = "FAILED"
  BY <1>1, <1>3, <1>6
<1> QED BY <1>1, <1>2, <1>4, <1>6, <1>7, JobRuns

\* A claim or its failure.
LEMMA JobClaimPays ==
    ASSUME CashInv, PayInv, NEW j \in Jobs, JobClaim(j)
    PROVE  PayInv'
<1>1. /\ job[j].pc = "claim" /\ UNCHANGED <<processed, handler, retrier, hook, notices, transfer>>
      /\ job[j] \in JobCalls /\ TypeOK
  BY DEF JobClaim, CashInv, TypeOK
<1>2. PICK t \in Txs : t = job[j].tx /\ row[t].status # "ABSENT"
  BY <1>1, JobSeesRow
<1>3. \E c, e : /\ job' = [job EXCEPT ![j] = c] /\ c.tx = t
                /\ row' = [row EXCEPT ![t] = e] /\ (e = row[t] \/ e.status = "PROCESSING")
  <2>1. CASE Claimed(j)
    <3>1. PICK c : c = [job[j] EXCEPT !.pc = "account", !.run = job[j].run + 1,
                          !.ent = [job[j].ent EXCEPT !.status = "PROCESSING", !.ref = <<j, job[j].run + 1>>]]
      OBVIOUS
    <3>2. PICK e : e = ClaimedRow(row[t], <<j, job[j].run + 1>>)
      OBVIOUS
    <3>3. e.status = "PROCESSING" /\ c.tx = t
      <4>1. row[t] \in Rows
        BY <1>1 DEF TypeOK
      <4> QED BY <1>1, <1>2, <3>1, <3>2, <4>1 DEF ClaimedRow, Rows, JobCalls
    <3>4. row' = [row EXCEPT ![t] = e]
      BY <1>2, <2>1, <3>2 DEF JobClaim
    <3>5. job' = [job EXCEPT ![j] = c]
      BY <1>1, <2>1, <3>1 DEF JobClaim, TypeOK, JobCalls
    <3> QED BY <3>3, <3>4, <3>5
  <2>2. CASE ~Claimed(j)
    <3>1. job' = [job EXCEPT ![j] = EndJob(j)] /\ row' = row
      BY <2>2 DEF JobClaim
    <3>2. EndJob(j).tx = t
      BY <1>1, <1>2, EndJobFields
    <3>3. row' = [row EXCEPT ![t] = row[t]]
      BY <1>1, <3>1 DEF TypeOK
    <3> QED BY <3>1, <3>2, <3>3
  <2> QED BY <2>1, <2>2
<1>4. PICK c, e : /\ job' = [job EXCEPT ![j] = c] /\ c.tx = t
                  /\ row' = [row EXCEPT ![t] = e] /\ (e = row[t] \/ e.status = "PROCESSING")
  BY <1>3
<1>5. /\ job[j].pc \in {"waiting", "claim", "account", "upsert", "send", "catch"}
      /\ row[t].status = "ABSENT" => e = row[t] /\ c.pc \in {"waiting", "done"}
      /\ e.status = "ABSENT" => row[t].status = "ABSENT"
      /\ e.status = "FAILED" => row[t].status = "FAILED"
  BY <1>1, <1>2, <1>4
<1> QED BY <1>1, <1>2, <1>4, <1>5, JobRuns

\* A job goes on without touching its row or its transfer.
LEMMA JobGoesPays ==
    ASSUME CashInv, PayInv, NEW j \in Jobs, NEW c, job[j].pc \notin {"none", "waiting", "done"},
           job' = [job EXCEPT ![j] = c], c.tx = job[j].tx,
           UNCHANGED <<row, processed, handler, retrier, hook, notices, transfer>>,
           c.pc \in {"waiting", "claim", "account", "upsert", "send", "catch"} =>
               job[j].pc \in {"waiting", "claim", "account", "upsert", "send", "catch"}
    PROVE  PayInv'
<1>1. PICK t \in Txs : t = job[j].tx /\ row[t].status # "ABSENT"
  BY JobSeesRow
<1>2. PICK e : e = row[t]
  OBVIOUS
<1>3. row' = [row EXCEPT ![t] = e]
  BY <1>2 DEF CashInv, TypeOK
<1>4. /\ row[t].status = "ABSENT" => e = row[t] /\ c.pc \in {"waiting", "done"}
      /\ e.status = "ABSENT" => row[t].status = "ABSENT"
      /\ e.status = "FAILED" => row[t].status = "FAILED"
  BY <1>1, <1>2
<1>5. UNCHANGED <<processed, handler, retrier, hook, notices, transfer>> /\ c.tx = t
  BY <1>1
<1> QED BY <1>1, <1>3, <1>4, <1>5, JobRuns

\* The account is saved, and a published event ends its job.
LEMMA JobAccountPays ==
    ASSUME CashInv, PayInv, Orderly, NEW j \in Jobs, JobAccount(j) \/ JobUpsert(j) \/ JobPublish(j)
    PROVE  PayInv'
<1>1. /\ job[j].pc \in {"account", "upsert", "publish"}
      /\ UNCHANGED <<row, processed, handler, retrier, hook, notices, transfer>>
      /\ job[j] \in JobCalls /\ TypeOK /\ job \in [Jobs -> JobCalls]
  BY DEF JobAccount, JobUpsert, JobPublish, CashInv, TypeOK
<1>2. \E c : /\ job' = [job EXCEPT ![j] = c] /\ c.tx = job[j].tx
             /\ (c.pc \in {"upsert", "send", "catch"} /\ job[j].pc \in {"account", "upsert"}) \/ c.pc = "done"
  <2>1. CASE Fails(j, FALSE) /\ job[j].pc \in {"account", "upsert"}
    <3>1. PICK c : c = [job[j] EXCEPT !.pc = "catch", !.retryable = FALSE]
      OBVIOUS
    <3>2. job' = [job EXCEPT ![j] = c]
      BY <1>1, <2>1, <3>1 DEF Fails, JobCalls
    <3>3. c.tx = job[j].tx /\ c.pc = "catch"
      BY <1>1, <3>1 DEF JobCalls
    <3> QED BY <2>1, <3>2, <3>3
  <2>2. CASE JobAccount(j)
    <3>1. CASE Fails(j, FALSE)
      BY <2>1, <2>2, <3>1 DEF JobAccount
    <3>2. CASE ~Fails(j, FALSE)
      <4>1. PICK b, a : b = HasAccount(UserOf[job[j].tx]) /\ a = account[UserOf[job[j].tx]].recipient
        OBVIOUS
      <4>2. job' = [job EXCEPT ![j].pc = "upsert", ![j].found = b, ![j].recipient = a] /\ job[j].pc = "account"
        BY <2>2, <3>2, <4>1, NoFaults DEF JobAccount
      <4>3. PICK c : c = [job[j] EXCEPT !.pc = "upsert", !.found = b, !.recipient = a]
        OBVIOUS
      <4>4. job' = [job EXCEPT ![j] = c]
        BY <1>1, <4>2, <4>3 DEF JobCalls
      <4>5. c.tx = job[j].tx /\ c.pc = "upsert"
        BY <1>1, <4>3 DEF JobCalls
      <4> QED BY <4>2, <4>4, <4>5
    <3> QED BY <3>1, <3>2
  <2>4. CASE JobUpsert(j)
    <3>1. CASE Fails(j, FALSE)
      BY <2>1, <2>4, <3>1 DEF JobUpsert
    <3>2. CASE ~Fails(j, FALSE)
      <4>1. job' = [job EXCEPT ![j].pc = "send"] /\ job[j].pc = "upsert"
        BY <2>4, <3>2, NoFaults DEF JobUpsert
      <4>2. PICK c : c = [job[j] EXCEPT !.pc = "send"]
        OBVIOUS
      <4>3. job' = [job EXCEPT ![j] = c] /\ c.tx = job[j].tx /\ c.pc = "send"
        BY <1>1, <4>1, <4>2 DEF JobCalls
      <4> QED BY <4>1, <4>3
    <3> QED BY <3>1, <3>2
  <2>3. CASE JobPublish(j)
    <3>1. job' = [job EXCEPT ![j] = EndJob(j)]
      BY <2>3, NoFaults DEF JobPublish
    <3> QED BY <1>1, <3>1, EndJobFields
  <2> QED BY <2>2, <2>3, <2>4
<1>3. PICK c : /\ job' = [job EXCEPT ![j] = c] /\ c.tx = job[j].tx
               /\ (c.pc \in {"upsert", "send", "catch"} /\ job[j].pc \in {"account", "upsert"}) \/ c.pc = "done"
  BY <1>2
<1>4. c.pc \in {"waiting", "claim", "account", "upsert", "send", "catch"} =>
        job[j].pc \in {"waiting", "claim", "account", "upsert", "send", "catch"}
  BY <1>3
<1> QED BY <1>1, <1>3, <1>4, JobGoesPays

\* A job that may still send is the only chance of its transaction.
LEMMA JobIsChance ==
    ASSUME CashInv, PayInv, NEW j \in Jobs, NEW t \in Txs, t = job[j].tx,
           job[j].pc \in {"waiting", "claim", "account", "upsert", "send", "catch"}
    PROVE  /\ Sending(t) = {j} /\ Retrying(t) = {} /\ LiveTransfers(t) = {}
           /\ Bouncing(t) = {} /\ Failing(t) = {} /\ Retryable(t) = {}
<1>1. j \in Sending(t)
  BY DEF Sending
<1>2. AtMostOne(Chances(t))
  BY DEF PayInv, OneChance
<1> QED BY <1>1, <1>2, OnlyChance

\* The transfer that was made is the chance that its job was.
LEMMA JobSendPays ==
    ASSUME CashInv, PayInv, Orderly, NEW j \in Jobs, JobSend(j)
    PROVE  PayInv'
<1>1. /\ job[j].pc = "send" /\ UNCHANGED <<row, processed, handler, retrier, hook, notices>>
      /\ job[j] \in JobCalls /\ job \in [Jobs -> JobCalls] /\ transfer \in [Refs -> Transfers]
  BY DEF JobSend, CashInv, TypeOK
<1>2. CASE \E retryable \in BOOLEAN : Fails(j, retryable) /\ UNCHANGED transfer
  <2>1. PICK retryable \in BOOLEAN : Fails(j, retryable)
    BY <1>2
  <2>2. PICK c : c = [job[j] EXCEPT !.pc = "catch", !.retryable = retryable]
    OBVIOUS
  <2>3. job' = [job EXCEPT ![j] = c]
    BY <1>1, <2>1, <2>2 DEF Fails, JobCalls
  <2>4. c.tx = job[j].tx
    BY <1>1, <2>2 DEF JobCalls
  <2>5. UNCHANGED <<row, processed, handler, retrier, hook, notices, transfer>>
    BY <1>1, <1>2
  <2> QED BY <1>1, <2>3, <2>4, <2>5, JobGoesPays
<1>3. CASE Accept(j) /\ job' = [job EXCEPT ![j].pc = "save", ![j].recipient = Destination(j)]
  <2>1. PICK t \in Txs : t = job[j].tx /\ row[t].status # "ABSENT"
    BY <1>1, JobSeesRow
  <2>2. PICK r \in Refs : r = <<j, job[j].run>> /\ r = job[j].ent.ref
    BY <1>1, WorkingJob DEF Working
  <2>3. \A s \in Refs : s # r => transfer'[s] = transfer[s]
    BY <1>1, <1>3, <2>2 DEF Accept
  <2>4. PICK c : c = [job[j] EXCEPT !.pc = "save", !.recipient = Destination(j)]
    OBVIOUS
  <2>5. job' = [job EXCEPT ![j] = c] /\ job'[j] = c /\ \A i \in Jobs \ {j} : job'[i] = job[i]
    BY <1>1, <1>3, <2>4 DEF JobCalls
  <2>6. c.tx = t /\ c.pc = "save"
    BY <1>1, <2>1, <2>4 DEF JobCalls
  <2>7. /\ Sending(t) = {j} /\ Retrying(t) = {} /\ LiveTransfers(t) = {}
        /\ Bouncing(t) = {} /\ Failing(t) = {} /\ Retryable(t) = {}
    BY <1>1, <2>1, JobIsChance
  <2>8. \A s \in Refs : TxOfRef(s)' = TxOfRef(s)
    <3>1. \A i \in Jobs : job'[i].tx = job[i].tx
      BY <2>1, <2>5, <2>6
    <3> QED BY <3>1, RefsStay
  <2>9. Sending(t)' = {}
    BY <2>5, <2>6, <2>7 DEF Sending
  <2>10. LiveTransfers(t)' \subseteq {r}
    BY <2>3, <2>7, <2>8 DEF LiveTransfers
  <2>11. Bouncing(t)' = {} /\ Retrying(t)' = {} /\ Failing(t)' = {} /\ Retryable(t)' = {}
    <3>1. Bouncing(t)' = Bouncing(t)
      BY <1>1, <2>8 DEF Bouncing
    <3>2. Retrying(t)' = Retrying(t) /\ Failing(t)' = Failing(t)
      BY <1>1 DEF Retrying, Failing
    <3>3. Retryable(t)' = Retryable(t)
      BY <1>1, <3>2 DEF Retryable
    <3> QED BY <2>7, <3>1, <3>2, <3>3
  <2>12. AtMostOne(Chances(t))'
    BY <2>9, <2>10, <2>11, ChanceIsOne
  <2>13. PICK e : e = row[t]
    OBVIOUS
  <2>14. row' = [row EXCEPT ![t] = e] /\ UNCHANGED <<processed, handler, retrier, hook, notices>>
    BY <1>1, <2>13 DEF CashInv, TypeOK
  <2>15. \A s \in Refs : s[1] # j \/ transfer[s].state # "none" => transfer'[s] = transfer[s]
    <3>1. transfer[r].state = "none"
      BY <1>1, <2>2 DEF CashInv, JobsOK, JobOK
    <3> QED BY <2>2, <2>3, <3>1
  <2>16. /\ row[t].status = "ABSENT" => e = row[t] /\ c.pc \in {"waiting", "done"}
         /\ e.status = "ABSENT" => row[t].status = "ABSENT"
         /\ e.status = "FAILED" => row[t].status = "FAILED" \/ Retrying(t) = {}
    BY <2>1, <2>13
  <2> QED BY <2>1, <2>5, <2>6, <2>12, <2>14, <2>15, <2>16, JobPays
<1> QED BY <1>2, <1>3, NoFaults DEF JobSend

\* The result is saved: the row waits for the webhook, or is paid.
LEMMA JobSavePays ==
    ASSUME CashInv, PayInv, Orderly, NEW j \in Jobs, JobSave(j)
    PROVE  PayInv'
<1>1. /\ job[j].pc = "save" /\ UNCHANGED <<processed, handler, retrier, hook, notices, transfer>>
      /\ TypeOK /\ job[j] \in JobCalls /\ job \in [Jobs -> JobCalls]
  BY DEF JobSave, CashInv, TypeOK
<1>2. PICK t \in Txs : t = job[j].tx /\ row[t].status # "ABSENT"
  BY <1>1, JobSeesRow
<1>3. PICK s \in {"SUCCESSFUL", "PENDING"} : s = ResultStatus(provider)
  BY DEF ResultStatus
<1>4. PICK e : e = [job[j].ent EXCEPT !.status = s, !.retryable = None]
  OBVIOUS
<1>5. e.status = s
  BY <1>1, <1>4 DEF JobCalls, Rows
<1>6. row' = [row EXCEPT ![t] = e]
  BY <1>2, <1>3, <1>4, NoFaults DEF JobSave
<1>7. \E c : job' = [job EXCEPT ![j] = c] /\ c.tx = t /\ c.pc \in {"publish", "done"}
  <2>1. CASE job' = [job EXCEPT ![j].pc = "publish"]
    <3>1. PICK c : c = [job[j] EXCEPT !.pc = "publish"]
      OBVIOUS
    <3>2. job' = [job EXCEPT ![j] = c] /\ c.tx = t /\ c.pc = "publish"
      BY <1>1, <1>2, <2>1, <3>1 DEF JobCalls
    <3> QED BY <3>2
  <2>2. CASE job' = [job EXCEPT ![j] = AfterAccepted(j)]
    <3>1. PICK c : c = EndJob(j)
      OBVIOUS
    <3>2. job' = [job EXCEPT ![j] = c] /\ c.tx = t /\ c.pc = "done"
      BY <1>1, <1>2, <2>2, <3>1, EndJobFields DEF AfterAccepted
    <3> QED BY <3>2
  <2> QED BY <2>1, <2>2, NoFaults DEF JobSave
<1>8. PICK c : job' = [job EXCEPT ![j] = c] /\ c.tx = t /\ c.pc \in {"publish", "done"}
  BY <1>7
<1>9. /\ c.pc \in {"waiting", "claim", "account", "upsert", "send", "catch"} =>
           job[j].pc \in {"waiting", "claim", "account", "upsert", "send", "catch"}
      /\ row[t].status = "ABSENT" => e = row[t] /\ c.pc \in {"waiting", "done"}
      /\ e.status = "ABSENT" => row[t].status = "ABSENT"
      /\ e.status = "FAILED" => row[t].status = "FAILED"
  BY <1>2, <1>5, <1>8
<1> QED BY <1>1, <1>2, <1>6, <1>8, <1>9, JobRuns

\* A refused transfer: the job tries again, or leaves the chance to the retries.
LEMMA JobCatchPays ==
    ASSUME CashInv, PayInv, Orderly, NEW j \in Jobs, JobCatch(j)
    PROVE  PayInv'
<1>1. /\ job[j].pc = "catch" /\ UNCHANGED <<processed, handler, retrier, hook, notices, transfer>>
      /\ TypeOK /\ job[j] \in JobCalls /\ job \in [Jobs -> JobCalls] /\ row \in [Txs -> Rows]
      /\ job[j].made < JobAttempts
  BY DEF JobCatch, CashInv, TypeOK, JobsOK, JobOK
<1>2. PICK t \in Txs : t = job[j].tx /\ row[t].status # "ABSENT"
  BY <1>1, JobSeesRow
<1>3. CASE RetryInJob(j)
  <2>1. PICK c : c = Rethrow(j)
    OBVIOUS
  <2>2. job' = [job EXCEPT ![j] = c] /\ c.tx = t
    BY <1>1, <1>2, <1>3, <2>1, NoFaults, RethrowFields DEF JobCatch
  <2>3. PICK e : e = IF row[t].status = "PROCESSING" THEN [row[t] EXCEPT !.status = "PENDING"] ELSE row[t]
    OBVIOUS
  <2>4. row' = [row EXCEPT ![t] = e]
    <3>1. row' = IF row[t].status = "PROCESSING" THEN [row EXCEPT ![t].status = "PENDING"] ELSE row
      BY <1>2, <1>3, NoFaults DEF JobCatch
    <3> QED BY <1>1, <2>3, <3>1
  <2>5. e = row[t] \/ e.status = "PENDING"
    BY <1>1, <2>3 DEF Rows
  <2>6. /\ job[j].pc \in {"waiting", "claim", "account", "upsert", "send", "catch"}
        /\ row[t].status = "ABSENT" => e = row[t] /\ c.pc \in {"waiting", "done"}
        /\ e.status = "ABSENT" => row[t].status = "ABSENT"
        /\ e.status = "FAILED" => row[t].status = "FAILED"
    BY <1>1, <1>2, <2>5
  <2> QED BY <1>1, <1>2, <2>2, <2>4, <2>6, JobRuns
<1>4. CASE ~RetryInJob(j)
  <2>1. PICK c : c = EndJob(j)
    OBVIOUS
  <2>2. job' = [job EXCEPT ![j] = c] /\ c.tx = t /\ c.pc = "done"
    BY <1>1, <1>2, <1>4, <2>1, NoFaults, EndJobFields DEF JobCatch
  <2>3. PICK e : e = [job[j].ent EXCEPT !.status = "FAILED", !.retryable = job[j].retryable,
                                        !.retryCount = job[j].ent.retryCount + 1]
    OBVIOUS
  <2>4. row' = [row EXCEPT ![t] = e]
    <3>1. row' = [row EXCEPT ![t] = [job[j].ent EXCEPT !.status = "FAILED", !.retryable = job[j].retryable,
                                                       !.retryCount = @ + 1]]
      BY <1>2, <1>4, NoFaults DEF JobCatch
    <3>2. [job[j].ent EXCEPT !.status = "FAILED", !.retryable = job[j].retryable, !.retryCount = @ + 1] = e
      BY <1>1, <2>3 DEF JobCalls, Rows
    <3> QED BY <3>1, <3>2
  <2>5. e.status = "FAILED"
    BY <1>1, <2>3 DEF JobCalls, Rows
  <2>6. /\ Sending(t) = {j} /\ Retrying(t) = {} /\ LiveTransfers(t) = {}
        /\ Bouncing(t) = {} /\ Failing(t) = {} /\ Retryable(t) = {}
    BY <1>1, <1>2, JobIsChance
  <2>7. job'[j] = c /\ \A i \in Jobs \ {j} : job'[i] = job[i]
    BY <1>1, <2>2
  <2>8. \A s \in Refs : TxOfRef(s)' = TxOfRef(s)
    <3>1. \A i \in Jobs : job'[i].tx = job[i].tx
      BY <1>2, <2>2, <2>7
    <3> QED BY <3>1, RefsStay
  <2>9. Sending(t)' = {}
    BY <2>2, <2>6, <2>7 DEF Sending
  <2>10. LiveTransfers(t)' = {} /\ Bouncing(t)' = {}
    BY <1>1, <2>6, <2>8 DEF LiveTransfers, Bouncing
  <2>11. Retrying(t)' = {} /\ Failing(t)' = {}
    BY <1>1, <2>6 DEF Retrying, Failing
  <2>12. Retryable(t)' \subseteq {t}
    BY DEF Retryable
  <2>13. AtMostOne(Chances(t))'
    BY <2>9, <2>10, <2>11, <2>12, ChanceIsOne
  <2>14. /\ UNCHANGED <<processed, handler, retrier, hook, notices>>
         /\ \A s \in Refs : s[1] # j \/ transfer[s].state # "none" => transfer'[s] = transfer[s]
    BY <1>1
  <2>15. /\ row[t].status = "ABSENT" => e = row[t] /\ c.pc \in {"waiting", "done"}
         /\ e.status = "ABSENT" => row[t].status = "ABSENT"
         /\ e.status = "FAILED" => row[t].status = "FAILED" \/ Retrying(t) = {}
    BY <1>2, <2>5, <2>6
  <2> QED BY <1>2, <2>2, <2>4, <2>13, <2>14, <2>15, JobPays
<1> QED BY <1>3, <1>4

-----------------------------------------------------------------------------
(* Jobs are added. *)

\* The next job is not in use and has not sent anything.
LEMMA JobIsFree ==
    ASSUME CashInv, QueueHasRoom \/ Reserved # {}
    PROVE  \E n \in Jobs : n = NextJob /\ job[n].tx = None /\ \A r \in Refs : r[1] = n => transfer[r].state = "none"
<1> DEFINE n == NextJob
<1>1. PICK m \in 0..MaxJobs : Queued = 1..m /\ m + Cardinality(Reserved) <= MaxJobs
  BY DEF CashInv, QueueOK
<1>2. Cardinality(Queued) = m /\ m \in Nat
  BY <1>1, FS_Interval, BoundsAssumption
<1>3. IsFiniteSet(Reserved)
  <2>1. IsFiniteSet(Retriers)
    BY RetrierAssumption, FS_Union DEF Retriers
  <2> QED BY <2>1, FS_Subset DEF Reserved
<1>4. Cardinality(Reserved) \in Nat /\ (Reserved # {} => Cardinality(Reserved) # 0)
  BY <1>3, FS_CardinalityType, FS_EmptySet
<1>5. n \in Jobs /\ n \notin Queued
  BY <1>1, <1>2, <1>4, BoundsAssumption DEF NextJob, Jobs, QueueHasRoom
<1>6. JobOK(n) /\ job[n].pc = "none" /\ job[n].tx = None /\ job[n].run = 0
  BY <1>5 DEF Queued, CashInv, JobsOK, JobOK
<1>7. ASSUME NEW r \in Refs, r[1] = n PROVE transfer[r].state = "none"
  <2>1. r = <<n, r[2]>> /\ r[2] \in 1..JobAttempts + MaxFaults /\ r[2] > 0
    BY <1>7, RefParts
  <2> QED BY <1>6, <2>1 DEF JobOK
<1> QED BY <1>5, <1>6, <1>7

\* A new job is the only chance of a transaction that has no other.
LEMMA JobAddedPays ==
    ASSUME CashInv, PayInv, NEW t \in Txs, NEW n \in Jobs, job[n].tx = None,
           job'[n].tx = t, \A j \in Jobs \ {n} : job'[j] = job[j],
           \A r \in Refs : r[1] = n => transfer[r].state = "none",
           UNCHANGED <<row, hook, transfer, notices>>,
           \A u \in Txs \ {t} : Retrying(u)' = Retrying(u),
           Retrying(t)' = {}, Sending(t) = {}, LiveTransfers(t) = {}, Bouncing(t) = {}, Failing(t) = {},
           row[t].status # "FAILED"
    PROVE  OneChance' /\ FailuresAreReal'
<1>1. FailuresAreReal'
  BY DEF PayInv, FailuresAreReal
<1>2. ASSUME NEW u \in Txs
      PROVE  /\ LiveTransfers(u)' \subseteq LiveTransfers(u) /\ Bouncing(u)' \subseteq Bouncing(u)
             /\ Failing(u)' = Failing(u)
  <2>1. ASSUME NEW r \in Refs, r[1] # n PROVE TxOfRef(r)' = TxOfRef(r)
    BY <2>1, RefParts DEF TxOfRef
  <2>2. LiveTransfers(u)' \subseteq LiveTransfers(u)
    BY <2>1 DEF LiveTransfers
  <2>3. Bouncing(u)' \subseteq Bouncing(u)
    <3> SUFFICES ASSUME NEW r \in Refs, TxOfRef(r)' = u, [ref |-> r, kind |-> "failed"] \in notices
                 PROVE  TxOfRef(r) = u
      BY DEF Bouncing
    <3>1. transfer[r].state # "none"
      BY DEF PayInv, FailuresAreReal
    <3> QED BY <2>1, <3>1
  <2>4. Failing(u)' = Failing(u)
    BY DEF Failing
  <2> QED BY <2>2, <2>3, <2>4
<1>3. ASSUME NEW u \in Txs PROVE AtMostOne(Chances(u))'
  <2>1. CASE u = t
    <3>1. Sending(t)' \subseteq {n}
      BY DEF Sending
    <3>2. Retryable(t)' = {}
      BY DEF Retryable
    <3>3. LiveTransfers(t)' = {} /\ Bouncing(t)' = {} /\ Failing(t)' = {}
      BY <1>2
    <3> QED BY <2>1, <3>1, <3>2, <3>3, ChanceIsOne
  <2>2. CASE u # t
    <3>1. Sending(u)' \subseteq Sending(u)
      BY <2>2 DEF Sending
    <3>2. Retrying(u)' = Retrying(u)
      BY <2>2
    <3>3. Retryable(u)' \subseteq Retryable(u)
      BY <3>2 DEF Retryable
    <3>4. AtMostOne(Chances(u))
      BY DEF PayInv, OneChance
    <3> QED BY <1>2, <3>1, <3>2, <3>3, <3>4, ChancesStay
  <2> QED BY <2>1, <2>2
<1> QED BY <1>1, <1>3 DEF OneChance

-----------------------------------------------------------------------------
(* handleBadgeUnlocked. *)

\* A handler that only looks does not concern the others.
LEMMA LooksPay ==
    ASSUME PayInv, UNCHANGED <<row, job, retrier, hook, transfer, notices>>
    PROVE  OneChance' /\ AbsentRows' /\ UpdatesHold' /\ FailuresAreReal'
<1>1. ASSUME NEW t \in Txs PROVE AtMostOne(Chances(t))'
  <2>1. Sending(t)' = Sending(t) /\ Retrying(t)' = Retrying(t) /\ Failing(t)' = Failing(t)
    BY DEF Sending, Retrying, Failing
  <2>2. LiveTransfers(t)' = LiveTransfers(t) /\ Bouncing(t)' = Bouncing(t)
    BY DEF LiveTransfers, Bouncing, TxOfRef
  <2>3. Retryable(t)' = Retryable(t)
    BY <2>1 DEF Retryable
  <2>4. AtMostOne(Chances(t))
    BY DEF PayInv, OneChance
  <2> QED BY <2>1, <2>2, <2>3, <2>4, ChancesStay
<1>2. AbsentRows'
  BY DEF PayInv, AbsentRows, Started, Retrying
<1>3. UpdatesHold' /\ FailuresAreReal'
  BY DEF PayInv, UpdatesHold, FailuresAreReal
<1> QED BY <1>1, <1>2, <1>3 DEF OneChance

\* An event that is not processed has no job yet: no other event is of its badge.
LEMMA HandlerCheckPays ==
    ASSUME CashInv, PayInv, Orderly, NEW d \in Deliveries, HandlerCheck(d)
    PROVE  PayInv'
<1>1. /\ handler[d].pc = "new" /\ \A c \in Deliveries : ~Busy(c)
      /\ UNCHANGED <<row, processed, job, retrier, hook, transfer, notices>>
  BY NoFaults DEF HandlerCheck
<1>2. /\ handler'[d].pc = IF EventOf[d] \in processed THEN "done" ELSE "read"
      /\ \A c \in Deliveries \ {d} : handler'[c] = handler[c]
  BY DEF HandlerCheck, CashInv, TypeOK
<1>3. OneBusy'
  BY <1>1, <1>2 DEF OneBusy, Busy
<1>4. JobsHaveEvents'
  <2>1. \A c \in Deliveries : handler[c].pc # "commit"
    BY <1>1 DEF Busy
  <2>2. ASSUME NEW j \in Jobs, job[j].tx \in Txs PROVE \E e \in Events : TxOf[e] = job[j].tx /\ e \in processed
    BY <2>1, <2>2 DEF PayInv, JobsHaveEvents
  <2> QED BY <1>1, <2>2 DEF JobsHaveEvents
<1>5. HandlersAreFirst'
  <2>1. \A c \in Deliveries \ {d} : handler'[c].pc \notin {"read", "save", "commit"}
    BY <1>1, <1>2 DEF Busy
  <2>2. handler'[d].pc \notin {"save", "commit"}
    BY <1>2
  <2>3. ASSUME handler'[d].pc = "read" PROVE ~Started(TxOf[EventOf[d]])'
    <3>1. PICK t \in Txs : t = TxOf[EventOf[d]]
      BY EventAssumption
    <3>2. EventOf[d] \notin processed /\ EventOf[d] \in Events
      BY <1>2, <2>3, EventAssumption
    <3>3. ASSUME NEW j \in Jobs, job[j].tx = t PROVE FALSE
      <4>1. PICK e \in Events : /\ TxOf[e] = t
                                /\ e \in processed \/ \E c \in Deliveries : handler[c].pc = "commit" /\ EventOf[c] = e
        BY <3>3 DEF PayInv, JobsHaveEvents
      <4>2. e = EventOf[d]
        BY <3>1, <3>2, <4>1 DEF Orderly
      <4> QED BY <1>1, <3>2, <4>1, <4>2 DEF Busy
    <3> QED BY <1>1, <3>1, <3>3 DEF Started
  <2> QED BY <2>1, <2>2, <2>3 DEF HandlersAreFirst
<1> QED BY <1>1, <1>3, <1>4, <1>5, LooksPay DEF PayInv

\* There is no row before the first job.
LEMMA HandlerReadPays ==
    ASSUME CashInv, PayInv, NEW d \in Deliveries, HandlerRead(d)
    PROVE  PayInv'
<1>1. handler[d].pc = "read" /\ UNCHANGED <<row, processed, job, retrier, hook, transfer, notices>>
  BY DEF HandlerRead
<1>2. PICK t \in Txs : t = TxOf[EventOf[d]]
  BY EventAssumption
<1>3. /\ handler'[d].pc = "save" /\ handler'[d].ent = row[t]
      /\ \A c \in Deliveries \ {d} : handler'[c] = handler[c]
  BY <1>2 DEF HandlerRead, CashInv, TypeOK, HandlerCalls
<1>4. OneBusy'
  <2>1. \A c \in Deliveries : Busy(c)' => Busy(c)
    BY <1>1, <1>3 DEF Busy
  <2> QED BY <2>1 DEF PayInv, OneBusy
<1>5. JobsHaveEvents'
  <2>1. \A c \in Deliveries : handler'[c].pc = "commit" <=> handler[c].pc = "commit"
    BY <1>1, <1>3
  <2> QED BY <1>1, <2>1 DEF PayInv, JobsHaveEvents
<1>6. HandlersAreFirst'
  <2>1. row[t] = NoRow /\ ~Started(t)
    BY <1>1, <1>2 DEF PayInv, HandlersAreFirst, AbsentRows
  <2>2. \A c \in Deliveries : Started(TxOf[EventOf[c]])' <=> Started(TxOf[EventOf[c]])
    BY <1>1 DEF Started
  <2>3. ASSUME NEW c \in Deliveries
        PROVE  /\ handler'[c].pc \in {"read", "save"} => ~Started(TxOf[EventOf[c]])'
               /\ handler'[c].pc \in {"save", "commit"} => handler'[c].ent = NoRow
               /\ handler'[c].pc = "commit" =>
                    Started(TxOf[EventOf[c]])' /\ row'[TxOf[EventOf[c]]].status = "ABSENT"
    BY <1>1, <1>2, <1>3, <2>1, <2>2 DEF PayInv, HandlersAreFirst
  <2> QED BY <2>3 DEF HandlersAreFirst
<1> QED BY <1>1, <1>4, <1>5, <1>6, LooksPay DEF PayInv

\* The first job of a transaction is its only chance.
LEMMA HandlerSavePays ==
    ASSUME CashInv, PayInv, NEW d \in Deliveries, HandlerSave(d)
    PROVE  PayInv'
<1>1. handler[d].pc = "save" /\ UNCHANGED <<retrier, hook, transfer, notices>>
  BY DEF HandlerSave
<1>2. PICK t \in Txs : t = TxOf[EventOf[d]]
  BY EventAssumption
<1>3. ~Started(t) /\ handler[d].ent = NoRow /\ row[t] = NoRow /\ Retrying(t) = {}
  BY <1>1, <1>2 DEF PayInv, HandlersAreFirst, AbsentRows
<1>4. ASSUME NEW c \in Deliveries \ {d} PROVE handler[c].pc \notin {"read", "save", "commit"}
  BY <1>1 DEF PayInv, OneBusy, Busy
<1>5. ~KeyTaken(d)
  BY <1>2, <1>3, <1>4 DEF KeyTaken, NoRow
<1>6. PICK n \in Jobs : n = NextJob /\ job[n].tx = None /\ \A r \in Refs : r[1] = n => transfer[r].state = "none"
  BY <1>5, JobIsFree DEF HandlerSave
<1>7. /\ QueueHasRoom /\ job' = [job EXCEPT ![n] = NewJob(t, EventOf[d], DetailsOf[EventOf[d]])]
      /\ handler' = [handler EXCEPT ![d].pc = "commit", ![d].job = n] /\ UNCHANGED <<row, processed>>
  BY <1>2, <1>3, <1>5, <1>6 DEF HandlerSave
<1>8. /\ n \in Jobs /\ job[n].tx = None /\ job'[n].pc = "waiting" /\ job'[n].tx = t
      /\ \A j \in Jobs \ {n} : job'[j] = job[j]
      /\ \A r \in Refs : r[1] = n => transfer[r].state = "none"
  <2>1. PICK c : c = NewJob(t, EventOf[d], DetailsOf[EventOf[d]])
    OBVIOUS
  <2>2. c.pc = "waiting" /\ c.tx = t
    BY <2>1 DEF NewJob, IdleJob
  <2>3. job' = [job EXCEPT ![n] = c]
    BY <1>7, <2>1
  <2> QED BY <1>6, <2>2, <2>3 DEF CashInv, TypeOK
<1>9. /\ handler'[d].pc = "commit" /\ handler'[d].ent = NoRow
      /\ \A c \in Deliveries \ {d} : handler'[c] = handler[c]
  BY <1>3, <1>7 DEF CashInv, TypeOK, HandlerCalls
<1>10. OneChance' /\ FailuresAreReal'
  <2>1. Sending(t) = {} /\ LiveTransfers(t) = {} /\ Bouncing(t) = {}
    BY <1>3, RefParts DEF Started, Sending, LiveTransfers, Bouncing, TxOfRef
  <2>2. Failing(t) = {}
    BY <1>3 DEF PayInv, AbsentRows, Failing, NoRow
  <2>3. \A u \in Txs : Retrying(u)' = Retrying(u)
    BY <1>1 DEF Retrying
  <2>4. row[t].status # "FAILED" /\ UNCHANGED <<row, hook, transfer, notices>>
    BY <1>1, <1>3, <1>7 DEF NoRow
  <2> QED BY <1>3, <1>8, <2>1, <2>2, <2>3, <2>4, JobAddedPays
<1>11. \A u \in Txs : Started(u)' <=> Started(u) \/ u = t
  BY <1>8, NoneAssumption DEF Started
<1>12. OneBusy'
  <2>1. \A c \in Deliveries : Busy(c)' => c = d
    BY <1>4, <1>9 DEF Busy
  <2> QED BY <2>1 DEF OneBusy
<1>13. HandlersAreFirst'
  <2>1. \A c \in Deliveries \ {d} : handler'[c].pc \notin {"read", "save", "commit"}
    BY <1>4, <1>9
  <2>2. Started(TxOf[EventOf[d]])' /\ row'[TxOf[EventOf[d]]].status = "ABSENT"
    BY <1>2, <1>3, <1>7, <1>11 DEF NoRow
  <2> QED BY <1>9, <2>1, <2>2 DEF HandlersAreFirst
<1>14. JobsHaveEvents'
  <2> SUFFICES ASSUME NEW j \in Jobs, job'[j].tx \in Txs
               PROVE  \E e \in Events : /\ TxOf[e] = job'[j].tx
                                        /\ e \in processed \/ \E c \in Deliveries : handler'[c].pc = "commit" /\ EventOf[c] = e
    BY <1>7 DEF JobsHaveEvents
  <2>1. CASE j = n
    BY <1>2, <1>8, <1>9, <2>1, EventAssumption
  <2>2. CASE j # n
    <3>1. job'[j] = job[j]
      BY <1>8, <2>2
    <3>2. \A c \in Deliveries : handler[c].pc # "commit"
      BY <1>1, <1>4
    <3> QED BY <3>1, <3>2 DEF PayInv, JobsHaveEvents
  <2> QED BY <2>1, <2>2
<1>15. AbsentRows'
  <2> SUFFICES ASSUME NEW u \in Txs
               PROVE  /\ ~Started(u)' => row[u].status = "ABSENT"
                      /\ row[u].status = "ABSENT" =>
                           /\ row[u] = NoRow
                           /\ \A j \in Jobs : job'[j].tx = u => job'[j].pc \in {"waiting", "done"}
                           /\ \A h \in Hooks : hook[h].pc = "save" => hook[h].tx # u
                           /\ Retrying(u)' = {}
    BY <1>1, <1>7 DEF AbsentRows
  <2>1. Retrying(u)' = Retrying(u)
    BY <1>1 DEF Retrying
  <2>2. \A j \in Jobs : job'[j].tx = u => job'[j].pc \in {"waiting", "done"} \/ job'[j] = job[j]
    BY <1>8
  <2> QED BY <1>11, <2>1, <2>2 DEF PayInv, AbsentRows
<1>16. UpdatesHold'
  BY <1>1, <1>7 DEF PayInv, UpdatesHold
<1> QED BY <1>10, <1>12, <1>13, <1>14, <1>15, <1>16 DEF PayInv

\* The row of the first job becomes visible.
LEMMA HandlerCommitPays ==
    ASSUME CashInv, PayInv, NEW d \in Deliveries, HandlerCommit(d)
    PROVE  PayInv'
<1>1. handler[d].pc = "commit" /\ UNCHANGED <<job, retrier, hook, transfer, notices>>
  BY DEF HandlerCommit
<1>2. PICK t \in Txs : t = TxOf[EventOf[d]]
  BY EventAssumption
<1>3. Started(t) /\ handler[d].ent = NoRow /\ row[t].status = "ABSENT"
  BY <1>1, <1>2 DEF PayInv, HandlersAreFirst
<1>4. ASSUME NEW c \in Deliveries \ {d} PROVE handler[c].pc \notin {"read", "save", "commit"}
  BY <1>1 DEF PayInv, OneBusy, Busy
<1>5. row' = [row EXCEPT ![t] = [NoRow EXCEPT !.status = "PENDING"]]
  BY <1>2, <1>3 DEF HandlerCommit, NoRow
<1>6. row'[t].status = "PENDING" /\ \A u \in Txs \ {t} : row'[u] = row[u]
  BY <1>5 DEF CashInv, TypeOK, NoRow
<1>7. /\ handler'[d].pc = "done" /\ processed' = processed \cup {EventOf[d]}
      /\ \A c \in Deliveries \ {d} : handler'[c] = handler[c]
  BY DEF HandlerCommit, CashInv, TypeOK, IdleHandler
<1>8. OneChance'
  <2> SUFFICES ASSUME NEW u \in Txs PROVE AtMostOne(Chances(u))'
    BY DEF OneChance
  <2>1. Sending(u)' = Sending(u) /\ Retrying(u)' = Retrying(u) /\ Failing(u)' = Failing(u)
    BY <1>1 DEF Sending, Retrying, Failing
  <2>2. LiveTransfers(u)' = LiveTransfers(u) /\ Bouncing(u)' = Bouncing(u)
    BY <1>1 DEF LiveTransfers, Bouncing, TxOfRef
  <2>3. Retryable(u)' \subseteq Retryable(u)
    BY <1>6, <2>1 DEF Retryable
  <2>4. AtMostOne(Chances(u))
    BY DEF PayInv, OneChance
  <2> QED BY <2>1, <2>2, <2>3, <2>4, ChancesStay
<1>9. \A c \in Deliveries : handler'[c].pc \notin {"read", "save", "commit"}
  BY <1>4, <1>7
<1>10. OneBusy' /\ HandlersAreFirst'
  BY <1>9 DEF OneBusy, Busy, HandlersAreFirst
<1>11. JobsHaveEvents'
  <2>1. ASSUME NEW j \in Jobs, job[j].tx \in Txs PROVE \E e \in Events : TxOf[e] = job[j].tx /\ e \in processed'
    <3>1. PICK e \in Events : /\ TxOf[e] = job[j].tx
                              /\ e \in processed \/ \E c \in Deliveries : handler[c].pc = "commit" /\ EventOf[c] = e
      BY <2>1 DEF PayInv, JobsHaveEvents
    <3> QED BY <1>4, <1>7, <3>1
  <2> QED BY <1>1, <2>1 DEF JobsHaveEvents
<1>12. AbsentRows'
  <2> SUFFICES ASSUME NEW u \in Txs
               PROVE  /\ ~Started(u)' => row'[u].status = "ABSENT"
                      /\ row'[u].status = "ABSENT" =>
                           /\ row'[u] = NoRow
                           /\ \A j \in Jobs : job[j].tx = u => job[j].pc \in {"waiting", "done"}
                           /\ \A h \in Hooks : hook[h].pc = "save" => hook[h].tx # u
                           /\ Retrying(u)' = {}
    BY <1>1 DEF AbsentRows
  <2>1. Retrying(u)' = Retrying(u) /\ (Started(u)' <=> Started(u))
    BY <1>1 DEF Retrying, Started
  <2> QED BY <1>3, <1>6, <2>1 DEF PayInv, AbsentRows
<1>13. UpdatesHold' /\ FailuresAreReal'
  <2>1. ASSUME NEW q \in Retriers, retrier[q].pc = "enqueue" PROVE row'[retrier[q].tx].status # "FAILED"
    BY <1>6, <2>1 DEF PayInv, UpdatesHold, CashInv, RetriersOK
  <2> QED BY <1>1, <2>1 DEF PayInv, UpdatesHold, FailuresAreReal
<1> QED BY <1>8, <1>10, <1>11, <1>12, <1>13 DEF PayInv

-----------------------------------------------------------------------------
(* Retries. *)

\* The row that may be picked becomes a retry under way.
LEMMA PickPays ==
    ASSUME CashInv, PayInv, Orderly, NEW q \in Retriers, NEW t \in Txs, NEW c,
           retrier[q].pc = "idle", row[t].status = "FAILED", c.pc \in {"override", "check"}, c.tx = t,
           retrier' = [retrier EXCEPT ![q] = c],
           UNCHANGED <<row, processed, handler, job, hook, transfer, notices>>
    PROVE  PayInv'
<1>1. \A p \in Retriers : p = q
  BY DEF Orderly
<1>2. retrier'[q] = c
  BY DEF CashInv, TypeOK
<1>3. \A u \in Txs : Retrying(u) = {} /\ Retrying(u)' = IF u = t THEN {q} ELSE {}
  BY <1>1, <1>2 DEF Retrying
<1>4. ASSUME NEW u \in Txs
      PROVE  /\ Sending(u)' = Sending(u) /\ LiveTransfers(u)' = LiveTransfers(u)
             /\ Bouncing(u)' = Bouncing(u) /\ Failing(u)' = Failing(u)
  BY DEF Sending, LiveTransfers, Bouncing, Failing, TxOfRef
<1>5. OneChance'
  <2> SUFFICES ASSUME NEW u \in Txs PROVE AtMostOne(Chances(u))'
    BY DEF OneChance
  <2>1. AtMostOne(Chances(u))
    BY DEF PayInv, OneChance
  <2>2. CASE u = t
    <3>1. t \in Retryable(t)
      BY <1>3 DEF Retryable
    <3>2. Sending(t) = {} /\ LiveTransfers(t) = {} /\ Bouncing(t) = {} /\ Failing(t) = {}
      BY <2>1, <2>2, <3>1, OnlyChance
    <3>3. Retryable(t)' = {}
      BY <1>3 DEF Retryable
    <3>4. Retrying(t)' \subseteq {q}
      BY <1>3
    <3>5. Sending(t)' = {} /\ LiveTransfers(t)' = {} /\ Bouncing(t)' = {} /\ Failing(t)' = {}
      BY <1>4, <3>2
    <3> QED BY <2>2, <3>3, <3>4, <3>5, ChanceIsOne
  <2>3. CASE u # t
    <3>1. Retrying(u)' = Retrying(u)
      BY <1>3, <2>3
    <3>2. Retryable(u)' = Retryable(u)
      BY <3>1 DEF Retryable
    <3> QED BY <1>4, <2>1, <3>1, <3>2, ChancesStay
  <2> QED BY <2>2, <2>3
<1>6. OneBusy' /\ HandlersAreFirst' /\ JobsHaveEvents' /\ \A u \in Txs : ~Started(u)' => row'[u].status = "ABSENT"
  <2>1. \A u \in Txs : Started(u)' <=> Started(u)
    BY DEF Started
  <2> QED BY <2>1, HandlersRest
<1>7. AbsentRows'
  <2>1. \A u \in Txs : row[u].status = "ABSENT" => Retrying(u)' = {}
    BY <1>3
  <2> QED BY <1>6, <2>1 DEF PayInv, AbsentRows
<1>8. UpdatesHold' /\ FailuresAreReal'
  BY <1>1, <1>2 DEF PayInv, UpdatesHold, FailuresAreReal
<1> QED BY <1>5, <1>6, <1>7, <1>8 DEF PayInv

\* A retry under way is the only chance of its transaction, whose row is there.
LEMMA RetryIsChance ==
    ASSUME CashInv, PayInv, NEW q \in Retriers, retrier[q].pc # "idle"
    PROVE  \E t \in Txs : /\ t = retrier[q].tx /\ row[t].status # "ABSENT" /\ Started(t)
                          /\ Sending(t) = {} /\ Retrying(t) = {q} /\ LiveTransfers(t) = {}
                          /\ Bouncing(t) = {} /\ Failing(t) = {}
<1>1. PICK t \in Txs : t = retrier[q].tx
  BY DEF CashInv, RetriersOK
<1>2. q \in Retrying(t)
  BY <1>1 DEF Retrying
<1>3. AtMostOne(Chances(t))
  BY DEF PayInv, OneChance
<1>4. row[t].status # "ABSENT" /\ Started(t)
  BY <1>2 DEF PayInv, AbsentRows
<1> QED BY <1>1, <1>2, <1>3, <1>4, OnlyChance

\* A retry goes on, or gives its row up.
LEMMA RetryGoesPays ==
    ASSUME CashInv, PayInv, NEW q \in Retriers, NEW c, NEW e, NEW t \in Txs,
           retrier[q].pc # "idle", t = retrier[q].tx, c.tx = t \/ c.pc = "idle",
           retrier' = [retrier EXCEPT ![q] = c], row' = [row EXCEPT ![t] = e],
           e.status # "ABSENT", c.pc = "enqueue" => e.status # "FAILED",
           UNCHANGED <<processed, handler, job, hook, transfer, notices>>
    PROVE  PayInv'
<1>1. /\ retrier'[q] = c /\ \A p \in Retriers \ {q} : retrier'[p] = retrier[p]
      /\ row'[t] = e /\ \A u \in Txs \ {t} : row'[u] = row[u]
  BY DEF CashInv, TypeOK
<1>2. /\ row[t].status # "ABSENT" /\ Started(t) /\ Sending(t) = {} /\ Retrying(t) = {q}
      /\ LiveTransfers(t) = {} /\ Bouncing(t) = {} /\ Failing(t) = {}
  BY RetryIsChance
<1>3. ASSUME NEW u \in Txs
      PROVE  /\ Sending(u)' = Sending(u) /\ LiveTransfers(u)' = LiveTransfers(u)
             /\ Bouncing(u)' = Bouncing(u) /\ Failing(u)' = Failing(u)
  BY DEF Sending, LiveTransfers, Bouncing, Failing, TxOfRef
<1>4. Retrying(t)' \subseteq {q} /\ (c.pc # "idle" => Retrying(t)' = {q})
  BY <1>1, <1>2 DEF Retrying
<1>5. \A u \in Txs \ {t} : Retrying(u)' = Retrying(u)
  BY <1>1 DEF Retrying
<1>6. Retryable(t)' = {} \/ (Retrying(t)' = {} /\ Retryable(t)' \subseteq {t})
  BY <1>1, <1>4 DEF Retryable
<1>7. OneChance'
  <2> SUFFICES ASSUME NEW u \in Txs PROVE AtMostOne(Chances(u))'
    BY DEF OneChance
  <2>1. CASE u = t
    <3>1. Sending(t)' = {} /\ LiveTransfers(t)' = {} /\ Bouncing(t)' = {} /\ Failing(t)' = {}
      BY <1>2, <1>3
    <3> QED BY <1>4, <1>6, <2>1, <3>1, ChanceIsOne
  <2>2. CASE u # t
    <3>1. AtMostOne(Chances(u))
      BY DEF PayInv, OneChance
    <3>2. Retrying(u)' = Retrying(u)
      BY <1>5, <2>2
    <3>3. Retryable(u)' = Retryable(u)
      BY <1>1, <2>2, <3>2 DEF Retryable
    <3> QED BY <1>3, <3>1, <3>2, <3>3, ChancesStay
  <2> QED BY <2>1, <2>2
<1>8. OneBusy' /\ HandlersAreFirst' /\ JobsHaveEvents' /\ \A u \in Txs : ~Started(u)' => row'[u].status = "ABSENT"
  <2>1. \A u \in Txs : Started(u)' <=> Started(u)
    BY DEF Started
  <2>2. \A u \in Txs : row'[u].status = "ABSENT" <=> row[u].status = "ABSENT"
    BY <1>1, <1>2
  <2> QED BY <2>1, <2>2, HandlersRest
<1>9. AbsentRows'
  <2>1. ASSUME NEW u \in Txs, row'[u].status = "ABSENT" PROVE row'[u] = row[u] /\ Retrying(u)' = Retrying(u)
    BY <1>1, <1>5, <2>1
  <2> QED BY <1>8, <2>1 DEF PayInv, AbsentRows
<1>10. UpdatesHold'
  <2> SUFFICES ASSUME NEW p \in Retriers, retrier'[p].pc = "enqueue" PROVE row'[retrier'[p].tx].status # "FAILED"
    BY DEF UpdatesHold
  <2>1. CASE p = q
    BY <1>1, <2>1
  <2>2. CASE p # q
    <3>1. retrier'[p] = retrier[p] /\ retrier[p].tx \in Txs /\ row[retrier[p].tx].status # "FAILED"
      BY <1>1, <2>2 DEF CashInv, RetriersOK, PayInv, UpdatesHold
    <3>2. retrier[p].tx # t
      BY <1>2, <2>2, <3>1 DEF Retrying
    <3> QED BY <1>1, <3>1, <3>2
  <2> QED BY <2>1, <2>2
<1>11. FailuresAreReal'
  BY DEF PayInv, FailuresAreReal
<1> QED BY <1>7, <1>8, <1>9, <1>10, <1>11 DEF PayInv

\* The steps of a retry up to its update.
LEMMA RetryPays ==
    ASSUME CashInv, PayInv, NEW q \in Retriers, ManualOverride(q) \/ ManualReset(q) \/ RetryCheck(q) \/ RetryUpdate(q)
    PROVE  PayInv'
<1>1. /\ retrier[q].pc \in {"override", "reset", "check", "update"}
      /\ UNCHANGED <<processed, handler, job, hook, transfer, notices>>
      /\ retrier[q] \in RetryCalls /\ retrier \in [Retriers -> RetryCalls] /\ row \in [Txs -> Rows]
  BY DEF ManualOverride, ManualReset, RetryCheck, RetryUpdate, CashInv, TypeOK
<1>2. PICK t \in Txs : t = retrier[q].tx /\ row[t].status # "ABSENT"
  BY <1>1, RetryIsChance
<1>3. row[t] \in Rows
  BY <1>1
<1>4. \E c, e : /\ c.tx = t \/ c.pc = "idle"
                /\ retrier' = [retrier EXCEPT ![q] = c] /\ row' = [row EXCEPT ![t] = e]
                /\ e.status # "ABSENT" /\ (c.pc = "enqueue" => e.status # "FAILED")
  <2>1. CASE ManualOverride(q)
    <3>0. PICK b : b = [IdleRetrier EXCEPT !.pc = "reset", !.tx = t, !.details = retrier[q].details]
      OBVIOUS
    <3>4. b = [IdleRetrier EXCEPT !.pc = "reset", !.tx = retrier[q].tx, !.details = retrier[q].details]
      BY <1>2, <3>0
    <3>5. retrier' = [retrier EXCEPT ![q] = b] \/ retrier' = [retrier EXCEPT ![q] = IdleRetrier]
      <4>1. CASE retrier[q].found \/ ~HasAccount(UserOf[retrier[q].tx])
        BY <2>1, <3>4, <4>1 DEF ManualOverride
      <4>2. CASE ~retrier[q].found /\ HasAccount(UserOf[retrier[q].tx])
        BY <2>1, <4>2 DEF ManualOverride
      <4> QED BY <4>1, <4>2
    <3>1. PICK c : c \in {b, IdleRetrier} /\ retrier' = [retrier EXCEPT ![q] = c]
      BY <3>5
    <3>2. (c.tx = t /\ c.pc = "reset") \/ c.pc = "idle"
      <4>1. b.tx = t /\ b.pc = "reset"
        BY <3>0 DEF IdleRetrier
      <4>2. IdleRetrier.pc = "idle"
        BY DEF IdleRetrier
      <4>3. c = b \/ c = IdleRetrier
        BY <3>1
      <4> QED BY <4>1, <4>2, <4>3
    <3>3. row' = [row EXCEPT ![t] = row[t]]
      BY <1>1, <2>1 DEF ManualOverride
    <3> QED BY <1>2, <3>1, <3>2, <3>3
  <2>4. CASE ManualReset(q)
    <3>1. PICK c, e : c = [retrier[q] EXCEPT !.pc = "check"] /\ e = [row[t] EXCEPT !.retryCount = 0]
      OBVIOUS
    <3>2. c.tx = t /\ c.pc = "check" /\ e.status = row[t].status
      BY <1>1, <1>2, <1>3, <3>1 DEF RetryCalls, Rows
    <3>3. retrier' = [retrier EXCEPT ![q] = c] /\ row' = [row EXCEPT ![t] = e]
      BY <1>1, <1>2, <2>4, <3>1 DEF ManualReset
    <3> QED BY <1>2, <3>2, <3>3
  <2>2. CASE RetryCheck(q)
    <3>1. PICK c, e : /\ c = IF row[t].status = "FAILED" THEN [retrier[q] EXCEPT !.pc = "update"] ELSE IdleRetrier
                      /\ e = row[t]
      OBVIOUS
    <3>2. /\ row[t].status = "FAILED" => c.tx = t /\ c.pc = "update"
          /\ row[t].status # "FAILED" => c.pc = "idle"
      BY <1>1, <1>2, <3>1 DEF RetryCalls, IdleRetrier
    <3>3. retrier' = [retrier EXCEPT ![q] = c] /\ row' = [row EXCEPT ![t] = e]
      BY <1>1, <1>2, <2>2, <3>1 DEF RetryCheck
    <3> QED BY <1>2, <3>1, <3>2, <3>3
  <2>3. CASE RetryUpdate(q)
    <3>1. PICK c, e : /\ c = [retrier[q] EXCEPT !.pc = "enqueue"]
                      /\ e = IF row[t].status = "FAILED" THEN [row[t] EXCEPT !.status = "PENDING"] ELSE row[t]
      OBVIOUS
    <3>2. c.tx = t /\ c.pc = "enqueue" /\ e.status \notin {"ABSENT", "FAILED"}
      BY <1>1, <1>2, <1>3, <3>1 DEF RetryCalls, Rows
    <3>3. retrier' = [retrier EXCEPT ![q] = c] /\ row' = [row EXCEPT ![t] = e]
      BY <1>1, <1>2, <2>3, <3>1 DEF RetryUpdate
    <3> QED BY <3>2, <3>3
  <2> QED BY <2>1, <2>2, <2>3, <2>4
<1>5. PICK c, e : /\ c.tx = t \/ c.pc = "idle"
                  /\ retrier' = [retrier EXCEPT ![q] = c] /\ row' = [row EXCEPT ![t] = e]
                  /\ e.status # "ABSENT" /\ (c.pc = "enqueue" => e.status # "FAILED")
  BY <1>4
<1> QED BY <1>1, <1>2, <1>5, RetryGoesPays

\* The job of a retry is the chance that the retry was.
LEMMA RetryEnqueuePays ==
    ASSUME CashInv, PayInv, NEW q \in Retriers, RetryEnqueue(q)
    PROVE  PayInv'
<1>1. /\ retrier[q].pc = "enqueue" /\ UNCHANGED <<row, processed, handler, hook, transfer, notices>>
      /\ retrier' = [retrier EXCEPT ![q] = IdleRetrier]
  BY DEF RetryEnqueue
<1>2. PICK t \in Txs : /\ t = retrier[q].tx /\ row[t].status # "ABSENT" /\ Started(t)
                       /\ Sending(t) = {} /\ Retrying(t) = {q} /\ LiveTransfers(t) = {}
                       /\ Bouncing(t) = {} /\ Failing(t) = {}
  BY <1>1, RetryIsChance
<1>3. PICK n \in Jobs : n = NextJob /\ job[n].tx = None /\ \A r \in Refs : r[1] = n => transfer[r].state = "none"
  <2>1. Reserved # {}
    BY <1>1 DEF Reserved
  <2> QED BY <2>1, JobIsFree
<1>4. PICK c : c = NewJob(t, None, retrier[q].details)
  OBVIOUS
<1>5. /\ n \in Jobs /\ job[n].tx = None /\ job'[n].pc = "waiting" /\ job'[n].tx = t
      /\ \A j \in Jobs \ {n} : job'[j] = job[j]
      /\ \A r \in Refs : r[1] = n => transfer[r].state = "none"
  <2>1. c.pc = "waiting" /\ c.tx = t
    BY <1>4 DEF NewJob, IdleJob
  <2>2. job' = [job EXCEPT ![n] = c]
    BY <1>2, <1>3, <1>4 DEF RetryEnqueue
  <2> QED BY <1>3, <2>1, <2>2 DEF CashInv, TypeOK
<1>6. retrier'[q].pc = "idle" /\ \A p \in Retriers \ {q} : retrier'[p] = retrier[p]
  BY <1>1 DEF CashInv, TypeOK, IdleRetrier
<1>7. Retrying(t)' = {} /\ \A u \in Txs \ {t} : Retrying(u)' = Retrying(u)
  BY <1>2, <1>6 DEF Retrying
<1>8. OneChance' /\ FailuresAreReal'
  <2>1. row[t].status # "FAILED" /\ UNCHANGED <<row, hook, transfer, notices>>
    BY <1>1, <1>2 DEF PayInv, UpdatesHold
  <2> QED BY <1>2, <1>5, <1>7, <2>1, JobAddedPays
<1>9. OneBusy' /\ HandlersAreFirst' /\ JobsHaveEvents' /\ \A u \in Txs : ~Started(u)' => row'[u].status = "ABSENT"
  <2>1. \A u \in Txs : Started(u)' <=> Started(u)
    BY <1>2, <1>5, NoneAssumption DEF Started
  <2> QED BY <1>1, <2>1, HandlersRest
<1>10. AbsentRows'
  <2>1. ASSUME NEW u \in Txs, row[u].status = "ABSENT"
        PROVE  Retrying(u)' = Retrying(u) /\ \A j \in Jobs : job'[j].tx = u => job'[j] = job[j]
    BY <1>2, <1>5, <1>7, <2>1
  <2> QED BY <1>1, <1>9, <2>1 DEF PayInv, AbsentRows
<1>11. UpdatesHold'
  BY <1>1, <1>6 DEF PayInv, UpdatesHold
<1> QED BY <1>8, <1>9, <1>10, <1>11 DEF PayInv

-----------------------------------------------------------------------------
(* Paystack and its webhooks. *)

\* A transfer settles or is sent back: the news is the chance that the transfer was.
LEMMA PaystackPays ==
    ASSUME CashInv, PayInv, NEW r \in Refs, NEW kind \in {"success", "failed"},
           TransferSettles(r, kind) \/ TransferReversed(r)
    PROVE  PayInv'
<1>1. PICK s \in {"success", "failed", "reversed"}, k \in {"success", "failed"} :
        /\ transfer' = [transfer EXCEPT ![r].state = s] /\ (k = "success" <=> s = "success")
        /\ notices' = notices \cup {[ref |-> r, kind |-> k]}
  BY DEF TransferSettles, TransferReversed
<1>2. /\ transfer[r].state \in {"open", "success"}
      /\ UNCHANGED <<row, processed, handler, job, retrier, hook>>
  BY DEF TransferSettles, TransferReversed
<1>3. /\ transfer'[r].state = s /\ \A x \in Refs \ {r} : transfer'[x] = transfer[x]
      /\ notices \subseteq [ref : Refs, kind : {"success", "failed"}]
  BY <1>1 DEF CashInv, TypeOK, Transfers
<1>4. PICK t \in Txs : t = TxOfRef(r)
  BY <1>2, RefHasJob
<1>5. \A x \in Refs : TxOfRef(x)' = TxOfRef(x)
  BY <1>2 DEF TxOfRef
<1>6. r \in LiveTransfers(t) /\ AtMostOne(Chances(t))
  BY <1>2, <1>4 DEF LiveTransfers, PayInv, OneChance
<1>7. /\ Sending(t) = {} /\ Retrying(t) = {} /\ LiveTransfers(t) = {r}
      /\ Bouncing(t) = {} /\ Failing(t) = {} /\ Retryable(t) = {}
  BY <1>6, OnlyChance
<1>8. ASSUME NEW u \in Txs
      PROVE  Sending(u)' = Sending(u) /\ Retrying(u)' = Retrying(u) /\ Failing(u)' = Failing(u)
             /\ Retryable(u)' = Retryable(u)
  <2>1. Sending(u)' = Sending(u) /\ Retrying(u)' = Retrying(u) /\ Failing(u)' = Failing(u)
    BY <1>2 DEF Sending, Retrying, Failing
  <2> QED BY <1>2, <2>1 DEF Retryable
<1>9. \A x \in Refs \ {r} : [ref |-> x, kind |-> "failed"] \in notices' => [ref |-> x, kind |-> "failed"] \in notices
  BY <1>1
<1>10. OneChance'
  <2> SUFFICES ASSUME NEW u \in Txs PROVE AtMostOne(Chances(u))'
    BY DEF OneChance
  <2>1. CASE u = t /\ s = "success"
    <3>1. LiveTransfers(t)' \subseteq {r}
      BY <1>3, <1>5, <1>7 DEF LiveTransfers
    <3>2. Bouncing(t)' = {}
      <4>1. \A x \in Refs : [ref |-> x, kind |-> "failed"] \in notices' => [ref |-> x, kind |-> "failed"] \in notices
        BY <1>1, <2>1
      <4> QED BY <1>5, <1>7, <4>1 DEF Bouncing
    <3> QED BY <1>7, <1>8, <2>1, <3>1, <3>2, ChanceIsOne
  <2>2. CASE u = t /\ s # "success"
    <3>1. LiveTransfers(t)' = {}
      BY <1>3, <1>5, <1>7, <2>2 DEF LiveTransfers
    <3>2. Bouncing(t)' \subseteq {r}
      BY <1>5, <1>7, <1>9 DEF Bouncing
    <3> QED BY <1>7, <1>8, <2>2, <3>1, <3>2, ChanceIsOne
  <2>3. CASE u # t
    <3>1. LiveTransfers(u)' \subseteq LiveTransfers(u)
      BY <1>3, <1>4, <1>5, <2>3 DEF LiveTransfers
    <3>2. Bouncing(u)' \subseteq Bouncing(u)
      BY <1>4, <1>5, <1>9, <2>3 DEF Bouncing
    <3>3. AtMostOne(Chances(u))
      BY DEF PayInv, OneChance
    <3> QED BY <1>8, <3>1, <3>2, <3>3, ChancesStay
  <2> QED BY <2>1, <2>2, <2>3
<1>11. OneBusy' /\ HandlersAreFirst' /\ JobsHaveEvents' /\ AbsentRows' /\ UpdatesHold'
  <2>1. \A u \in Txs : Started(u)' <=> Started(u)
    BY <1>2 DEF Started
  <2>2. OneBusy' /\ HandlersAreFirst' /\ JobsHaveEvents'
    BY <1>2, <2>1, HandlersRest
  <2> QED BY <1>2, <1>8, <2>1, <2>2 DEF PayInv, AbsentRows, UpdatesHold
<1>12. FailuresAreReal'
  <2> SUFFICES ASSUME NEW n \in notices', n.kind = "failed" PROVE transfer'[n.ref].state \in {"failed", "reversed"}
    BY DEF FailuresAreReal
  <2>1. CASE n \in notices
    <3>1. n.ref \in Refs /\ transfer[n.ref].state \in {"failed", "reversed"}
      BY <1>3, <2>1 DEF PayInv, FailuresAreReal
    <3> QED BY <1>2, <1>3, <3>1
  <2>2. CASE n = [ref |-> r, kind |-> k]
    BY <1>1, <1>3, <2>2
  <2> QED BY <1>1, <2>1, <2>2
<1> QED BY <1>10, <1>11, <1>12 DEF PayInv

\* A webhook takes up a notice, which is the chance that it now is.
LEMMA HookReadPays ==
    ASSUME CashInv, PayInv, Orderly, NEW h \in Hooks, NEW n \in notices, HookRead(h, n)
    PROVE  PayInv'
<1>1. /\ hook[h].pc = "idle" /\ notices' = notices \ {n}
      /\ UNCHANGED <<row, processed, handler, job, retrier, transfer>>
  BY NoFaults DEF HookRead, Answered
<1>2. n.ref \in Refs /\ n.kind \in {"success", "failed"} /\ n = [ref |-> n.ref, kind |-> n.kind]
  BY DEF CashInv, TypeOK
<1>3. ASSUME NEW u \in Txs
      PROVE  /\ Sending(u)' = Sending(u) /\ Retrying(u)' = Retrying(u) /\ LiveTransfers(u)' = LiveTransfers(u)
             /\ Bouncing(u)' \subseteq Bouncing(u) /\ Retryable(u)' = Retryable(u)
  <2>1. Sending(u)' = Sending(u) /\ Retrying(u)' = Retrying(u)
    BY <1>1 DEF Sending, Retrying
  <2>2. LiveTransfers(u)' = LiveTransfers(u) /\ Bouncing(u)' \subseteq Bouncing(u)
    BY <1>1 DEF LiveTransfers, Bouncing, TxOfRef
  <2> QED BY <1>1, <2>1, <2>2 DEF Retryable
<1>4. OneBusy' /\ HandlersAreFirst' /\ JobsHaveEvents' /\ \A u \in Txs : ~Started(u)' => row'[u].status = "ABSENT"
  <2>1. \A u \in Txs : Started(u)' <=> Started(u)
    BY <1>1 DEF Started
  <2> QED BY <1>1, <2>1, HandlersRest
<1>5. UpdatesHold' /\ FailuresAreReal'
  BY <1>1 DEF PayInv, UpdatesHold, FailuresAreReal
<1>6. CASE UNCHANGED hook
  <2>1. ASSUME NEW u \in Txs PROVE AtMostOne(Chances(u))'
    <3>1. Failing(u)' = Failing(u) /\ AtMostOne(Chances(u))
      BY <1>6 DEF Failing, PayInv, OneChance
    <3> QED BY <1>3, <3>1, ChancesStay
  <2>2. AbsentRows'
    BY <1>1, <1>3, <1>4, <1>6 DEF PayInv, AbsentRows
  <2> QED BY <1>4, <1>5, <2>1, <2>2 DEF PayInv, OneChance
<1>7. CASE \E t \in Concerned(n) :
             hook' = [hook EXCEPT ![h] = [pc |-> "save", tx |-> t, ent |-> row[t], kind |-> n.kind]]
  <2>1. PICK t \in Concerned(n) :
          hook' = [hook EXCEPT ![h] = [pc |-> "save", tx |-> t, ent |-> row[t], kind |-> n.kind]]
    BY <1>7
  <2>2. t \in Txs /\ row[t].ref = n.ref
    BY DEF Concerned
  <2>3. n.ref # None
    BY <1>2, NoneAssumption
  <2>4. TxOfRef(n.ref) = t /\ row[t].status # "ABSENT"
    BY <2>2, <2>3 DEF CashInv, RowsOK, RowOK, PayInv, AbsentRows, NoRow
  <2>5. /\ hook'[h].pc = "save" /\ hook'[h].tx = t /\ hook'[h].kind = n.kind
        /\ \A g \in Hooks \ {h} : hook'[g] = hook[g]
    BY <2>1 DEF CashInv, TypeOK
  <2>6. ASSUME NEW u \in Txs PROVE AtMostOne(Chances(u))'
    <3>1. AtMostOne(Chances(u))
      BY DEF PayInv, OneChance
    <3>2. CASE u = t /\ n.kind = "failed"
      <4>1. n.ref \in Bouncing(t)
        BY <1>2, <2>4, <3>2 DEF Bouncing
      <4>2. /\ Sending(t) = {} /\ Retrying(t) = {} /\ LiveTransfers(t) = {}
            /\ Bouncing(t) = {n.ref} /\ Failing(t) = {} /\ Retryable(t) = {}
        BY <3>1, <3>2, <4>1, OnlyChance
      <4>3. Bouncing(t)' = {}
        <5>1. n.ref \notin Bouncing(t)'
          BY <1>1, <1>2, <3>2 DEF Bouncing
        <5> QED BY <1>3, <2>2, <4>2, <5>1
      <4>4. Failing(t)' \subseteq {h}
        BY <2>5, <4>2 DEF Failing
      <4>5. Sending(t)' = {} /\ Retrying(t)' = {} /\ LiveTransfers(t)' = {} /\ Retryable(t)' = {}
        BY <1>3, <2>2, <4>2
      <4> QED BY <3>2, <4>3, <4>4, <4>5, ChanceIsOne
    <3>3. CASE ~(u = t /\ n.kind = "failed")
      <4>1. Failing(u)' \subseteq Failing(u)
        BY <2>5, <3>3 DEF Failing
      <4> QED BY <1>3, <3>1, <4>1, ChancesStay
    <3> QED BY <3>2, <3>3
  <2>7. AbsentRows'
    <3>1. ASSUME NEW u \in Txs, row[u].status = "ABSENT", NEW g \in Hooks, hook'[g].pc = "save" PROVE hook'[g].tx # u
      <4>1. u # t
        BY <2>4, <3>1
      <4>2. hook[g].pc = "save" => hook[g].tx # u
        BY <3>1 DEF PayInv, AbsentRows
      <4> QED BY <2>5, <3>1, <4>1, <4>2
    <3> QED BY <1>1, <1>3, <1>4, <3>1 DEF PayInv, AbsentRows
  <2> QED BY <1>4, <1>5, <2>6, <2>7 DEF PayInv, OneChance
<1> QED BY <1>6, <1>7 DEF HookRead

\* A failure that is saved leaves the row to the retries.
LEMMA HookSavePays ==
    ASSUME CashInv, PayInv, Orderly, NEW h \in Hooks, HookSave(h)
    PROVE  PayInv'
<1>1. /\ hook[h].pc = "save" /\ UNCHANGED <<processed, handler, job, retrier, transfer, notices>>
      /\ hook' = [hook EXCEPT ![h] = IdleHook]
  BY NoFaults DEF HookSave
<1>2. /\ hook'[h].pc = "idle" /\ \A g \in Hooks \ {h} : hook'[g] = hook[g]
      /\ hook[h].ent \in Rows
  BY <1>1 DEF CashInv, TypeOK, IdleHook, HookCalls
<1>3. PICK t \in Txs, k \in {"success", "failed"} : t = hook[h].tx /\ k = hook[h].kind
  BY <1>1 DEF CashInv, HooksOK, HookOK
<1>4. PICK retryable \in BOOLEAN : row' = [row EXCEPT ![t] = HookRow(h, retryable)]
  BY <1>3 DEF HookSave
<1>5. row'[t].status = StatusFor(k) /\ \A u \in Txs \ {t} : row'[u] = row[u]
  BY <1>2, <1>3, <1>4 DEF CashInv, TypeOK, HookRow, Rows
<1>6. row[t].status # "ABSENT"
  BY <1>1, <1>3 DEF PayInv, AbsentRows
<1>7. ASSUME NEW u \in Txs
      PROVE  /\ Sending(u)' = Sending(u) /\ Retrying(u)' = Retrying(u) /\ LiveTransfers(u)' = LiveTransfers(u)
             /\ Bouncing(u)' = Bouncing(u) /\ Failing(u)' = Failing(u) \ {h}
             /\ AtMostOne(Chances(u))
  <2>1. Sending(u)' = Sending(u) /\ Retrying(u)' = Retrying(u)
    BY <1>1 DEF Sending, Retrying
  <2>2. LiveTransfers(u)' = LiveTransfers(u) /\ Bouncing(u)' = Bouncing(u)
    BY <1>1 DEF LiveTransfers, Bouncing, TxOfRef
  <2>3. Failing(u)' = Failing(u) \ {h}
    BY <1>2 DEF Failing
  <2> QED BY <2>1, <2>2, <2>3 DEF PayInv, OneChance
<1>8. k = "failed" => /\ Sending(t) = {} /\ Retrying(t) = {} /\ LiveTransfers(t) = {}
                      /\ Bouncing(t) = {} /\ Failing(t) = {h}
  <2>1. k = "failed" => h \in Failing(t)
    BY <1>1, <1>3 DEF Failing
  <2> QED BY <1>7, <2>1, OnlyChance
<1>9. OneChance'
  <2> SUFFICES ASSUME NEW u \in Txs PROVE AtMostOne(Chances(u))'
    BY DEF OneChance
  <2>1. CASE u = t /\ k = "failed"
    <3>1. Retryable(t)' \subseteq {t}
      BY DEF Retryable
    <3>2. /\ Sending(t)' = {} /\ Retrying(t)' = {} /\ LiveTransfers(t)' = {}
          /\ Bouncing(t)' = {} /\ Failing(t)' = {}
      BY <1>7, <1>8, <2>1
    <3> QED BY <2>1, <3>1, <3>2, ChanceIsOne
  <2>2. CASE ~(u = t /\ k = "failed")
    <3>1. row'[u] = row[u] \/ row'[u].status # "FAILED"
      BY <1>3, <1>5, <2>2 DEF StatusFor
    <3>2. Retryable(u)' \subseteq Retryable(u)
      BY <1>7, <3>1 DEF Retryable
    <3> QED BY <1>7, <3>2, ChancesStay
  <2> QED BY <2>1, <2>2
<1>10. \A u \in Txs : row'[u].status = "ABSENT" <=> row[u].status = "ABSENT"
  BY <1>3, <1>5, <1>6 DEF StatusFor
<1>11. OneBusy' /\ HandlersAreFirst' /\ JobsHaveEvents' /\ \A u \in Txs : ~Started(u)' => row'[u].status = "ABSENT"
  <2>1. \A u \in Txs : Started(u)' <=> Started(u)
    BY <1>1 DEF Started
  <2> QED BY <1>1, <1>10, <2>1, HandlersRest
<1>12. AbsentRows'
  <2>1. ASSUME NEW u \in Txs, row'[u].status = "ABSENT"
        PROVE  row'[u] = row[u] /\ \A g \in Hooks : hook'[g].pc = "save" => hook'[g] = hook[g]
    BY <1>2, <1>5, <1>6, <1>10, <2>1
  <2> QED BY <1>1, <1>7, <1>11, <2>1 DEF PayInv, AbsentRows
<1>13. UpdatesHold'
  <2> SUFFICES ASSUME NEW q \in Retriers, retrier[q].pc = "enqueue" PROVE row'[retrier[q].tx].status # "FAILED"
    BY <1>1 DEF UpdatesHold
  <2>1. retrier[q].tx \in Txs /\ row[retrier[q].tx].status # "FAILED"
    BY DEF CashInv, RetriersOK, PayInv, UpdatesHold
  <2>2. CASE retrier[q].tx = t /\ k = "failed"
    <3>1. q \in Retrying(t)
      BY <2>2 DEF Retrying
    <3> QED BY <1>8, <2>2, <3>1
  <2>3. CASE ~(retrier[q].tx = t /\ k = "failed")
    BY <1>3, <1>5, <2>1, <2>3 DEF StatusFor
  <2> QED BY <2>2, <2>3
<1>14. FailuresAreReal'
  BY <1>1 DEF PayInv, FailuresAreReal
<1> QED BY <1>9, <1>11, <1>12, <1>13, <1>14 DEF PayInv

-----------------------------------------------------------------------------
(* One payment. *)

\* There is no chance before the first event.
LEMMA InitPays == Init => PayInv
<1> SUFFICES ASSUME Init PROVE PayInv
  OBVIOUS
<1>1. /\ \A j \in Jobs : job[j].pc = "none" /\ job[j].tx = None
      /\ \A r \in Refs : transfer[r].state = "none"
      /\ \A q \in Retriers : retrier[q].pc = "idle"
      /\ \A d \in Deliveries : handler[d].pc = "new"
      /\ \A h \in Hooks : hook[h].pc = "idle"
      /\ \A t \in Txs : row[t] = NoRow /\ row[t].status = "ABSENT"
      /\ notices = {}
  BY DEF Init, IdleJob, NoTransfer, IdleRetrier, IdleHandler, IdleHook, NoRow
<1>2. ASSUME NEW t \in Txs PROVE AtMostOne(Chances(t))
  <2>1. Sending(t) = {} /\ Retrying(t) = {} /\ LiveTransfers(t) = {} /\ Bouncing(t) = {} /\ Failing(t) = {}
    BY <1>1 DEF Sending, Retrying, LiveTransfers, Bouncing, Failing
  <2>2. Retryable(t) = {}
    BY <1>1 DEF Retryable
  <2>3. PICK P : P = Chances(t)
    OBVIOUS
  <2>4. P[1] = {} /\ P[2] = {} /\ P[3] = {} /\ P[4] = {} /\ P[5] = {} /\ P[6] = {}
    BY <2>1, <2>2, <2>3 DEF Chances
  <2>5. 1..6 = {1, 2, 3, 4, 5, 6}
    OBVIOUS
  <2>6. \A a \in 1..6 : P[a] = {}
    BY <2>4, <2>5
  <2>7. AtMostOne(P)
    BY <2>6 DEF AtMostOne
  <2> QED BY <2>3, <2>7
<1>3. \A t \in Txs : Retrying(t) = {}
  BY <1>1 DEF Retrying
<1>4. OneBusy /\ HandlersAreFirst /\ UpdatesHold /\ FailuresAreReal
  BY <1>1 DEF OneBusy, Busy, HandlersAreFirst, UpdatesHold, FailuresAreReal
<1>5. JobsHaveEvents /\ AbsentRows
  BY <1>1, <1>3, NoneAssumption DEF JobsHaveEvents, AbsentRows
<1> QED BY <1>2, <1>4, <1>5 DEF PayInv, OneChance

\* Every action keeps transactions at one chance.
LEMMA NextPays ==
    ASSUME CashInv, PayInv, Orderly, Next
    PROVE  PayInv'
<1>1. CASE \E d \in Deliveries : HandlerStep(d) \/ HandlerRollback(d)
  <2>1. PICK d \in Deliveries : HandlerStep(d) \/ HandlerRollback(d)
    BY <1>1
  <2>2. HandlerStep(d)
    BY <2>1, NoFaults DEF HandlerRollback
  <2> QED BY <2>2, HandlerCheckPays, HandlerReadPays, HandlerSavePays, HandlerCommitPays DEF HandlerStep
<1>2. CASE \E j \in Jobs : JobStep(j) \/ JobCrash(j) \/ JobQueryFails(j)
  <2>1. PICK j \in Jobs : JobStep(j) \/ JobCrash(j) \/ JobQueryFails(j)
    BY <1>2
  <2>2. JobStep(j)
    BY <2>1, NoFaults DEF JobCrash, JobQueryFails
  <2> QED BY <2>2, JobStartPays, JobClaimPays, JobAccountPays, JobSendPays, JobSavePays, JobCatchPays DEF JobStep
<1>3. CASE \E q \in Scanners, t \in Txs : ScanPick(q, t)
  <2>1. PICK q \in Retriers, t \in Txs : ScanPick(q, t)
    BY <1>3 DEF Retriers
  <2>2. PICK c : c = [IdleRetrier EXCEPT !.pc = "check", !.tx = t, !.details = account[UserOf[t]].details]
    OBVIOUS
  <2>3. /\ retrier[q].pc = "idle" /\ row[t].status = "FAILED" /\ retrier' = [retrier EXCEPT ![q] = c]
        /\ UNCHANGED <<row, processed, handler, job, hook, transfer, notices>>
    BY <2>1, <2>2 DEF ScanPick, Eligible
  <2>4. c.pc \in {"override", "check"} /\ c.tx = t
    BY <2>2 DEF IdleRetrier
  <2> QED BY <2>3, <2>4, PickPays
<1>4. CASE \E q \in Admins, t \in Txs, d \in NewDetails \cup {None} : ManualPick(q, t, d)
  <2>1. PICK q \in Retriers, t \in Txs, d \in NewDetails \cup {None} : ManualPick(q, t, d)
    BY <1>4 DEF Retriers
  <2>2. PICK c : c = IF d # None
                     THEN [pc |-> "override", tx |-> t, details |-> d,
                           found |-> HasAccount(UserOf[t]), recipient |-> account[UserOf[t]].recipient]
                     ELSE [IdleRetrier EXCEPT !.pc = "check", !.tx = t, !.details = account[UserOf[t]].details]
    OBVIOUS
  <2>3. /\ retrier[q].pc = "idle" /\ row[t].status = "FAILED" /\ retrier' = [retrier EXCEPT ![q] = c]
        /\ UNCHANGED <<row, processed, handler, job, hook, transfer, notices>>
    BY <2>1, <2>2 DEF ManualPick
  <2>4. c.pc \in {"override", "check"} /\ c.tx = t
    BY <2>2 DEF IdleRetrier
  <2> QED BY <2>3, <2>4, PickPays
<1>5. CASE \E q \in Retriers : RetryStep(q) \/ RetryCrash(q)
  <2>1. PICK q \in Retriers : RetryStep(q) \/ RetryCrash(q)
    BY <1>5
  <2>2. RetryStep(q)
    BY <2>1, NoFaults DEF RetryCrash
  <2> QED BY <2>2, RetryPays, RetryEnqueuePays DEF RetryStep
<1>6. CASE \E r \in Refs : TransferReversed(r) \/ \E kind \in {"success", "failed"} : TransferSettles(r, kind)
  <2>1. PICK r \in Refs, kind \in {"success", "failed"} : TransferReversed(r) \/ TransferSettles(r, kind)
    BY <1>6
  <2> QED BY <2>1, PaystackPays
<1>7. CASE \E h \in Hooks : HookSave(h) \/ HookFails(h) \/ \E n \in notices : HookRead(h, n)
  <2>1. PICK h \in Hooks : HookSave(h) \/ HookFails(h) \/ \E n \in notices : HookRead(h, n)
    BY <1>7
  <2>2. HookSave(h) \/ \E n \in notices : HookRead(h, n)
    BY <2>1, NoFaults DEF HookFails
  <2> QED BY <2>2, HookSavePays, HookReadPays
<1> QED BY <1>1, <1>2, <1>3, <1>4, <1>5, <1>6, <1>7 DEF Next

\* In an orderly environment every transaction has at most one chance of being paid.
THEOREM PayInvariant ==
    ASSUME Orderly
    PROVE  Spec => []PayInv
<1>1. CashInv /\ PayInv /\ [Next /\ UNCHANGED provider]_<<vars, provider>> => PayInv'
  <2> SUFFICES ASSUME CashInv, PayInv, [Next /\ UNCHANGED provider]_<<vars, provider>> PROVE PayInv'
    OBVIOUS
  <2>1. CASE Next
    BY <2>1, NextPays
  <2>2. CASE UNCHANGED <<vars, provider>>
    <3>1. UNCHANGED <<row, job, retrier, hook, transfer, notices, handler, processed>>
      BY <2>2 DEF vars
    <3>2. OneChance' /\ AbsentRows' /\ UpdatesHold' /\ FailuresAreReal'
      BY <3>1, LooksPay
    <3>3. \A t \in Txs : Started(t)' <=> Started(t)
      BY <3>1 DEF Started
    <3>4. OneBusy' /\ HandlersAreFirst' /\ JobsHaveEvents'
      BY <3>1, <3>3, HandlersRest
    <3> QED BY <3>2, <3>4 DEF PayInv
  <2> QED BY <2>1, <2>2
<1> QED BY <1>1, InitPays, CashInvariant, PTL DEF Spec

\* The user is paid at most once for a badge, whatever the order of commits, jobs, webhooks (which may
\* overtake the answer of the call), reversals and retries by the scanner or an administrator: at most
\* one transfer of a transaction is open or has gone through.  Overlapping deliveries, repeated
\* webhooks, failures, two retries at a time or two events of one badge are excluded: with each of them
\* the code can pay twice.
THEOREM BadgeIsPaidOnce ==
    ASSUME Orderly
    PROVE  Spec => []PaidAtMostOnce
<1>1. CashInv /\ PayInv => PaidAtMostOnce
  <2> SUFFICES ASSUME PayInv, NEW t \in Txs PROVE Cardinality(LiveTransfers(t)) <= 1
    BY DEF PaidAtMostOnce
  <2>1. CASE LiveTransfers(t) = {}
    BY <2>1, FS_EmptySet
  <2>2. CASE LiveTransfers(t) # {}
    <3>1. PICK r : r \in LiveTransfers(t)
      BY <2>2
    <3>2. AtMostOne(Chances(t))
      BY DEF PayInv, OneChance
    <3>3. LiveTransfers(t) = {r}
      BY <3>1, <3>2, OnlyChance
    <3> QED BY <3>3, FS_Singleton, SMTT(30)
  <2> QED BY <2>1, <2>2
<1> QED BY <1>1, PayInvariant, CashInvariant, PTL

\* A transaction that is shown as FAILED has no transfer that may still pay and no job that may still send.
FailedIsUnpaid ==
    \A t \in Txs : row[t].status = "FAILED" => LiveTransfers(t) = {} /\ Sending(t) = {} /\ Failing(t) = {}

\* What the conditional update of retryPayment relies on: under the same conditions a FAILED row
\* has no money on its way and nobody who is about to send some or to save another failure, so that
\* retrying it starts the only payment there is.
THEOREM RetryingIsSafe ==
    ASSUME Orderly
    PROVE  Spec => []FailedIsUnpaid
<1>1. PayInv => FailedIsUnpaid
  <2> SUFFICES ASSUME PayInv, NEW t \in Txs, row[t].status = "FAILED"
               PROVE  LiveTransfers(t) = {} /\ Sending(t) = {} /\ Failing(t) = {}
    BY DEF FailedIsUnpaid
  <2>1. AtMostOne(Chances(t))
    BY DEF PayInv, OneChance
  <2>2. CASE Retrying(t) = {}
    <3>1. t \in Retryable(t)
      BY <2>2 DEF Retryable
    <3> QED BY <2>1, <3>1, OnlyChance
  <2>3. CASE Retrying(t) # {}
    <3>1. PICK q : q \in Retrying(t)
      BY <2>3
    <3> QED BY <2>1, <3>1, OnlyChance
  <2> QED BY <2>2, <2>3
<1> QED BY <1>1, PayInvariant, PTL

-----------------------------------------------------------------------------
(* Success is kept. *)

\* Results that are not touched stay as good as they were.
LEMMA SavesStay ==
    ASSUME SavesInTime, NoResults, UNCHANGED <<transfer, provider>>
    PROVE  SavesInTime'
BY DEF SavesInTime, NoResults

\* The call returns when the transfer is open, or done if it is the mock's.
LEMMA SendSaves ==
    ASSUME CashInv, SavesInTime, NEW j \in Jobs, JobSend(j), UNCHANGED provider
    PROVE  SavesInTime'
<1>1. /\ job[j].pc = "send" /\ Working(j) /\ job \in [Jobs -> JobCalls] /\ transfer \in [Refs -> Transfers]
  BY DEF JobSend, Working, CashInv, TypeOK
<1>2. PICK r \in Refs : r = <<j, job[j].run>> /\ r = job[j].ent.ref
  BY <1>1, WorkingJob
<1>3. \A s \in Refs : s # r => transfer'[s] = transfer[s]
  BY <1>1, <1>2 DEF JobSend, Accept
<1>4. ASSUME NEW i \in Jobs, i # j, job'[i].pc = "save"
      PROVE  transfer'[<<i, job'[i].run>>].state \in (IF provider = "mock" THEN {"success", "reversed"} ELSE {"open"})
  <2>1. job'[i] = job[i] /\ job[i].pc = "save" /\ Working(i)
    BY <1>1, <1>4 DEF JobSend, Fails, Working
  <2>2. PICK s \in Refs : s = <<i, job[i].run>>
    BY <2>1, WorkingJob
  <2>3. s # r
    BY <1>2, <1>4, <2>2
  <2> QED BY <1>3, <2>1, <2>2, <2>3 DEF SavesInTime
<1>5. ASSUME job'[j].pc = "save"
      PROVE  transfer'[<<j, job'[j].run>>].state \in (IF provider = "mock" THEN {"success", "reversed"} ELSE {"open"})
  <2>1. \A retryable \in BOOLEAN : ~Fails(j, retryable)
    BY <1>1, <1>5 DEF Fails, JobCalls
  <2>2. Accept(j) /\ job' = [job EXCEPT ![j].pc = "save", ![j].recipient = Destination(j)]
    BY <2>1 DEF JobSend
  <2>3. job'[j].run = job[j].run
    BY <1>1, <2>2 DEF JobCalls
  <2>4. PICK c : /\ c = [state |-> IF provider = "mock" THEN "success" ELSE "open", dest |-> Destination(j)]
                 /\ transfer' = [transfer EXCEPT ![r] = c]
    BY <1>2, <2>2 DEF Accept
  <2>5. transfer'[r].state = IF provider = "mock" THEN "success" ELSE "open"
    BY <1>1, <2>4
  <2> QED BY <1>2, <2>3, <2>5
<1> QED BY <1>4, <1>5 DEF SavesInTime

\* No webhook is early: a transfer settles after the result of its call is saved.
LEMMA PaystackSaves ==
    ASSUME CashInv, SavesInTime, "earlyWebhook" \notin Hazards, NEW r \in Refs, NEW kind \in {"success", "failed"},
           TransferSettles(r, kind) \/ TransferReversed(r), UNCHANGED provider
    PROVE  SavesInTime'
<1>1. /\ UNCHANGED job /\ transfer \in [Refs -> Transfers]
      /\ \A s \in Refs : s # r => transfer'[s] = transfer[s]
  BY DEF TransferSettles, TransferReversed, CashInv, TypeOK
<1>2. ASSUME NEW j \in Jobs, job[j].pc = "save"
      PROVE  transfer'[<<j, job[j].run>>].state \in (IF provider = "mock" THEN {"success", "reversed"} ELSE {"open"})
  <2>1. Working(j)
    BY <1>2 DEF Working
  <2>2. PICK s \in Refs : s = <<j, job[j].run>> /\ s = job[j].ent.ref
    BY <2>1, WorkingJob
  <2>3. transfer[s].state \in (IF provider = "mock" THEN {"success", "reversed"} ELSE {"open"})
    BY <1>2, <2>2 DEF SavesInTime
  <2>4. CASE s # r
    BY <1>1, <2>2, <2>3, <2>4
  <2>5. CASE s = r
    <3>1. TransferReversed(r)
      BY <1>2, <2>2, <2>5 DEF TransferSettles
    <3>2. transfer[r].state = "success" /\ transfer'[r].state = "reversed"
      BY <1>1, <3>1 DEF TransferReversed, Transfers
    <3> QED BY <2>2, <2>3, <2>5, <3>2
  <2> QED BY <2>4, <2>5
<1> QED BY <1>1, <1>2 DEF SavesInTime

\* Every action keeps it.
LEMMA NextSaves ==
    ASSUME CashInv, SavesInTime, "earlyWebhook" \notin Hazards, Next, UNCHANGED provider
    PROVE  SavesInTime'
<1>1. CASE \/ \E d \in Deliveries : HandlerStep(d) \/ HandlerRollback(d)
           \/ \E q \in Retriers : RetryStep(q) \/ RetryCrash(q)
  BY <1>1, OthersSendNothing, SavesStay
<1>2. CASE \E j \in Jobs : JobStep(j) \/ JobCrash(j) \/ JobQueryFails(j)
  <2>1. PICK j \in Jobs : JobStep(j) \/ JobCrash(j) \/ JobQueryFails(j)
    BY <1>2
  <2>2. CASE JobSend(j)
    BY <2>2, SendSaves
  <2>3. CASE JobSave(j)
    <3>1. UNCHANGED transfer /\ job \in [Jobs -> JobCalls] /\ TypeOK
      BY <2>3 DEF JobSave, CashInv, TypeOK
    <3>2. EndJob(j).pc = "done"
      BY <3>1, EndJobFields
    <3>3. job'[j].pc # "save" /\ \A i \in Jobs \ {j} : job'[i] = job[i]
      BY <2>3, <3>1, <3>2 DEF JobSave, AfterAccepted, Fails, JobCalls
    <3>4. NoResults
      BY <3>3 DEF NoResults
    <3> QED BY <3>1, <3>4, SavesStay
  <2>4. CASE OtherJobStep(j)
    BY <2>4, OthersSendNothing, SavesStay
  <2> QED BY <2>1, <2>2, <2>3, <2>4 DEF JobStep, OtherJobStep
<1>3. CASE \E q \in Scanners, t \in Txs : ScanPick(q, t)
  <2>1. PICK q \in Retriers, t \in Txs, d \in NewDetails \cup {None} : ScanPick(q, t)
    BY <1>3 DEF Retriers
  <2> QED BY <2>1, OthersSendNothing, SavesStay
<1>4. CASE \E q \in Admins, t \in Txs, d \in NewDetails \cup {None} : ManualPick(q, t, d)
  <2>1. PICK q \in Retriers, t \in Txs, d \in NewDetails \cup {None} : ManualPick(q, t, d)
    BY <1>4 DEF Retriers
  <2> QED BY <2>1, OthersSendNothing, SavesStay
<1>5. CASE \E r \in Refs : TransferReversed(r) \/ \E kind \in {"success", "failed"} : TransferSettles(r, kind)
  <2>1. PICK r \in Refs, kind \in {"success", "failed"} : TransferReversed(r) \/ TransferSettles(r, kind)
    BY <1>5
  <2> QED BY <2>1, PaystackSaves
<1>6. CASE \E h \in Hooks : HookSave(h) \/ HookFails(h) \/ \E n \in notices : HookRead(h, n)
  <2>1. UNCHANGED <<job, transfer>>
    BY <1>6 DEF HookSave, HookFails, HookRead
  <2>2. NoResults
    BY <2>1 DEF NoResults
  <2> QED BY <2>1, <2>2, SavesStay
<1> QED BY <1>1, <1>2, <1>3, <1>4, <1>5, <1>6 DEF Next

\* Without early webhooks, a transfer settles after the result of its call is saved.
LEMMA ResultsAreSavedInTime ==
    ASSUME "earlyWebhook" \notin Hazards
    PROVE  Spec => []SavesInTime
<1>1. Init => SavesInTime
  BY DEF Init, SavesInTime, IdleJob
<1>2. CashInv /\ SavesInTime /\ [Next /\ UNCHANGED provider]_<<vars, provider>> => SavesInTime'
  <2> SUFFICES ASSUME CashInv, SavesInTime, [Next /\ UNCHANGED provider]_<<vars, provider>> PROVE SavesInTime'
    OBVIOUS
  <2>1. CASE Next /\ UNCHANGED provider
    BY <2>1, NextSaves
  <2>2. CASE UNCHANGED <<vars, provider>>
    <3>1. UNCHANGED <<transfer, provider, job>>
      BY <2>2 DEF vars
    <3>2. NoResults
      BY <3>1 DEF NoResults
    <3> QED BY <3>1, <3>2, SavesStay
  <2> QED BY <2>1, <2>2
<1> QED BY <1>1, <1>2, CashInvariant, PTL DEF Spec

\* A paid transfer that is not sent back leaves nobody to take its row away.
LEMMA SuccessHolds ==
    ASSUME CashInv, PayInv, Orderly, SavesInTime, Next, NEW t \in Txs, row[t].status = "SUCCESSFUL",
           \A r \in Refs : TxOfRef(r) = t => transfer[r].state # "reversed"
    PROVE  row'[t].status = "SUCCESSFUL"
<1>1. PICK r \in Refs : TxOfRef(r) = t /\ transfer[r].state = "success"
  BY DEF CashInv, RowsOK, RowOK, Paid, PaidRef
<1>2. Sending(t) = {} /\ Retrying(t) = {} /\ LiveTransfers(t) = {r} /\ Failing(t) = {}
  <2>1. r \in LiveTransfers(t) /\ AtMostOne(Chances(t))
    BY <1>1 DEF LiveTransfers, PayInv, OneChance
  <2> QED BY <2>1, OnlyChance
<1>3. row \in [Txs -> Rows]
  BY DEF CashInv, TypeOK
<1>4. CASE \E d \in Deliveries : HandlerStep(d) \/ HandlerRollback(d)
  <2>1. PICK d \in Deliveries : HandlerStep(d) \/ HandlerRollback(d)
    BY <1>4
  <2>2. PICK s \in Txs : s = TxOf[EventOf[d]]
    BY EventAssumption
  <2>3. CASE HandlerSave(d)
    <3>1. UNCHANGED row
      BY <2>3 DEF HandlerSave, PayInv, HandlersAreFirst
    <3> QED BY <3>1
  <2>4. CASE HandlerCommit(d)
    <3>1. s # t
      BY <2>2, <2>4 DEF HandlerCommit, PayInv, HandlersAreFirst
    <3>2. row'[t] = row[t]
      BY <1>3, <2>2, <2>4, <3>1 DEF HandlerCommit
    <3> QED BY <3>2
  <2>5. CASE HandlerCheck(d) \/ HandlerRead(d) \/ HandlerRollback(d)
    BY <2>5 DEF HandlerCheck, HandlerRead, HandlerRollback
  <2> QED BY <2>1, <2>3, <2>4, <2>5 DEF HandlerStep
<1>5. CASE \E j \in Jobs : JobStep(j) \/ JobCrash(j) \/ JobQueryFails(j)
  <2>1. PICK j \in Jobs : JobStep(j) \/ JobCrash(j) \/ JobQueryFails(j)
    BY <1>5
  <2>2. CASE job[j].tx # t
    BY <1>3, <2>1, <2>2 DEF JobStep, JobStart, JobClaim, JobAccount, JobUpsert, JobSend, JobSave, JobPublish, JobCatch, JobCrash,
                               JobQueryFails
  <2>3. CASE job[j].tx = t
    <3>1. job[j].pc \notin {"claim", "catch"}
      BY <1>2, <2>3 DEF Sending
    <3>2. CASE JobSave(j)
      <4>1. job[j].pc = "save" /\ job[j].ent \in Rows /\ Working(j)
        BY <3>2 DEF JobSave, CashInv, TypeOK, JobCalls, Working
      <4>2. PICK s \in Refs : s = <<j, job[j].run>>
        BY <4>1, WorkingJob
      <4>3. TxOfRef(s) = t
        BY <2>3, <4>2 DEF TxOfRef
      <4>4. provider = "mock"
        <5>1. provider # "mock" => transfer[s].state = "open"
          BY <4>1, <4>2 DEF SavesInTime
        <5>2. transfer[s].state = "open" => s \in LiveTransfers(t)
          BY <4>3 DEF LiveTransfers
        <5> QED BY <1>1, <1>2, <5>1, <5>2
      <4>5. row' = [row EXCEPT ![t] = [job[j].ent EXCEPT !.status = "SUCCESSFUL", !.retryable = None]]
        BY <2>3, <3>2, <4>4, NoFaults DEF JobSave, ResultStatus
      <4> QED BY <1>3, <4>1, <4>5 DEF Rows
    <3>3. CASE ~JobSave(j)
      <4>1. UNCHANGED row
        BY <2>1, <3>1, <3>3 DEF JobStep, JobStart, JobClaim, JobAccount, JobUpsert, JobSend, JobPublish, JobCatch, JobCrash,
                                     JobQueryFails
      <4> QED BY <4>1
    <3> QED BY <3>2, <3>3
  <2> QED BY <2>2, <2>3
<1>6. CASE \/ \E q \in Scanners, u \in Txs : ScanPick(q, u)
           \/ \E q \in Admins, u \in Txs, d \in NewDetails \cup {None} : ManualPick(q, u, d)
           \/ \E s \in Refs : TransferReversed(s) \/ \E kind \in {"success", "failed"} : TransferSettles(s, kind)
  BY <1>6 DEF ScanPick, ManualPick, TransferReversed, TransferSettles
<1>7. CASE \E q \in Retriers : RetryStep(q) \/ RetryCrash(q)
  <2>1. PICK q \in Retriers : RetryStep(q) \/ RetryCrash(q)
    BY <1>7
  <2>2. retrier[q].pc # "idle"
    BY <2>1 DEF RetryStep, ManualOverride, ManualReset, RetryCheck, RetryUpdate, RetryEnqueue, RetryCrash
  <2>3. retrier[q].tx # t
    BY <1>2, <2>2 DEF Retrying
  <2>4. row'[t] = row[t]
    BY <1>3, <2>1, <2>3 DEF RetryStep, ManualOverride, ManualReset, RetryCheck, RetryUpdate, RetryEnqueue, RetryCrash
  <2> QED BY <2>4
<1>8. CASE \E h \in Hooks : HookSave(h) \/ HookFails(h) \/ \E n \in notices : HookRead(h, n)
  <2>1. PICK h \in Hooks : HookSave(h) \/ HookFails(h) \/ \E n \in notices : HookRead(h, n)
    BY <1>8
  <2>2. CASE HookSave(h)
    <3>1. hook[h].pc = "save" /\ hook[h].ent \in Rows /\ hook[h].kind \in {"success", "failed"}
      BY <2>2 DEF HookSave, CashInv, TypeOK, HookCalls, HooksOK, HookOK
    <3>2. PICK retryable \in BOOLEAN : row' = [row EXCEPT ![hook[h].tx] = HookRow(h, retryable)]
      BY <2>2 DEF HookSave
    <3>3. CASE hook[h].tx # t
      BY <1>3, <3>2, <3>3
    <3>4. CASE hook[h].tx = t
      <4>1. hook[h].kind = "success"
        BY <1>2, <3>1, <3>4 DEF Failing
      <4>2. HookRow(h, retryable).status = "SUCCESSFUL"
        BY <3>1, <4>1 DEF HookRow, StatusFor, Rows
      <4> QED BY <1>3, <3>2, <3>4, <4>2
    <3> QED BY <3>3, <3>4
  <2>3. CASE HookFails(h) \/ \E n \in notices : HookRead(h, n)
    BY <2>3 DEF HookFails, HookRead
  <2> QED BY <2>1, <2>2, <2>3
<1> QED BY <1>4, <1>5, <1>6, <1>7, <1>8 DEF Next

\* A SUCCESSFUL row stays SUCCESSFUL unless the bank sends the money back: when webhooks wait for the
\* answer of the call, no late save of processPayment, webhook or retry undoes it.
THEOREM SuccessIsFinal ==
    ASSUME Orderly, "earlyWebhook" \notin Hazards
    PROVE  Spec => SuccessIsKept
<1> DEFINE Kept == \A t \in Txs : row[t].status = "SUCCESSFUL" /\ row'[t].status # "SUCCESSFUL" =>
                     \E r \in Refs : TxOfRef(r) = t /\ transfer[r].state = "reversed"
<1>1. CashInv /\ PayInv /\ SavesInTime /\ [Next /\ UNCHANGED provider]_<<vars, provider>> => [Kept]_vars
  <2> SUFFICES ASSUME CashInv, PayInv, SavesInTime, [Next /\ UNCHANGED provider]_<<vars, provider>> PROVE [Kept]_vars
    OBVIOUS
  <2>1. CASE Next
    BY <2>1, SuccessHolds
  <2>2. CASE UNCHANGED <<vars, provider>>
    BY <2>2
  <2> QED BY <2>1, <2>2
<1> QED BY <1>1, ResultsAreSavedInTime, PayInvariant, CashInvariant, PTL DEF Spec, SuccessIsKept

-----------------------------------------------------------------------------
(* Webhooks find their row. *)

\* No job claims its row or starts over, and jobs keep their transaction.
NoClaims ==
    \A j \in Jobs :
        /\ job[j].pc # "none" => job'[j].tx = job[j].tx
        /\ job'[j].pc \in {"account", "upsert", "send"} => job[j].pc \in {"account", "upsert", "send"} /\ job'[j].run = job[j].run

\* Rows that keep their reference, or that no transfer and no job depends on.
LEMMA RefsKept ==
    ASSUME CashInv, RefsFit, NoClaims,
           \A r \in Refs : /\ transfer'[r].state \in {"open", "success"} => transfer[r].state \in {"open", "success"}
                           /\ transfer'[r].state # "reversed",
           \A t \in Txs : row'[t].ref = row[t].ref \/ (Sending(t)' = {} /\ LiveTransfers(t)' = {})
    PROVE  RefsFit'
<1>1. ASSUME NEW j \in Jobs, job'[j].pc \in {"account", "upsert", "send"} PROVE row'[job'[j].tx].ref = <<j, job'[j].run>>
  <2>1. job[j].pc \in {"account", "upsert", "send"} /\ job'[j].run = job[j].run /\ job'[j].tx = job[j].tx
    BY <1>1 DEF NoClaims
  <2>2. PICK t \in Txs : t = job[j].tx
    BY <2>1 DEF CashInv, JobsOK, JobOK
  <2>3. j \in Sending(t)'
    BY <1>1, <2>1, <2>2 DEF Sending
  <2>4. row'[t].ref = row[t].ref
    BY <2>3
  <2> QED BY <2>1, <2>2, <2>4 DEF RefsFit
<1>2. ASSUME NEW t \in Txs, NEW r \in LiveTransfers(t)' PROVE row'[t].ref = r
  <2>1. r \in Refs /\ transfer[r].state \in {"open", "success"} /\ job'[r[1]].tx = t
    BY DEF LiveTransfers, TxOfRef
  <2>2. r[1] \in Jobs /\ job[r[1]].pc # "none"
    BY <2>1, RefHasJob
  <2>3. job'[r[1]].tx = job[r[1]].tx
    BY <2>2 DEF NoClaims
  <2>4. r \in LiveTransfers(t)
    BY <2>1, <2>3 DEF LiveTransfers, TxOfRef
  <2>5. row'[t].ref = row[t].ref
    OBVIOUS
  <2> QED BY <2>4, <2>5 DEF RefsFit, LiveTransferIsFindable
<1>3. LiveTransferIsFindable'
  BY <1>2 DEF LiveTransferIsFindable
<1> QED BY <1>1, <1>3 DEF RefsFit

\* Steps that leave references and transfers alone.
LEMMA RefsRest ==
    ASSUME CashInv, RefsFit, NoClaims, UNCHANGED transfer, \A t \in Txs : row'[t].ref = row[t].ref
    PROVE  RefsFit'
<1>1. \A r \in Refs : /\ transfer'[r].state \in {"open", "success"} => transfer[r].state \in {"open", "success"}
                      /\ transfer'[r].state # "reversed"
  BY DEF RefsFit
<1> QED BY <1>1, RefsKept

\* A step of the worker that claims nothing.
LEMMA JobClaimsNothing ==
    ASSUME CashInv, NEW j \in Jobs, NEW c, job' = [job EXCEPT ![j] = c], c.tx = job[j].tx,
           c.pc \in {"account", "upsert", "send"} => job[j].pc \in {"account", "upsert", "send"} /\ c.run = job[j].run
    PROVE  NoClaims
<1>1. job'[j] = c /\ \A i \in Jobs \ {j} : job'[i] = job[i]
  BY DEF CashInv, TypeOK
<1> QED BY <1>1 DEF NoClaims

\* A handler adds a job that has claimed nothing, and a commit shows a row without a reference.
LEMMA HandlerFits ==
    ASSUME CashInv, PayInv, RefsFit, NEW d \in Deliveries, HandlerStep(d)
    PROVE  RefsFit'
<1>1. UNCHANGED transfer /\ row \in [Txs -> Rows] /\ job \in [Jobs -> JobCalls]
  BY DEF HandlerStep, HandlerCheck, HandlerRead, HandlerSave, HandlerCommit, CashInv, TypeOK
<1>2. NoClaims
  <2>1. CASE UNCHANGED job
    BY <2>1 DEF NoClaims
  <2>2. CASE HandlerSave(d) /\ ~UNCHANGED job
    <3>1. QueueHasRoom
      BY <2>2 DEF HandlerSave
    <3>2. PICK n \in Jobs : n = NextJob /\ job[n].tx = None
      BY <3>1, JobIsFree
    <3>3. PICK c : c = NewJob(TxOf[EventOf[d]], EventOf[d], DetailsOf[EventOf[d]])
      OBVIOUS
    <3>4. job' = [job EXCEPT ![n] = c] /\ c.pc = "waiting"
      BY <2>2, <3>2, <3>3 DEF HandlerSave, NewJob, IdleJob
    <3>5. job[n].pc = "none"
      BY <3>2, NoneAssumption DEF CashInv, JobsOK, JobOK
    <3> QED BY <1>1, <3>4, <3>5 DEF NoClaims
  <2> QED BY <2>1, <2>2 DEF HandlerStep, HandlerCheck, HandlerRead, HandlerCommit
<1>3. ASSUME NEW t \in Txs PROVE row'[t].ref = row[t].ref
  <2>1. CASE HandlerCommit(d)
    <3>1. handler[d].ent = NoRow /\ row[TxOf[EventOf[d]]].status = "ABSENT"
      BY <2>1 DEF HandlerCommit, PayInv, HandlersAreFirst
    <3>2. PICK s \in Txs : s = TxOf[EventOf[d]]
      BY EventAssumption
    <3>3. row[s].ref = None
      BY <3>1, <3>2 DEF PayInv, AbsentRows, NoRow
    <3>4. row' = [row EXCEPT ![s] = [NoRow EXCEPT !.status = "PENDING"]]
      BY <2>1, <3>1, <3>2 DEF HandlerCommit, NoRow
    <3> QED BY <1>1, <3>3, <3>4 DEF NoRow
  <2>2. CASE ~HandlerCommit(d)
    <3>1. UNCHANGED row
      BY <2>2 DEF HandlerStep, HandlerCheck, HandlerRead, HandlerSave, PayInv, HandlersAreFirst
    <3> QED BY <3>1
  <2> QED BY <2>1, <2>2
<1> QED BY <1>1, <1>2, <1>3, RefsRest

\* The claim writes the reference that its job goes on with.
LEMMA ClaimFits ==
    ASSUME CashInv, PayInv, RefsFit, NEW j \in Jobs, JobClaim(j)
    PROVE  RefsFit'
<1>1. /\ job[j].pc = "claim" /\ UNCHANGED transfer /\ TypeOK /\ row \in [Txs -> Rows] /\ job \in [Jobs -> JobCalls]
  BY DEF JobClaim, CashInv, TypeOK
<1>2. PICK t \in Txs : t = job[j].tx
  BY <1>1, JobSeesRow
<1>3. CASE ~Claimed(j)
  <2>1. PICK c : c = EndJob(j)
    OBVIOUS
  <2>2. c.pc = "done" /\ c.tx = job[j].tx
    BY <1>1, <2>1, EndJobFields
  <2>3. job' = [job EXCEPT ![j] = c] /\ UNCHANGED row
    BY <1>3, <2>1 DEF JobClaim
  <2>4. NoClaims
    BY <2>2, <2>3, JobClaimsNothing
  <2> QED BY <1>1, <2>3, <2>4, RefsRest
<1>4. CASE Claimed(j)
  <2>1. PICK n : n = job[j].run + 1
    OBVIOUS
  <2>2. PICK c : c = [job[j] EXCEPT !.pc = "account", !.run = n,
                                    !.ent = [job[j].ent EXCEPT !.status = "PROCESSING", !.ref = <<j, n>>]]
    OBVIOUS
  <2>3. c.tx = t /\ c.run = n
    BY <1>1, <1>2, <2>2 DEF JobCalls
  <2>4. job' = [job EXCEPT ![j] = c]
    BY <1>1, <1>4, <2>1, <2>2 DEF JobClaim, JobCalls
  <2>5. row' = [row EXCEPT ![t] = ClaimedRow(row[t], <<j, n>>)]
    BY <1>2, <1>4, <2>1 DEF JobClaim
  <2>6. row'[t].ref = <<j, n>> /\ \A u \in Txs \ {t} : row'[u] = row[u]
    BY <1>1, <2>5 DEF ClaimedRow, Rows
  <2>7. job'[j] = c /\ \A i \in Jobs \ {j} : job'[i] = job[i]
    BY <1>1, <2>4
  <2>8. Sending(t) = {j} /\ LiveTransfers(t) = {}
    BY <1>1, <1>2, JobIsChance
  <2>9. ASSUME NEW i \in Jobs, job'[i].pc \in {"account", "upsert", "send"} PROVE row'[job'[i].tx].ref = <<i, job'[i].run>>
    <3>1. CASE i = j
      BY <2>3, <2>6, <2>7, <3>1
    <3>2. CASE i # j
      <4>1. job'[i] = job[i] /\ job[i].tx \in Txs /\ i \notin Sending(t)
        BY <2>7, <2>8, <2>9, <3>2 DEF CashInv, JobsOK, JobOK
      <4>2. job[i].tx # t
        BY <2>9, <4>1 DEF Sending
      <4> QED BY <2>6, <2>9, <4>1, <4>2 DEF RefsFit
    <3> QED BY <3>1, <3>2
  <2>10. ASSUME NEW u \in Txs, NEW r \in LiveTransfers(u)' PROVE row'[u].ref = r
    <3>1. \A x \in Refs : TxOfRef(x)' = TxOfRef(x)
      <4>1. \A i \in Jobs : job'[i].tx = job[i].tx
        BY <1>2, <2>3, <2>7
      <4> QED BY <4>1, RefsStay
    <3>2. r \in LiveTransfers(u)
      BY <1>1, <3>1 DEF LiveTransfers
    <3>3. u # t
      BY <2>8, <3>2
    <3> QED BY <2>6, <3>2, <3>3 DEF RefsFit, LiveTransferIsFindable
  <2>11. \A r \in Refs : transfer'[r].state # "reversed"
    BY <1>1 DEF RefsFit
  <2> QED BY <2>9, <2>10, <2>11 DEF RefsFit, LiveTransferIsFindable
<1> QED BY <1>3, <1>4

\* The transfer that is made has the reference on the row.
LEMMA SendFits ==
    ASSUME CashInv, PayInv, Orderly, RefsFit, NEW j \in Jobs, JobSend(j)
    PROVE  RefsFit'
<1>1. /\ job[j].pc = "send" /\ UNCHANGED row /\ job \in [Jobs -> JobCalls] /\ transfer \in [Refs -> Transfers]
      /\ Working(j)
  BY DEF JobSend, CashInv, TypeOK, Working
<1>2. CASE \E retryable \in BOOLEAN : Fails(j, retryable) /\ UNCHANGED transfer
  <2>1. PICK retryable \in BOOLEAN : Fails(j, retryable)
    BY <1>2
  <2>2. PICK c : c = [job[j] EXCEPT !.pc = "catch", !.retryable = retryable]
    OBVIOUS
  <2>3. job' = [job EXCEPT ![j] = c]
    BY <1>1, <2>1, <2>2 DEF Fails, JobCalls
  <2>4. c.tx = job[j].tx /\ c.pc = "catch"
    BY <1>1, <2>2 DEF JobCalls
  <2>5. NoClaims
    BY <2>3, <2>4, JobClaimsNothing
  <2> QED BY <1>1, <1>2, <2>5, RefsRest
<1>3. CASE Accept(j) /\ job' = [job EXCEPT ![j].pc = "save", ![j].recipient = Destination(j)]
  <2>1. PICK r \in Refs : r = <<j, job[j].run>> /\ r = job[j].ent.ref
    BY <1>1, WorkingJob
  <2>2. PICK t \in Txs : t = job[j].tx
    BY <1>1, WorkingJob
  <2>3. PICK c : /\ c = [state |-> IF provider = "mock" THEN "success" ELSE "open", dest |-> Destination(j)]
                 /\ transfer' = [transfer EXCEPT ![r] = c]
    BY <1>3, <2>1 DEF Accept
  <2>4. transfer'[r].state # "reversed" /\ \A x \in Refs \ {r} : transfer'[x] = transfer[x]
    BY <1>1, <2>3
  <2>5. job'[j].pc = "save" /\ job'[j].tx = t /\ \A i \in Jobs \ {j} : job'[i] = job[i]
    BY <1>1, <1>3, <2>2 DEF JobCalls
  <2>6. \A x \in Refs : TxOfRef(x)' = TxOfRef(x)
    <3>1. \A i \in Jobs : job'[i].tx = job[i].tx
      BY <2>2, <2>5
    <3> QED BY <3>1, RefsStay
  <2>7. ASSUME NEW u \in Txs, NEW x \in LiveTransfers(u)' PROVE row'[u].ref = x
    <3>1. CASE x = r
      <4>1. TxOfRef(r) = t /\ u = t
        BY <2>1, <2>2, <2>6, <3>1 DEF TxOfRef, LiveTransfers
      <4> QED BY <1>1, <2>1, <2>2, <3>1, <4>1 DEF RefsFit
    <3>2. CASE x # r
      <4>1. x \in LiveTransfers(u)
        BY <2>4, <2>6, <3>2 DEF LiveTransfers
      <4> QED BY <1>1, <4>1 DEF RefsFit, LiveTransferIsFindable
    <3> QED BY <3>1, <3>2
  <2>8. \A i \in Jobs : job'[i].pc \in {"account", "upsert", "send"} => row'[job'[i].tx].ref = <<i, job'[i].run>>
    BY <1>1, <2>5 DEF RefsFit
  <2>9. \A x \in Refs : transfer'[x].state # "reversed"
    BY <2>4 DEF RefsFit
  <2> QED BY <2>7, <2>8, <2>9 DEF RefsFit, LiveTransferIsFindable
<1> QED BY <1>2, <1>3, NoFaults DEF JobSend

\* The other steps of the worker save references that are on the row already, or that nobody needs.
LEMMA JobFits ==
    ASSUME CashInv, PayInv, Orderly, RefsFit, SavesInTime, NEW j \in Jobs,
           JobStart(j) \/ JobAccount(j) \/ JobUpsert(j) \/ JobSave(j) \/ JobPublish(j) \/ JobCatch(j)
    PROVE  RefsFit'
<1>1. /\ UNCHANGED transfer /\ row \in [Txs -> Rows] /\ job \in [Jobs -> JobCalls] /\ TypeOK /\ job[j] \in JobCalls
      /\ job[j].pc \notin {"none", "done"} /\ job[j].made < JobAttempts
  BY DEF JobStart, JobAccount, JobUpsert, JobSave, JobPublish, JobCatch, CashInv, TypeOK, JobsOK, JobOK
<1>2. PICK t \in Txs : t = job[j].tx
  BY <1>1 DEF CashInv, JobsOK, JobOK
<1>3. \E c : /\ job' = [job EXCEPT ![j] = c] /\ c.tx = t
             /\ c.pc \in {"account", "upsert", "send"} => job[j].pc \in {"account", "upsert", "send"} /\ c.run = job[j].run
  <2>1. CASE job' = [job EXCEPT ![j] = EndJob(j)]
    <3>1. EndJob(j).tx = t /\ EndJob(j).pc = "done"
      BY <1>1, <1>2, EndJobFields
    <3> QED BY <2>1, <3>1
  <2>2. CASE job' = [job EXCEPT ![j] = Rethrow(j)]
    <3>1. Rethrow(j).tx = t /\ Rethrow(j).pc \in {"waiting", "done"}
      BY <1>1, <1>2, RethrowFields
    <3> QED BY <2>2, <3>1
  <2>3. CASE JobStart(j) /\ job' # [job EXCEPT ![j] = EndJob(j)] /\ job' # [job EXCEPT ![j] = Rethrow(j)]
    <3>1. PICK c : c = [job[j] EXCEPT !.pc = "claim", !.ent = row[t]]
      OBVIOUS
    <3>2. job' = [job EXCEPT ![j] = c] /\ c.tx = t /\ c.pc = "claim"
      BY <1>1, <1>2, <2>3, <3>1 DEF JobStart, JobCalls
    <3> QED BY <3>2
  <2>4. CASE (JobAccount(j) \/ JobUpsert(j)) /\ Fails(j, FALSE)
    <3>1. PICK c : c = [job[j] EXCEPT !.pc = "catch", !.retryable = FALSE]
      OBVIOUS
    <3>2. job' = [job EXCEPT ![j] = c] /\ c.tx = t /\ c.pc = "catch"
      BY <1>1, <1>2, <2>4, <3>1 DEF Fails, JobCalls
    <3> QED BY <3>2
  <2>5. CASE JobAccount(j) /\ ~Fails(j, FALSE)
    <3>1. PICK b, a : b = HasAccount(UserOf[t]) /\ a = account[UserOf[t]].recipient
      OBVIOUS
    <3>2. PICK c : c = [job[j] EXCEPT !.pc = "upsert", !.found = b, !.recipient = a]
      OBVIOUS
    <3>3. job' = [job EXCEPT ![j].pc = "upsert", ![j].found = b, ![j].recipient = a] /\ job[j].pc = "account"
      BY <1>2, <2>5, <3>1, NoFaults DEF JobAccount
    <3>4. job' = [job EXCEPT ![j] = c] /\ c.tx = t /\ c.run = job[j].run
      BY <1>1, <1>2, <3>2, <3>3 DEF JobCalls
    <3> QED BY <3>3, <3>4
  <2>8. CASE JobUpsert(j) /\ ~Fails(j, FALSE)
    <3>1. PICK c : c = [job[j] EXCEPT !.pc = "send"]
      OBVIOUS
    <3>2. job' = [job EXCEPT ![j].pc = "send"] /\ job[j].pc = "upsert"
      BY <2>8, NoFaults DEF JobUpsert
    <3>3. job' = [job EXCEPT ![j] = c] /\ c.tx = t /\ c.run = job[j].run
      BY <1>1, <1>2, <3>1, <3>2 DEF JobCalls
    <3> QED BY <3>2, <3>3
  <2>6. CASE JobSave(j) /\ job' # [job EXCEPT ![j] = EndJob(j)]
    <3>1. PICK c : c = [job[j] EXCEPT !.pc = "publish"]
      OBVIOUS
    <3>2. job' = [job EXCEPT ![j].pc = "publish"]
      BY <2>6, NoFaults DEF JobSave, AfterAccepted
    <3>3. job' = [job EXCEPT ![j] = c] /\ c.tx = t /\ c.pc = "publish"
      BY <1>1, <1>2, <3>1, <3>2 DEF JobCalls
    <3> QED BY <3>3
  <2>7. CASE JobPublish(j) \/ JobCatch(j)
    <3>1. job' = [job EXCEPT ![j] = EndJob(j)] \/ job' = [job EXCEPT ![j] = Rethrow(j)]
      BY <2>7, NoFaults DEF JobPublish, JobCatch
    <3> QED BY <2>1, <2>2, <3>1
  <2> QED BY <2>1, <2>2, <2>3, <2>4, <2>5, <2>6, <2>7, <2>8
<1>4. PICK c : /\ job' = [job EXCEPT ![j] = c] /\ c.tx = t
               /\ c.pc \in {"account", "upsert", "send"} => job[j].pc \in {"account", "upsert", "send"} /\ c.run = job[j].run
  BY <1>3
<1>5. NoClaims
  BY <1>2, <1>4, JobClaimsNothing
<1>6. CASE JobStart(j) \/ JobAccount(j) \/ JobUpsert(j) \/ JobPublish(j)
  <2>1. UNCHANGED row
    BY <1>6 DEF JobStart, JobAccount, JobUpsert, JobPublish
  <2> QED BY <1>1, <1>5, <2>1, RefsRest
<1>7. CASE JobSave(j)
  <2>1. job[j].pc = "save" /\ Working(j) /\ job[j].ent \in Rows
    BY <1>1, <1>7 DEF JobSave, Working, JobCalls
  <2>2. PICK r \in Refs : r = <<j, job[j].run>> /\ r = job[j].ent.ref
    BY <2>1, WorkingJob
  <2>3. r \in LiveTransfers(t)
    <3>1. TxOfRef(r) = t
      BY <1>2, <2>2 DEF TxOfRef
    <3>2. transfer[r].state \in {"open", "success"}
      BY <2>1, <2>2 DEF SavesInTime, RefsFit
    <3> QED BY <3>1, <3>2 DEF LiveTransfers
  <2>4. row[t].ref = r
    BY <2>3 DEF RefsFit, LiveTransferIsFindable
  <2>5. row' = [row EXCEPT ![t] = [job[j].ent EXCEPT !.status = ResultStatus(provider), !.retryable = None]]
    BY <1>2, <1>7, NoFaults DEF JobSave
  <2>6. row'[t].ref = r /\ \A u \in Txs \ {t} : row'[u] = row[u]
    BY <1>1, <2>1, <2>2, <2>5 DEF Rows
  <2> QED BY <1>1, <1>5, <2>4, <2>6, RefsRest
<1>8. CASE JobCatch(j)
  <2>1. job[j].pc = "catch" /\ Sending(t) = {j} /\ LiveTransfers(t) = {}
    BY <1>2, <1>8, JobIsChance DEF JobCatch
  <2>2. CASE RetryInJob(j)
    <3>1. row' = IF row[t].status = "PROCESSING" THEN [row EXCEPT ![t].status = "PENDING"] ELSE row
      BY <1>2, <1>8, <2>2, NoFaults DEF JobCatch
    <3>2. \A u \in Txs : row'[u].ref = row[u].ref
      BY <1>1, <3>1 DEF Rows
    <3> QED BY <1>1, <1>5, <3>2, RefsRest
  <2>3. CASE ~RetryInJob(j)
    <3>1. job' = [job EXCEPT ![j] = EndJob(j)] /\ EndJob(j).pc = "done" /\ EndJob(j).tx = t
      BY <1>1, <1>2, <1>8, <2>3, NoFaults, EndJobFields DEF JobCatch
    <3>2. \A u \in Txs \ {t} : row'[u] = row[u]
      BY <1>1, <1>2, <1>8, <2>3, NoFaults DEF JobCatch
    <3>3. job'[j].pc = "done" /\ job'[j].tx = t /\ \A i \in Jobs \ {j} : job'[i] = job[i]
      BY <1>1, <3>1
    <3>4. Sending(t)' = {}
      BY <2>1, <3>3 DEF Sending
    <3>5. LiveTransfers(t)' = {}
      <4>1. \A i \in Jobs : job'[i].tx = job[i].tx
        BY <1>2, <3>3
      <4>2. \A r \in Refs : TxOfRef(r)' = TxOfRef(r)
        BY <4>1, RefsStay
      <4> QED BY <1>1, <2>1, <4>2 DEF LiveTransfers
    <3>6. \A u \in Txs : row'[u].ref = row[u].ref \/ (Sending(u)' = {} /\ LiveTransfers(u)' = {})
      BY <3>2, <3>4, <3>5
    <3>7. \A r \in Refs : /\ transfer'[r].state \in {"open", "success"} => transfer[r].state \in {"open", "success"}
                          /\ transfer'[r].state # "reversed"
      BY <1>1 DEF RefsFit
    <3> QED BY <1>5, <3>6, <3>7, RefsKept
  <2> QED BY <2>2, <2>3
<1> QED BY <1>6, <1>7, <1>8

\* A retry keeps the reference of the failed transfer and adds a job that has claimed nothing.
LEMMA RetryFits ==
    ASSUME CashInv, RefsFit, NEW q \in Retriers, RetryStep(q)
    PROVE  RefsFit'
<1>1. UNCHANGED transfer /\ row \in [Txs -> Rows] /\ job \in [Jobs -> JobCalls]
  BY DEF RetryStep, ManualOverride, ManualReset, RetryCheck, RetryUpdate, RetryEnqueue, CashInv, TypeOK
<1>2. NoClaims
  <2>1. CASE UNCHANGED job
    BY <2>1 DEF NoClaims
  <2>2. CASE RetryEnqueue(q)
    <3>1. Reserved # {}
      BY <2>2 DEF RetryEnqueue, Reserved
    <3>2. PICK n \in Jobs : n = NextJob /\ job[n].tx = None
      BY <3>1, JobIsFree
    <3>3. PICK c : c = NewJob(retrier[q].tx, None, retrier[q].details)
      OBVIOUS
    <3>4. job' = [job EXCEPT ![n] = c] /\ c.pc = "waiting"
      BY <2>2, <3>2, <3>3 DEF RetryEnqueue, NewJob, IdleJob
    <3>5. job[n].pc = "none"
      BY <3>2, NoneAssumption DEF CashInv, JobsOK, JobOK
    <3> QED BY <1>1, <3>4, <3>5 DEF NoClaims
  <2> QED BY <2>1, <2>2 DEF RetryStep, ManualOverride, ManualReset, RetryCheck, RetryUpdate
<1>3. \A t \in Txs : row'[t].ref = row[t].ref
  <2>1. CASE UNCHANGED row
    BY <2>1
  <2>2. CASE ManualReset(q)
    <3>1. row' = [row EXCEPT ![retrier[q].tx].retryCount = 0]
      BY <2>2 DEF ManualReset
    <3> QED BY <1>1, <3>1 DEF Rows
  <2>3. CASE RetryUpdate(q) /\ ~UNCHANGED row
    <3>1. row' = [row EXCEPT ![retrier[q].tx].status = "PENDING"]
      BY <2>3 DEF RetryUpdate
    <3> QED BY <1>1, <3>1 DEF Rows
  <2>4. CASE ManualOverride(q) \/ RetryCheck(q) \/ RetryEnqueue(q)
    BY <2>4 DEF ManualOverride, RetryCheck, RetryEnqueue
  <2> QED BY <2>1, <2>2, <2>3, <2>4 DEF RetryStep
<1> QED BY <1>1, <1>2, <1>3, RefsRest

\* A webhook saves the reference that led it to the row.
LEMMA HookFits ==
    ASSUME CashInv, PayInv, RefsFit, NEW h \in Hooks, HookSave(h)
    PROVE  RefsFit'
<1>1. hook[h].pc = "save" /\ UNCHANGED <<job, transfer>> /\ row \in [Txs -> Rows] /\ hook[h].ent \in Rows
  BY DEF HookSave, CashInv, TypeOK, HookCalls
<1>2. NoClaims
  BY <1>1 DEF NoClaims
<1>3. PICK t \in Txs, r \in Refs, k \in {"success", "failed"} : t = hook[h].tx /\ r = hook[h].ent.ref /\ k = hook[h].kind
  BY <1>1 DEF CashInv, HooksOK, HookOK
<1>4. PICK retryable \in BOOLEAN : row' = [row EXCEPT ![t] = HookRow(h, retryable)]
  BY <1>3 DEF HookSave
<1>5. row'[t].ref = r /\ \A u \in Txs \ {t} : row'[u] = row[u]
  BY <1>1, <1>3, <1>4 DEF HookRow, Rows
<1>6. CASE k = "success"
  <2>1. TxOfRef(r) = t /\ PaidRef(r)
    BY <1>1, <1>3, <1>6, NoneAssumption DEF CashInv, HooksOK, HookOK, RowOK
  <2>2. r \in LiveTransfers(t)
    BY <2>1 DEF PaidRef, RefsFit, LiveTransfers
  <2>3. row[t].ref = r
    BY <2>2 DEF RefsFit, LiveTransferIsFindable
  <2>4. \A u \in Txs : row'[u].ref = row[u].ref
    BY <1>5, <2>3
  <2> QED BY <1>1, <1>2, <2>4, RefsRest
<1>7. CASE k = "failed"
  <2>1. h \in Failing(t) /\ AtMostOne(Chances(t))
    BY <1>1, <1>3, <1>7 DEF Failing, PayInv, OneChance
  <2>2. Sending(t) = {} /\ LiveTransfers(t) = {}
    BY <2>1, OnlyChance
  <2>3. Sending(t)' = {} /\ LiveTransfers(t)' = {}
    BY <1>1, <2>2 DEF Sending, LiveTransfers, TxOfRef
  <2>4. \A u \in Txs : row'[u].ref = row[u].ref \/ (Sending(u)' = {} /\ LiveTransfers(u)' = {})
    BY <1>5, <2>3
  <2>5. \A x \in Refs : /\ transfer'[x].state \in {"open", "success"} => transfer[x].state \in {"open", "success"}
                        /\ transfer'[x].state # "reversed"
    BY <1>1 DEF RefsFit
  <2> QED BY <1>2, <2>4, <2>5, RefsKept
<1> QED BY <1>6, <1>7

\* Every action keeps rows and references together.
LEMMA NextFits ==
    ASSUME CashInv, PayInv, SavesInTime, RefsFit, Orderly, "reversal" \notin Hazards, Next
    PROVE  RefsFit'
<1>1. CASE \E d \in Deliveries : HandlerStep(d) \/ HandlerRollback(d)
  BY <1>1, HandlerFits, NoFaults DEF HandlerRollback
<1>2. CASE \E j \in Jobs : JobStep(j) \/ JobCrash(j) \/ JobQueryFails(j)
  BY <1>2, ClaimFits, SendFits, JobFits, NoFaults DEF JobStep, JobCrash, JobQueryFails
<1>3. CASE \/ \E q \in Scanners, t \in Txs : ScanPick(q, t)
           \/ \E q \in Admins, t \in Txs, d \in NewDetails \cup {None} : ManualPick(q, t, d)
           \/ \E h \in Hooks, n \in notices : HookRead(h, n)
  <2>1. UNCHANGED <<row, job, transfer>>
    BY <1>3 DEF ScanPick, ManualPick, HookRead
  <2>2. NoClaims
    BY <2>1 DEF NoClaims
  <2> QED BY <2>1, <2>2, RefsRest
<1>4. CASE \E q \in Retriers : RetryStep(q) \/ RetryCrash(q)
  BY <1>4, RetryFits, NoFaults DEF RetryCrash
<1>5. CASE \E r \in Refs : TransferReversed(r) \/ \E kind \in {"success", "failed"} : TransferSettles(r, kind)
  <2>1. PICK r \in Refs, kind \in {"success", "failed"} : TransferSettles(r, kind)
    BY <1>5 DEF TransferReversed
  <2>2. UNCHANGED <<row, job>> /\ transfer[r].state = "open"
    BY <2>1 DEF TransferSettles
  <2>3. transfer'[r].state = kind /\ \A x \in Refs \ {r} : transfer'[x] = transfer[x]
    BY <2>1 DEF TransferSettles, CashInv, TypeOK, Transfers
  <2>4. \A x \in Refs : /\ transfer'[x].state \in {"open", "success"} => transfer[x].state \in {"open", "success"}
                        /\ transfer'[x].state # "reversed"
    BY <2>2, <2>3 DEF RefsFit
  <2>5. NoClaims
    BY <2>2 DEF NoClaims
  <2> QED BY <2>2, <2>4, <2>5, RefsKept
<1>6. CASE \E h \in Hooks : HookSave(h) \/ HookFails(h) \/ \E n \in notices : HookRead(h, n)
  BY <1>3, <1>6, HookFits, NoFaults DEF HookFails
<1> QED BY <1>1, <1>2, <1>3, <1>4, <1>5, <1>6 DEF Next

\* A webhook finds the row of every transfer that is open or has paid: the reference that
\* processPayment writes with its claim stays on the row.  Early webhooks and reversals are excluded:
\* with each of them a later job's reference can be overwritten by an older copy of the row.
THEOREM TransfersAreFindable ==
    ASSUME Orderly, "earlyWebhook" \notin Hazards, "reversal" \notin Hazards
    PROVE  Spec => []LiveTransferIsFindable
<1>1. Init => RefsFit
  <2> SUFFICES ASSUME Init PROVE RefsFit
    OBVIOUS
  <2>1. (\A r \in Refs : transfer[r].state = "none") /\ \A j \in Jobs : job[j].pc = "none"
    BY DEF Init, NoTransfer, IdleJob
  <2> QED BY <2>1 DEF RefsFit, LiveTransferIsFindable, LiveTransfers
<1>2. CashInv /\ PayInv /\ SavesInTime /\ RefsFit /\ [Next /\ UNCHANGED provider]_<<vars, provider>> => RefsFit'
  <2> SUFFICES ASSUME CashInv, PayInv, SavesInTime, RefsFit, [Next /\ UNCHANGED provider]_<<vars, provider>>
               PROVE  RefsFit'
    OBVIOUS
  <2>1. CASE Next
    BY <2>1, NextFits
  <2>2. CASE UNCHANGED <<vars, provider>>
    <3>1. UNCHANGED <<row, job, transfer>>
      BY <2>2 DEF vars
    <3>2. NoClaims
      BY <3>1 DEF NoClaims
    <3> QED BY <3>1, <3>2, RefsRest
  <2> QED BY <2>1, <2>2
<1>3. RefsFit => LiveTransferIsFindable
  BY DEF RefsFit
<1> QED BY <1>1, <1>2, <1>3, ResultsAreSavedInTime, PayInvariant, CashInvariant, PTL DEF Spec
=============================================================================
