-------------------------- MODULE StorefrontProofs --------------------------
(***************************************************************************)
(* A client's purchase, end to end, for any number of calls, keys, retries  *)
(* of reads and late executions.                                            *)
(*                                                                         *)
(* OnePurchasePerIntent needs to know which requests a call can have made:  *)
(* FrontInv says that a call is only ever behind requests of attempts it has*)
(* counted, and that a purchase counts one.  RepeatGetsTheOriginal needs    *)
(* that an answer on its way through the gateway stays an answer to its own *)
(* request.  Reads need the position of the retry loop only, and the bank   *)
(* list that whatever is cached as new and is not was cached in an outage.  *)
(***************************************************************************)
EXTENDS Storefront, TLAPS

\* Only a read is about to be repeated.
OnlyReadsRepeat ==
    \A c \in Calls : pc[c] = "delay" => GW!Method(c) = "GET" /\ attempt[c] < ReadRetries

\* A call for a purchase makes its first attempt only.
FirstAttempt == \A c \in Calls : pc[c] = "new" \/ Buys(c) => attempt[c] = 0

\* What was sent was sent by an attempt of its call.
SentByAttempt ==
    \A x \in sent : pc[CallOf[x]] # "new" /\ \E n \in 0..attempt[CallOf[x]] : x = RequestOf[CallOf[x]][n]

\* Only what was sent is answered.
AnsweredWasSent == \A x \in Requests : response[x].status # 0 => x \in sent

\* A purchase is made by a request for one, and each key has one at most.
BoughtByRequest == bought = events /\ \A p \in bought : p \in sent /\ Buys(CallOf[p])
KeyOf(x) == GW!ForwardedKey(CallOf[x])
KeyUnique == \A p, q \in bought : KeyOf(p) # None /\ KeyOf(p) = KeyOf(q) => p = q

\* The payload names a purchase that fits request x.
Fits(payload, x) == \E p \in Store!Matching(x) : payload = {p}

\* Successful answers to a request for a purchase carry a purchase that fits it, at the
\* service and at the client.
Succeeds(status) == status # 0 /\ ~GW!IsError(status)
ResponsesFit ==
    \A x \in Requests : Buys(CallOf[x]) /\ Succeeds(response[x].status) => Fits(response[x].payload, x)
ResultsFit ==
    \A c \in Calls : Buys(c) /\ result[c].status = 201 => Fits(result[c].payload, RequestOf[c][0])
NewIsUnanswered == \A c \in Calls : pc[c] = "new" => result[c].status = 0

FrontInv ==
    /\ TypeOK
    /\ OnlyReadsRepeat /\ FirstAttempt /\ SentByAttempt /\ AnsweredWasSent
    /\ BoughtByRequest /\ KeyUnique /\ ResponsesFit /\ ResultsFit /\ NewIsUnanswered

-----------------------------------------------------------------------------
\* A purchase is a write, and it is not the webhook.
LEMMA PurchaseIsNoRead ==
    \A r \in GW!Routes \cup {GW!NoRoute} : r.handler = "createPurchase" => r.method # "GET"
BY DEF GW!Routes, GW!PublicRoutes, GW!GroupRoutes, GW!AchievementRoutes, GW!BadgeRoutes, GW!CashbackRoutes,
       GW!Route, GW!NoRoute

\* Requests name their calls.
LEMMA RequestsOfCalls ==
    /\ \A x \in Requests : CallOf[x] \in Calls
    /\ \A c \in Calls, n \in 0..ReadRetries : CallOf[RequestOf[c][n]] = c
<1>1. ASSUME NEW x \in Requests
      PROVE  CallOf[x] \in Calls /\ \E n \in 0..ReadRetries : RequestOf[CallOf[x]][n] = x
  <2>1. \E c \in Calls : \E n \in 0..ReadRetries : RequestOf[c][n] = x
    BY RequestAssumption
  <2> QED BY <2>1 DEF CallOf
<1>2. ASSUME NEW c \in Calls, NEW n \in 0..ReadRetries PROVE CallOf[RequestOf[c][n]] = c
  BY <1>1, RequestAssumption
<1> QED BY <1>1, <1>2

\* At first nothing is sent, bought or answered.
LEMMA FrontInit == Init => FrontInv
<1> SUFFICES ASSUME Init PROVE FrontInv
  OBVIOUS
<1> USE DEF Init, GW!Init, Store!Init
<1>1. TypeOK
  BY RetriesAssumption, RequestAssumption DEF TypeOK, GW!TypeOK, GW!NoAnswer, GW!Answer, GW!NoStatus
<1>2. OnlyReadsRepeat /\ FirstAttempt /\ SentByAttempt
  BY DEF OnlyReadsRepeat, FirstAttempt, SentByAttempt
<1>3. AnsweredWasSent /\ ResponsesFit
  BY DEF AnsweredWasSent, ResponsesFit, Succeeds, GW!NoAnswer, GW!Answer, GW!NoStatus
<1>4. BoughtByRequest /\ KeyUnique
  BY DEF BoughtByRequest, KeyUnique
<1>5. ResultsFit /\ NewIsUnanswered
  BY DEF ResultsFit, NewIsUnanswered, GW!NoAnswer, GW!Answer, GW!NoStatus
<1> QED BY <1>1, <1>2, <1>3, <1>4, <1>5 DEF FrontInv

\* What the catch blocks of the gateway do: a read is put off, or the client gets an
\* error.
LEMMA FailsCases ==
    ASSUME NEW c \in Calls, NEW status \in Statuses \cup {0}, status = 0 \/ GW!IsError(status),
           GW!Fails(c, status)
    PROVE  \/ /\ pc' = [pc EXCEPT ![c] = "delay"]
              /\ result' = result
              /\ GW!Method(c) = "GET" /\ attempt[c] < ReadRetries
           \/ /\ GW!ToHttpException(status) \in (Statuses \cup {502}) \ {201}
              /\ pc' = [pc EXCEPT ![c] = "done"]
              /\ result' = [result EXCEPT ![c] = [status |-> GW!ToHttpException(status), payload |-> {}]]
<1>1. GW!ToHttpException(status) \in (Statuses \cup {502}) \ {201}
  BY DEF GW!ToHttpException, GW!IsError, GW!NoStatus
<1>2. CASE GW!Reply(c, GW!ToHttpException(status), {})
  BY <1>1, <1>2 DEF GW!Reply, GW!Goto, GW!Answer
<1>3. CASE GW!ShouldRetry(c, status) /\ GW!Goto(c, "delay") /\ UNCHANGED result
  BY <1>3 DEF GW!ShouldRetry, GW!Goto
<1> QED BY <1>2, <1>3 DEF GW!Fails, GW!ForwardFails, GW!ForwardRawFails

\* A call that ends keeps FrontInv.
LEMMA ReplyKeeps ==
    ASSUME FrontInv, NEW c \in Calls, pc[c] \in {"send", "wait"}, pc' = [pc EXCEPT ![c] = "done"],
           NEW s \in Statuses \cup {502}, NEW payload \in SUBSET Requests,
           result' = [result EXCEPT ![c] = [status |-> s, payload |-> payload]],
           s = 201 /\ Buys(c) => Fits(payload, RequestOf[c][0]),
           UNCHANGED <<route, attempt, sent, response, store>>
    PROVE  FrontInv'
<1> USE DEF FrontInv, store
<1>1. TypeOK'
  <2>1. [status |-> s, payload |-> payload]
          \in [status : Statuses \cup {GW!NoStatus, 400, 401, 502}, payload : SUBSET Requests]
    OBVIOUS
  <2> QED BY <2>1 DEF TypeOK, GW!TypeOK
<1>2. OnlyReadsRepeat' /\ FirstAttempt' /\ NewIsUnanswered'
  BY DEF OnlyReadsRepeat, FirstAttempt, NewIsUnanswered, TypeOK, GW!TypeOK, GW!Method, Buys
<1>3. SentByAttempt'
  BY DEF SentByAttempt, TypeOK, GW!TypeOK
<1>4. AnsweredWasSent' /\ BoughtByRequest' /\ KeyUnique'
  BY DEF AnsweredWasSent, BoughtByRequest, KeyUnique, Buys
<1>5. \A x, p : Fits(p, x)' <=> Fits(p, x)
  BY DEF Fits, Store!Matching
<1>6. ResponsesFit'
  BY <1>5 DEF ResponsesFit, Buys
<1>7. ResultsFit'
  BY <1>5 DEF ResultsFit, Buys, TypeOK, GW!TypeOK
<1> QED BY <1>1, <1>2, <1>3, <1>4, <1>6, <1>7

\* A read that pauses before its next attempt keeps FrontInv.
LEMMA PauseKeeps ==
    ASSUME FrontInv, NEW c \in Calls, pc[c] \in {"send", "wait"}, pc' = [pc EXCEPT ![c] = "delay"],
           GW!Method(c) = "GET", attempt[c] < ReadRetries,
           UNCHANGED <<route, attempt, result, sent, response, store>>
    PROVE  FrontInv'
<1> USE DEF FrontInv, store
<1>1. TypeOK'
  BY DEF TypeOK, GW!TypeOK
<1>2. OnlyReadsRepeat' /\ FirstAttempt' /\ NewIsUnanswered'
  BY DEF OnlyReadsRepeat, FirstAttempt, NewIsUnanswered, TypeOK, GW!TypeOK, GW!Method, Buys
<1>3. SentByAttempt'
  BY DEF SentByAttempt, TypeOK, GW!TypeOK
<1>4. AnsweredWasSent' /\ BoughtByRequest' /\ KeyUnique'
  BY DEF AnsweredWasSent, BoughtByRequest, KeyUnique, Buys
<1>5. \A x, p : Fits(p, x)' <=> Fits(p, x)
  BY DEF Fits, Store!Matching
<1>6. ResponsesFit' /\ ResultsFit'
  BY <1>5 DEF ResponsesFit, ResultsFit, Buys
<1> QED BY <1>1, <1>2, <1>3, <1>4, <1>6

\* The catch blocks keep FrontInv.
LEMMA FailsKeeps ==
    ASSUME FrontInv, NEW c \in Calls, pc[c] \in {"send", "wait"},
           NEW status \in Statuses \cup {0}, status = 0 \/ GW!IsError(status),
           GW!Fails(c, status), UNCHANGED <<route, attempt, sent, response, store>>
    PROVE  FrontInv'
<1>1. CASE /\ pc' = [pc EXCEPT ![c] = "delay"]
           /\ result' = result
           /\ GW!Method(c) = "GET" /\ attempt[c] < ReadRetries
  <2>1. UNCHANGED <<route, attempt, result, sent, response, store>>
    BY <1>1
  <2> QED BY <1>1, <2>1, PauseKeeps
<1>2. CASE /\ GW!ToHttpException(status) \in (Statuses \cup {502}) \ {201}
           /\ pc' = [pc EXCEPT ![c] = "done"]
           /\ result' = [result EXCEPT ![c] = [status |-> GW!ToHttpException(status), payload |-> {}]]
  <2>1. PICK s \in Statuses \cup {502} : s # 201 /\ s = GW!ToHttpException(status)
    BY <1>2
  <2>2. PICK nothing \in SUBSET Requests : nothing = {}
    OBVIOUS
  <2>3. result' = [result EXCEPT ![c] = [status |-> s, payload |-> nothing]]
    BY <1>2, <2>1, <2>2
  <2>4. s = 201 /\ Buys(c) => Fits(nothing, RequestOf[c][0])
    BY <2>1
  <2>5. pc' = [pc EXCEPT ![c] = "done"]
    BY <1>2
  <2> QED BY <2>3, <2>4, <2>5, ReplyKeeps
<1> QED BY <1>1, <1>2, FailsCases

-----------------------------------------------------------------------------
\* A call that arrives has sent nothing yet.
LEMMA ReceiveKeeps ==
    ASSUME FrontInv, NEW c \in Calls, GW!Receive(c), UNCHANGED store
    PROVE  FrontInv'
<1>1. PICK r \in GW!Routes : route' = [route EXCEPT ![c] = r]
  BY DEF GW!Receive
<1>2. /\ r \in GW!Routes
      /\ pc[c] = "new"
      /\ \E l \in {"send", "done"} : pc' = [pc EXCEPT ![c] = l]
      /\ result' = result \/ \E s \in {400, 401} : result' = [result EXCEPT ![c] = [status |-> s, payload |-> {}]]
      /\ UNCHANGED <<attempt, sent, response, bought, events, answer>>
  BY DEF GW!Receive, GW!Reply, GW!Goto, GW!Answer, store
<1> USE DEF FrontInv
<1>3. TypeOK'
  <2>1. route' \in [Calls -> GW!Routes \cup {GW!NoRoute}]
    BY <1>1, <1>2 DEF TypeOK, GW!TypeOK
  <2>2. result' \in [Calls -> [status : Statuses \cup {GW!NoStatus, 400, 401, 502}, payload : SUBSET Requests]]
    BY <1>2 DEF TypeOK, GW!TypeOK
  <2>3. pc' \in [Calls -> {"new", "send", "wait", "delay", "done"}]
    BY <1>2 DEF TypeOK, GW!TypeOK
  <2> QED BY <1>2, <2>1, <2>2, <2>3 DEF TypeOK, GW!TypeOK
<1>4. OnlyReadsRepeat' /\ FirstAttempt' /\ NewIsUnanswered'
  BY <1>1, <1>2 DEF OnlyReadsRepeat, FirstAttempt, NewIsUnanswered, TypeOK, GW!TypeOK, GW!Method, Buys
<1>5. SentByAttempt' /\ AnsweredWasSent'
  BY <1>1, <1>2 DEF SentByAttempt, AnsweredWasSent, TypeOK, GW!TypeOK
<1>6. \A x \in sent : CallOf[x] # c
  BY <1>2 DEF SentByAttempt
<1>7. BoughtByRequest' /\ KeyUnique'
  BY <1>1, <1>2, <1>6, RequestsOfCalls DEF BoughtByRequest, KeyUnique, Buys, TypeOK, GW!TypeOK
<1>8. \A x, p : Fits(p, x)' <=> Fits(p, x)
  BY <1>2 DEF Fits, Store!Matching
<1>9. ResponsesFit'
  <2> SUFFICES ASSUME NEW x \in Requests, Buys(CallOf[x])', Succeeds(response'[x].status)
               PROVE  Fits(response[x].payload, x)
    BY <1>2, <1>8 DEF ResponsesFit
  <2>1. x \in sent /\ CallOf[x] # c /\ CallOf[x] \in Calls
    BY <1>2, <1>6, RequestsOfCalls DEF AnsweredWasSent, Succeeds
  <2>2. Buys(CallOf[x])
    BY <1>1, <2>1 DEF Buys, TypeOK, GW!TypeOK
  <2> QED BY <1>2, <2>2 DEF ResponsesFit
<1>10. ResultsFit'
  BY <1>1, <1>2, <1>8 DEF ResultsFit, NewIsUnanswered, Buys, TypeOK, GW!TypeOK
<1> QED BY <1>3, <1>4, <1>5, <1>7, <1>9, <1>10

\* A request is sent by the attempt that is counted.
LEMMA SendKeeps ==
    ASSUME FrontInv, NEW c \in Calls, GW!Send(c), UNCHANGED store
    PROVE  FrontInv'
<1>1. CASE GW!Fails(c, GW!NoStatus) /\ UNCHANGED sent
  BY <1>1, FailsKeeps DEF GW!Send, GW!NoStatus
<1>2. CASE sent' = sent \cup {GW!Current(c)} /\ GW!Goto(c, "wait") /\ UNCHANGED result
  <2>1. /\ pc[c] = "send" /\ pc' = [pc EXCEPT ![c] = "wait"]
        /\ sent' = sent \cup {RequestOf[c][attempt[c]]}
        /\ UNCHANGED <<route, attempt, result, response, bought, events, answer>>
    BY <1>2 DEF GW!Send, GW!Goto, GW!Current, store
  <2> USE DEF FrontInv
  <2>2. TypeOK'
    BY <2>1, RequestAssumption DEF TypeOK, GW!TypeOK
  <2>3. OnlyReadsRepeat' /\ FirstAttempt' /\ NewIsUnanswered' /\ AnsweredWasSent'
    BY <2>1 DEF OnlyReadsRepeat, FirstAttempt, NewIsUnanswered, AnsweredWasSent, TypeOK, GW!TypeOK, GW!Method, Buys
  <2>4. SentByAttempt'
    <3>1. attempt[c] \in 0..ReadRetries /\ CallOf[RequestOf[c][attempt[c]]] = c
      BY RequestsOfCalls DEF TypeOK, GW!TypeOK
    <3>2. attempt[c] \in 0..attempt[c]
      BY <3>1, RetriesAssumption
    <3> QED BY <2>1, <3>1, <3>2 DEF SentByAttempt, TypeOK, GW!TypeOK
  <2>5. BoughtByRequest' /\ KeyUnique'
    BY <2>1 DEF BoughtByRequest, KeyUnique, Buys
  <2>6. \A x, p : Fits(p, x)' <=> Fits(p, x)
    BY <2>1 DEF Fits, Store!Matching
  <2>7. ResponsesFit' /\ ResultsFit'
    BY <2>1, <2>6 DEF ResponsesFit, ResultsFit, Buys
  <2> QED BY <2>2, <2>3, <2>4, <2>5, <2>7
<1> QED BY <1>1, <1>2 DEF GW!Send

\* A purchase is answered with the response to its only request.
LEMMA RespondKeeps ==
    ASSUME FrontInv, NEW c \in Calls, GW!Respond(c), UNCHANGED store
    PROVE  FrontInv'
<1> DEFINE x == RequestOf[c][attempt[c]]
           a == response[x]
<1>1. /\ x \in Requests /\ CallOf[x] = c
      /\ a.status \in Statuses /\ a.status # 0 /\ a.payload \in SUBSET Requests
      /\ pc[c] = "wait"
      /\ UNCHANGED <<route, attempt, sent, response, store>>
      /\ IF GW!IsError(a.status) THEN GW!Fails(c, a.status) ELSE GW!Reply(c, GW!HttpCode(c), a.payload)
  BY RequestsOfCalls, RequestAssumption DEF GW!Respond, GW!Current, GW!NoStatus, FrontInv, TypeOK, GW!TypeOK
<1>2. CASE GW!IsError(a.status)
  BY <1>1, <1>2, FailsKeeps
<1>3. CASE ~GW!IsError(a.status)
  <2>1. PICK s \in Statuses \cup {502} : s = GW!HttpCode(c)
    BY StatusAssumption DEF GW!HttpCode
  <2>2. PICK payload \in SUBSET Requests : payload = a.payload
    BY <1>1
  <2>3. /\ pc' = [pc EXCEPT ![c] = "done"]
        /\ result' = [result EXCEPT ![c] = [status |-> s, payload |-> payload]]
    BY <1>1, <1>3, <2>1, <2>2 DEF GW!Reply, GW!Goto, GW!Answer
  <2>4. s = 201 /\ Buys(c) => Fits(payload, RequestOf[c][0])
    BY <1>1, <1>3, <2>2 DEF FrontInv, FirstAttempt, ResponsesFit, Succeeds
  <2>5. pc[c] \in {"send", "wait"} /\ UNCHANGED <<route, attempt, sent, response, store>>
    BY <1>1
  <2> HIDE DEF a, x
  <2> QED BY <2>3, <2>4, <2>5, ReplyKeeps
<1> QED BY <1>2, <1>3

\* Only a read makes another attempt.
LEMMA DelayKeeps ==
    ASSUME FrontInv, NEW c \in Calls, GW!Delay(c), UNCHANGED store
    PROVE  FrontInv'
<1>1. /\ pc[c] = "delay" /\ pc' = [pc EXCEPT ![c] = "send"]
      /\ attempt' = [attempt EXCEPT ![c] = @ + 1]
      /\ UNCHANGED <<route, result, sent, response, bought, events, answer>>
  BY DEF GW!Delay, GW!Goto, store
<1>2. attempt[c] + 1 \in 0..ReadRetries /\ attempt[c] \in Nat /\ ~Buys(c)
  BY <1>1, PurchaseIsNoRead, RetriesAssumption
     DEF FrontInv, OnlyReadsRepeat, TypeOK, GW!TypeOK, GW!Method, Buys
<1> USE DEF FrontInv
<1>3. TypeOK'
  BY <1>1, <1>2 DEF TypeOK, GW!TypeOK
<1>4. OnlyReadsRepeat' /\ FirstAttempt' /\ NewIsUnanswered' /\ AnsweredWasSent'
  BY <1>1, <1>2 DEF OnlyReadsRepeat, FirstAttempt, NewIsUnanswered, AnsweredWasSent, TypeOK, GW!TypeOK, GW!Method, Buys
<1>5. SentByAttempt'
  <2> SUFFICES ASSUME NEW x \in sent
               PROVE  pc'[CallOf[x]] # "new" /\ \E n \in 0..attempt'[CallOf[x]] : x = RequestOf[CallOf[x]][n]
    BY <1>1 DEF SentByAttempt
  <2>1. CallOf[x] \in Calls /\ pc[CallOf[x]] # "new" /\ \E n \in 0..attempt[CallOf[x]] : x = RequestOf[CallOf[x]][n]
    BY RequestsOfCalls DEF SentByAttempt, TypeOK, GW!TypeOK
  <2>2. 0..attempt[CallOf[x]] \subseteq 0..attempt'[CallOf[x]]
    BY <1>1, <1>2, <2>1, RetriesAssumption DEF TypeOK, GW!TypeOK
  <2> QED BY <1>1, <2>1, <2>2 DEF TypeOK, GW!TypeOK
<1>6. BoughtByRequest' /\ KeyUnique'
  BY <1>1 DEF BoughtByRequest, KeyUnique, Buys
<1>7. \A x, p : Fits(p, x)' <=> Fits(p, x)
  BY <1>1 DEF Fits, Store!Matching
<1>8. ResponsesFit' /\ ResultsFit'
  BY <1>1, <1>7 DEF ResponsesFit, ResultsFit, Buys
<1> QED BY <1>3, <1>4, <1>5, <1>6, <1>8
\* A request whose answer does not come in time fails.
LEMMA TimeoutKeeps ==
    ASSUME FrontInv, NEW c \in Calls, GW!Timeout(c), UNCHANGED store
    PROVE  FrontInv'
<1>1. pc[c] \in {"send", "wait"} /\ GW!Fails(c, 0) /\ UNCHANGED <<route, attempt, sent, response, store>>
  BY DEF GW!Timeout, GW!NoStatus
<1> QED BY <1>1, FailsKeeps

-----------------------------------------------------------------------------
\* A service answers a request with something that fits it, or not yet, and at most
\* the request's own purchase is new.
LEMMA ServeKeeps ==
    ASSUME FrontInv, NEW x \in Requests, x \in sent, UNCHANGED <<pc, route, attempt, result, sent>>,
           NEW a \in [status : Statuses \cup {0}, payload : SUBSET Requests],
           response' = [response EXCEPT ![x] = a],
           bought' = events', answer' \in [Requests -> Requests \cup {"none", "error", "lost"}],
           bought' = bought \/ (Buys(CallOf[x]) /\ Store!Matching(x) = {} /\ bought' = bought \cup {x}),
           Buys(CallOf[x]) /\ Succeeds(a.status) => Fits(a.payload, x)
    PROVE  FrontInv'
<1> USE DEF FrontInv
<1>1. bought \subseteq bought' /\ bought' \subseteq Requests
  BY DEF TypeOK
<1>2. TypeOK'
  BY <1>1 DEF TypeOK, GW!TypeOK, GW!NoStatus
<1>3. OnlyReadsRepeat' /\ FirstAttempt' /\ NewIsUnanswered' /\ SentByAttempt'
  BY DEF OnlyReadsRepeat, FirstAttempt, NewIsUnanswered, SentByAttempt, GW!Method, Buys
<1>4. AnsweredWasSent'
  BY DEF AnsweredWasSent, TypeOK, GW!TypeOK
<1>5. BoughtByRequest'
  BY DEF BoughtByRequest, Buys
<1>6. KeyUnique'
  <2>1. CASE bought' = bought
    BY <2>1 DEF KeyUnique, KeyOf, GW!ForwardedKey
  <2>2. CASE Store!Matching(x) = {} /\ bought' = bought \cup {x}
    <3>1. \A p \in bought : KeyOf(x) = None \/ KeyOf(p) # KeyOf(x)
      BY <2>2 DEF Store!Matching, KeyOf, TypeOK
    <3>2. \A p : KeyOf(p)' = KeyOf(p)
      BY DEF KeyOf, GW!ForwardedKey
    <3> HIDE DEF FrontInv
    <3>3. KeyUnique
      BY DEF FrontInv
    <3> QED BY <2>2, <3>1, <3>2, <3>3 DEF KeyUnique
  <2> QED BY <2>1, <2>2
<1>7. \A y, p : Fits(p, y) => Fits(p, y)'
  BY <1>1 DEF Fits, Store!Matching, GW!ForwardedKey
<1>8. ResponsesFit'
  BY <1>7 DEF ResponsesFit, Buys, TypeOK, GW!TypeOK
<1>9. ResultsFit'
  BY <1>7 DEF ResultsFit, Buys
<1> QED BY <1>2, <1>3, <1>4, <1>5, <1>6, <1>8, <1>9

\* The store buys once for a key and answers with a purchase of the request's key.
LEMMA ServePurchaseKeeps ==
    ASSUME FrontInv, NEW x \in Requests, ServePurchase(x)
    PROVE  FrontInv'
<1> DEFINE a == IF answer'[x] \in Requests THEN GW!Answer(201, {answer'[x]})
                ELSE IF answer'[x] = "error" THEN GW!Answer(500, {})
                ELSE GW!NoAnswer
<1>1. /\ x \in sent /\ Buys(CallOf[x]) /\ Store!Serve(x)
      /\ UNCHANGED <<pc, route, attempt, result, sent>>
      /\ response' = [response EXCEPT ![x] = a]
  BY DEF ServePurchase, Reaches, Buys, Answers, gateway
<1>2. /\ bought' = events' /\ answer' \in [Requests -> Requests \cup {"none", "error", "lost"}]
      /\ bought' = bought \/ (Store!Matching(x) = {} /\ bought' = bought \cup {x})
  BY <1>1 DEF Store!Serve, Store!Buy, Store!Reply, Store!Fail, Store!Matching, FrontInv, TypeOK, BoughtByRequest
<1>3. answer'[x] \in Requests => answer'[x] \in Store!Matching(x)
  BY <1>1, RequestAssumption
     DEF Store!Serve, Store!Buy, Store!Reply, Store!Fail, FrontInv, TypeOK
<1>4. /\ a \in [status : Statuses \cup {0}, payload : SUBSET Requests]
      /\ Succeeds(a.status) => Fits(a.payload, x)
  <2>1. CASE answer'[x] \in Requests
    <3>1. a = [status |-> 201, payload |-> {answer'[x]}]
      BY <2>1 DEF GW!Answer
    <3> HIDE DEF a
    <3> QED BY <2>1, <3>1, <1>3, StatusAssumption DEF Fits
  <2>2. CASE answer'[x] \notin Requests
    <3>1. a = [status |-> 500, payload |-> {}] \/ a = [status |-> 0, payload |-> {}]
      BY <2>2 DEF GW!Answer, GW!NoAnswer, GW!NoStatus
    <3> HIDE DEF a
    <3> QED BY <3>1, StatusAssumption DEF Succeeds, GW!IsError
  <2> QED BY <2>1, <2>2
<1> HIDE DEF a
<1> QED BY <1>1, <1>2, <1>4, ServeKeeps

\* Other endpoints leave the store alone.
LEMMA ServeOthersKeeps ==
    ASSUME FrontInv, NEW x \in Requests, ServeBanks(x) \/ ServeOther(x)
    PROVE  FrontInv'
<1>1. /\ x \in sent /\ ~Buys(CallOf[x])
      /\ UNCHANGED <<pc, route, attempt, result, sent>> /\ UNCHANGED <<bought, events, answer>>
  BY DEF ServeBanks, ServeOther, Reaches, Buys, gateway, store
<1>2. \E s \in Statuses \cup {0} : response' = [response EXCEPT ![x] = [status |-> s, payload |-> {}]]
  <2>1. CASE ServeBanks(x)
    <3>1. PICK s \in {0, 200, 500} : Answers(x, [status |-> s, payload |-> {}])
      BY <2>1 DEF ServeBanks, GW!Answer, GW!NoAnswer, GW!NoStatus
    <3>2. s \in Statuses \cup {0}
      BY StatusAssumption
    <3> WITNESS s \in Statuses \cup {0}
    <3> QED BY <3>1 DEF Answers
  <2>2. CASE ServeOther(x)
    BY <2>2 DEF ServeOther, Answers, GW!Answer
  <2> QED BY <2>1, <2>2
<1>3. PICK s \in Statuses \cup {0} : response' = [response EXCEPT ![x] = [status |-> s, payload |-> {}]]
  BY <1>2
<1> DEFINE a == [status |-> s, payload |-> {}]
<1>4. a \in [status : Statuses \cup {0}, payload : SUBSET Requests] /\ response' = [response EXCEPT ![x] = a]
  BY <1>3
<1>5. bought' = events' /\ answer' \in [Requests -> Requests \cup {"none", "error", "lost"}]
  BY <1>1 DEF FrontInv, BoughtByRequest, TypeOK
<1> HIDE DEF a
<1> QED BY <1>1, <1>4, <1>5, ServeKeeps

\* Every step keeps FrontInv.
LEMMA FrontStep == FrontInv /\ [Next]_vars => FrontInv'
<1> SUFFICES ASSUME FrontInv, [Next]_vars PROVE FrontInv'
  OBVIOUS
<1>1. ASSUME NEW c \in Calls, CallStep(c) PROVE FrontInv'
  <2>1. UNCHANGED store
    BY <1>1 DEF CallStep
  <2>2. GW!Receive(c) \/ GW!Send(c) \/ GW!Respond(c) \/ GW!Timeout(c) \/ GW!Delay(c)
    BY <1>1 DEF CallStep, GW!Step
  <2> QED BY <2>1, <2>2, ReceiveKeeps, SendKeeps, RespondKeeps, TimeoutKeeps, DelayKeeps
<1>2. ASSUME NEW x \in Requests, ServePurchase(x) \/ ServeBanks(x) \/ ServeOther(x) PROVE FrontInv'
  BY <1>2, ServePurchaseKeeps, ServeOthersKeeps
<1>3. CASE CacheExpires \/ UNCHANGED vars
  <2>1. UNCHANGED <<pc, route, attempt, result, sent, response, bought, events, answer>>
    BY <1>3 DEF CacheExpires, vars, gateway, store
  <2> USE <2>1 DEF FrontInv
  <2>2. TypeOK' /\ BoughtByRequest' /\ SentByAttempt' /\ AnsweredWasSent'
    BY DEF TypeOK, GW!TypeOK, BoughtByRequest, SentByAttempt, AnsweredWasSent, Buys
  <2>3. OnlyReadsRepeat' /\ FirstAttempt' /\ NewIsUnanswered' /\ KeyUnique'
    BY DEF OnlyReadsRepeat, FirstAttempt, NewIsUnanswered, KeyUnique, GW!Method, Buys
  <2>4. \A y, p : Fits(p, y)' <=> Fits(p, y)
    BY DEF Fits, Store!Matching
  <2>5. ResponsesFit' /\ ResultsFit'
    BY <2>4 DEF ResponsesFit, ResultsFit, Buys
  <2> QED BY <2>2, <2>3, <2>5
<1> QED BY <1>1, <1>2, <1>3 DEF Next

\* FrontInv is an invariant.
THEOREM FrontInvariant == Spec => []FrontInv
BY FrontInit, FrontStep, PTL DEF Spec

-----------------------------------------------------------------------------
\* POST /purchases through the gateway: what a client means to buy once is bought once,
\* however late a request executes and however often the client repeats its call with
\* its key.
THEOREM PurchasedOnce == Spec => []OnePurchasePerIntent
<1>1. FrontInv => OnePurchasePerIntent
  <2> SUFFICES ASSUME FrontInv, NEW p \in bought, NEW q \in bought, SamePurchase(CallOf[p], CallOf[q])
               PROVE  p = q
    BY DEF OnePurchasePerIntent
  <2>1. CASE CallOf[p] = CallOf[q]
    <3>1. /\ p = RequestOf[CallOf[p]][0]
          /\ q = RequestOf[CallOf[q]][0]
      <4> SUFFICES ASSUME NEW r \in bought PROVE r = RequestOf[CallOf[r]][0]
        OBVIOUS
      <4>1. r \in sent /\ r \in Requests /\ CallOf[r] \in Calls /\ Buys(CallOf[r])
        BY RequestsOfCalls DEF FrontInv, BoughtByRequest, TypeOK
      <4>2. attempt[CallOf[r]] = 0
        BY <4>1 DEF FrontInv, FirstAttempt
      <4> QED BY <4>1, <4>2 DEF FrontInv, SentByAttempt
    <3> QED BY <2>1, <3>1
  <2>2. CASE CallOf[p] # CallOf[q]
    <3>1. KeyOf(p) = KeyOf(q) /\ KeyOf(p) # None
      BY <2>2 DEF SamePurchase, KeyOf, GW!ForwardedKey
    <3> QED BY <3>1 DEF FrontInv, KeyUnique
  <2> QED BY <2>1, <2>2
<1> QED BY <1>1, FrontInvariant, PTL

\* POST /purchases through the gateway: repeated calls that succeed all return the one
\* purchase of their key, and it is stored with its event.
THEOREM RepeatsAgree == Spec => []RepeatGetsTheOriginal
<1>1. FrontInv => RepeatGetsTheOriginal
  <2> SUFFICES ASSUME FrontInv, NEW c \in Calls, NEW d \in Calls, SamePurchase(c, d), Buys(c), Buys(d)
               PROVE  /\ result[c].status = 201 =>
                           result[c].payload # {} /\ result[c].payload \subseteq bought \cap events
                      /\ result[c].status = 201 /\ result[d].status = 201 => result[c].payload = result[d].payload
    BY DEF RepeatGetsTheOriginal
  <2>1. 0 \in 0..ReadRetries
    BY RetriesAssumption
  <2>2. \A b \in Calls : RequestOf[b][0] \in Requests /\ CallOf[RequestOf[b][0]] = b
    BY <2>1, RequestsOfCalls, RequestAssumption
  <2>3. ASSUME NEW b \in {c, d}, result[b].status = 201
        PROVE  \E p \in Store!Matching(RequestOf[b][0]) : result[b].payload = {p}
    BY <2>3 DEF FrontInv, ResultsFit, Fits
  <2>4. bought = events
    BY DEF FrontInv, BoughtByRequest
  <2>5. result[c].status = 201 => result[c].payload # {} /\ result[c].payload \subseteq bought \cap events
    <3> SUFFICES ASSUME result[c].status = 201
                 PROVE  result[c].payload # {} /\ result[c].payload \subseteq bought \cap events
      OBVIOUS
    <3>1. PICK p \in Store!Matching(RequestOf[c][0]) : result[c].payload = {p}
      BY <2>3
    <3>2. p \in bought
      BY DEF Store!Matching
    <3> QED BY <2>4, <3>1, <3>2
  <2>6. ASSUME result[c].status = 201, result[d].status = 201 PROVE result[c].payload = result[d].payload
    <3>1. CASE c = d
      BY <3>1
    <3>2. CASE c # d
      <4>1. PICK p \in Store!Matching(RequestOf[c][0]) : result[c].payload = {p}
        BY <2>3, <2>6
      <4>2. PICK q \in Store!Matching(RequestOf[d][0]) : result[d].payload = {q}
        BY <2>3, <2>6
      <4>3. GW!ForwardedKey(c) = GW!ForwardedKey(d) /\ GW!ForwardedKey(c) # None
        BY <3>2 DEF SamePurchase, GW!ForwardedKey
      <4>4. p \in bought /\ q \in bought /\ p \in Requests /\ q \in Requests
        BY DEF Store!Matching, FrontInv, TypeOK
      <4>5. KeyOf(p) = GW!ForwardedKey(c)
        BY <2>2, <4>4 DEF Store!Matching, KeyOf
      <4>6. KeyOf(q) = GW!ForwardedKey(d)
        BY <2>2, <4>4 DEF Store!Matching, KeyOf
      <4>7. p = q
        BY <4>3, <4>4, <4>5, <4>6 DEF FrontInv, KeyUnique
      <4> QED BY <4>1, <4>2, <4>7
    <3> QED BY <3>1, <3>2
  <2> QED BY <2>5, <2>6
<1> QED BY <1>1, FrontInvariant, PTL

-----------------------------------------------------------------------------
\* The webhook, which is never repeated, is not a read.
LEMMA WebhookIsNoRead ==
    \A r \in GW!Routes \cup {GW!NoRoute} : r.handler = "handlePaystackWebhook" => r.method # "GET"
BY DEF GW!Routes, GW!PublicRoutes, GW!GroupRoutes, GW!AchievementRoutes, GW!BadgeRoutes, GW!CashbackRoutes,
       GW!Route, GW!NoRoute

\* The answers that ReadsFailLate is about.
Passing == {408, 429} \cup 500..599

\* The catch blocks answer a read with an error that may pass after the last attempt only.
LEMMA FailsLate ==
    ASSUME FrontInv, NEW c \in Calls, NEW status \in Statuses \cup {0}, GW!Fails(c, status)
    PROVE  \/ pc' = [pc EXCEPT ![c] = "delay"] /\ result' = result
           \/ \E s \in Statuses \cup {502} :
                /\ pc' = [pc EXCEPT ![c] = "done"]
                /\ result' = [result EXCEPT ![c] = [status |-> s, payload |-> {}]]
                /\ GW!Method(c) = "GET" /\ s \in Passing => attempt[c] = ReadRetries
<1>1. CASE GW!Raw(c)
  <2>1. GW!Method(c) # "GET"
    BY <1>1, WebhookIsNoRead DEF GW!Raw, GW!Method, FrontInv, TypeOK, GW!TypeOK
  <2> QED BY <1>1, <2>1 DEF GW!Fails, GW!ForwardRawFails, GW!Reply, GW!Goto, GW!Answer, GW!ToHttpException, GW!NoStatus
<1>2. CASE ~GW!Raw(c) /\ GW!ShouldRetry(c, status) /\ GW!Goto(c, "delay") /\ UNCHANGED result
  BY <1>2 DEF GW!Goto
<1>3. CASE ~GW!Raw(c) /\ ~GW!ShouldRetry(c, status) /\ GW!Reply(c, GW!ToHttpException(status), {})
  <2>1. PICK s \in Statuses \cup {502} : s = GW!ToHttpException(status)
    BY DEF GW!ToHttpException, GW!NoStatus
  <2>2. s \in Passing => status \in {0, 408, 429} \/ status >= 500
    BY <2>1, StatusAssumption DEF Passing, GW!ToHttpException, GW!NoStatus
  <2>3. attempt[c] \in 0..ReadRetries
    BY DEF FrontInv, TypeOK, GW!TypeOK
  <2>4. GW!Method(c) = "GET" /\ s \in Passing => ~(attempt[c] < ReadRetries)
    BY <1>3, <2>2 DEF GW!ShouldRetry, GW!NoStatus
  <2>5. GW!Method(c) = "GET" /\ s \in Passing => attempt[c] = ReadRetries
    BY <2>3, <2>4, RetriesAssumption
  <2>6. GW!Reply(c, s, {})
    BY <1>3, <2>1
  <2>7. /\ pc' = [pc EXCEPT ![c] = "done"]
        /\ result' = [result EXCEPT ![c] = [status |-> s, payload |-> {}]]
    BY <2>6 DEF GW!Reply, GW!Goto, GW!Answer
  <2> QED BY <2>5, <2>7
<1> QED BY <1>1, <1>2, <1>3 DEF GW!Fails, GW!ForwardFails

\* A call that was not answered before ends as FailsLate says, succeeds, is refused, or
\* does not end.
LEMMA CallEndsLate ==
    ASSUME FrontInv, ReadsFailLate, NEW c \in Calls, GW!Step(c)
    PROVE  ReadsFailLate'
<1>1. /\ pc[c] # "done"
      /\ \A d \in Calls \ {c} : /\ pc'[d] = pc[d] /\ route'[d] = route[d]
                                /\ attempt'[d] = attempt[d] /\ result'[d] = result[d]
  <2>1. CASE GW!Receive(c)
    BY <2>1 DEF GW!Receive, GW!Reply, GW!Goto, FrontInv, TypeOK, GW!TypeOK
  <2>2. CASE GW!Send(c) \/ GW!Respond(c) \/ GW!Timeout(c)
    <3>1. \/ GW!Fails(c, 0)
          \/ GW!Fails(c, response[GW!Current(c)].status)
          \/ GW!Goto(c, "wait") /\ UNCHANGED result
          \/ GW!Reply(c, GW!HttpCode(c), response[GW!Current(c)].payload)
      BY <2>2 DEF GW!Send, GW!Respond, GW!Timeout, GW!NoStatus
    <3>2. /\ \E l \in {"wait", "delay", "done"} : pc' = [pc EXCEPT ![c] = l]
          /\ result' = result \/ \E a : result' = [result EXCEPT ![c] = a]
      BY <3>1 DEF GW!Fails, GW!ForwardFails, GW!ForwardRawFails, GW!Reply, GW!Goto
    <3>3. UNCHANGED <<route, attempt>> /\ pc[c] # "done"
      BY <2>2 DEF GW!Send, GW!Respond, GW!Timeout
    <3> QED BY <3>2, <3>3 DEF FrontInv, TypeOK, GW!TypeOK
  <2>3. CASE GW!Delay(c)
    BY <2>3 DEF GW!Delay, GW!Goto, FrontInv, TypeOK, GW!TypeOK
  <2> QED BY <2>1, <2>2, <2>3 DEF GW!Step
<1>2. pc'[c] = "done" /\ GW!Method(c)' = "GET" /\ result'[c].status \in Passing => attempt'[c] = ReadRetries
  <2>1. CASE GW!Receive(c)
    BY <2>1 DEF GW!Receive, GW!Reply, GW!Goto, GW!Answer, Passing, FrontInv, TypeOK, GW!TypeOK
  <2>2. ASSUME NEW status \in Statuses \cup {0}, GW!Fails(c, status), UNCHANGED <<route, attempt>>
        PROVE  pc'[c] = "done" /\ GW!Method(c)' = "GET" /\ result'[c].status \in Passing => attempt'[c] = ReadRetries
    <3>1. CASE pc' = [pc EXCEPT ![c] = "delay"]
      BY <3>1 DEF FrontInv, TypeOK, GW!TypeOK
    <3>2. CASE \E s \in Statuses \cup {502} :
                 /\ result' = [result EXCEPT ![c] = [status |-> s, payload |-> {}]]
                 /\ GW!Method(c) = "GET" /\ s \in Passing => attempt[c] = ReadRetries
      <4>1. PICK s \in Statuses \cup {502} :
                 /\ result' = [result EXCEPT ![c] = [status |-> s, payload |-> {}]]
                 /\ GW!Method(c) = "GET" /\ s \in Passing => attempt[c] = ReadRetries
        BY <3>2
      <4>2. result'[c].status = s
        BY <4>1 DEF FrontInv, TypeOK, GW!TypeOK
      <4> QED BY <2>2, <4>1, <4>2 DEF GW!Method
    <3> QED BY <2>2, <3>1, <3>2, FailsLate
  <2>3. CASE GW!Send(c)
    <3>1. CASE GW!Goto(c, "wait")
      BY <3>1 DEF GW!Goto, FrontInv, TypeOK, GW!TypeOK
    <3> QED BY <2>2, <2>3, <3>1 DEF GW!Send, GW!NoStatus
  <2>4. CASE GW!Respond(c)
    <3>1. PICK status \in Statuses \cup {0} : status = response[GW!Current(c)].status
      BY RequestAssumption DEF GW!Current, GW!NoStatus, FrontInv, TypeOK, GW!TypeOK
    <3>2. CASE GW!Fails(c, status)
      BY <2>2, <2>4, <3>2 DEF GW!Respond
    <3>3. CASE GW!Reply(c, GW!HttpCode(c), response[GW!Current(c)].payload)
      BY <3>3 DEF GW!Reply, GW!Answer, GW!HttpCode, Passing, FrontInv, TypeOK, GW!TypeOK
    <3> QED BY <2>4, <3>1, <3>2, <3>3 DEF GW!Respond
  <2>5. CASE GW!Timeout(c)
    BY <2>2, <2>5 DEF GW!Timeout, GW!NoStatus
  <2>6. CASE GW!Delay(c)
    BY <2>6 DEF GW!Delay, GW!Goto, FrontInv, TypeOK, GW!TypeOK
  <2> QED BY <2>1, <2>3, <2>4, <2>5, <2>6 DEF GW!Step
<1> QED BY <1>1, <1>2 DEF ReadsFailLate, GW!Method, Passing

\* forward and shouldRetry: a read is answered with an error that may pass only after
\* readRetries + 1 attempts, whichever of them were lost, late or failed.
THEOREM ReadsAreRetried == Spec => []ReadsFailLate
<1>1. Init => ReadsFailLate
  BY DEF Init, GW!Init, ReadsFailLate
<1>2. FrontInv /\ ReadsFailLate /\ [Next]_vars => ReadsFailLate'
  <2> SUFFICES ASSUME FrontInv, ReadsFailLate, [Next]_vars PROVE ReadsFailLate'
    OBVIOUS
  <2>1. ASSUME NEW c \in Calls, CallStep(c) PROVE ReadsFailLate'
    BY <2>1, CallEndsLate DEF CallStep
  <2>2. CASE UNCHANGED <<pc, route, attempt, result>>
    BY <2>2 DEF ReadsFailLate, GW!Method
  <2> QED BY <2>1, <2>2 DEF Next, ServePurchase, ServeBanks, ServeOther, CacheExpires, vars, gateway
<1> QED BY <1>1, <1>2, FrontInvariant, PTL DEF Spec

-----------------------------------------------------------------------------
\* What is cached after an outage or a fetch.  A list within its TTL that is static, or
\* was cached again after it had expired, is there because a fetch failed; so is a
\* static list that has expired; and without a key nothing is ever cached.
CacheInv ==
    /\ cached \in [list : {"none", "paystack", "fallback"}, fresh : BOOLEAN, old : BOOLEAN]
    /\ task \in [Requests -> {"idle", "fetch", "done"}]
    /\ listing \in [Requests -> [list : {"none", "paystack", "fallback", "error"}, fresh : BOOLEAN, old : BOOLEAN]]
    /\ cached.list = "fallback" => outages
    /\ cached.fresh /\ cached.old => outages
    /\ OldListsNeedOutages

\* A list that is returned as cached, or cached and returned.
LEMMA ListIsReturned ==
    ASSUME CacheInv, NEW x \in Requests,
           NEW c \in [list : {"none", "paystack", "fallback", "error"}, fresh : BOOLEAN, old : BOOLEAN],
           BankList!Return(x, c), secret' = secret, outages => outages',
           c.list = "fallback" \/ c.old => outages' \/ ~secret
    PROVE  /\ task' \in [Requests -> {"idle", "fetch", "done"}]
           /\ listing' \in [Requests -> [list : {"none", "paystack", "fallback", "error"},
                                         fresh : BOOLEAN, old : BOOLEAN]]
           /\ OldListsNeedOutages'
BY DEF CacheInv, BankList!Return, OldListsNeedOutages

\* Every step of listBanks keeps CacheInv, and keeps Paystack's list.
LEMMA ListBanksKeeps ==
    ASSUME CacheInv, NEW x \in Requests, BankList!Step(x)
    PROVE  CacheInv' /\ (cached.list = "paystack" => cached'.list = "paystack")
<1> DEFINE Lists == [list : {"none", "paystack", "fallback", "error"}, fresh : BOOLEAN, old : BOOLEAN]
<1>1. CASE BankList!GetBanks(x)
  <2>1. UNCHANGED <<secret, cached, outages>>
    BY <1>1 DEF BankList!GetBanks
  <2>2. CASE task' = [task EXCEPT ![x] = "fetch"] /\ UNCHANGED listing
    BY <2>1, <2>2 DEF CacheInv, OldListsNeedOutages
  <2>3. CASE \E c \in Lists : BankList!Return(x, c) /\ (c.list = "fallback" \/ c.old => outages \/ ~secret)
    <3>1. PICK c \in Lists : BankList!Return(x, c) /\ (c.list = "fallback" \/ c.old => outages \/ ~secret)
      BY <2>3
    <3> QED BY <2>1, <3>1, ListIsReturned DEF CacheInv
  <2>4. CASE ~secret /\ BankList!Return(x, BankList!Cache("fallback", FALSE, FALSE))
    <3> DEFINE c == BankList!Cache("fallback", FALSE, FALSE)
    <3>1. c \in Lists
      BY DEF BankList!Cache
    <3> HIDE DEF c
    <3> QED BY <2>3, <2>4, <3>1 DEF c
  <2>5. CASE BankList!IsFresh /\ BankList!Return(x, cached)
    <3>1. cached \in Lists /\ (cached.list = "fallback" \/ cached.old => outages \/ ~secret)
      BY <2>5 DEF BankList!IsFresh, CacheInv
    <3> QED BY <2>3, <2>5, <3>1
  <2> QED BY <1>1, <2>2, <2>4, <2>5 DEF BankList!GetBanks
<1>2. ASSUME NEW list \in {"paystack", "fallback"}, NEW old \in BOOLEAN, BankList!Store(x, list, old),
             secret' = secret, outages => outages', list = "fallback" \/ old => outages'
      PROVE  CacheInv'
  <2>1. cached' = [list |-> list, fresh |-> TRUE, old |-> old] /\ BankList!Return(x, cached')
    BY <1>2 DEF BankList!Store, BankList!Cache
  <2>2. PICK c \in Lists : c = cached'
    BY <2>1
  <2>3. BankList!Return(x, c)
    BY <2>1, <2>2
  <2>4. c.list = "fallback" \/ c.old => outages' \/ ~secret
    BY <1>2, <2>1, <2>2
  <2>5. /\ task' \in [Requests -> {"idle", "fetch", "done"}]
        /\ listing' \in [Requests -> Lists]
        /\ OldListsNeedOutages'
    BY <1>2, <2>3, <2>4, ListIsReturned
  <2> QED BY <1>2, <2>1, <2>5 DEF CacheInv
<1>3. CASE BankList!Unreachable(x)
  <2>1. outages' = TRUE /\ secret' = secret
    BY <1>3 DEF BankList!Unreachable
  <2>2. CASE cached.list # "none"
    <3>1. PICK list \in {"paystack", "fallback"}, old \in BOOLEAN : list = cached.list /\ old = cached.old
      BY <2>2 DEF CacheInv
    <3>2. BankList!Store(x, list, old)
      BY <1>3, <2>2, <3>1 DEF BankList!Unreachable
    <3>3. CacheInv'
      BY <1>2, <2>1, <3>2
    <3> QED BY <3>1, <3>2, <3>3 DEF BankList!Store, BankList!Cache
  <2>3. CASE cached.list = "none"
    <3>1. BankList!Store(x, "fallback", FALSE)
      BY <1>3, <2>3 DEF BankList!Unreachable
    <3> QED BY <1>2, <2>1, <2>3, <3>1
  <2> QED BY <2>2, <2>3
<1>4. CASE BankList!PaystackAnswers(x)
  <2>1. secret' = secret /\ outages' = outages
    BY <1>4 DEF BankList!PaystackAnswers
  <2>2. CASE BankList!Store(x, "paystack", FALSE)
    <3>1. CacheInv'
      BY <1>2, <2>1, <2>2
    <3> QED BY <2>2, <3>1 DEF BankList!Store, BankList!Cache
  <2>3. CASE BankList!Return(x, BankList!Cache("error", FALSE, FALSE)) /\ UNCHANGED cached
    <3>1. BankList!Cache("error", FALSE, FALSE) \in Lists
      BY DEF BankList!Cache
    <3>2. PICK c \in Lists : c = BankList!Cache("error", FALSE, FALSE)
      BY <3>1
    <3>3. c.list = "error" /\ c.old = FALSE
      BY <3>2 DEF BankList!Cache
    <3> QED BY <2>1, <2>3, <3>2, <3>3, ListIsReturned DEF CacheInv
  <2> QED BY <1>4, <2>2, <2>3 DEF BankList!PaystackAnswers
<1> QED BY <1>1, <1>3, <1>4 DEF BankList!Step

\* Every step keeps CacheInv, and keeps Paystack's list.
LEMMA CacheStep ==
    CacheInv /\ [Next]_vars => CacheInv' /\ (cached.list = "paystack" => cached'.list = "paystack")
<1> SUFFICES ASSUME CacheInv, [Next]_vars
             PROVE  CacheInv' /\ (cached.list = "paystack" => cached'.list = "paystack")
  OBVIOUS
<1>1. ASSUME NEW x \in Requests, ServeBanks(x)
      PROVE  CacheInv' /\ (cached.list = "paystack" => cached'.list = "paystack")
  BY <1>1, ListBanksKeeps DEF ServeBanks
<1>2. CASE CacheExpires
  BY <1>2 DEF CacheExpires, BankList!CacheExpires, BankList!IsFresh, BankList!Cache, CacheInv, OldListsNeedOutages
<1>3. CASE UNCHANGED banks
  BY <1>3 DEF banks, CacheInv, OldListsNeedOutages
<1> QED BY <1>1, <1>2, <1>3 DEF Next, CallStep, ServePurchase, ServeOther, vars

\* CacheInv is an invariant.
LEMMA CacheInvariant == Spec => []CacheInv
<1>1. Init => CacheInv
  BY DEF Init, BankList!Init, BankList!Cache, CacheInv, OldListsNeedOutages
<1> QED BY <1>1, CacheStep, PTL DEF Spec

\* BanksService: old and static lists are served only if Paystack could not be reached or
\* no key is configured, whatever requests fetch at the same time.
THEOREM OldListsAreForced == Spec => []OldListsNeedOutages
<1>1. CacheInv => OldListsNeedOutages
  BY DEF CacheInv
<1> QED BY <1>1, CacheInvariant, PTL

\* fetchFromPaystack: no fetch that fails, however late, replaces Paystack's list.
THEOREM PaystackListSurvives == Spec => PaystackListIsKept
<1>1. CacheInv /\ [Next]_vars => [cached.list = "paystack" => cached'.list = "paystack"]_vars
  BY CacheStep
<1> QED BY <1>1, CacheInvariant, PTL DEF Spec, PaystackListIsKept

-----------------------------------------------------------------------------
(* The composition keeps the specifications of its parts. *)

\* An answer of a service, or none, is a step of the gateway's environment.
LEMMA AnswerIsServe ==
    ASSUME FrontInv, NEW x \in Requests, x \in sent, response[x] = GW!NoAnswer,
           NEW s \in Statuses \cup {0}, NEW payload \in SUBSET Requests, s = 0 => payload = {},
           Answers(x, GW!Answer(s, payload)), UNCHANGED gateway
    PROVE  [GW!Next]_(GW!vars)
<1>1. response' = [response EXCEPT ![x] = GW!Answer(s, payload)] /\ response \in [Requests -> {response[y] : y \in Requests}]
  BY DEF Answers, FrontInv, TypeOK, GW!TypeOK
<1>2. UNCHANGED <<GW!gatewayVars, sent>>
  BY DEF gateway, GW!gatewayVars
<1>3. CASE s = 0
  <2>1. GW!Answer(s, payload) = response[x]
    BY <1>3 DEF GW!NoAnswer, GW!NoStatus
  <2>2. response' = response
    BY <1>1, <2>1
  <2> QED BY <1>2, <2>2 DEF GW!vars
<1>4. CASE s \in Statuses
  <2>1. GW!Serve(x)
    BY <1>1, <1>2, <1>4 DEF GW!Serve
  <2> QED BY <2>1 DEF GW!Next
<1> QED BY <1>3, <1>4

\* The purchase service answers within what the gateway expects.
LEMMA PurchaseAnswers ==
    ASSUME FrontInv, NEW x \in Requests, ServePurchase(x)
    PROVE  [GW!Next]_(GW!vars)
<1>1. x \in sent /\ response[x] = GW!NoAnswer /\ UNCHANGED gateway
  BY DEF ServePurchase, Reaches
<1>2. GW!NoAnswer = GW!Answer(0, {}) /\ {201, 500} \subseteq Statuses
  BY StatusAssumption DEF GW!NoAnswer, GW!NoStatus
<1>3. PICK s \in Statuses \cup {0}, payload \in SUBSET Requests :
        (s = 0 => payload = {}) /\ Answers(x, GW!Answer(s, payload))
  <2>1. CASE answer'[x] \in Requests
    BY <1>2, <2>1, StatusAssumption DEF ServePurchase
  <2>2. CASE answer'[x] \notin Requests
    BY <1>2, <2>2 DEF ServePurchase
  <2> QED BY <2>1, <2>2
<1> QED BY <1>1, <1>3, AnswerIsServe

\* So do the bank list and the other endpoints.
LEMMA OthersAnswer ==
    ASSUME FrontInv, NEW x \in Requests, ServeBanks(x) \/ ServeOther(x)
    PROVE  [GW!Next]_(GW!vars)
<1>1. x \in sent /\ response[x] = GW!NoAnswer /\ UNCHANGED gateway
  BY DEF ServeBanks, ServeOther, Reaches
<1>2. GW!NoAnswer = GW!Answer(0, {}) /\ {200, 500} \subseteq Statuses
  BY StatusAssumption DEF GW!NoAnswer, GW!NoStatus
<1>3. PICK s \in Statuses \cup {0}, payload \in SUBSET Requests :
        (s = 0 => payload = {}) /\ Answers(x, GW!Answer(s, payload))
  <2>1. CASE ServeBanks(x)
    BY <1>2, <2>1 DEF ServeBanks
  <2>2. CASE ServeOther(x)
    <3>1. PICK s \in Statuses : Answers(x, GW!Answer(s, {}))
      BY <2>2 DEF ServeOther
    <3> QED BY <3>1, StatusAssumption
  <2> QED BY <2>1, <2>2
<1> QED BY <1>1, <1>3, AnswerIsServe

\* In front of the services the gateway, the purchase service and the bank list behave
\* as their own specifications say, so what holds of each part alone, and every
\* implementation of PurchaseStore, can be used here.
THEOREM PartsKeepTheirPromises == Spec => GW!Spec /\ Store!Spec /\ BankList!Spec
<1>1. Init => GW!Init /\ Store!Init /\ BankList!Init
  BY DEF Init
<1>2. FrontInv /\ [Next]_vars => [GW!Next]_(GW!vars)
  <2> SUFFICES ASSUME FrontInv, [Next]_vars PROVE [GW!Next]_(GW!vars)
    OBVIOUS
  <2>1. ASSUME NEW c \in Calls, CallStep(c) PROVE GW!Next
    BY <2>1 DEF CallStep, GW!Next
  <2>2. ASSUME NEW x \in Requests, ServePurchase(x) \/ ServeBanks(x) \/ ServeOther(x) PROVE [GW!Next]_(GW!vars)
    BY <2>2, PurchaseAnswers, OthersAnswer
  <2>3. CASE CacheExpires \/ UNCHANGED vars
    BY <2>3 DEF CacheExpires, vars, gateway, GW!vars, GW!gatewayVars
  <2> QED BY <2>1, <2>2, <2>3 DEF Next
<1>3. [Next]_vars => [Store!Next]_(Store!storeVars)
  <2> SUFFICES ASSUME [Next]_vars PROVE [Store!Next]_(Store!storeVars)
    OBVIOUS
  <2>1. ASSUME NEW x \in Requests, ServePurchase(x) PROVE Store!Next
    BY <2>1 DEF ServePurchase, Store!Next
  <2>2. CASE UNCHANGED store
    BY <2>2 DEF store, Store!storeVars
  <2> QED BY <2>1, <2>2 DEF Next, CallStep, ServeBanks, ServeOther, CacheExpires, vars
<1>4. [Next]_vars => [BankList!Next]_(BankList!banksVars)
  <2> SUFFICES ASSUME [Next]_vars PROVE [BankList!Next]_(BankList!banksVars)
    OBVIOUS
  <2>1. ASSUME NEW x \in Requests, ServeBanks(x) PROVE BankList!Next
    BY <2>1 DEF ServeBanks, BankList!Next
  <2>2. CASE UNCHANGED banks
    BY <2>2 DEF banks, BankList!banksVars
  <2>3. CASE CacheExpires
    BY <2>3 DEF CacheExpires, BankList!Next
  <2> QED BY <2>1, <2>2, <2>3 DEF Next, CallStep, ServePurchase, ServeOther, vars
<1> QED BY <1>1, <1>2, <1>3, <1>4, FrontInvariant, PTL DEF Spec, GW!Spec, Store!Spec, BankList!Spec
=============================================================================
