------------------------------ MODULE Gateway ------------------------------
(***************************************************************************)
(* The API gateway: a call of a client passes the API key guard and the     *)
(* validation pipe, is forwarded to a service, again and again if it is a   *)
(* read that fails, and answered.                                           *)
(*                                                                         *)
(* An attempt is one request to a service.  A timeout ends the attempt at   *)
(* the gateway only: the service may still execute the request, and its     *)
(* answer is then ignored.  What the services do with a request is left to  *)
(* Serve; Storefront says what the purchase and the cashback service do.    *)
(***************************************************************************)
EXTENDS Naturals

CONSTANTS
    Calls,          \* HTTP calls of clients
    MayCall,        \* the handlers each call may be for
    Authorized,     \* the calls whose x-api-key is ADMIN_API_KEY
    HeaderOf,       \* the idempotency header of each call: a key, EmptyHeader or None
    EmptyHeader,    \* the header with no value
    Requests,       \* requests to the services
    RequestOf,      \* the request made by attempt n of a call
    ReadRetries,    \* readRetries
    Statuses,       \* HTTP statuses services answer with
    None

NoStatus == 0       \* no response reached the gateway

VARIABLES
    pc,         \* where each call is suspended
    route,      \* the route of each call that has arrived
    attempt,    \* the loop counter of forward
    result,     \* what the client was answered: a status and the payload
    sent,       \* requests that have left the gateway
    response    \* what the services have answered

gatewayVars == <<pc, route, attempt, result>>
vars == <<gatewayVars, sent, response>>

-----------------------------------------------------------------------------
(* The routes of GatewayController. *)

Route(handler, service, method, guarded) ==
    [handler |-> handler, service |-> service, method |-> method, guarded |-> guarded]

NoRoute == Route("none", "none", "none", FALSE)

PublicRoutes ==
    {Route("createPurchase", "purchase", "POST", FALSE),
     Route("listBanks", "cashback", "GET", FALSE),
     Route("getAchievements", "loyalty", "GET", FALSE)}

GroupRoutes ==
    {Route("getAchievementGroups", "loyalty", "GET", TRUE),
     Route("createAchievementGroup", "loyalty", "POST", TRUE),
     Route("updateAchievementGroup", "loyalty", "PATCH", TRUE)}

AchievementRoutes ==
    {Route("getAchievementConfigs", "loyalty", "GET", TRUE),
     Route("getLoyaltyCatalog", "loyalty", "GET", TRUE),
     Route("createAchievementConfig", "loyalty", "POST", TRUE),
     Route("updateAchievementConfig", "loyalty", "PATCH", TRUE)}

BadgeRoutes ==
    {Route("getBadgeConfigs", "loyalty", "GET", TRUE),
     Route("createBadgeConfig", "loyalty", "POST", TRUE),
     Route("updateBadgeConfig", "loyalty", "PATCH", TRUE)}

CashbackRoutes ==
    {Route("listCashbacks", "cashback", "GET", TRUE),
     Route("retryCashback", "cashback", "POST", TRUE),
     Route("handlePaystackWebhook", "cashback", "POST", FALSE)}

Routes == PublicRoutes \cup GroupRoutes \cup AchievementRoutes \cup BadgeRoutes \cup CashbackRoutes

Method(c) == route[c].method

\* Only the webhook goes through forwardRaw.
Raw(c) == route[c].handler = "handlePaystackWebhook"

\* optionalHeader: a header without a value is not forwarded.
ForwardedKey(c) == IF HeaderOf[c] = EmptyHeader THEN None ELSE HeaderOf[c]

Current(c) == RequestOf[c][attempt[c]]

Answer(status, payload) == [status |-> status, payload |-> payload]
NoAnswer == Answer(NoStatus, {})

\* axios rejects what is not a 2xx.
IsError(status) == status >= 300

\* The status of a handler that returns: its @HttpCode, or Nest's default for the method.
HttpCode(c) ==
    IF route[c].handler = "retryCashback" THEN 202
    ELSE IF Method(c) = "POST" /\ ~Raw(c) THEN 201 ELSE 200

-----------------------------------------------------------------------------
TypeOK ==
    /\ pc \in [Calls -> {"new", "send", "wait", "delay", "done"}]
    /\ route \in [Calls -> Routes \cup {NoRoute}]
    /\ attempt \in [Calls -> 0..ReadRetries]
    /\ sent \subseteq Requests
    /\ result \in [Calls -> [status : Statuses \cup {NoStatus, 400, 401, 502}, payload : SUBSET Requests]]
    /\ response \in [Requests -> [status : Statuses \cup {NoStatus}, payload : SUBSET Requests]]

Init ==
    /\ pc = [c \in Calls |-> "new"]
    /\ route = [c \in Calls |-> NoRoute]
    /\ attempt = [c \in Calls |-> 0]
    /\ result = [c \in Calls |-> NoAnswer]
    /\ sent = {}
    /\ response = [x \in Requests |-> NoAnswer]

Goto(c, label) == pc' = [pc EXCEPT ![c] = label]

\* HttpExceptionFilter, or the ResponseInterceptor around the payload.
Reply(c, status, payload) ==
    /\ Goto(c, "done")
    /\ result' = [result EXCEPT ![c] = Answer(status, payload)]

\* ApiKeyGuard.canActivate.
CanActivate(c, r) == r.guarded => c \in Authorized

\* A call arrives: the guard runs before the validation pipe, which may refuse it.
Receive(c) ==
    /\ pc[c] = "new"
    /\ \E r \in Routes :
         /\ r.handler \in MayCall[c]
         /\ route' = [route EXCEPT ![c] = r]
         /\ \/ ~CanActivate(c, r) /\ Reply(c, 401, {})
            \/ CanActivate(c, r) /\ Reply(c, 400, {})
            \/ CanActivate(c, r) /\ Goto(c, "send") /\ UNCHANGED result
    /\ UNCHANGED <<attempt, sent, response>>

\* Mutant of ShouldRetry: a write is repeated as well.
ShouldRetry_AnyMethod(c, status) ==
    /\ attempt[c] < ReadRetries
    /\ status \in {NoStatus, 408, 429} \/ status >= 500

\* Mutant of ShouldRetry: one attempt too few.
ShouldRetry_OffByOne(c, status) ==
    /\ Method(c) = "GET"
    /\ attempt[c] + 1 < ReadRetries
    /\ status \in {NoStatus, 408, 429} \/ status >= 500

\* shouldRetry.  Every failure of an exchange is an AxiosError; other errors, which it does
\* not retry, would come from interceptors, of which there are none.
ShouldRetry(c, status) ==
    /\ Method(c) = "GET"
    /\ attempt[c] < ReadRetries
    /\ status \in {NoStatus, 408, 429} \/ status >= 500

\* toHttpException: the service's status, or 502 if it gave none.
ToHttpException(status) == IF status = NoStatus THEN 502 ELSE status

\* The catch block of forward.
ForwardFails(c, status) ==
    \/ ShouldRetry(c, status) /\ Goto(c, "delay") /\ UNCHANGED result
    \/ ~ShouldRetry(c, status) /\ Reply(c, ToHttpException(status), {})

\* The catch block of forwardRaw.
ForwardRawFails(c, status) == Reply(c, ToHttpException(status), {})

Fails(c, status) == IF Raw(c) THEN ForwardRawFails(c, status) ELSE ForwardFails(c, status)

\* client.request sends the request, or cannot reach the service.
Send(c) ==
    /\ pc[c] = "send"
    /\ \/ sent' = sent \cup {Current(c)} /\ Goto(c, "wait") /\ UNCHANGED result
       \/ Fails(c, NoStatus) /\ UNCHANGED sent
    /\ UNCHANGED <<route, attempt, response>>

\* The answer of the service arrives in time.
Respond(c) ==
    LET a == response[Current(c)] IN
    /\ pc[c] = "wait"
    /\ a.status # NoStatus
    /\ IF IsError(a.status) THEN Fails(c, a.status) ELSE Reply(c, HttpCode(c), a.payload)
    /\ UNCHANGED <<route, attempt, sent, response>>

\* It does not, or the connection breaks.
Timeout(c) ==
    /\ pc[c] = "wait"
    /\ Fails(c, NoStatus)
    /\ UNCHANGED <<route, attempt, sent, response>>

\* Mutant of Delay: the attempt is not counted.
Delay_NotCounted(c) ==
    /\ pc[c] = "delay"
    /\ Goto(c, "send")
    /\ UNCHANGED <<route, attempt, result, sent, response>>

\* The delay before the next attempt ends.
Delay(c) ==
    /\ pc[c] = "delay"
    /\ attempt' = [attempt EXCEPT ![c] = @ + 1]
    /\ Goto(c, "send")
    /\ UNCHANGED <<route, result, sent, response>>

Step(c) == Receive(c) \/ Send(c) \/ Respond(c) \/ Timeout(c) \/ Delay(c)

\* A service answers a request that has reached it, with whatever payload.
Serve(x) ==
    /\ x \in sent
    /\ response[x] = NoAnswer
    /\ \E s \in Statuses, payload \in SUBSET Requests :
         response' = [response EXCEPT ![x] = Answer(s, payload)]
    /\ UNCHANGED <<gatewayVars, sent>>

Next == (\E c \in Calls : Step(c)) \/ (\E x \in Requests : Serve(x))

Spec == Init /\ [][Next]_vars
=============================================================================
