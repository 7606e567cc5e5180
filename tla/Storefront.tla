----------------------------- MODULE Storefront -----------------------------
(***************************************************************************)
(* What a client of the system sees: the gateway in front of the purchase   *)
(* service, which is the store that Purchase implements, of the bank list   *)
(* of the cashback service, and of the other endpoints, whose answers are   *)
(* left open.  A client that repeats a call makes another call with the     *)
(* same idempotency key.                                                    *)
(***************************************************************************)
EXTENDS Naturals

CONSTANTS Calls, MayCall, Authorized, HeaderOf, EmptyHeader, Requests, RequestOf, ReadRetries,
          Statuses, MaxExpiries, None

VARIABLES
    pc, route, attempt, result, sent, response,             \* the gateway
    bought, events, answer,                                 \* the purchase service
    secret, cached, task, listing, outages, expiries        \* the bank list

gateway == <<pc, route, attempt, result, sent>>
store == <<bought, events, answer>>
banks == <<secret, cached, task, listing, outages, expiries>>
vars == <<gateway, response, store, banks>>

GW == INSTANCE Gateway

ASSUME RetriesAssumption == ReadRetries \in Nat
ASSUME RequestAssumption ==
    /\ \A c \in Calls, n \in 0..ReadRetries : RequestOf[c][n] \in Requests
    /\ \A c, d \in Calls : \A m, n \in 0..ReadRetries :
         RequestOf[c][m] = RequestOf[d][n] => c = d /\ m = n
    /\ \A x \in Requests : \E c \in Calls, n \in 0..ReadRetries : x = RequestOf[c][n]
    /\ Requests \cap {"none", "error", "lost"} = {}
ASSUME StatusAssumption == {200, 201, 202, 500} \subseteq Statuses /\ Statuses \subseteq 200..599

\* The call a request was made for.
CallOf == [x \in Requests |-> CHOOSE c \in Calls : \E n \in 0..ReadRetries : RequestOf[c][n] = x]

\* The purchase service sees the key that the gateway forwards.
Store == INSTANCE PurchaseStore WITH KeyOf <- [x \in Requests |-> GW!ForwardedKey(CallOf[x])]

BankList == INSTANCE Banks

TypeOK ==
    /\ GW!TypeOK
    /\ bought \subseteq Requests
    /\ events \subseteq Requests
    /\ answer \in [Requests -> Requests \cup {"none", "error", "lost"}]

Init == GW!Init /\ Store!Init /\ BankList!Init

-----------------------------------------------------------------------------
\* A request for one of the handlers has reached its service and is not answered.
Reaches(x, handlers) ==
    /\ x \in sent
    /\ response[x] = GW!NoAnswer
    /\ route[CallOf[x]].handler \in handlers

Answers(x, a) == response' = [response EXCEPT ![x] = a]

\* POST /purchases: an unhandled error is a 500, a dead replica answers nothing.
ServePurchase(x) ==
    /\ Reaches(x, {"createPurchase"})
    /\ Store!Serve(x)
    /\ Answers(x, IF answer'[x] \in Requests THEN GW!Answer(201, {answer'[x]})
                  ELSE IF answer'[x] = "error" THEN GW!Answer(500, {})
                  ELSE GW!NoAnswer)
    /\ UNCHANGED <<gateway, banks>>

\* GET /banks: what listBanks throws is a 500.
ServeBanks(x) ==
    /\ Reaches(x, {"listBanks"})
    /\ BankList!Step(x)
    /\ Answers(x, IF listing'[x].list = "none" THEN GW!NoAnswer
                  ELSE IF listing'[x].list = "error" THEN GW!Answer(500, {})
                  ELSE GW!Answer(200, {}))
    /\ UNCHANGED <<gateway, store>>

\* Any other endpoint.
ServeOther(x) ==
    /\ Reaches(x, {r.handler : r \in GW!Routes} \ {"createPurchase", "listBanks"})
    /\ \E s \in Statuses : Answers(x, GW!Answer(s, {}))
    /\ UNCHANGED <<gateway, store, banks>>

CallStep(c) == GW!Step(c) /\ UNCHANGED <<store, banks>>

CacheExpires == BankList!CacheExpires /\ UNCHANGED <<gateway, response, store>>

Next ==
    \/ \E c \in Calls : CallStep(c)
    \/ \E x \in Requests : ServePurchase(x) \/ ServeBanks(x) \/ ServeOther(x)
    \/ CacheExpires

Spec == Init /\ [][Next]_vars

\* A call that has arrived runs on: every request to a service ends with its answer or
\* with the timeout of the HTTP client.  The services need not be fair.
FairSpec == Spec /\ \A c \in Calls : WF_vars(pc[c] # "new" /\ CallStep(c))

-----------------------------------------------------------------------------
(* Properties. *)

Buys(c) == route[c].handler = "createPurchase"

\* Two calls are for the same purchase: the client repeated its call with its key.
SamePurchase(c, d) == c = d \/ (HeaderOf[c] = HeaderOf[d] /\ HeaderOf[c] \notin {None, EmptyHeader})

\* What a client means to buy once is bought once, although the gateway repeats reads,
\* a request may execute long after the gateway gave up on it, and the client then
\* repeats the call, which is executed before, after or between.
OnePurchasePerIntent ==
    \A p, q \in bought : SamePurchase(CallOf[p], CallOf[q]) => p = q

\* A repeated call that succeeds returns the original purchase, whichever of the calls
\* with the key made it and whatever the earlier ones were told.
RepeatGetsTheOriginal ==
    \A c, d \in Calls : SamePurchase(c, d) /\ Buys(c) /\ Buys(d) =>
        /\ result[c].status = 201 => result[c].payload # {} /\ result[c].payload \subseteq bought \cap events
        /\ result[c].status = 201 /\ result[d].status = 201 => result[c].payload = result[d].payload

\* A read fails for a reason that may pass only after readRetries + 1 attempts, so no
\* single lost, late or failing answer is seen by a client that reads.
ReadsFailLate ==
    \A c \in Calls :
        /\ pc[c] = "done" /\ GW!Method(c) = "GET"
        /\ result[c].status \in {408, 429} \cup 500..599
        => attempt[c] = ReadRetries

\* Every call that reaches the gateway is answered, whatever the services do: in the
\* end no call is under way.
EveryCallAnswered == <>[](\A c \in Calls : pc[c] \in {"new", "done"})

\* Once Paystack's list has been cached the static list is never served again: a slow
\* request whose fetch fails after another one's has succeeded finds the new list, since
\* fetchFromPaystack looks at the cache after the await.
PaystackListIsKept == [][cached.list = "paystack" => cached'.list = "paystack"]_vars

\* Old and static lists are served only if Paystack could not be reached, or no key is
\* configured.
OldListsNeedOutages ==
    \A x \in Requests : listing[x].list = "fallback" \/ listing[x].old => outages \/ ~secret
=============================================================================
