--------------------------- MODULE PurchaseStore ---------------------------
(***************************************************************************)
(* What POST /purchases of the purchase service promises: a request is      *)
(* answered with a purchase that is stored, its own or the one of its       *)
(* idempotency key, a key has one purchase, and a purchase is stored        *)
(* together with its event.  How long that takes, which transaction waits   *)
(* for which and who loses a race is not said.  An error is no promise that *)
(* nothing was stored.                                                      *)
(*                                                                         *)
(* Purchase implements this specification (Purchase!ActsAsStore); the       *)
(* gateway is checked against it (Storefront).                              *)
(***************************************************************************)
CONSTANTS
    Requests,   \* requests that may reach the service
    KeyOf,      \* idempotency key of each request, or None
    None

VARIABLES
    bought,     \* stored purchases, named by the request that made them
    events,     \* stored PurchaseCompleted events, named by their purchase
    answer      \* of each request: a purchase, "error", "lost", or "none" yet

storeVars == <<bought, events, answer>>

Init ==
    /\ bought = {}
    /\ events = {}
    /\ answer = [r \in Requests |-> "none"]

\* The purchases a request may be answered with.
Matching(r) == {p \in bought : p = r \/ (KeyOf[r] # None /\ KeyOf[p] = KeyOf[r])}

\* The request makes a purchase, the first of its key.
Buy(r) ==
    /\ answer[r] = "none"
    /\ Matching(r) = {}
    /\ bought' = bought \cup {r}
    /\ events' = events \cup {r}
    /\ UNCHANGED answer

\* Mutant of Reply: the look-up does not ask for the key.
Reply_AnyPurchase(r) ==
    /\ answer[r] = "none"
    /\ \E p \in bought : answer' = [answer EXCEPT ![r] = p]
    /\ UNCHANGED <<bought, events>>

\* The request is answered with a purchase.
Reply(r) ==
    /\ answer[r] = "none"
    /\ \E p \in Matching(r) : answer' = [answer EXCEPT ![r] = p]
    /\ UNCHANGED <<bought, events>>

\* The request fails, or its answer never comes, before or after the purchase.
Fail(r) ==
    /\ answer[r] = "none"
    /\ \E a \in {"error", "lost"} : answer' = [answer EXCEPT ![r] = a]
    /\ UNCHANGED <<bought, events>>

Serve(r) == Buy(r) \/ Reply(r) \/ Fail(r)

Next == \E r \in Requests : Serve(r)

Spec == Init /\ [][Next]_storeVars
=============================================================================
