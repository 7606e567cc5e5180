------------------------------- MODULE Banks -------------------------------
(***************************************************************************)
(* BanksService of the cashback service: GET /banks is served from a cache  *)
(* of Paystack's list that expires after CACHE_TTL_MS.  While Paystack      *)
(* cannot be reached, the expired list, or else a static one, is served and *)
(* cached again.  Nothing keeps two requests from fetching at once.         *)
(***************************************************************************)
EXTENDS Naturals

CONSTANTS
    Requests,       \* GET /banks requests
    MaxExpiries     \* bound: how often the cache expires

VARIABLES
    secret,     \* is a Paystack secret key configured?
    cached,     \* this.cached: which list, is it within its TTL, is it an expired one cached again?
    task,       \* where each listBanks call is suspended
    listing,    \* what it returned
    outages,    \* history: has a fetch failed to reach Paystack?
    expiries    \* history: expiries so far

banksVars == <<secret, cached, task, listing, outages, expiries>>

Cache(list, fresh, old) == [list |-> list, fresh |-> fresh, old |-> old]

Init ==
    /\ secret \in BOOLEAN
    /\ cached = Cache("none", FALSE, FALSE)
    /\ task = [x \in Requests |-> "idle"]
    /\ listing = [x \in Requests |-> Cache("none", FALSE, FALSE)]
    /\ outages = FALSE
    /\ expiries = 0

Return(x, c) ==
    /\ task' = [task EXCEPT ![x] = "done"]
    /\ listing' = [listing EXCEPT ![x] = c]

\* getBanks caches what fetchFromPaystack returns and returns it.
Store(x, list, old) ==
    /\ cached' = Cache(list, TRUE, old)
    /\ Return(x, cached')

\* The cache can be served.
IsFresh == cached.list # "none" /\ cached.fresh

\* getBanks, up to the request to Paystack.
GetBanks(x) ==
    /\ task[x] = "idle"
    /\ \/ ~secret /\ Return(x, Cache("fallback", FALSE, FALSE))
       \/ secret /\ IsFresh /\ Return(x, cached)
       \/ secret /\ ~IsFresh /\ task' = [task EXCEPT ![x] = "fetch"] /\ UNCHANGED listing
    /\ UNCHANGED <<secret, cached, outages, expiries>>

\* Mutant of Unreachable: the static list is served whatever is cached by now.
Unreachable_Fallback(x) ==
    /\ task[x] = "fetch"
    /\ Store(x, "fallback", FALSE)
    /\ outages' = TRUE
    /\ UNCHANGED <<secret, expiries>>

\* fetch rejects: the cache as it is now, or the static list.  Between this read of the
\* cache and the write in listBanks are microtasks only, hence one step.
Unreachable(x) ==
    /\ task[x] = "fetch"
    /\ IF cached.list # "none" THEN Store(x, cached.list, cached.old) ELSE Store(x, "fallback", FALSE)
    /\ outages' = TRUE
    /\ UNCHANGED <<secret, expiries>>

\* Paystack answers; its list is good, or listBanks throws: an error status, a body
\* that breaks off, is not JSON or has no data.
PaystackAnswers(x) ==
    /\ task[x] = "fetch"
    /\ \/ Store(x, "paystack", FALSE)
       \/ Return(x, Cache("error", FALSE, FALSE)) /\ UNCHANGED cached
    /\ UNCHANGED <<secret, outages, expiries>>

\* The time to live of the cache ends.  It is hours, so no request is under way.
CacheExpires ==
    /\ expiries < MaxExpiries
    /\ IsFresh
    /\ \A x \in Requests : task[x] # "fetch"
    /\ cached' = Cache(cached.list, FALSE, TRUE)
    /\ expiries' = expiries + 1
    /\ UNCHANGED <<secret, task, listing, outages>>

Step(x) == GetBanks(x) \/ Unreachable(x) \/ PaystackAnswers(x)

Next == CacheExpires \/ \E x \in Requests : Step(x)

Spec == Init /\ [][Next]_banksVars
=============================================================================
