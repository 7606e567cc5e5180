----------------------------- MODULE AdminConfig -----------------------------
(***************************************************************************)
(* The loyalty configuration: AdminConfigService's create and update of      *)
(* achievement groups, achievements and badges as concurrent requests, and   *)
(* the seeder that inserts the defaults when a replica boots.                *)
(*                                                                         *)
(* The three tables follow one pattern and share their actions: a row has a  *)
(* sortOrder within its scope, which is the group for an achievement and the *)
(* table for the others.  Transactions are READ COMMITTED: a statement sees   *)
(* what is committed when it starts, an UPDATE waits for row locks and then  *)
(* tests its WHERE clause again, and what a transaction has shifted is       *)
(* locked and unseen until its commit.  Nothing is ever deleted.             *)
(***************************************************************************)
EXTENDS Naturals, FiniteSets, FiniteSetsExt

CONSTANTS
    Groups, Achievements, Badges,   \* keys and ids that may ever be used
    Default,    \* the rows of default-loyalty-config: a function on their ids
    Requests,   \* POST and PATCH requests, each handled once
    Body,       \* the method, row and fields of each request; None: not supplied
    Replicas,   \* booting replicas, each with a seeder
    None

Items == Groups \cup Achievements \cup Badges
Tables == <<Groups, Achievements, Badges>>
Defaults == DOMAIN Default

SameTable(i, j) == \E k \in 1..3 : {i, j} \subseteq Tables[k]

RowType == [group : Groups \cup {None}, sort : Nat, refs : SUBSET Achievements]

ASSUME TablesAssumption ==
    /\ Groups \cap Achievements = {}
    /\ Badges \cap (Groups \cup Achievements) = {}
    /\ None \notin Items \cup RowType
    /\ IsFiniteSet(Groups)
\* The defaults refer to defaults, groups to nothing, and no two have one position.
ASSUME DefaultAssumption ==
    /\ Defaults \subseteq Items
    /\ \A i \in Defaults :
         /\ Default[i] \in RowType
         /\ Default[i].refs \subseteq Defaults
         /\ Default[i].group \in Defaults \cup {None}
         /\ i \in Groups => Default[i].group = None /\ Default[i].refs = {}
    /\ \A i, j \in Defaults :
         i # j /\ SameTable(i, j) /\ Default[i].group = Default[j].group => Default[i].sort # Default[j].sort
ASSUME BodyAssumption ==
    \A q \in Requests :
        /\ Body[q].item \in Items
        /\ Body[q].group \in Groups \cup {None}
        /\ Body[q].sort \in Nat \cup {None}
        /\ Body[q].refs \subseteq Achievements \cup {None}

VARIABLES
    row,        \* committed rows, None where there is none
    call,       \* the requests in progress
    seeder,     \* onModuleInit of each replica
    overlapped  \* history: two requests' transactions were open at once

vars == <<row, call, seeder, overlapped>>

Exists(i) == row[i] # None

IdleCall == [pc |-> "new", entity |-> None, matched |-> {}, shifted |-> {}, loaded |-> None, ok |-> FALSE]

Calls ==
    [pc : {"new", "find", "next", "match", "shift", "write", "done"}, entity : RowType \cup {None},
     matched : SUBSET Items, shifted : SUBSET Items, loaded : RowType \cup {None}, ok : BOOLEAN]

TypeOK ==
    /\ row \in [Items -> RowType \cup {None}]
    /\ call \in [Requests -> Calls]
    /\ seeder \in [Replicas -> [table : 1..4, missing : SUBSET Defaults]]
    /\ overlapped \in BOOLEAN

Init ==
    /\ row = [i \in Items |-> None]
    /\ call = [q \in Requests |-> IdleCall]
    /\ seeder = [r \in Replicas |-> [table |-> 1, missing |-> {}]]
    /\ overlapped = FALSE

-----------------------------------------------------------------------------
(* LoyaltyConfigSeederService.onModuleInit *)

\* Which defaults does the table lack?  If none, the next table.
SeedFind(r) ==
    LET table == seeder[r].table
        missing == {i \in Defaults \cap Tables[table] : ~Exists(i)}
    IN
    /\ table <= 3
    /\ seeder[r].missing = {}
    /\ seeder' = [seeder EXCEPT ![r] = [table |-> IF missing = {} THEN table + 1 ELSE table, missing |-> missing]]
    /\ UNCHANGED <<row, call, overlapped>>

\* Mutant of SeedInsert: after a clash the same rows are inserted again.
SeedInsert_SameRows(r) ==
    LET missing == seeder[r].missing
        clash == \E i \in missing : Exists(i)
    IN
    /\ missing # {}
    /\ ~clash
    /\ row' = [i \in Items |-> IF i \in missing THEN Default[i] ELSE row[i]]
    /\ seeder' = [seeder EXCEPT ![r] = [table |-> @.table + 1, missing |-> {}]]
    /\ UNCHANGED <<call, overlapped>>

\* Mutant of SeedInsert: save instead of insert.
SeedInsert_Saves(r) ==
    LET missing == seeder[r].missing IN
    /\ missing # {}
    /\ row' = [i \in Items |-> IF i \in missing THEN Default[i] ELSE row[i]]
    /\ seeder' = [seeder EXCEPT ![r] = [table |-> @.table + 1, missing |-> {}]]
    /\ UNCHANGED <<call, overlapped>>

\* Insert them and go on to the next table; if another replica was faster the boot
\* fails on the primary key and starts again.
SeedInsert(r) ==
    LET missing == seeder[r].missing
        clash == \E i \in missing : Exists(i)
    IN
    /\ missing # {}
    /\ row' = IF clash THEN row ELSE [i \in Items |-> IF i \in missing THEN Default[i] ELSE row[i]]
    /\ seeder' = [seeder EXCEPT
         ![r] = [table |-> IF clash THEN 1 ELSE @.table + 1, missing |-> {}]]
    /\ UNCHANGED <<call, overlapped>>

\* Requests are served by replicas that have booted.
Serving == \E r \in Replicas : seeder[r].table = 4

-----------------------------------------------------------------------------
(* A create or update request. *)

Item(q) == Body[q].item
Creates(q) == Body[q].method = "POST"

\* The transaction of q is open.
Open(q) == call[q].pc \in {"next", "match", "shift", "write"}

\* Rows locked by the open transactions of others.
Locked(q) == UNION {call[p].shifted : p \in Requests \ {q}}

\* The request is over: answered with an error, its transaction rolled back.
Rollback(q) == [IdleCall EXCEPT !.pc = "done"]

\* Mutant of ReferencesKnown: references are not looked up.
ReferencesKnown_Skipped(q) == TRUE

\* The achievements that the body refers to.
References(q) == Body[q].refs \ {None}

ReferencesKnown(q) == \A a \in References(q) : Exists(a)

\* assertAchievementsExist, before the transaction; nothing to do without references.
AssertAchievementsExist(q) ==
    /\ Serving
    /\ call[q].pc = "new"
    /\ References(q) # {}
    /\ call' = [call EXCEPT ![q] = IF ReferencesKnown(q) THEN [@ EXCEPT !.pc = "find"] ELSE Rollback(q)]
    /\ UNCHANGED <<row, seeder, overlapped>>

\* The fields of the body over those of the row e (merge), or of an empty row.
Merge(q, e) ==
    [group |-> IF Body[q].group = None THEN e.group ELSE Body[q].group,
     sort |-> IF Body[q].sort = None THEN e.sort ELSE Body[q].sort,
     refs |-> IF None \in Body[q].refs THEN e.refs ELSE Body[q].refs]

EmptyRow == [group |-> None, sort |-> 0, refs |-> {}]

\* ConflictException or NotFoundException.
Refused(q) == IF Creates(q) THEN Exists(Item(q)) ELSE ~Exists(Item(q))

\* BEGIN and findOneBy.  A create goes on to make room, after nextGroupSortOrder if no
\* sortOrder is given; an update only if the position changes.
FindOne(q) ==
    LET old == IF Creates(q) THEN EmptyRow ELSE row[Item(q)]
        new == Merge(q, old)
    IN
    /\ Serving
    /\ call[q].pc = IF References(q) = {} THEN "new" ELSE "find"
    /\ overlapped' = (overlapped \/ \E p \in Requests \ {q} : Open(p))
    /\ \/ /\ Refused(q)
          /\ call' = [call EXCEPT ![q] = Rollback(q)]
       \/ /\ ~Refused(q)
          /\ call' = [call EXCEPT ![q] = [@ EXCEPT !.entity = new,
               !.pc = IF Creates(q)
                      THEN IF Body[q].sort = None THEN "next" ELSE "match"
                      ELSE IF new.group # old.group \/ new.sort # old.sort THEN "match" ELSE "shift"]]
    /\ UNCHANGED <<row, seeder>>

\* nextGroupSortOrder
NextGroupSortOrder(q) ==
    /\ call[q].pc = "next"
    /\ call' = [call EXCEPT ![q] = [@ EXCEPT !.pc = "match",
         !.entity.sort = Max({row[g].sort : g \in {h \in Groups : Exists(h)}} \cup {0}) + 1]]
    /\ UNCHANGED <<row, seeder, overlapped>>

\* Mutant of AtOrBehind: MoreThan instead of MoreThanOrEqual.
AtOrBehind_Behind(n, target) == n > target

AtOrBehind(n, target) == n >= target

\* The WHERE clause of makeRoomFor...SortOrder.
InTheWay(q, i) ==
    LET e == call[q].entity IN
    /\ Exists(i)
    /\ SameTable(i, Item(q))
    /\ row[i].group = e.group
    /\ AtOrBehind(row[i].sort, e.sort)
    /\ Creates(q) \/ i # Item(q)

\* The increment begins: its snapshot decides which rows it will look at.
MatchRows(q) ==
    /\ call[q].pc = "match"
    /\ call' = [call EXCEPT ![q] = [@ EXCEPT !.pc = "shift", !.matched = {i \in Items : InTheWay(q, i)}]]
    /\ UNCHANGED <<row, seeder, overlapped>>

\* It takes them one by one in the order of the scan, which is not defined, waits for
\* the lock of each and shifts it if it still matches.
ShiftRow(q) ==
    /\ call[q].pc = "shift"
    /\ \E i \in call[q].matched \ Locked(q) :
         call' = [call EXCEPT ![q].matched = @ \ {i},
                              ![q].shifted = IF InTheWay(q, i) THEN @ \cup {i} ELSE @]
    /\ UNCHANGED <<row, seeder, overlapped>>

\* Mutant of Seen: the row in the wanted position goes to the end, the others stay.
Seen_ToTheEnd(q, i) ==
    IF i \in call[q].shifted /\ row[i].sort = call[q].entity.sort
    THEN [row[i] EXCEPT !.sort = Max({row[j].sort : j \in call[q].shifted}) + 1]
    ELSE row[i]

\* The row of i as the transaction of q sees it.
Seen(q, i) == IF i \in call[q].shifted THEN [row[i] EXCEPT !.sort = @ + 1] ELSE row[i]

\* save: SELECT by primary key, after the increment has returned.
SaveSelect(q) ==
    /\ call[q].pc = "shift"
    /\ call[q].matched = {}
    /\ call' = [call EXCEPT ![q] = [@ EXCEPT !.pc = "write", !.loaded = Seen(q, Item(q))]]
    /\ UNCHANGED <<row, seeder, overlapped>>

\* save: INSERT, or UPDATE of the columns in which the entity differs from what the
\* SELECT has loaded.
Saved(q) ==
    LET e == call[q].entity
        l == call[q].loaded
        now == Seen(q, Item(q))
    IN  IF l = None THEN e
        ELSE [f \in DOMAIN e |-> IF e[f] # l[f] THEN e[f] ELSE now[f]]

\* A primary key or the foreign key of groupKey is violated.
Violates(q) ==
    \/ call[q].loaded = None /\ Exists(Item(q))
    \/ call[q].entity.group # None /\ ~Exists(call[q].entity.group)

\* The write of save, which waits for the row, and COMMIT.  An update changes some column,
\* if only one that is not modelled, so there is something to write.
SaveWrite(q) ==
    /\ call[q].pc = "write"
    /\ Item(q) \notin Locked(q)
    /\ \/ /\ Violates(q)
          /\ call' = [call EXCEPT ![q] = Rollback(q)]
          /\ UNCHANGED row
       \/ /\ ~Violates(q)
          /\ row' = [i \in Items |-> IF i = Item(q) THEN Saved(q) ELSE Seen(q, i)]
          /\ call' = [call EXCEPT ![q] = [IdleCall EXCEPT !.pc = "done", !.ok = TRUE]]
    /\ UNCHANGED <<seeder, overlapped>>

\* q waits for a row that p has locked.
WaitsFor(q, p) ==
    /\ q # p
    /\ \/ call[q].pc = "shift" /\ call[q].matched \cap call[p].shifted # {}
       \/ call[q].pc = "write" /\ Item(q) \in call[p].shifted

\* PostgreSQL ends one of the transactions that wait for each other.
DeadlockVictim(q) ==
    /\ \E p \in Requests : WaitsFor(q, p) /\ WaitsFor(p, q)
    /\ call' = [call EXCEPT ![q] = Rollback(q)]
    /\ UNCHANGED <<row, seeder, overlapped>>

\* A query fails for a reason that is not modelled: the unique name of an achievement or
\* a badge is taken, the connection is lost.
QueryFails(q) ==
    /\ Open(q)
    /\ call' = [call EXCEPT ![q] = Rollback(q)]
    /\ UNCHANGED <<row, seeder, overlapped>>

Handle(q) ==
    \/ AssertAchievementsExist(q) \/ FindOne(q) \/ NextGroupSortOrder(q) \/ MatchRows(q)
    \/ ShiftRow(q) \/ SaveSelect(q) \/ SaveWrite(q) \/ DeadlockVictim(q)

Seed(r) == SeedFind(r) \/ SeedInsert(r)

Progress ==
    \/ \E q \in Requests : Handle(q)
    \/ \E r \in Replicas : Seed(r)

Next == Progress \/ \E q \in Requests : QueryFails(q)

Spec == Init /\ [][Next]_vars

\* Queries return, PostgreSQL detects deadlocks, and a replica whose boot fails is started
\* again.  No query has to fail.
FairSpec == Spec /\ WF_vars(Progress)

-----------------------------------------------------------------------------
(* Properties. *)

SameScope(i, j) == SameTable(i, j) /\ row[i].group = row[j].group

\* Requests that do not overlap leave no two rows of a scope at one sortOrder, whichever
\* positions they ask for and whichever group they move a row to.
PositionsAreDistinct ==
    overlapped \/ \A i, j \in Items : Exists(i) /\ Exists(j) /\ i # j /\ SameScope(i, j) => row[i].sort # row[j].sort

\* Making room for a row does not change the order of the other rows of its scope:
\* "drag-and-drop-reorder semantics".
OthersKeepTheirOrder ==
    [][row' = row \/ overlapped' \/ \A i, j \in Items :
         /\ Exists(i) /\ Exists(j) /\ SameScope(i, j) /\ row[i].sort < row[j].sort
         /\ ~\E q \in Requests : call[q].pc = "write" /\ call'[q].pc = "done" /\ Item(q) \in {i, j}
         => row'[i].sort < row'[j].sort]_vars

\* Groups and referenced achievements exist, although the look-up happens outside the
\* transaction that relies on it and requests overlap.
NoDanglingReference ==
    \A i \in Items : Exists(i) =>
        /\ row[i].group # None => Exists(row[i].group)
        /\ \A a \in row[i].refs : Exists(a)

\* Once a replica serves, only a request changes the configuration.  One that boots later
\* and inserts what its stale look-up missed "never touches existing rows", edited or not.
OnlyRequestsChangeRows ==
    [][Serving /\ row' # row => \E q \in Requests : call[q].pc = "write" /\ call'[q].pc = "done"]_vars

\* Every request is answered and every replica boots: waits that form a cycle are
\* broken, and an aborted request keeps nobody waiting.
EveryRequestEnds ==
    <>(/\ \A q \in Requests : call[q].pc = "done"
       /\ \A r \in Replicas : seeder[r].table = 4)
=============================================================================
