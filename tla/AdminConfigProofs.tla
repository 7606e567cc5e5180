------------------------- MODULE AdminConfigProofs -------------------------
(***************************************************************************)
(* The loyalty configuration for any tables, defaults, requests and         *)
(* replicas.                                                                *)
(*                                                                         *)
(* Two facts carry the proofs.  No seeder inserts anything once a replica   *)
(* serves, since all defaults exist by then; so only a request changes the  *)
(* configuration.  And as long as no two transactions were open at once,    *)
(* the one that is open knows exactly which rows are in its way, from the   *)
(* snapshot of its increment to its commit.  Without the second fact rows   *)
(* still refer to rows that exist, because nothing is ever deleted.         *)
(***************************************************************************)
EXTENDS AdminConfig, TLAPS, FiniteSetTheorems

\* What each seeder has done and is about to do.
SeedersOK ==
    \A r \in Replicas :
        /\ seeder[r].missing # {} =>
             /\ seeder[r].table \in 1..3
             /\ seeder[r].missing \subseteq Tables[seeder[r].table]
             /\ \A i \in (Defaults \cap Tables[seeder[r].table]) \ seeder[r].missing : Exists(i)
        /\ \A k \in 1..3 : k < seeder[r].table => \A i \in Defaults \cap Tables[k] : Exists(i)

\* Before a replica serves there are only defaults and no request has begun.
BeforeServing ==
    ~Serving => /\ \A i \in Items : Exists(i) => i \in Defaults /\ row[i] = Default[i]
                /\ \A q \in Requests : call[q].pc = "new"

\* What a request has looked up still exists.
CallOK(q) ==
    /\ call[q].pc = "find" => ReferencesKnown(q)
    /\ Open(q) => call[q].entity # None /\ \A a \in call[q].entity.refs : Exists(a)
    /\ call[q].pc \notin {"shift", "write"} => call[q].matched = {} /\ call[q].shifted = {}
    /\ \A i \in call[q].matched \cup call[q].shifted : Exists(i)
    /\ call[q].pc = "write" /\ call[q].loaded # None => Exists(Item(q))

CallsOK == \A q \in Requests : CallOK(q)

\* The request leaves its row where it is.
Stays(q) ==
    /\ ~Creates(q)
    /\ call[q].matched = {} /\ call[q].shifted = {}
    /\ call[q].entity.group = row[Item(q)].group /\ call[q].entity.sort = row[Item(q)].sort

\* What the only open transaction knows.
KnowsItsWay(q) ==
    Open(q) =>
        /\ Creates(q) <=> ~Exists(Item(q))
        /\ call[q].pc \in {"shift", "write"} =>
             Stays(q) \/ call[q].matched \cup call[q].shifted = {i \in Items : InTheWay(q, i)}
        /\ call[q].pc = "write" => call[q].matched = {} /\ call[q].loaded = row[Item(q)]

Alone ==
    overlapped \/ /\ \A p, q \in Requests : Open(p) /\ Open(q) => p = q
                  /\ \A q \in Requests : KnowsItsWay(q)

AdminInv ==
    /\ TypeOK
    /\ SeedersOK /\ BeforeServing
    /\ CallsOK /\ NoDanglingReference
    /\ Alone /\ PositionsAreDistinct

-----------------------------------------------------------------------------
\* The three tables.
LEMMA TheTables ==
    /\ Tables[1] = Groups /\ Tables[2] = Achievements /\ Tables[3] = Badges
    /\ 1..3 = {1, 2, 3}
    /\ \A i \in Items : \E k \in 1..3 : i \in Tables[k]
BY DEF Tables, Items

\* Tables do not share rows.
LEMMA SameTableTransitive ==
    ASSUME NEW i, NEW j, NEW k, SameTable(i, j), SameTable(i, k)
    PROVE  SameTable(j, k) /\ SameTable(j, i) /\ SameTable(k, i) /\ SameTable(k, j)
<1>1. PICK m \in {1, 2, 3} : {i, j} \subseteq Tables[m]
  BY TheTables DEF SameTable
<1>2. PICK n \in {1, 2, 3} : {i, k} \subseteq Tables[n]
  BY TheTables DEF SameTable
<1>3. m = n
  BY <1>1, <1>2, TheTables, TablesAssumption
<1> QED BY <1>1, <1>2, <1>3, TheTables DEF SameTable

\* A finite set of numbers has a largest one.
LEMMA LargestNumber ==
    ASSUME NEW S \in SUBSET Nat, IsFiniteSet(S), S # {}
    PROVE  Max(S) \in S
<1> DEFINE HasMax(t) == \E m \in t : \A n \in t : m >= n
           T == {t \in SUBSET S : t # {} /\ ~HasMax(t)}
<1>1. T = {}
  <2> SUFFICES ASSUME T # {} PROVE FALSE
    OBVIOUS
  <2>1. T \subseteq SUBSET S
    OBVIOUS
  <2>2. IsWellFoundedOn(StrictSubsetOrdering(S), SUBSET S)
    BY FS_StrictSubsetOrderingWellFounded, FS_FiniteSubsetsOfFinite
  <2>3. PICK t \in T : \A u \in T : ~(<<u, t>> \in StrictSubsetOrdering(S))
    <3> HIDE DEF T
    <3> QED BY <2>1, <2>2, WFMin
  <2>4. PICK x \in t : TRUE
    OBVIOUS
  <2>5. CASE t \ {x} = {}
    BY <2>4, <2>5
  <2>6. CASE t \ {x} # {}
    <3>1. <<t \ {x}, t>> \in (SUBSET S) \X (SUBSET S)
      OBVIOUS
    <3>2. <<t \ {x}, t>> \in StrictSubsetOrdering(S)
      BY <2>4, <3>1 DEF StrictSubsetOrdering
    <3>3. HasMax(t \ {x})
      BY <2>3, <2>6, <3>2
    <3>4. PICK m \in t \ {x} : \A n \in t \ {x} : m >= n
      BY <3>3
    <3>5. m \in Nat /\ x \in Nat /\ t \subseteq Nat
      OBVIOUS
    <3>6. CASE m >= x
      BY <3>4, <3>6
    <3>7. CASE ~(m >= x)
      <4>1. \A n \in t : x >= n
        BY <3>4, <3>5, <3>7
      <4> QED BY <4>1
    <3> QED BY <3>6, <3>7
  <2> QED BY <2>5, <2>6
<1>2. HasMax(S)
  BY <1>1
<1> QED BY <1>2 DEF Max

\* A replica that serves has seen all defaults.
LEMMA DefaultsExist ==
    ASSUME SeedersOK, Serving
    PROVE  \A i \in Defaults : Exists(i)
<1>1. PICK r \in Replicas : seeder[r].table = 4
  BY DEF Serving
<1> SUFFICES ASSUME NEW i \in Defaults PROVE Exists(i)
  OBVIOUS
<1>2. PICK k \in 1..3 : i \in Tables[k]
  BY TheTables, DefaultAssumption
<1>3. k < seeder[r].table
  BY <1>1
<1> QED BY <1>1, <1>2, <1>3 DEF SeedersOK

-----------------------------------------------------------------------------
(* The seeders. *)

\* A boot looks for missing defaults.
LEMMA SeedFindKeeps ==
    ASSUME AdminInv, NEW r \in Replicas, SeedFind(r)
    PROVE  AdminInv'
<1> DEFINE table == seeder[r].table
           missing == {i \in Defaults \cap Tables[table] : ~Exists(i)}
           new == [table |-> IF missing = {} THEN table + 1 ELSE table, missing |-> missing]
<1> USE DEF AdminInv
<1>1. /\ table \in 1..3 /\ seeder[r].missing = {}
      /\ seeder' = [seeder EXCEPT ![r] = new]
      /\ UNCHANGED <<row, call, overlapped>>
  BY DEF SeedFind, TypeOK
<1>2. new.table = (IF missing = {} THEN table + 1 ELSE table) /\ new.missing = missing
      /\ new \in [table : 1..4, missing : SUBSET Defaults]
  BY <1>1
<1>3. seeder'[r] = new /\ \A s \in Replicas \ {r} : seeder'[s] = seeder[s]
  BY <1>1 DEF TypeOK
<1> HIDE DEF new
<1>4. TypeOK'
  BY <1>1, <1>2 DEF TypeOK
<1>5. SeedersOK'
  <2> SUFFICES ASSUME NEW s \in Replicas
               PROVE  /\ seeder'[s].missing # {} =>
                           /\ seeder'[s].table \in 1..3
                           /\ seeder'[s].missing \subseteq Tables[seeder'[s].table]
                           /\ \A i \in (Defaults \cap Tables[seeder'[s].table]) \ seeder'[s].missing : Exists(i)
                      /\ \A k \in 1..3 : k < seeder'[s].table => \A i \in Defaults \cap Tables[k] : Exists(i)
    BY <1>1 DEF SeedersOK, Exists
  <2>1. CASE s # r
    BY <1>3, <2>1 DEF SeedersOK
  <2>2. CASE s = r
    <3>1. \A k \in 1..3 : k < table => \A i \in Defaults \cap Tables[k] : Exists(i)
      BY DEF SeedersOK
    <3>2. CASE missing = {}
      <4>1. \A i \in Defaults \cap Tables[table] : Exists(i)
        BY <3>2
      <4> QED BY <1>1, <1>2, <1>3, <2>2, <3>1, <3>2, <4>1
    <3>3. CASE missing # {}
      BY <1>1, <1>2, <1>3, <2>2, <3>1, <3>3
    <3> QED BY <3>2, <3>3
  <2> QED BY <2>1, <2>2
<1>6. Serving => Serving'
  BY <1>1, <1>3 DEF Serving
<1>7. BeforeServing' /\ CallsOK' /\ NoDanglingReference'
  BY <1>1, <1>6 DEF BeforeServing, CallsOK, CallOK, NoDanglingReference, Exists, ReferencesKnown, Open
<1>8. Alone' /\ PositionsAreDistinct'
  BY <1>1 DEF Alone, KnowsItsWay, Stays, InTheWay, PositionsAreDistinct, SameScope,
              Exists, Open
<1> QED BY <1>4, <1>5, <1>7, <1>8

\* A boot inserts the missing defaults, or starts again.  It inserts only if no replica
\* serves.
LEMMA SeedInsertKeeps ==
    ASSUME AdminInv, NEW r \in Replicas, SeedInsert(r)
    PROVE  AdminInv' /\ (row' = row \/ \A i \in Items : Exists(i) => row'[i] = row[i])
<1>1. PICK missing \in SUBSET Defaults : missing = seeder[r].missing /\ missing # {}
  BY DEF SeedInsert, AdminInv, TypeOK
<1>2. PICK table \in 1..3 : table = seeder[r].table
  BY <1>1 DEF AdminInv, SeedersOK
<1> USE DEF AdminInv
<1>3. /\ missing \subseteq Tables[table]
      /\ \A i \in (Defaults \cap Tables[table]) \ missing : Exists(i)
      /\ \A k \in 1..3 : k < table => \A i \in Defaults \cap Tables[k] : Exists(i)
  BY <1>1, <1>2 DEF SeedersOK
<1>4. CASE \E i \in missing : Exists(i)
  <2>1. PICK new \in [table : 1..4, missing : SUBSET Defaults] : new = [table |-> 1, missing |-> {}]
    <3>1. [table |-> 1, missing |-> {}] \in [table : 1..4, missing : SUBSET Defaults]
      OBVIOUS
    <3> QED BY <3>1
  <2>2. seeder' = [seeder EXCEPT ![r] = new] /\ UNCHANGED <<row, call, overlapped>>
    BY <1>1, <1>4, <2>1 DEF SeedInsert
  <2>3. new.table = 1 /\ new.missing = {} /\ seeder'[r] = new /\ \A s \in Replicas \ {r} : seeder'[s] = seeder[s]
    BY <2>1, <2>2 DEF TypeOK
  <2>4. TypeOK'
    BY <2>2 DEF TypeOK
  <2>5. SeedersOK'
    BY <2>2, <2>3 DEF SeedersOK, Exists
  <2>6. Serving => Serving'
    BY <1>2, <2>3 DEF Serving
  <2>7. BeforeServing' /\ CallsOK' /\ NoDanglingReference'
    BY <2>2, <2>6 DEF BeforeServing, CallsOK, CallOK, NoDanglingReference, Exists, ReferencesKnown, Open
  <2>8. Alone' /\ PositionsAreDistinct'
    BY <2>2 DEF Alone, KnowsItsWay, Stays, InTheWay, PositionsAreDistinct, SameScope,
                Exists, Open
  <2> QED BY <2>2, <2>4, <2>5, <2>7, <2>8
<1>5. CASE ~\E i \in missing : Exists(i)
  <2>1. PICK new \in [table : 1..4, missing : SUBSET Defaults] : new = [table |-> table + 1, missing |-> {}]
    <3>1. [table |-> table + 1, missing |-> {}] \in [table : 1..4, missing : SUBSET Defaults]
      OBVIOUS
    <3> QED BY <3>1
  <2>2. /\ seeder' = [seeder EXCEPT ![r] = new]
        /\ row' = [i \in Items |-> IF i \in missing THEN Default[i] ELSE row[i]]
        /\ UNCHANGED <<call, overlapped>>
    BY <1>1, <1>2, <1>5, <2>1 DEF SeedInsert, TypeOK
  <2>3. /\ new.table = table + 1 /\ new.missing = {}
        /\ seeder'[r] = new /\ \A s \in Replicas \ {r} : seeder'[s] = seeder[s]
    BY <2>1, <2>2 DEF TypeOK
  <2>4. ~Serving
    BY <1>1, <1>5, DefaultsExist
  <2>5. /\ \A i \in missing : i \in Items /\ Default[i] \in RowType /\ row'[i] = Default[i] /\ Exists(i)'
        /\ \A i \in Items : Exists(i) => row'[i] = row[i] /\ Exists(i)'
    BY <1>1, <1>5, <2>2, DefaultAssumption, TablesAssumption DEF Exists
  <2>6. TypeOK'
    <3>1. row' \in [Items -> RowType \cup {None}]
      BY <2>2, <2>5 DEF TypeOK
    <3> QED BY <2>2, <3>1 DEF TypeOK
  <2>7. SeedersOK'
    <3> SUFFICES ASSUME NEW s \in Replicas
                 PROVE  /\ seeder'[s].missing # {} =>
                             /\ seeder'[s].table \in 1..3
                             /\ seeder'[s].missing \subseteq Tables[seeder'[s].table]
                             /\ \A i \in (Defaults \cap Tables[seeder'[s].table]) \ seeder'[s].missing : Exists(i)'
                        /\ \A k \in 1..3 : k < seeder'[s].table => \A i \in Defaults \cap Tables[k] : Exists(i)'
      BY DEF SeedersOK, Exists
    <3>1. Defaults \subseteq Items
      BY DefaultAssumption
    <3>2. CASE s # r
      BY <2>3, <2>5, <3>1, <3>2 DEF SeedersOK
    <3>3. CASE s = r
      <4>1. \A i \in Defaults \cap Tables[table] : Exists(i)'
        BY <1>3, <2>5, <3>1
      <4> QED BY <1>3, <2>3, <2>5, <3>1, <3>3, <4>1
    <3> QED BY <3>2, <3>3
  <2>8. \A i \in Items : Exists(i)' => i \in Defaults /\ row'[i] = Default[i]
    BY <2>2, <2>4, <2>5 DEF BeforeServing, Exists
  <2>9. \A q \in Requests : call[q].pc = "new"
    BY <2>4 DEF BeforeServing
  <2>10. BeforeServing'
    BY <2>2, <2>8, <2>9 DEF BeforeServing
  <2>11. CallsOK' /\ Alone'
    <3>1. CallsOK'
      BY <2>2, <2>9 DEF CallsOK, CallOK, Open
    <3>2. Alone'
      BY <2>2, <2>9 DEF Alone, KnowsItsWay, Open
    <3> QED BY <3>1, <3>2
  <2>13. PositionsAreDistinct'
    BY <2>8, DefaultAssumption DEF PositionsAreDistinct, SameScope
  <2>14. NoDanglingReference'
    <3> SUFFICES ASSUME NEW i \in Items, row'[i] # None
                 PROVE  /\ row'[i].group # None => row'[row'[i].group] # None
                        /\ \A a \in row'[i].refs : row'[a] # None
      BY DEF NoDanglingReference, Exists
    <3>1. CASE Exists(i)
      <4>1. row'[i] = row[i] /\ row[i] \in RowType
        BY <2>5, <3>1 DEF TypeOK, Exists
      <4>2. /\ row[i].group # None => row[i].group \in Items /\ Exists(row[i].group)
            /\ \A a \in row[i].refs : a \in Items /\ Exists(a)
        BY <3>1, <4>1 DEF NoDanglingReference, RowType, Items
      <4>3. \A j \in Items : Exists(j) => row'[j] # None
        BY <2>5 DEF Exists
      <4> QED BY <4>1, <4>2, <4>3
    <3>2. CASE ~Exists(i)
      <4>1. i \in missing /\ row'[i] = Default[i] /\ i \in Tables[table]
        BY <1>3, <2>2, <2>5, <3>2 DEF Exists
      <4>2. /\ Default[i].group \in Groups \cup {None} /\ Default[i].refs \subseteq Achievements
            /\ Default[i].group \in Defaults \cup {None} /\ Default[i].refs \subseteq Defaults
            /\ Defaults \subseteq Items
        BY <4>1, DefaultAssumption DEF RowType
      <4>3. CASE table = 1
        <5>1. i \in Groups
          BY <4>1, <4>3, TheTables
        <5> QED BY <4>1, <5>1, DefaultAssumption
      <4>4. CASE table = 2 \/ table = 3
        <5>1. \A j \in Defaults \cap (Groups \cup Achievements) : row'[j] # None
          <6>1. \A j \in Defaults : Exists(j) \/ j \in missing => row'[j] # None
            BY <2>5, <4>2 DEF Exists
          <6> QED BY <1>3, <4>4, <6>1, TheTables
        <5> QED BY <4>1, <4>2, <5>1
      <4> QED BY <4>3, <4>4
    <3> QED BY <3>1, <3>2
  <2> QED BY <2>5, <2>6, <2>7, <2>10, <2>11, <2>13, <2>14
<1> QED BY <1>4, <1>5

-----------------------------------------------------------------------------
(* The requests. *)

\* A request that has begun found a replica that serves.
LEMMA BegunIsServed ==
    ASSUME AdminInv, NEW q \in Requests, call[q].pc # "new"
    PROVE  Serving
BY DEF AdminInv, BeforeServing

\* A step that changes nothing but what one request knows.
LEMMA CallStepKeeps ==
    ASSUME AdminInv, NEW q \in Requests, NEW c \in Calls,
           call' = [call EXCEPT ![q] = c], UNCHANGED <<row, seeder>>,
           overlapped' \in BOOLEAN, overlapped => overlapped', Serving,
           CallOK(q)',
           ~overlapped' => KnowsItsWay(q)' /\ (Open(q)' => \A p \in Requests \ {q} : ~Open(p))
    PROVE  AdminInv'
<1> USE DEF AdminInv
<1>1. call'[q] = c /\ \A p \in Requests \ {q} : call'[p] = call[p]
  BY DEF TypeOK
<1>2. TypeOK'
  BY DEF TypeOK
<1>3. SeedersOK' /\ BeforeServing' /\ NoDanglingReference'
  BY DEF SeedersOK, BeforeServing, NoDanglingReference, Exists, Serving
<1>4. PositionsAreDistinct'
  BY DEF PositionsAreDistinct, SameScope, Exists
<1>5. CallsOK'
  <2> SUFFICES ASSUME NEW p \in Requests \ {q} PROVE CallOK(p)'
    BY DEF CallsOK
  <2>1. CallOK(p) /\ call'[p] = call[p]
    BY <1>1 DEF CallsOK
  <2> QED BY <2>1 DEF CallOK, Open, ReferencesKnown, Exists
<1>6. Alone'
  <2> SUFFICES ASSUME ~overlapped'
               PROVE  /\ \A p, o \in Requests : Open(p)' /\ Open(o)' => p = o
                      /\ \A p \in Requests : KnowsItsWay(p)'
    BY DEF Alone
  <2>1. \A p \in Requests \ {q} : Open(p)' <=> Open(p)
    BY <1>1 DEF Open
  <2>2. \A p, o \in Requests : Open(p)' /\ Open(o)' => p = o
    BY <2>1 DEF Alone
  <2>3. ASSUME NEW p \in Requests \ {q} PROVE KnowsItsWay(p)'
    <3>1. KnowsItsWay(p) /\ call'[p] = call[p]
      BY <1>1 DEF Alone
    <3> QED BY <3>1 DEF KnowsItsWay, Stays, InTheWay, Open, Exists
  <2> QED BY <2>2, <2>3
<1> QED BY <1>2, <1>3, <1>4, <1>5, <1>6

\* The request ends without effect.
LEMMA RollbackKeeps ==
    ASSUME AdminInv, NEW q \in Requests, call' = [call EXCEPT ![q] = Rollback(q)],
           UNCHANGED <<row, seeder>>, overlapped' \in BOOLEAN, overlapped => overlapped', Serving
    PROVE  AdminInv'
<1>1. Rollback(q) \in Calls /\ Rollback(q).pc = "done" /\ Rollback(q).matched = {} /\ Rollback(q).shifted = {}
  BY DEF Rollback, IdleCall, Calls
<1>2. PICK c \in Calls : c = Rollback(q)
  BY <1>1
<1>3. call'[q] = c /\ c.pc = "done" /\ c.matched = {} /\ c.shifted = {}
  BY <1>1, <1>2 DEF AdminInv, TypeOK
<1>4. ~Open(q)'
  BY <1>3 DEF Open
<1>5. CallOK(q)' /\ KnowsItsWay(q)'
  BY <1>3, <1>4 DEF CallOK, KnowsItsWay
<1> QED BY <1>2, <1>4, <1>5, CallStepKeeps

\* The look-up of references before the transaction.
LEMMA AssertAchievementsExistKeeps ==
    ASSUME AdminInv, NEW q \in Requests, AssertAchievementsExist(q)
    PROVE  AdminInv'
<1> USE DEF AssertAchievementsExist
<1>0. overlapped' \in BOOLEAN /\ overlapped' = overlapped
  BY DEF AdminInv, TypeOK
<1>s. UNCHANGED <<row, seeder>> /\ Serving
  OBVIOUS
<1>1. CASE ~ReferencesKnown(q)
  <2>1. call' = [call EXCEPT ![q] = Rollback(q)]
    BY <1>1
  <2> HIDE DEF AssertAchievementsExist
  <2> QED BY <1>0, <1>s, <2>1, RollbackKeeps
<1>2. CASE ReferencesKnown(q)
  <2>1. call[q] \in Calls
    BY DEF AdminInv, TypeOK
  <2>2. [call[q] EXCEPT !.pc = "find"] \in Calls
    BY <2>1 DEF Calls
  <2>3. PICK c \in Calls : c = [call[q] EXCEPT !.pc = "find"]
    BY <2>2
  <2>4. call' = [call EXCEPT ![q] = c]
    BY <1>2, <2>3
  <2>5. call'[q] = c /\ c.pc = "find" /\ c.matched = {} /\ c.shifted = {}
    BY <2>1, <2>3, <2>4 DEF AdminInv, TypeOK, CallsOK, CallOK, Calls
  <2>6. ~Open(q)'
    BY <2>5 DEF Open
  <2>7. CallOK(q)' /\ KnowsItsWay(q)'
    BY <1>2, <2>5, <2>6 DEF CallOK, KnowsItsWay, ReferencesKnown, Exists
  <2> HIDE DEF AssertAchievementsExist
  <2> QED BY <1>0, <1>s, <2>4, <2>6, <2>7, CallStepKeeps
<1> QED BY <1>1, <1>2

\* The transaction begins and looks for the row.
LEMMA FindOneKeeps ==
    ASSUME AdminInv, NEW q \in Requests, FindOne(q)
    PROVE  AdminInv'
<1>0. overlapped' \in BOOLEAN /\ (overlapped => overlapped') /\ Serving /\ UNCHANGED <<row, seeder>>
      /\ (~overlapped' => \A p \in Requests \ {q} : ~Open(p))
      /\ call[q].pc \in {"new", "find"} /\ (References(q) # {} => call[q].pc = "find")
  BY DEF FindOne, AdminInv, TypeOK
<1>1. CASE Refused(q)
  <2>1. call' = [call EXCEPT ![q] = Rollback(q)]
    BY <1>1 DEF FindOne
  <2> QED BY <1>0, <2>1, RollbackKeeps
<1>2. CASE ~Refused(q)
  <2>1. Item(q) \in Items /\ (Creates(q) <=> ~Exists(Item(q)))
    BY <1>2, BodyAssumption DEF Refused, Item
  <2>2. (IF Creates(q) THEN EmptyRow ELSE row[Item(q)]) \in RowType
    BY <2>1 DEF EmptyRow, RowType, AdminInv, TypeOK, Exists
  <2>3. PICK old \in RowType : old = IF Creates(q) THEN EmptyRow ELSE row[Item(q)]
    BY <2>2
  <2>4. \A a \in old.refs : Exists(a)
    BY <2>1, <2>3 DEF EmptyRow, AdminInv, NoDanglingReference
  <2>5. Merge(q, old) \in RowType
    BY BodyAssumption DEF Merge, RowType
  <2>6. PICK new \in RowType : new = Merge(q, old)
    BY <2>5
  <2>7. \A a \in new.refs : Exists(a)
    <3>1. CASE None \in Body[q].refs
      BY <2>4, <2>6, <3>1 DEF Merge
    <3>2. CASE None \notin Body[q].refs
      <4>1. new.refs = References(q)
        BY <2>6, <3>2 DEF Merge, References
      <4>2. References(q) # {} => ReferencesKnown(q)
        BY <1>0 DEF AdminInv, CallsOK, CallOK
      <4> QED BY <4>1, <4>2 DEF ReferencesKnown
    <3> QED BY <3>1, <3>2
  <2>8. PICK pc \in {"next", "match", "shift"} :
             /\ call' = [call EXCEPT ![q] = [call[q] EXCEPT !.entity = new, !.pc = pc]]
             /\ pc = "shift" => ~Creates(q) /\ new.group = old.group /\ new.sort = old.sort
    BY <1>2, <2>3, <2>6, Zenon DEF FindOne
  <2>9. call[q] \in Calls
    BY DEF AdminInv, TypeOK
  <2>10. [call[q] EXCEPT !.entity = new, !.pc = pc] \in Calls
    BY <2>9 DEF Calls
  <2>11. PICK c \in Calls : c = [call[q] EXCEPT !.entity = new, !.pc = pc]
    BY <2>10
  <2>12. call'[q] = c /\ c.pc = pc /\ c.entity = new /\ c.matched = {} /\ c.shifted = {}
    BY <1>0, <2>8, <2>9, <2>11 DEF AdminInv, TypeOK, CallsOK, CallOK, Calls
  <2>13. new # None
    BY TablesAssumption
  <2>14. CallOK(q)'
    BY <1>0, <2>7, <2>12, <2>13 DEF CallOK, Exists
  <2>15. KnowsItsWay(q)'
    <3>1. (Creates(q) <=> ~Exists(Item(q)))'
      BY <1>0, <2>1 DEF Exists, Creates
    <3>2. pc = "shift" => Stays(q)'
      BY <1>0, <2>3, <2>8, <2>12 DEF Stays
    <3> QED BY <2>12, <3>1, <3>2 DEF KnowsItsWay
  <2> QED BY <1>0, <2>8, <2>11, <2>14, <2>15, CallStepKeeps
<1> QED BY <1>1, <1>2

\* A new group goes to the end.
LEMMA NextGroupSortOrderKeeps ==
    ASSUME AdminInv, NEW q \in Requests, NextGroupSortOrder(q)
    PROVE  AdminInv'
<1> DEFINE S == {row[g].sort : g \in {h \in Groups : Exists(h)}} \cup {0}
<1>1. call[q].pc = "next" /\ UNCHANGED <<row, seeder, overlapped>> /\ Serving
      /\ call' = [call EXCEPT ![q] = [call[q] EXCEPT !.pc = "match", !.entity.sort = Max(S) + 1]]
  BY BegunIsServed DEF NextGroupSortOrder
<1>2. Max(S) \in Nat
  <2>1. S \in SUBSET Nat
    BY DEF AdminInv, TypeOK, Exists, RowType, Items
  <2>2. IsFiniteSet(S)
    <3>1. IsFiniteSet({h \in Groups : Exists(h)})
      BY TablesAssumption, FS_Subset
    <3>2. PICK G : G = {h \in Groups : Exists(h)}
      OBVIOUS
    <3>3. PICK T : T = {row[g].sort : g \in G}
      OBVIOUS
    <3>4. [g \in G |-> row[g].sort] \in Surjection(G, T)
      BY <3>3 DEF Surjection
    <3>5. IsFiniteSet(T)
      BY <3>1, <3>2, <3>4, FS_Surjection
    <3>6. S = T \cup {0}
      BY <3>2, <3>3
    <3> QED BY <3>5, <3>6, FS_AddElement
  <2> HIDE DEF S
  <2>3. S # {}
    BY DEF S
  <2> QED BY <2>1, <2>2, <2>3, LargestNumber
<1> HIDE DEF S
<1>3. PICK n \in Nat : n = Max(S) + 1
  <2>1. PICK m \in Nat : m = Max(S)
    BY <1>2
  <2> QED BY <2>1
<1>4. call[q] \in Calls /\ call[q].entity \in RowType /\ CallOK(q)
  BY <1>1 DEF AdminInv, TypeOK, CallsOK, CallOK, Calls, Open
<1>5. PICK e \in RowType : e = [call[q].entity EXCEPT !.sort = n]
  <2>1. [call[q].entity EXCEPT !.sort = n] \in RowType
    BY <1>4 DEF RowType
  <2> QED BY <2>1
<1>6. PICK c \in Calls : c = [call[q] EXCEPT !.pc = "match", !.entity = e]
  <2>1. [call[q] EXCEPT !.pc = "match", !.entity = e] \in Calls
    BY <1>4 DEF Calls
  <2> QED BY <2>1
<1>7. call' = [call EXCEPT ![q] = c]
  BY <1>1, <1>3, <1>5, <1>6
<1>8. call'[q] = c /\ c.pc = "match" /\ c.entity = e /\ c.matched = {} /\ c.shifted = {} /\ e.refs = call[q].entity.refs
  BY <1>1, <1>4, <1>5, <1>6, <1>7 DEF AdminInv, TypeOK, CallOK, Calls, RowType
<1>9. e # None
  BY TablesAssumption
<1>10. CallOK(q)'
  BY <1>1, <1>4, <1>8, <1>9 DEF CallOK, Open, Exists
<1>11. Open(q)
  BY <1>1 DEF Open
<1>12. ~overlapped => KnowsItsWay(q)' /\ \A p \in Requests \ {q} : ~Open(p)
  BY <1>1, <1>8, <1>11 DEF AdminInv, Alone, KnowsItsWay, Exists
<1> QED BY <1>1, <1>7, <1>10, <1>12, CallStepKeeps DEF AdminInv, TypeOK

\* The snapshot of the increment.
LEMMA MatchRowsKeeps ==
    ASSUME AdminInv, NEW q \in Requests, MatchRows(q)
    PROVE  AdminInv'
<1> DEFINE M == {i \in Items : InTheWay(q, i)}
<1>1. call[q].pc = "match" /\ UNCHANGED <<row, seeder, overlapped>> /\ Serving
      /\ call' = [call EXCEPT ![q] = [call[q] EXCEPT !.pc = "shift", !.matched = M]]
  BY BegunIsServed DEF MatchRows
<1>2. call[q] \in Calls /\ CallOK(q) /\ Open(q)
  BY <1>1 DEF AdminInv, TypeOK, CallsOK, Open
<1>3. PICK m \in SUBSET Items : m = M
  OBVIOUS
<1> HIDE DEF M
<1>4. PICK c \in Calls : c = [call[q] EXCEPT !.pc = "shift", !.matched = m]
  <2>1. [call[q] EXCEPT !.pc = "shift", !.matched = m] \in Calls
    BY <1>2 DEF Calls
  <2> QED BY <2>1
<1>5. call' = [call EXCEPT ![q] = c]
  BY <1>1, <1>3, <1>4
<1>6. call'[q] = c /\ c.pc = "shift" /\ c.entity = call[q].entity /\ c.matched = m /\ c.shifted = {}
  BY <1>1, <1>2, <1>4, <1>5 DEF AdminInv, TypeOK, CallOK, Calls
<1>7. \A i \in m : Exists(i)
  BY <1>3 DEF M, InTheWay
<1>8. CallOK(q)'
  BY <1>1, <1>2, <1>6, <1>7 DEF CallOK, Open, Exists
<1>9. m = {i \in Items : InTheWay(q, i)'}
  BY <1>1, <1>3, <1>6 DEF M, InTheWay, Exists
<1>10. ~overlapped => KnowsItsWay(q)' /\ \A p \in Requests \ {q} : ~Open(p)
  BY <1>1, <1>2, <1>6, <1>9 DEF AdminInv, Alone, KnowsItsWay, Exists
<1> QED BY <1>1, <1>5, <1>8, <1>10, CallStepKeeps DEF AdminInv, TypeOK

\* The increment takes a row: in a transaction that is alone the row still matches.
LEMMA ShiftRowKeeps ==
    ASSUME AdminInv, NEW q \in Requests, ShiftRow(q)
    PROVE  AdminInv'
<1>1. call[q].pc = "shift" /\ UNCHANGED <<row, seeder, overlapped>> /\ Serving
  BY BegunIsServed DEF ShiftRow
<1>2. call[q] \in Calls /\ CallOK(q) /\ Open(q) /\ call[q].matched \subseteq Items /\ call[q].shifted \subseteq Items
  BY <1>1 DEF AdminInv, TypeOK, CallsOK, Open, Calls
<1>3. PICK i \in call[q].matched \ Locked(q) :
           call' = [call EXCEPT ![q].matched = @ \ {i},
                                ![q].shifted = IF InTheWay(q, i) THEN @ \cup {i} ELSE @]
  BY DEF ShiftRow
<1>4. PICK m \in SUBSET Items : m = call[q].matched \ {i}
  BY <1>2
<1>5. PICK s \in SUBSET Items : s = IF InTheWay(q, i) THEN call[q].shifted \cup {i} ELSE call[q].shifted
  BY <1>2, <1>3
<1>6. PICK c \in Calls : c = [call[q] EXCEPT !.matched = m, !.shifted = s]
  <2>1. [call[q] EXCEPT !.matched = m, !.shifted = s] \in Calls
    BY <1>2 DEF Calls
  <2> QED BY <2>1
<1>7. call' = [call EXCEPT ![q] = c]
  BY <1>2, <1>3, <1>4, <1>5, <1>6 DEF AdminInv, TypeOK, Calls
<1>8. call'[q] = c /\ c.pc = "shift" /\ c.entity = call[q].entity /\ c.matched = m /\ c.shifted = s
  BY <1>1, <1>2, <1>6, <1>7 DEF AdminInv, TypeOK, Calls
<1>9. CallOK(q)'
  <2>1. \A j \in m \cup s : Exists(j)
    BY <1>2, <1>3, <1>4, <1>5 DEF CallOK
  <2> QED BY <1>1, <1>2, <1>8, <2>1 DEF CallOK, Open, Exists
<1>10. ASSUME ~overlapped PROVE KnowsItsWay(q)' /\ \A p \in Requests \ {q} : ~Open(p)
  <2>1. KnowsItsWay(q) /\ \A p \in Requests \ {q} : ~Open(p)
    BY <1>2, <1>10 DEF AdminInv, Alone
  <2>2. call[q].matched \cup call[q].shifted = {j \in Items : InTheWay(q, j)}
    BY <1>1, <1>2, <1>3, <2>1 DEF KnowsItsWay, Stays
  <2>3. m \cup s = {j \in Items : InTheWay(q, j)}
    <3>1. InTheWay(q, i)
      BY <1>3, <2>2
    <3> QED BY <1>3, <1>4, <1>5, <2>2, <3>1
  <2>4. m \cup s = {j \in Items : InTheWay(q, j)'}
    BY <1>1, <1>8, <2>3 DEF InTheWay, Exists
  <2> QED BY <1>1, <1>2, <1>8, <2>1, <2>4 DEF KnowsItsWay, Exists
<1> QED BY <1>1, <1>7, <1>9, <1>10, CallStepKeeps DEF AdminInv, TypeOK

\* A transaction sees rows where there are rows.
LEMMA SeenRows ==
    ASSUME AdminInv, NEW q \in Requests, NEW i \in Items
    PROVE  /\ Exists(i) => /\ Seen(q, i) \in RowType /\ Seen(q, i) # None
                           /\ Seen(q, i).group = row[i].group /\ Seen(q, i).refs = row[i].refs
                           /\ Seen(q, i).sort = IF i \in call[q].shifted THEN row[i].sort + 1 ELSE row[i].sort
           /\ ~Exists(i) => Seen(q, i) = None
<1>1. CallOK(q)
  BY DEF AdminInv, CallsOK
<1>2. CASE Exists(i)
  <2>1. row[i] \in RowType
    BY <1>2 DEF AdminInv, TypeOK, Exists
  <2>2. Seen(q, i) \in RowType /\ Seen(q, i).group = row[i].group /\ Seen(q, i).refs = row[i].refs
        /\ Seen(q, i).sort = IF i \in call[q].shifted THEN row[i].sort + 1 ELSE row[i].sort
    BY <2>1 DEF Seen, RowType
  <2> QED BY <1>2, <2>2, TablesAssumption
<1>3. CASE ~Exists(i)
  <2>1. i \notin call[q].shifted
    BY <1>1, <1>3 DEF CallOK
  <2> QED BY <1>3, <2>1 DEF Seen, Exists
<1> QED BY <1>2, <1>3

\* A transaction that is alone does not shift the row it saves.
LEMMA OwnRowStays ==
    ASSUME AdminInv, NEW q \in Requests, ~overlapped, call[q].pc \in {"shift", "write"}
    PROVE  Item(q) \notin call[q].shifted /\ Seen(q, Item(q)) = row[Item(q)]
<1>1. KnowsItsWay(q) /\ Open(q)
  BY DEF AdminInv, Alone, Open
<1>2. Item(q) \notin call[q].shifted
  BY <1>1 DEF KnowsItsWay, Stays, InTheWay
<1> QED BY <1>2 DEF Seen

\* The SELECT of save.
LEMMA SaveSelectKeeps ==
    ASSUME AdminInv, NEW q \in Requests, SaveSelect(q)
    PROVE  AdminInv'
<1>1. call[q].pc = "shift" /\ call[q].matched = {} /\ UNCHANGED <<row, seeder, overlapped>> /\ Serving
      /\ call' = [call EXCEPT ![q] = [call[q] EXCEPT !.pc = "write", !.loaded = Seen(q, Item(q))]]
  BY BegunIsServed DEF SaveSelect
<1>2. call[q] \in Calls /\ CallOK(q) /\ Open(q) /\ Item(q) \in Items
  BY <1>1, BodyAssumption DEF AdminInv, TypeOK, CallsOK, Open, Item
<1>3. PICK l \in RowType \cup {None} : l = Seen(q, Item(q)) /\ (l # None => Exists(Item(q)))
  BY <1>2, SeenRows
<1>4. PICK c \in Calls : c = [call[q] EXCEPT !.pc = "write", !.loaded = l]
  <2>1. [call[q] EXCEPT !.pc = "write", !.loaded = l] \in Calls
    BY <1>2 DEF Calls
  <2> QED BY <2>1
<1>5. call' = [call EXCEPT ![q] = c]
  BY <1>1, <1>3, <1>4
<1>6. /\ call'[q] = c /\ c.pc = "write" /\ c.entity = call[q].entity /\ c.matched = {}
      /\ c.shifted = call[q].shifted /\ c.loaded = l
  BY <1>1, <1>2, <1>4, <1>5 DEF AdminInv, TypeOK, Calls
<1>7. CallOK(q)'
  BY <1>1, <1>2, <1>3, <1>6 DEF CallOK, Open, Exists, Item
<1>8. ASSUME ~overlapped PROVE KnowsItsWay(q)' /\ \A p \in Requests \ {q} : ~Open(p)
  <2>1. KnowsItsWay(q) /\ \A p \in Requests \ {q} : ~Open(p)
    BY <1>2, <1>8 DEF AdminInv, Alone
  <2>2. l = row[Item(q)]
    BY <1>1, <1>3, <1>8, OwnRowStays
  <2>3. Stays(q) => Stays(q)'
    BY <1>1, <1>6 DEF Stays
  <2>4. {j \in Items : InTheWay(q, j)} = {j \in Items : InTheWay(q, j)'}
    BY <1>1, <1>6 DEF InTheWay, Exists
  <2> QED BY <1>1, <1>2, <1>6, <2>1, <2>2, <2>3, <2>4 DEF KnowsItsWay, Exists
<1> QED BY <1>1, <1>5, <1>7, <1>8, CallStepKeeps DEF AdminInv, TypeOK

\* What is saved is a row that refers to rows that exist.
LEMMA SavedRow ==
    ASSUME AdminInv, NEW q \in Requests, call[q].pc = "write", ~Violates(q)
    PROVE  /\ Saved(q) \in RowType /\ Saved(q) # None
           /\ Saved(q).group # None => Exists(Saved(q).group)
           /\ \A a \in Saved(q).refs : Exists(a)
           /\ ~overlapped => Saved(q) = call[q].entity
<1>1. CallOK(q) /\ Open(q) /\ Item(q) \in Items
  BY BodyAssumption DEF AdminInv, CallsOK, Open, Item
<1>2. PICK e \in RowType : e = call[q].entity
  BY <1>1 DEF AdminInv, TypeOK, Calls, CallOK
<1>3. (e.group # None => Exists(e.group)) /\ \A a \in e.refs : Exists(a)
  BY <1>1, <1>2 DEF CallOK, Violates
<1>4. CASE call[q].loaded = None
  <2>1. Saved(q) = e
    BY <1>2, <1>4 DEF Saved
  <2> QED BY <1>2, <1>3, <2>1, TablesAssumption
<1>5. CASE call[q].loaded # None
  <2>1. PICK l \in RowType : l = call[q].loaded
    BY <1>5 DEF AdminInv, TypeOK, Calls
  <2>2. Exists(Item(q))
    BY <1>1, <1>5 DEF CallOK
  <2>3. PICK now \in RowType : now = Seen(q, Item(q))
    BY <1>1, <2>2, SeenRows
  <2>4. now.group = row[Item(q)].group /\ now.refs = row[Item(q)].refs
    BY <1>1, <2>2, <2>3, SeenRows
  <2>5. (now.group # None => Exists(now.group)) /\ \A a \in now.refs : Exists(a)
    BY <1>1, <2>2, <2>4 DEF AdminInv, NoDanglingReference
  <2>6. Saved(q) = [f \in DOMAIN e |-> IF e[f] # l[f] THEN e[f] ELSE now[f]]
    BY <1>2, <1>5, <2>1, <2>3 DEF Saved
  <2>7. DOMAIN e = {"group", "sort", "refs"}
    BY DEF RowType
  <2>8. Saved(q) = [group |-> IF e.group # l.group THEN e.group ELSE now.group,
                    sort |-> IF e.sort # l.sort THEN e.sort ELSE now.sort,
                    refs |-> IF e.refs # l.refs THEN e.refs ELSE now.refs]
    BY <2>6, <2>7
  <2>9. Saved(q) \in RowType
    BY <2>8 DEF RowType
  <2>10. ~overlapped => Saved(q) = e
    <3> SUFFICES ASSUME ~overlapped PROVE Saved(q) = e
      OBVIOUS
    <3>1. l = row[Item(q)] /\ now = row[Item(q)]
      BY <1>1, <2>1, <2>3, OwnRowStays DEF AdminInv, Alone, KnowsItsWay
    <3>2. Saved(q) = [group |-> e.group, sort |-> e.sort, refs |-> e.refs]
      BY <2>8, <3>1
    <3>3. e = [group |-> e.group, sort |-> e.sort, refs |-> e.refs]
      BY DEF RowType
    <3> QED BY <3>2, <3>3
  <2>11. Saved(q).group # None => Exists(Saved(q).group)
    BY <1>3, <2>5, <2>8
  <2>12. \A a \in Saved(q).refs : Exists(a)
    BY <1>3, <2>5, <2>8
  <2> QED BY <1>2, <2>9, <2>10, <2>11, <2>12, TablesAssumption
<1> QED BY <1>4, <1>5

\* The commit of a save: every row stays, what is saved exists, and a transaction that is
\* alone has moved exactly the rows at and behind its position.
LEMMA WhatIsCommitted ==
    ASSUME AdminInv, NEW q \in Requests, SaveWrite(q), ~Violates(q)
    PROVE  /\ call[q].pc = "write" /\ Item(q) \in Items
           /\ row' \in [Items -> RowType \cup {None}]
           /\ row'[Item(q)] = Saved(q) /\ row'[Item(q)] # None
           /\ \A i \in Items \ {Item(q)} :
                /\ row'[i] # None <=> Exists(i)
                /\ Exists(i) => /\ row'[i].group = row[i].group /\ row'[i].refs = row[i].refs
                                /\ row'[i].sort = IF i \in call[q].shifted THEN row[i].sort + 1 ELSE row[i].sort
           /\ ~overlapped =>
                /\ row'[Item(q)] = call[q].entity
                /\ Stays(q) \/ call[q].shifted = {i \in Items : InTheWay(q, i)}
<1>1. call[q].pc = "write" /\ Item(q) \in Items
      /\ row' = [i \in Items |-> IF i = Item(q) THEN Saved(q) ELSE Seen(q, i)]
  BY BodyAssumption DEF SaveWrite, Item
<1>2. Saved(q) \in RowType /\ Saved(q) # None /\ (~overlapped => Saved(q) = call[q].entity)
  BY <1>1, SavedRow
<1>3. row'[Item(q)] = Saved(q) /\ \A i \in Items \ {Item(q)} : row'[i] = Seen(q, i)
  BY <1>1
<1>4. \A i \in Items : Seen(q, i) \in RowType \cup {None}
  BY SeenRows
<1>5. row' \in [Items -> RowType \cup {None}]
  BY <1>1, <1>2, <1>4
<1>6. \A i \in Items \ {Item(q)} :
        /\ row'[i] # None <=> Exists(i)
        /\ Exists(i) => /\ row'[i].group = row[i].group /\ row'[i].refs = row[i].refs
                        /\ row'[i].sort = IF i \in call[q].shifted THEN row[i].sort + 1 ELSE row[i].sort
  BY <1>3, SeenRows
<1>7. ~overlapped => Stays(q) \/ call[q].shifted = {i \in Items : InTheWay(q, i)}
  BY <1>1 DEF AdminInv, Alone, KnowsItsWay, Open
<1> QED BY <1>1, <1>2, <1>3, <1>5, <1>6, <1>7

\* Of two rows of a scope that a lone transaction does not save, the one behind moves if the
\* one in front does.
LEMMA ShiftIsMonotone ==
    ASSUME AdminInv, NEW q \in Requests, SaveWrite(q), ~Violates(q), ~overlapped,
           NEW i \in Items \ {Item(q)}, NEW j \in Items \ {Item(q)},
           Exists(i), Exists(j), SameScope(i, j), row[i].sort < row[j].sort
    PROVE  row'[i].sort < row'[j].sort
<1>1. row[i].sort \in Nat /\ row[j].sort \in Nat
  BY DEF AdminInv, TypeOK, Exists, RowType
<1>2. /\ row'[i].sort = IF i \in call[q].shifted THEN row[i].sort + 1 ELSE row[i].sort
      /\ row'[j].sort = IF j \in call[q].shifted THEN row[j].sort + 1 ELSE row[j].sort
  BY WhatIsCommitted
<1>3. i \in call[q].shifted => j \in call[q].shifted
  <2> SUFFICES ASSUME i \in call[q].shifted PROVE j \in call[q].shifted
    OBVIOUS
  <2>1. call[q].shifted = {k \in Items : InTheWay(q, k)}
    BY WhatIsCommitted DEF Stays
  <2>2. SameTable(i, Item(q)) /\ row[i].group = call[q].entity.group /\ row[i].sort >= call[q].entity.sort
    BY <2>1 DEF InTheWay, AtOrBehind
  <2>3. call[q].entity.sort \in Nat
    <3>1. call[q].entity \in RowType
      BY WhatIsCommitted DEF AdminInv, TypeOK, Calls, CallsOK, CallOK, Open
    <3> QED BY <3>1 DEF RowType
  <2>4. SameTable(j, Item(q)) /\ row[j].group = call[q].entity.group
    BY <2>2, SameTableTransitive DEF SameScope
  <2>5. row[j].sort >= call[q].entity.sort
    BY <1>1, <2>2, <2>3
  <2> QED BY <2>1, <2>4, <2>5 DEF InTheWay, AtOrBehind
<1> QED BY <1>1, <1>2, <1>3

\* The row that a lone transaction saves has its position to itself.
LEMMA SavedPositionIsFree ==
    ASSUME AdminInv, NEW q \in Requests, SaveWrite(q), ~Violates(q), ~overlapped,
           NEW j \in Items \ {Item(q)}, Exists(j), SameTable(j, Item(q)),
           row'[j].group = row'[Item(q)].group
    PROVE  row'[j].sort # row'[Item(q)].sort
<1>1. PICK e \in RowType : e = call[q].entity
  BY WhatIsCommitted DEF AdminInv, TypeOK, Calls, CallsOK, CallOK, Open
<1>2. row[j].sort \in Nat /\ e.sort \in Nat
  BY DEF AdminInv, TypeOK, Exists, RowType
<1>3. /\ row'[Item(q)] = e
      /\ row'[j].group = row[j].group
      /\ row'[j].sort = IF j \in call[q].shifted THEN row[j].sort + 1 ELSE row[j].sort
      /\ Item(q) \in Items
  BY <1>1, WhatIsCommitted
<1>4. CASE Stays(q)
  <2>1. Open(q) /\ KnowsItsWay(q)
    BY WhatIsCommitted DEF AdminInv, Alone, Open
  <2>2. Exists(Item(q))
    BY <1>4, <2>1 DEF KnowsItsWay, Stays
  <2>3. SameScope(j, Item(q)) /\ row[Item(q)].sort = e.sort /\ row'[j].sort = row[j].sort
    BY <1>1, <1>3, <1>4 DEF Stays, SameScope
  <2> QED BY <1>3, <2>2, <2>3 DEF AdminInv, PositionsAreDistinct
<1>5. CASE ~Stays(q)
  <2>1. call[q].shifted = {k \in Items : InTheWay(q, k)}
    BY <1>5, WhatIsCommitted
  <2>2. j \in call[q].shifted <=> row[j].sort >= e.sort
    BY <1>1, <1>3, <2>1 DEF InTheWay, AtOrBehind
  <2> QED BY <1>2, <1>3, <2>2
<1> QED BY <1>4, <1>5

\* The write and commit of a save.
LEMMA SaveWriteKeeps ==
    ASSUME AdminInv, NEW q \in Requests, SaveWrite(q)
    PROVE  AdminInv'
<1>0. call[q].pc = "write" /\ Serving /\ Open(q) /\ UNCHANGED <<seeder, overlapped>> /\ overlapped' \in BOOLEAN
  BY BegunIsServed DEF SaveWrite, Open, AdminInv, TypeOK
<1>1. CASE Violates(q)
  <2>1. call' = [call EXCEPT ![q] = Rollback(q)] /\ UNCHANGED row
    BY <1>1 DEF SaveWrite
  <2> QED BY <1>0, <2>1, RollbackKeeps
<1>2. CASE ~Violates(q)
  <2>1. PICK c \in Calls : c = [IdleCall EXCEPT !.pc = "done", !.ok = TRUE]
    <3>1. [IdleCall EXCEPT !.pc = "done", !.ok = TRUE] \in Calls
      BY DEF IdleCall, Calls
    <3> QED BY <3>1
  <2>2. call' = [call EXCEPT ![q] = c]
    BY <1>2, <2>1 DEF SaveWrite
  <2>3. /\ call'[q] = c /\ \A p \in Requests \ {q} : call'[p] = call[p]
        /\ c.pc = "done" /\ c.matched = {} /\ c.shifted = {}
    BY <2>1, <2>2 DEF AdminInv, TypeOK, IdleCall
  <2>4. /\ Item(q) \in Items /\ row' \in [Items -> RowType \cup {None}]
        /\ row'[Item(q)] = Saved(q) /\ row'[Item(q)] # None
        /\ \A i \in Items \ {Item(q)} :
             /\ row'[i] # None <=> Exists(i)
             /\ Exists(i) => row'[i].group = row[i].group /\ row'[i].refs = row[i].refs
    BY <1>2, WhatIsCommitted
  <2>5. \A i \in Items : Exists(i) => row'[i] # None
    BY <2>4
  <2>7. TypeOK'
    <3>1. call' \in [Requests -> Calls]
      BY <2>2 DEF AdminInv, TypeOK
    <3> QED BY <1>0, <2>4, <3>1 DEF AdminInv, TypeOK
  <2>8. SeedersOK'
    <3>1. Defaults \subseteq Items
      BY DefaultAssumption
    <3> QED BY <1>0, <2>5, <3>1 DEF AdminInv, SeedersOK, Exists
  <2>9. BeforeServing'
    BY <1>0 DEF BeforeServing, Serving
  <2>10. CallsOK'
    <3>1. CallOK(q)'
      BY <2>3 DEF CallOK, Open
    <3>2. ASSUME NEW p \in Requests \ {q} PROVE CallOK(p)'
      <4>1. CallOK(p) /\ call'[p] = call[p] /\ call[p] \in Calls
        BY <2>3 DEF AdminInv, CallsOK, TypeOK
      <4>2. References(p) \subseteq Items /\ Item(p) \in Items
        BY BodyAssumption DEF References, Item, Items
      <4>3. call[p].pc = "find" => \A a \in References(p) : row'[a] # None
        BY <2>5, <4>1, <4>2 DEF CallOK, ReferencesKnown
      <4>4. Open(p) => call[p].entity # None /\ \A a \in call[p].entity.refs : row'[a] # None
        <5>1. Open(p) => call[p].entity # None /\ call[p].entity.refs \subseteq Items
          BY <4>1 DEF CallOK, Calls, RowType, Items
        <5> QED BY <2>5, <4>1, <5>1 DEF CallOK
      <4>5. \A i \in call[p].matched \cup call[p].shifted : row'[i] # None
        BY <2>5, <4>1 DEF CallOK, Calls
      <4>6. call[p].pc = "write" /\ call[p].loaded # None => row'[Item(p)] # None
        BY <2>5, <4>1, <4>2 DEF CallOK
      <4> QED BY <4>1, <4>3, <4>4, <4>5, <4>6 DEF CallOK, Open, ReferencesKnown, References, Exists, Item
    <3> QED BY <3>1, <3>2 DEF CallsOK
  <2>11. NoDanglingReference'
    <3> SUFFICES ASSUME NEW i \in Items, row'[i] # None
                 PROVE  /\ row'[i].group # None => row'[row'[i].group] # None
                        /\ \A a \in row'[i].refs : row'[a] # None
      BY DEF NoDanglingReference, Exists
    <3>1. row'[i] \in RowType
      BY <2>4
    <3>2. (row'[i].group # None => row'[i].group \in Items) /\ row'[i].refs \subseteq Items
      BY <3>1 DEF RowType, Items
    <3>3. (row'[i].group # None => Exists(row'[i].group)) /\ \A a \in row'[i].refs : Exists(a)
      <4>1. CASE i = Item(q)
        BY <1>0, <1>2, <2>4, <4>1, SavedRow
      <4>2. CASE i # Item(q)
        <5>1. Exists(i) /\ row'[i].group = row[i].group /\ row'[i].refs = row[i].refs
          BY <2>4, <4>2
        <5> QED BY <5>1 DEF AdminInv, NoDanglingReference
      <4> QED BY <4>1, <4>2
    <3> QED BY <2>5, <3>2, <3>3
  <2>12. Alone'
    <3> SUFFICES ASSUME ~overlapped
                 PROVE  \A p \in Requests : ~Open(p)'
      BY <1>0 DEF Alone, KnowsItsWay
    <3>1. \A p \in Requests \ {q} : ~Open(p)
      BY <1>0 DEF AdminInv, Alone
    <3> QED BY <2>3, <3>1 DEF Open
  <2>13. PositionsAreDistinct'
    <3> SUFFICES ASSUME ~overlapped, NEW i \in Items, NEW j \in Items, row'[i] # None, row'[j] # None, i # j,
                        SameTable(i, j), row'[i].group = row'[j].group
                 PROVE  row'[i].sort # row'[j].sort
      BY <1>0 DEF PositionsAreDistinct, SameScope, Exists
    <3>1. SameTable(j, i)
      BY SameTableTransitive
    <3>2. CASE i = Item(q)
      <4>1. Exists(j)
        BY <2>4, <3>2
      <4> QED BY <1>2, <3>1, <3>2, <4>1, SavedPositionIsFree
    <3>3. CASE j = Item(q)
      <4>1. Exists(i)
        BY <2>4, <3>3
      <4> QED BY <1>2, <3>3, <4>1, SavedPositionIsFree
    <3>4. CASE i # Item(q) /\ j # Item(q)
      <4>1. Exists(i) /\ Exists(j) /\ row[i].group = row[j].group
        BY <2>4, <3>4
      <4>2. SameScope(i, j) /\ SameScope(j, i) /\ row[i].sort # row[j].sort
        BY <3>1, <4>1 DEF SameScope, AdminInv, PositionsAreDistinct
      <4>3. row[i].sort \in Nat /\ row[j].sort \in Nat
        BY <4>1 DEF AdminInv, TypeOK, Exists, RowType
      <4>4. row'[i].sort \in Nat /\ row'[j].sort \in Nat
        BY <2>4 DEF RowType
      <4>5. CASE row[i].sort < row[j].sort
        <5>1. row'[i].sort < row'[j].sort
          BY <1>2, <3>4, <4>1, <4>2, <4>5, ShiftIsMonotone
        <5> QED BY <4>4, <5>1
      <4>6. CASE row[j].sort < row[i].sort
        <5>1. row'[j].sort < row'[i].sort
          BY <1>2, <3>4, <4>1, <4>2, <4>6, ShiftIsMonotone
        <5> QED BY <4>4, <5>1
      <4> QED BY <4>2, <4>3, <4>5, <4>6
    <3> QED BY <3>2, <3>3, <3>4
  <2> QED BY <2>7, <2>8, <2>9, <2>10, <2>11, <2>12, <2>13 DEF AdminInv
<1> QED BY <1>1, <1>2

-----------------------------------------------------------------------------
(* The theorems. *)

\* A step of a request.
LEMMA HandleKeeps ==
    ASSUME AdminInv, NEW q \in Requests, Handle(q) \/ QueryFails(q)
    PROVE  AdminInv'
<1>1. CASE DeadlockVictim(q) \/ QueryFails(q)
  <2>1. call[q].pc # "new"
    BY <1>1 DEF DeadlockVictim, WaitsFor, QueryFails, Open
  <2>2. Serving
    BY <2>1, BegunIsServed
  <2>3. call' = [call EXCEPT ![q] = Rollback(q)] /\ UNCHANGED <<row, seeder, overlapped>>
    BY <1>1 DEF DeadlockVictim, QueryFails
  <2> QED BY <2>2, <2>3, RollbackKeeps DEF AdminInv, TypeOK
<1> QED BY <1>1, AssertAchievementsExistKeeps, FindOneKeeps, NextGroupSortOrderKeeps, MatchRowsKeeps,
           ShiftRowKeeps, SaveSelectKeeps, SaveWriteKeeps DEF Handle

\* The invariant holds for every configuration, with any number of requests and replicas.
THEOREM AdminInvariant == Spec => []AdminInv
<1>1. Init => AdminInv
  <2> SUFFICES ASSUME Init PROVE AdminInv
    OBVIOUS
  <2> USE DEF Init
  <2>1. TypeOK
    <3>1. IdleCall \in Calls
      BY DEF IdleCall, Calls
    <3>2. [table |-> 1, missing |-> {}] \in [table : 1..4, missing : SUBSET Defaults]
      OBVIOUS
    <3> QED BY <3>1, <3>2 DEF TypeOK
  <2>2. \A r \in Replicas : seeder[r].table = 1 /\ seeder[r].missing = {}
    OBVIOUS
  <2>3. \A i \in Items : ~Exists(i)
    BY DEF Exists
  <2>4. \A q \in Requests : call[q].pc = "new" /\ call[q].matched = {} /\ call[q].shifted = {}
    BY DEF IdleCall
  <2>5. SeedersOK
    BY <2>2 DEF SeedersOK
  <2>6. BeforeServing /\ NoDanglingReference /\ PositionsAreDistinct
    BY <2>3, <2>4 DEF BeforeServing, NoDanglingReference, PositionsAreDistinct
  <2>7. CallsOK /\ Alone
    BY <2>4 DEF CallsOK, CallOK, Alone, KnowsItsWay, Open
  <2> QED BY <2>1, <2>5, <2>6, <2>7 DEF AdminInv
<1>2. AdminInv /\ [Next]_vars => AdminInv'
  <2> SUFFICES ASSUME AdminInv, [Next]_vars PROVE AdminInv'
    OBVIOUS
  <2>1. CASE UNCHANGED vars
    BY <2>1 DEF vars, AdminInv, TypeOK, SeedersOK, BeforeServing, Serving, CallsOK, CallOK, NoDanglingReference, Alone,
                KnowsItsWay, Stays, InTheWay, PositionsAreDistinct, SameScope, Exists,
                ReferencesKnown, Open
  <2>2. CASE \E q \in Requests : Handle(q) \/ QueryFails(q)
    BY <2>2, HandleKeeps
  <2>3. CASE \E r \in Replicas : Seed(r)
    BY <2>3, SeedFindKeeps, SeedInsertKeeps DEF Seed
  <2> QED BY <2>1, <2>2, <2>3 DEF Next, Progress
<1> QED BY <1>1, <1>2, PTL DEF Spec

\* Rows, requests and seeders keep their types: a sortOrder, for one, stays a number.
THEOREM AdminTypes == Spec => []TypeOK
<1>1. AdminInv => TypeOK
  BY DEF AdminInv
<1> QED BY <1>1, AdminInvariant, PTL

\* Groups and achievements that rows refer to exist, however requests and boots interleave.
THEOREM ReferencesExist == Spec => []NoDanglingReference
<1>1. AdminInv => NoDanglingReference
  BY DEF AdminInv
<1> QED BY <1>1, AdminInvariant, PTL

\* Rows of a scope have positions of their own, if transactions do not overlap.
THEOREM PositionsStayDistinct == Spec => []PositionsAreDistinct
<1>1. AdminInv => PositionsAreDistinct
  BY DEF AdminInv
<1> QED BY <1>1, AdminInvariant, PTL

\* Making room keeps the order of the rows that are not saved, if transactions do not overlap.
THEOREM ReorderingKeepsOrder == Spec => OthersKeepTheirOrder
<1> DEFINE Keeps ==
      row' = row \/ overlapped' \/ \A i, j \in Items :
         /\ Exists(i) /\ Exists(j) /\ SameScope(i, j) /\ row[i].sort < row[j].sort
         /\ ~\E q \in Requests : call[q].pc = "write" /\ call'[q].pc = "done" /\ Item(q) \in {i, j}
         => row'[i].sort < row'[j].sort
<1>1. AdminInv /\ [Next]_vars => [Keeps]_vars
  <2> SUFFICES ASSUME AdminInv, Next, row' # row, ~overlapped',
                      NEW i \in Items, NEW j \in Items,
                      Exists(i), Exists(j), SameScope(i, j), row[i].sort < row[j].sort,
                      ~\E q \in Requests : call[q].pc = "write" /\ call'[q].pc = "done" /\ Item(q) \in {i, j}
               PROVE  row'[i].sort < row'[j].sort
    BY DEF vars
  <2>1. CASE \E r \in Replicas : Seed(r)
    <3>1. PICK r \in Replicas : SeedInsert(r)
      BY <2>1 DEF Seed, SeedFind
    <3>2. row'[i] = row[i] /\ row'[j] = row[j]
      BY <3>1, SeedInsertKeeps
    <3> QED BY <3>2
  <2>2. CASE \E q \in Requests : Handle(q) \/ QueryFails(q)
    <3>1. PICK q \in Requests : SaveWrite(q) /\ ~Violates(q)
      BY <2>2 DEF Handle, QueryFails, AssertAchievementsExist, FindOne, NextGroupSortOrder, MatchRows, ShiftRow,
                  SaveSelect, DeadlockVictim, SaveWrite
    <3>2. call[q].pc = "write" /\ call'[q].pc = "done" /\ overlapped' = overlapped
      BY <3>1, ZenonT(60) DEF SaveWrite, AdminInv, TypeOK, IdleCall
    <3>3. i # Item(q) /\ j # Item(q) /\ ~overlapped
      BY <3>2
    <3> QED BY <3>1, <3>3, ShiftIsMonotone
  <2> QED BY <2>1, <2>2 DEF Next, Progress
<1> QED BY <1>1, AdminInvariant, PTL DEF Spec, OthersKeepTheirOrder

\* Once a replica serves, only a request changes the configuration, however late another
\* replica boots.
THEOREM LateBootsChangeNothing == Spec => OnlyRequestsChangeRows
<1> DEFINE Kept == Serving /\ row' # row => \E q \in Requests : call[q].pc = "write" /\ call'[q].pc = "done"
<1>1. AdminInv /\ [Next]_vars => [Kept]_vars
  <2> SUFFICES ASSUME AdminInv, Next, Serving, row' # row
               PROVE  \E q \in Requests : call[q].pc = "write" /\ call'[q].pc = "done"
    BY DEF vars
  <2>1. CASE \E r \in Replicas : Seed(r)
    <3>1. PICK r \in Replicas : SeedInsert(r)
      BY <2>1 DEF Seed, SeedFind
    \* The rows it missed are there by now: the insert is rejected.
    <3>2. \A i \in seeder[r].missing : Exists(i)
      BY DefaultsExist DEF AdminInv, TypeOK
    <3>3. row' = row
      BY <3>1, <3>2 DEF SeedInsert
    <3> QED BY <3>3
  <2>2. CASE \E q \in Requests : Handle(q) \/ QueryFails(q)
    <3>1. PICK q \in Requests : SaveWrite(q) /\ ~Violates(q)
      BY <2>2 DEF Handle, QueryFails, AssertAchievementsExist, FindOne, NextGroupSortOrder, MatchRows, ShiftRow,
                  SaveSelect, DeadlockVictim, SaveWrite
    <3>2. call[q].pc = "write" /\ call'[q].pc = "done"
      BY <3>1, ZenonT(60) DEF SaveWrite, AdminInv, TypeOK, IdleCall
    <3> QED BY <3>2
  <2> QED BY <2>1, <2>2 DEF Next, Progress
<1> QED BY <1>1, AdminInvariant, PTL DEF Spec, OnlyRequestsChangeRows
=============================================================================
