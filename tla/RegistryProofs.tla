---------------------------- MODULE RegistryProofs ----------------------------
(***************************************************************************)
(* The registry of apps: its types, what a client that pages through it    *)
(* misses, and that an acknowledged patch is in its row.                   *)
(***************************************************************************)
EXTENDS AppRegistry, FiniteSetTheorems, TLAPS

USE RegistryAssumption

\* The rowid is a key, and larger than any before it.
RowidsDistinct ==
  \A a, b \in Registered : apps[a].rowid = apps[b].rowid => a = b
RowidsBounded == \A a \in Registered : apps[a].rowid <= MaxRowid

\* Apps that a walk has not seen and that its next pages will not show: a
\* deletion brings at most one more of them.
Behind == {a \in walk.unseen : Position(a) < walk.offset}
WalkOK ==
  IF walk.reading
  THEN walk.unseen \subseteq Registered /\ Cardinality(Behind) <= walk.deletes
  ELSE Cardinality(walk.unseen) <= walk.deletes

\* A patch whose app nobody else touched finds its row from the check on, and
\* from the UPDATE on what it wrote.
Shown(q) == \A f \in Named(q.change) : apps[q.app][f] = q.change[f]
PatchOK(q) ==
  ~q.overtaken =>
    /\ q.pc \in {"update", "reread"} => q.app \in Registered
    /\ q.pc = "reread" => Shown(q)
    /\ q.pc = "reply" /\ q.status = "ok" => q.app \in Registered /\ Shown(q)
PatchesOK == \A r \in Req : reqs[r] # Idle => PatchOK(reqs[r])

RegistryInv ==
  /\ TypeOK
  /\ IsFiniteSet(Registered)
  /\ RowidsDistinct /\ RowidsBounded
  /\ WalkOK
  /\ PatchesOK

-----------------------------------------------------------------------------
(* Rows and rowids. *)

LEMMA Rows ==
  ASSUME TypeOK
  PROVE  /\ \A a \in Registered : a \in App /\ apps[a] \in AppRow
         /\ \A a \in App : a \notin Registered <=> apps[a] = NoApp
         /\ NoApp \notin AppRow
BY DEF TypeOK, Registered, AppRow, NoApp

\* A set of naturals with a bound has a largest element.
LEMMA Greatest ==
  ASSUME NEW S \in SUBSET Nat, S # {}, NEW n \in Nat, \A x \in S : x <= n
  PROVE  Max(S) \in S /\ \A x \in S : x <= Max(S)
<1> DEFINE Above == {p \in Nat \X Nat : p[1] < p[2]}
           T == {n - x : x \in S}
<1>1. IsWellFoundedOn(Above, Nat)
  BY NatLessThanWellFounded DEF OpToRel
<1>2. T \subseteq Nat /\ T # {}
  <2>1. \A x \in S : x \in Nat /\ x <= n /\ n - x \in Nat
    OBVIOUS
  <2> QED BY <2>1
<1>3. \A i, j \in Nat : <<j, i>> \in Above <=> j < i
  OBVIOUS
<1> HIDE DEF Above, T
<1>4. PICK t \in T : \A y \in T : ~(<<y, t>> \in Above)
  BY <1>1, <1>2, WFMin
<1>5. PICK m \in S : t = n - m
  BY <1>4 DEF T
<1>6. ASSUME NEW x \in S PROVE x <= m
  <2>1. n - x \in T /\ n - x \in Nat /\ t \in Nat
    BY <1>2, <1>4 DEF T
  <2>2. ~(n - x < t)
    BY <1>3, <1>4, <2>1
  <2> QED BY <1>5, <2>1, <2>2
<1>7. \E x \in S : \A y \in S : x >= y
  BY <1>5, <1>6
<1> QED BY <1>7 DEF Max

LEMMA NextRowidFresh ==
  ASSUME TypeOK, RowidsBounded
  PROVE  NextRowid \in Nat \ {0} /\ \A a \in Registered : apps[a].rowid < NextRowid
<1> DEFINE S == {apps[a].rowid : a \in Registered} \cup {0}
<1>1. S \in SUBSET Nat /\ S # {} /\ \A x \in S : x <= MaxRowid
  BY Rows DEF RowidsBounded, AppRow
<1>2. \A a \in Registered : apps[a].rowid \in S
  OBVIOUS
<1>3. NextRowid = 1 + Max(S)
  BY DEF NextRowid
<1> HIDE DEF S
<1>4. Max(S) \in S /\ \A x \in S : x <= Max(S)
  BY <1>1, Greatest
<1>5. Max(S) \in Nat
  BY <1>1, <1>4
<1>6. ASSUME NEW x \in S PROVE x < 1 + Max(S)
  <2>1. x \in Nat /\ x <= Max(S)
    BY <1>1, <1>4
  <2> QED BY <1>5, <2>1
<1> QED BY <1>2, <1>3, <1>5, <1>6

-----------------------------------------------------------------------------
(* The order of a listing. *)

Preceding(b) == {a \in Registered : Before(a, b)}

LEMMA BeforeIsOrder ==
  ASSUME TypeOK, RowidsDistinct
  PROVE  /\ \A a \in Registered : ~Before(a, a)
         /\ \A a, b \in Registered : a # b => Before(a, b) \/ Before(b, a)
         /\ \A a, b, c \in Registered : Before(a, b) /\ Before(b, c) => Before(a, c)
<1>1. ASSUME NEW a \in Registered PROVE apps[a].at \in Int /\ apps[a].rowid \in Int
  <2>1. apps[a] \in AppRow
    BY Rows
  <2>2. apps[a].at \in Time /\ apps[a].rowid \in Nat
    BY <2>1 DEF AppRow
  <2>3. \A t \in Time : t \in Int
    BY RegistryAssumption
  <2>4. apps[a].at \in Int
    BY <2>2, <2>3
  <2>5. apps[a].rowid \in Int
    BY <2>2
  <2> QED BY <2>4, <2>5
<1>2. \A a, b \in Registered : a # b => apps[a].rowid # apps[b].rowid
  BY DEF RowidsDistinct
<1> QED BY <1>1, <1>2 DEF Before

\* No two apps have one position.
LEMMA PositionsOrdered ==
  ASSUME TypeOK, RowidsDistinct, IsFiniteSet(Registered)
  PROVE  /\ \A b \in Registered :
              Position(b) \in 0 .. Cardinality(Registered) - 1
         /\ \A a, b \in Registered : Before(a, b) => Position(a) < Position(b)
         /\ \A a, b \in Registered : Position(a) = Position(b) => a = b
<1>1. ASSUME NEW b \in Registered
      PROVE  /\ IsFiniteSet(Preceding(b)) /\ Cardinality(Preceding(b)) = Position(b)
             /\ Position(b) \in 0 .. Cardinality(Registered) - 1
  <2>1. Preceding(b) \in SUBSET Registered /\ Preceding(b) # Registered
    BY BeforeIsOrder DEF Preceding
  <2>2. /\ IsFiniteSet(Preceding(b))
        /\ Cardinality(Preceding(b)) <= Cardinality(Registered)
        /\ Cardinality(Preceding(b)) # Cardinality(Registered)
        /\ Cardinality(Preceding(b)) \in Nat /\ Cardinality(Registered) \in Nat
    BY <2>1, FS_Subset, FS_CardinalityType
  <2>3. Cardinality(Preceding(b)) = Position(b)
    BY DEF Preceding, Position
  <2> QED BY <2>2, <2>3
<1>2. ASSUME NEW a \in Registered, NEW b \in Registered, Before(a, b)
      PROVE  Position(a) < Position(b)
  <2>1. Preceding(a) \in SUBSET Preceding(b) /\ Preceding(a) # Preceding(b)
    BY <1>2, BeforeIsOrder DEF Preceding
  <2>2. /\ Cardinality(Preceding(a)) <= Cardinality(Preceding(b))
        /\ Cardinality(Preceding(a)) # Cardinality(Preceding(b))
    BY <1>1, <2>1, FS_Subset
  <2> QED BY <1>1, <2>2
<1>3. ASSUME NEW a \in Registered, NEW b \in Registered, Position(a) = Position(b), a # b
      PROVE  FALSE
  <2>1. Position(a) \in Int /\ Position(b) \in Int
    BY <1>1
  <2> QED BY <1>2, <1>3, <2>1, BeforeIsOrder
<1> QED BY <1>1, <1>2, <1>3

\* Whatever limit a client asks for, its pages have one.
LEMMA SizeTyped ==
  ASSUME NEW limit \in Limits
  PROVE  PageSize(limit) \in Nat \ {0}
<1>1. limit \in Int /\ MaxLimit \in Nat /\ DefaultLimit \in Nat \ {0}
  BY RegistryAssumption
<1> QED BY <1>1 DEF PageSize

\* The positions of n apps are 0 to n - 1, so a page that some app lies
\* behind is full.
LEMMA PagesAreFull ==
  ASSUME TypeOK, RowidsDistinct, IsFiniteSet(Registered), NEW offset \in Nat,
         NEW size \in Nat \ {0},
         NEW b \in Registered, Position(b) >= offset + size
  PROVE  Cardinality(Page(offset, size)) = size
<1> DEFINE n == Cardinality(Registered)
           f == [a \in Registered |-> Position(a)]
           T == offset .. offset + size - 1
           g == [a \in Page(offset, size) |-> Position(a)]
<1>1. n \in Nat /\ IsFiniteSet(0 .. n - 1) /\ Cardinality(0 .. n - 1) = n
  <2>1. n \in Nat /\ n - 1 \in Int
    BY FS_CardinalityType
  <2> HIDE DEF n
  <2> QED BY <2>1, FS_Interval
<1>2. f \in Injection(Registered, 0 .. n - 1)
  BY PositionsOrdered DEF Injection, IsInjective
<1>3. f \in Surjection(Registered, 0 .. n - 1)
  <2> HIDE DEF f
  <2> QED BY <1>1, <1>2, FS_Injection
<1>4. ASSUME NEW k \in 0 .. n - 1 PROVE \E a \in Registered : Position(a) = k
  BY <1>3 DEF Surjection
<1>5. T \subseteq 0 .. n - 1
  <2>1. Position(b) \in 0 .. n - 1
    BY PositionsOrdered
  <2> QED BY <1>1, <2>1
<1>6. g \in Injection(Page(offset, size), T)
  BY PositionsOrdered DEF Injection, IsInjective, Page
<1>7. g \in Surjection(Page(offset, size), T)
  <2>1. ASSUME NEW k \in T PROVE \E a \in Page(offset, size) : g[a] = k
    <3>1. PICK a \in Registered : Position(a) = k
      BY <1>4, <1>5
    <3> QED BY <3>1 DEF Page
  <2>2. g \in [Page(offset, size) -> T]
    BY <1>6 DEF Injection
  <2> QED BY <2>1, <2>2 DEF Surjection
<1>8. IsFiniteSet(T) /\ Cardinality(T) = size
  BY FS_Interval
<1>9. ExistsBijection(T, Page(offset, size)) \/ ExistsBijection(Page(offset, size), T)
  BY <1>6, <1>7 DEF ExistsBijection, Bijection
<1> QED BY <1>6, <1>7, <1>8, FS_Injection
-----------------------------------------------------------------------------
(* Types. *)

LEMMA BusyIsRequest ==
  ASSUME TypeOK, NEW r \in Req, reqs[r] # Idle
  PROVE  reqs[r] \in Request
BY DEF TypeOK

LEMMA PcIsBusy ==
  ASSUME NEW r \in Req, reqs[r].pc \in Patching \cup {"reply"}
  PROVE  reqs[r] # Idle
BY DEF Idle, Patching

LEMMA OvertakingTyped ==
  ASSUME TypeOK, NEW r, NEW a
  PROVE  /\ Overtaking(r, a) \in [Req -> Request \cup {Idle}]
         /\ \A s \in Req : s = r \/ reqs[s] = Idle => Overtaking(r, a)[s] = reqs[s]
<1>1. ASSUME NEW s \in Req, reqs[s] # Idle
      PROVE  [reqs[s] EXCEPT !.overtaken = TRUE] \in Request
  BY <1>1, BusyIsRequest DEF Request
<1> QED BY <1>1 DEF TypeOK, Overtaking

LEMMA PatchedTyped ==
  ASSUME NEW row \in AppRow, NEW change \in Change
  PROVE  /\ Patched(row, change) \in AppRow
         /\ Patched(row, change).at = row.at /\ Patched(row, change).rowid = row.rowid
         /\ \A f \in Field :
              Patched(row, change)[f] = IF change[f] = Omitted THEN row[f] ELSE change[f]
<1>1. \A f \in Field : change[f] \in Text \cup {Omitted}
  BY DEF Change
<1> QED BY <1>1 DEF Patched, AppRow, Field

LEMMA AnswerErrorTyped ==
  ASSUME TypeOK, NEW r \in Req, reqs[r] # Idle,
         NEW status \in {"bad_request", "not_found", "internal"}, AnswerError(r, status)
  PROVE  TypeOK'
<1>1. NoChange \in Change
  BY DEF NoChange, Change
<1>2. [reqs[r] EXCEPT !.pc = "reply", !.status = status, !.change = NoChange] \in Request
  BY <1>1, BusyIsRequest DEF Request
<1>3. reqs' \in [Req -> Request \cup {Idle}]
  BY <1>2 DEF AnswerError, TypeOK
<1> QED BY <1>3 DEF AnswerError, TypeOK

LEMMA PatchTyped ==
  ASSUME TypeOK, NEW r \in Req,
         \/ SendPatch(r) \/ PatchRefuse(r) \/ PatchCheck(r) \/ PatchUpdate(r)
         \/ PatchReread(r) \/ DbError(r) \/ Finish(r)
  PROVE  TypeOK'
<1>0. reqs[r].pc \in Patching => reqs[r] # Idle /\ reqs[r] \in Request
  BY PcIsBusy, BusyIsRequest
<1>1. CASE SendPatch(r)
  BY <1>1 DEF SendPatch, TypeOK, Request, Patching
<1>2. CASE PatchRefuse(r)
  BY <1>0, <1>2, AnswerErrorTyped DEF PatchRefuse, Patching
<1>3. CASE PatchCheck(r)
  <2>1. [reqs[r] EXCEPT !.pc = "update"] \in Request
    BY <1>0, <1>3 DEF PatchCheck, Request, Patching
  <2> QED BY <1>3, <2>1 DEF PatchCheck, TypeOK
<1>4. CASE PatchUpdate(r)
  <2>1. [reqs[r] EXCEPT !.pc = "reread"] \in Request /\ reqs[r].app \in App
    BY <1>0, <1>4 DEF PatchUpdate, Request, Patching
  <2>2. CASE reqs[r].app \in Registered
    <3> DEFINE o == Overtaking(r, reqs[r].app)
    <3>1. o \in [Req -> Request \cup {Idle}] /\ o[r] = reqs[r]
      BY OvertakingTyped
    <3> HIDE DEF o
    <3>2. reqs' = [o EXCEPT ![r].pc = "reread"]
      BY <1>4, <2>2 DEF PatchUpdate, o
    <3>3. reqs' \in [Req -> Request \cup {Idle}]
      BY <2>1, <3>1, <3>2
    <3>4. Patched(apps[reqs[r].app], reqs[r].change) \in AppRow
      BY <1>0, <1>4, <2>2, Rows, PatchedTyped DEF PatchUpdate, Patching, Request
    <3> QED BY <1>4, <2>1, <2>2, <3>3, <3>4 DEF PatchUpdate, TypeOK
  <2>3. CASE reqs[r].app \notin Registered
    BY <1>4, <2>1, <2>3 DEF PatchUpdate, TypeOK
  <2> QED BY <2>2, <2>3
<1>5. CASE PatchReread(r)
  <2>1. [reqs[r] EXCEPT !.pc = "reply", !.status = "ok"] \in Request
    BY <1>0, <1>5 DEF PatchReread, Request, Patching
  <2>2. CASE reqs[r].app \in Registered
    BY <1>5, <2>1, <2>2 DEF PatchReread, TypeOK
  <2>3. CASE reqs[r].app \notin Registered
    BY <1>0, <1>5, <2>3, AnswerErrorTyped DEF PatchReread, Patching
  <2> QED BY <2>2, <2>3
<1>6. CASE DbError(r)
  BY <1>0, <1>6, AnswerErrorTyped DEF DbError
<1>7. CASE Finish(r)
  BY <1>7 DEF Finish, TypeOK
<1> QED BY <1>1, <1>2, <1>3, <1>4, <1>5, <1>6, <1>7

LEMMA WalkTyped ==
  ASSUME TypeOK, StartWalk \/ ReadPage
  PROVE  TypeOK'
<1>0. walk \in Walk /\ Registered \subseteq App
  BY DEF TypeOK, Registered
<1>1. CASE StartWalk
  <2>1. [NoWalk EXCEPT !.reading = TRUE, !.unseen = Registered] \in Walk
    <3>1. 0 \in 0 .. MaxDeletes
      BY RegistryAssumption
    <3> QED BY <1>0, <3>1 DEF Walk, NoWalk
  <2> QED BY <1>1, <2>1 DEF StartWalk, TypeOK
<1>2. CASE ReadPage
  <2>1. PICK limit \in Limits :
          LET size == PageSize(limit)
              page == Page(walk.offset, size)
          IN walk' = IF Cardinality(page) = size
                     THEN [walk EXCEPT !.unseen = @ \ page, !.offset = @ + size]
                     ELSE [walk EXCEPT !.unseen = @ \ page, !.offset = 0, !.reading = FALSE]
    BY <1>2 DEF ReadPage
  <2> DEFINE size == PageSize(limit)
             page == Page(walk.offset, size)
  <2>2. walk.offset + size \in Nat /\ walk.unseen \ page \in SUBSET App
    BY <1>0, SizeTyped DEF Walk
  <2> HIDE DEF page, size
  <2>3. [walk EXCEPT !.unseen = @ \ page, !.offset = @ + size] \in Walk
    BY <1>0, <2>2 DEF Walk
  <2>4. [walk EXCEPT !.unseen = @ \ page, !.offset = 0, !.reading = FALSE] \in Walk
    BY <1>0, <2>2 DEF Walk
  <2> QED BY <1>2, <2>1, <2>3, <2>4 DEF ReadPage, TypeOK, page, size
<1> QED BY <1>1, <1>2

LEMMA NextTyped ==
  ASSUME TypeOK, RowidsBounded, [Next]_vars
  PROVE  TypeOK'
<1>1. ASSUME NEW a \in App, AdminDeleteApp(a) PROVE TypeOK'
  <2>1. apps' \in [App -> AppRow \cup {NoApp}]
    BY <1>1 DEF AdminDeleteApp, TypeOK
  <2>2. walk' \in Walk
    <3>1. CASE walk.reading
      <4>1. walk.deletes \in 0 .. MaxDeletes /\ walk.deletes < MaxDeletes
        BY <1>1, <3>1 DEF AdminDeleteApp, TypeOK, Walk
      <4>2. walk.deletes + 1 \in 0 .. MaxDeletes /\ walk.unseen \ {a} \in SUBSET App
        BY <4>1 DEF TypeOK, Walk
      <4>3. [walk EXCEPT !.unseen = @ \ {a}, !.deletes = @ + 1] \in Walk
        BY <4>2 DEF TypeOK, Walk
      <4> QED BY <1>1, <3>1, <4>3 DEF AdminDeleteApp
    <3>2. CASE ~walk.reading
      BY <1>1, <3>2 DEF AdminDeleteApp, TypeOK
    <3> QED BY <3>1, <3>2
  <2>3. reqs' \in [Req -> Request \cup {Idle}]
    BY <1>1, OvertakingTyped DEF AdminDeleteApp
  <2> QED BY <1>1, <2>1, <2>2, <2>3 DEF AdminDeleteApp, TypeOK
<1>2. ASSUME NEW a \in App, NEW name \in NewText, NEW description \in NewText,
             AdminCreateApp(a, name, description)
      PROVE  TypeOK'
  BY <1>2, NextRowidFresh DEF AdminCreateApp, TypeOK, AppRow
<1>3. Tick => TypeOK'
  BY DEF Tick, TypeOK
<1>4. UNCHANGED vars => TypeOK'
  BY DEF vars, TypeOK
<1> QED BY <1>1, <1>2, <1>3, <1>4, PatchTyped, WalkTyped DEF Next
-----------------------------------------------------------------------------
(* What a step does to the order of the registry. *)

SameOrder(S) ==
  \A b \in S : apps'[b].at = apps[b].at /\ apps'[b].rowid = apps[b].rowid
Keeps == Registered' = Registered /\ SameOrder(Registered)
Creates(a) ==
  /\ a \notin Registered /\ Registered' = Registered \cup {a}
  /\ SameOrder(Registered)
  /\ apps'[a].rowid = NextRowid /\ NextRowid <= MaxRowid
  /\ walk' = walk
Deletes(a) ==
  /\ a \in Registered /\ Registered' = Registered \ {a}
  /\ SameOrder(Registered \ {a})
  /\ walk' = IF walk.reading
             THEN [walk EXCEPT !.unseen = @ \ {a}, !.deletes = @ + 1] ELSE walk

LEMMA OrderCases ==
  ASSUME TypeOK, RowidsBounded, [Next]_vars
  PROVE  \/ Keeps /\ (walk' = walk \/ StartWalk \/ ReadPage)
         \/ \E a \in App : Creates(a) \/ Deletes(a)
<1>0. /\ apps \in [App -> AppRow \cup {NoApp}] /\ Registered \subseteq App
      /\ \A a \in App : a \in Registered <=> apps[a] # NoApp
      /\ \A a \in App : a \in Registered' <=> apps'[a] # NoApp
      /\ Registered' \subseteq App
  BY DEF TypeOK, Registered
<1>1. UNCHANGED apps => Keeps
  BY DEF Keeps, SameOrder, Registered
<1>2. ASSUME NEW a \in App, AdminDeleteApp(a) PROVE Deletes(a)
  BY <1>0, <1>2 DEF AdminDeleteApp, Deletes, SameOrder
<1>3. ASSUME NEW a \in App, NEW name \in NewText, NEW description \in NewText,
             AdminCreateApp(a, name, description)
      PROVE  Creates(a)
  <2> DEFINE row == [display_name |-> name, description |-> description,
                     at |-> clock, rowid |-> NextRowid]
  <2>1. row # NoApp /\ row.rowid = NextRowid
    BY NextRowidFresh DEF NoApp
  <2> HIDE DEF row
  <2>2. /\ apps' = [apps EXCEPT ![a] = row] /\ a \notin Registered
        /\ NextRowid <= MaxRowid /\ walk' = walk
    BY <1>3 DEF AdminCreateApp, row
  <2> QED BY <1>0, <2>1, <2>2 DEF Creates, SameOrder
<1>4. ASSUME NEW r \in Req, PatchUpdate(r), reqs[r].app \in Registered
      PROVE  Keeps /\ walk' = walk
  <2> DEFINE a == reqs[r].app
  <2>1. reqs[r] # Idle
    BY <1>4, PcIsBusy DEF PatchUpdate, Patching
  <2>2. apps[a] \in AppRow /\ a \in App /\ reqs[r].change \in Change
    BY <1>4, <2>1, Rows, BusyIsRequest DEF Request
  <2> DEFINE row == Patched(apps[a], reqs[r].change)
  <2>3. row \in AppRow /\ row.at = apps[a].at /\ row.rowid = apps[a].rowid
    BY <2>2, PatchedTyped
  <2>4. apps' = [apps EXCEPT ![a] = row] /\ walk' = walk
    BY <1>4 DEF PatchUpdate
  <2> HIDE DEF row
  <2>5. row # NoApp
    BY <2>3, Rows
  <2> QED BY <1>0, <1>4, <2>2, <2>3, <2>4, <2>5 DEF Keeps, SameOrder
<1>5. ASSUME NEW r \in Req,
             \/ SendPatch(r) \/ PatchRefuse(r) \/ PatchCheck(r) \/ PatchReread(r)
             \/ DbError(r) \/ Finish(r)
             \/ PatchUpdate(r) /\ reqs[r].app \notin Registered
      PROVE  UNCHANGED apps /\ walk' = walk
  BY <1>5 DEF SendPatch, PatchRefuse, PatchCheck, PatchUpdate, PatchReread, DbError,
     Finish, AnswerError
<1>6. StartWalk \/ ReadPage \/ Tick \/ UNCHANGED vars => UNCHANGED apps
  BY DEF StartWalk, ReadPage, Tick, vars
<1>7. Tick \/ UNCHANGED vars => walk' = walk
  BY DEF Tick, vars
<1> QED BY <1>1, <1>2, <1>3, <1>4, <1>5, <1>6, <1>7 DEF Next

\* Rowids stay distinct because a new one is larger than all there are.
LEMMA RowidsStep ==
  ASSUME TypeOK, IsFiniteSet(Registered), RowidsDistinct, RowidsBounded, [Next]_vars
  PROVE  IsFiniteSet(Registered') /\ RowidsDistinct' /\ RowidsBounded'
<1>1. CASE Keeps
  BY <1>1 DEF Keeps, SameOrder, RowidsDistinct, RowidsBounded
<1>2. ASSUME NEW a \in App, Creates(a)
      PROVE  IsFiniteSet(Registered') /\ RowidsDistinct' /\ RowidsBounded'
  <2>1. IsFiniteSet(Registered')
    BY <1>2, FS_AddElement DEF Creates
  <2>2. /\ \A b \in Registered : apps[b].rowid < NextRowid /\ apps[b].rowid \in Nat
        /\ NextRowid \in Nat
    BY NextRowidFresh, Rows DEF AppRow
  <2>3. RowidsDistinct'
    BY <1>2, <2>2 DEF Creates, SameOrder, RowidsDistinct
  <2>4. RowidsBounded'
    BY <1>2 DEF Creates, SameOrder, RowidsBounded
  <2> QED BY <2>1, <2>3, <2>4
<1>3. ASSUME NEW a \in App, Deletes(a)
      PROVE  IsFiniteSet(Registered') /\ RowidsDistinct' /\ RowidsBounded'
  <2>1. IsFiniteSet(Registered')
    BY <1>3, FS_RemoveElement DEF Deletes
  <2> QED BY <1>3, <2>1 DEF Deletes, SameOrder, RowidsDistinct, RowidsBounded
<1> QED BY <1>1, <1>2, <1>3, OrderCases

-----------------------------------------------------------------------------
(* What a walk misses. *)

\* The apps S of a walk that lie before offset.
BehindOf(S, offset) == {a \in S : Position(a) < offset}

LEMMA KeptPositions ==
  ASSUME Keeps, NEW b \in Registered
  PROVE  Position(b)' = Position(b)
<1>1. Preceding(b)' = Preceding(b)
  BY DEF Keeps, SameOrder, Preceding, Before
<1> QED BY <1>1 DEF Preceding, Position

\* A new row moves others towards the end, never towards the beginning.
LEMMA CreatedPositions ==
  ASSUME TypeOK, RowidsDistinct, IsFiniteSet(Registered), NEW a \in App, Creates(a),
         NEW b \in Registered
  PROVE  Position(b)' \in Nat /\ Position(b) <= Position(b)'
<1>1. Preceding(b) \in SUBSET Preceding(b)' /\ Preceding(b)' \in SUBSET Registered'
  BY DEF Creates, SameOrder, Preceding, Before
<1>2. IsFiniteSet(Registered')
  BY FS_AddElement DEF Creates
<1>3. IsFiniteSet(Preceding(b)')
  BY <1>1, <1>2, FS_Subset
<1>4. /\ Cardinality(Preceding(b)) <= Cardinality(Preceding(b)')
      /\ Cardinality(Preceding(b)') \in Nat
  BY <1>1, <1>3, FS_Subset, FS_CardinalityType
<1> QED BY <1>4 DEF Preceding, Position

\* A deletion moves others by one place at most.
LEMMA DeletedPositions ==
  ASSUME TypeOK, RowidsDistinct, IsFiniteSet(Registered), NEW a \in App, Deletes(a),
         NEW b \in Registered \ {a}
  PROVE  Position(b)' \in Nat /\ Position(b) <= Position(b)' + 1
<1>1. Preceding(b)' = Preceding(b) \ {a}
  BY DEF Deletes, SameOrder, Preceding, Before
<1>2. Preceding(b) \in SUBSET Registered
  BY DEF Preceding
<1> DEFINE S == Preceding(b)
<1>3. IsFiniteSet(S) /\ Cardinality(S) \in Nat
  BY <1>2, FS_Subset, FS_CardinalityType
<1> HIDE DEF S
<1>4. /\ Cardinality(S \ {a}) = IF a \in S THEN Cardinality(S) - 1 ELSE Cardinality(S)
      /\ IsFiniteSet(S \ {a})
  BY <1>3, FS_RemoveElement
<1>5. Cardinality(S \ {a}) \in Nat
  BY <1>4, FS_CardinalityType
<1>6. Cardinality(S) <= Cardinality(S \ {a}) + 1
  BY <1>3, <1>4, <1>5
<1>7. Position(b) = Cardinality(S) /\ Position(b)' = Cardinality(S \ {a})
  BY <1>1 DEF S, Preceding, Position
<1> QED BY <1>5, <1>6, <1>7

\* So of S at most one more lies behind the offset.
LEMMA DeletionSkipsOne ==
  ASSUME TypeOK, RowidsDistinct, IsFiniteSet(Registered), NEW a \in App, Deletes(a),
         NEW S \in SUBSET Registered, NEW offset \in Nat
  PROVE  Cardinality(BehindOf(S \ {a}, offset)') <= Cardinality(BehindOf(S, offset)) + 1
<1> DEFINE old == BehindOf(S, offset)
           new == BehindOf(S \ {a}, offset)'
           edge == {b \in Registered : Position(b) = offset}
<1>0. \A b \in Registered : Position(b) \in Int
  BY PositionsOrdered
<1>1. ASSUME NEW b \in new PROVE b \in old \cup edge
  <2>1. b \in Registered \ {a} /\ b \in S /\ Position(b)' < offset
    BY DEF BehindOf
  <2>2. Position(b)' \in Nat /\ Position(b) <= Position(b)' + 1
    BY <2>1, DeletedPositions
  <2>3. Position(b) <= offset
    BY <1>0, <2>1, <2>2
  <2> QED BY <1>0, <2>1, <2>3 DEF BehindOf
<1>2. old \in SUBSET Registered
  BY DEF BehindOf
<1>3. IsFiniteSet(old) /\ Cardinality(old) \in Nat
  BY <1>2, FS_Subset, FS_CardinalityType
<1>4. \E x : edge \subseteq {x}
  BY PositionsOrdered
<1>5. PICK x : edge \subseteq {x}
  BY <1>4
<1>6. new \in SUBSET (old \cup {x})
  BY <1>1, <1>5
<1> HIDE DEF old, new, edge
<1>7. /\ IsFiniteSet(old \cup {x})
      /\ Cardinality(old \cup {x}) = IF x \in old THEN Cardinality(old) ELSE Cardinality(old) + 1
  BY <1>3, FS_AddElement
<1>8. /\ Cardinality(new) <= Cardinality(old \cup {x})
      /\ IsFiniteSet(new)
  BY <1>6, <1>7, FS_Subset
<1>9. Cardinality(new) \in Nat
  BY <1>8, FS_CardinalityType
<1>10. Cardinality(new) <= Cardinality(old) + 1
  BY <1>3, <1>7, <1>8, <1>9
<1> QED BY <1>10 DEF old, new

\* A page leaves nothing new behind; the last one leaves nothing ahead.
LEMMA PageLeaves ==
  ASSUME TypeOK, RowidsDistinct, IsFiniteSet(Registered), NEW S \in SUBSET Registered,
         NEW offset \in Nat, NEW size \in Nat \ {0}
  PROVE  /\ BehindOf(S \ Page(offset, size), offset + size) = BehindOf(S, offset)
         /\ Cardinality(Page(offset, size)) # size => S \ Page(offset, size) = BehindOf(S, offset)
<1>1. \A b \in Registered : Position(b) \in Nat
  BY PositionsOrdered
<1>2. \A b \in Registered :
        b \notin Page(offset, size) <=> Position(b) < offset \/ Position(b) >= offset + size
  BY <1>1 DEF Page
<1>3. BehindOf(S \ Page(offset, size), offset + size) = BehindOf(S, offset)
  BY <1>1, <1>2 DEF BehindOf
<1>4. ASSUME Cardinality(Page(offset, size)) # size, NEW b \in Registered
      PROVE  Position(b) < offset + size
  <2>1. ~(Position(b) >= offset + size)
    BY <1>4, PagesAreFull
  <2> QED BY <1>1, <2>1
<1> QED BY <1>1, <1>2, <1>3, <1>4 DEF BehindOf

LEMMA WalkStep ==
  ASSUME RegistryInv, [Next]_vars
  PROVE  WalkOK'
<1>0. /\ TypeOK /\ IsFiniteSet(Registered) /\ RowidsDistinct /\ RowidsBounded
      /\ walk \in Walk /\ \A b \in Registered : Position(b) \in Nat
  BY PositionsOrdered DEF RegistryInv, TypeOK
<1>u. /\ walk.deletes \in Nat /\ walk.offset \in Nat /\ walk.reading \in BOOLEAN
  BY <1>0 DEF Walk
<1>1. CASE Keeps /\ walk' = walk
  <2>1. walk.reading => Behind' = Behind
    BY <1>1, KeptPositions DEF RegistryInv, WalkOK, Behind
  <2> QED BY <1>1, <2>1 DEF RegistryInv, WalkOK, Keeps
<1>2. CASE Keeps /\ StartWalk
  <2>1. /\ walk'.reading /\ walk'.unseen = Registered /\ walk'.offset = 0
        /\ walk'.deletes = 0
    BY <1>2 DEF StartWalk, NoWalk
  <2>2. \A b \in Registered : Position(b)' = Position(b)
    BY <1>2, KeptPositions
  <2>3. Behind' = {}
    BY <1>0, <2>1, <2>2 DEF Behind
  <2> QED BY <1>2, <2>1, <2>3, FS_EmptySet DEF WalkOK, Keeps
<1>3. CASE Keeps /\ ReadPage
  <2> DEFINE S == walk.unseen
  <2>0. PICK limit \in Limits :
          LET size == PageSize(limit)
              page == Page(walk.offset, size)
          IN walk' = IF Cardinality(page) = size
                     THEN [walk EXCEPT !.unseen = @ \ page, !.offset = @ + size]
                     ELSE [walk EXCEPT !.unseen = @ \ page, !.offset = 0, !.reading = FALSE]
    BY <1>3 DEF ReadPage
  <2> DEFINE size == PageSize(limit)
             page == Page(walk.offset, size)
  <2>1. walk.reading /\ S \in SUBSET Registered /\ Cardinality(Behind) <= walk.deletes
    BY <1>3 DEF ReadPage, RegistryInv, WalkOK
  <2>s. /\ size \in Nat \ {0}
        /\ walk' = IF Cardinality(page) = size
                   THEN [walk EXCEPT !.unseen = @ \ page, !.offset = @ + size]
                   ELSE [walk EXCEPT !.unseen = @ \ page, !.offset = 0, !.reading = FALSE]
    BY <2>0, SizeTyped
  <2>p. page = Page(walk.offset, size)
    OBVIOUS
  <2> HIDE DEF size, page
  <2>2. /\ BehindOf(S \ page, walk.offset + size) = BehindOf(S, walk.offset)
        /\ Cardinality(page) # size => S \ page = BehindOf(S, walk.offset)
    BY <1>0, <1>u, <2>1, <2>s, <2>p, PageLeaves
  <2>3. BehindOf(S, walk.offset) = Behind
    BY DEF BehindOf, Behind
  <2>4. CASE Cardinality(page) = size
    <3>1. /\ walk'.reading /\ walk'.unseen = S \ page
          /\ walk'.offset = walk.offset + size /\ walk'.deletes = walk.deletes
      BY <1>0, <2>1, <2>4, <2>s DEF Walk
    <3>2. Behind' = BehindOf(S \ page, walk.offset + size)
      BY <1>3, <2>1, <3>1, KeptPositions DEF Behind, BehindOf
    <3> QED BY <1>3, <2>1, <2>2, <2>3, <3>1, <3>2 DEF WalkOK, Keeps
  <2>5. CASE Cardinality(page) # size
    <3>1. ~walk'.reading /\ walk'.unseen = S \ page /\ walk'.deletes = walk.deletes
      BY <1>0, <2>1, <2>5, <2>s DEF Walk
    <3> QED BY <2>1, <2>2, <2>3, <2>5, <3>1 DEF WalkOK
  <2> QED BY <2>4, <2>5
<1>4. ASSUME NEW a \in App, Creates(a) PROVE WalkOK'
  <2>1. CASE walk.reading
    <3>1. walk' = walk /\ walk.unseen \in SUBSET Registered /\ Cardinality(Behind) <= walk.deletes
      BY <1>4, <2>1 DEF Creates, RegistryInv, WalkOK
    <3>2. ASSUME NEW b \in walk.unseen, Position(b)' < walk.offset
          PROVE  Position(b) < walk.offset
      <4>1. Position(b)' \in Nat /\ Position(b) <= Position(b)' /\ Position(b) \in Nat
        BY <1>0, <1>4, <3>1, CreatedPositions
      <4> QED BY <1>u, <3>2, <4>1
    <3>3. Behind' \in SUBSET Behind /\ Behind \in SUBSET Registered
      BY <3>1, <3>2 DEF Behind
    <3>4. IsFiniteSet(Behind)
      BY <1>0, <3>3, FS_Subset
    <3>5. /\ Cardinality(Behind') <= Cardinality(Behind) /\ IsFiniteSet(Behind')
      BY <3>3, <3>4, FS_Subset
    <3>6. Cardinality(Behind') \in Nat /\ Cardinality(Behind) \in Nat
      BY <3>4, <3>5, FS_CardinalityType
    <3>7. Cardinality(Behind') <= walk.deletes
      BY <1>u, <3>1, <3>5, <3>6
    <3> QED BY <1>4, <2>1, <3>1, <3>7 DEF WalkOK, Creates
  <2>2. CASE ~walk.reading
    BY <1>4, <2>2 DEF Creates, RegistryInv, WalkOK
  <2> QED BY <2>1, <2>2
<1>5. ASSUME NEW a \in App, Deletes(a) PROVE WalkOK'
  <2> DEFINE S == walk.unseen
  <2>1. CASE walk.reading
    <3>1. S \in SUBSET Registered /\ Cardinality(Behind) <= walk.deletes
      BY <2>1 DEF RegistryInv, WalkOK
    <3>2. /\ walk'.reading /\ walk'.unseen = S \ {a} /\ walk'.offset = walk.offset
          /\ walk'.deletes = walk.deletes + 1
      BY <1>0, <1>5, <2>1 DEF Deletes, Walk
    <3>3. Cardinality(BehindOf(S \ {a}, walk.offset)) \in Nat
      <4>1. BehindOf(S \ {a}, walk.offset) \in SUBSET Registered
        BY <3>1 DEF BehindOf
      <4> QED BY <1>0, <4>1, FS_Subset, FS_CardinalityType
    <3>4. ASSUME NEW T \in SUBSET Registered, NEW n \in Nat
          PROVE  Cardinality({b \in T \ {a} : Position(b)' < n})
                   <= Cardinality({b \in T : Position(b) < n}) + 1
      BY <1>0, <1>5, DeletionSkipsOne DEF BehindOf
    <3>5. Cardinality({b \in S \ {a} : Position(b)' < walk.offset})
            <= Cardinality({b \in S : Position(b) < walk.offset}) + 1
      BY <1>u, <3>1, <3>4
    <3>6. /\ Behind = {b \in S : Position(b) < walk.offset}
          /\ Behind' = {b \in S \ {a} : Position(b)' < walk.offset}
      BY <3>2 DEF Behind
    <3>7. Behind \in SUBSET Registered /\ Behind' \in SUBSET Registered
      BY <3>1, <3>6
    <3>8. Cardinality(Behind) \in Nat /\ Cardinality(Behind') \in Nat
      BY <1>0, <3>7, FS_Subset, FS_CardinalityType
    <3>9. Cardinality(Behind') <= walk.deletes + 1
      BY <1>u, <3>1, <3>5, <3>6, <3>8
    <3> QED BY <1>5, <3>1, <3>2, <3>9 DEF WalkOK, Deletes
  <2>2. CASE ~walk.reading
    BY <1>5, <2>2 DEF Deletes, RegistryInv, WalkOK
  <2> QED BY <2>1, <2>2
<1> QED BY <1>0, <1>1, <1>2, <1>3, <1>4, <1>5, OrderCases

-----------------------------------------------------------------------------
(* What an acknowledged patch shows. *)

\* The row of app a is there afterwards, with the same fields.
Leaves(a) ==
  a \in Registered => a \in Registered' /\ \A f \in Field : apps'[a][f] = apps[a][f]

LEMMA PatchUndisturbed ==
  ASSUME PatchesOK, NEW r \in Req, reqs[r] # Idle, reqs'[r] = reqs[r], Leaves(reqs[r].app)
  PROVE  PatchOK(reqs[r])'
<1>1. PatchOK(reqs[r]) /\ \A change : Named(change) \subseteq Field
  BY DEF PatchesOK, Named
<1> QED BY <1>1 DEF PatchOK, Shown, Leaves, Named

LEMMA OvertakenIsOK ==
  ASSUME NEW r \in Req, reqs[r] \in Request,
         reqs'[r] = [reqs[r] EXCEPT !.overtaken = TRUE]
  PROVE  PatchOK(reqs[r])'
<1>1. reqs'[r].overtaken
  BY DEF Request
<1> QED BY <1>1 DEF PatchOK

\* An answer other than 200 acknowledges nothing.
LEMMA ErrorIsOK ==
  ASSUME TypeOK, NEW r \in Req, reqs[r] # Idle,
         NEW status \in {"bad_request", "not_found", "internal"}, AnswerError(r, status)
  PROVE  PatchOK(reqs[r])'
<1>1. reqs'[r].pc = "reply" /\ reqs'[r].status = status
  BY BusyIsRequest DEF AnswerError, TypeOK, Request
<1> QED BY <1>1 DEF PatchOK

\* What one request does to itself; the others it leaves alone.
LEMMA OwnPatchStep ==
  ASSUME TypeOK, PatchesOK, NEW r \in Req,
         \/ SendPatch(r) \/ PatchRefuse(r) \/ PatchCheck(r) \/ PatchReread(r)
         \/ DbError(r) \/ Finish(r)
  PROVE  PatchesOK'
<1>0. reqs[r].pc \in Patching => reqs[r] # Idle /\ reqs[r] \in Request
  BY PcIsBusy, BusyIsRequest
<1>1. UNCHANGED apps /\ \A s \in Req \ {r} : reqs'[s] = reqs[s]
  BY DEF SendPatch, PatchRefuse, PatchCheck, PatchReread, DbError, Finish, AnswerError, TypeOK
<1>2. \A a : Leaves(a)
  BY <1>1 DEF Leaves, Registered
<1>3. \A s \in Req \ {r} : reqs'[s] # Idle => PatchOK(reqs[s])'
  BY <1>1, <1>2, PatchUndisturbed
<1>4. reqs'[r] # Idle => PatchOK(reqs[r])'
  <2>1. CASE SendPatch(r)
    <3>1. reqs'[r].pc = "check"
      BY <2>1 DEF SendPatch, TypeOK
    <3> QED BY <3>1 DEF PatchOK
  <2>2. CASE PatchRefuse(r)
    BY <1>0, <2>2, ErrorIsOK DEF PatchRefuse, Patching
  <2>3. CASE PatchCheck(r)
    <3>1. /\ reqs'[r].pc = "update" /\ reqs'[r].app \in Registered
      BY <1>0, <2>3 DEF PatchCheck, TypeOK, Request, Patching
    <3> QED BY <1>1, <3>1 DEF PatchOK, Registered
  <2>4. CASE PatchReread(r)
    <3>1. CASE reqs[r].app \in Registered
      <4>1. /\ reqs'[r].pc = "reply" /\ reqs'[r].app = reqs[r].app
            /\ reqs'[r].change = reqs[r].change /\ reqs'[r].overtaken = reqs[r].overtaken
        BY <1>0, <2>4, <3>1 DEF PatchReread, TypeOK, Request, Patching
      <4>2. PatchOK(reqs[r]) /\ reqs[r].pc = "reread"
        BY <1>0, <2>4 DEF PatchReread, PatchesOK, Patching
      <4> QED BY <1>1, <3>1, <4>1, <4>2 DEF PatchOK, Shown, Registered
    <3>2. CASE reqs[r].app \notin Registered
      BY <1>0, <2>4, <3>2, ErrorIsOK DEF PatchReread, Patching
    <3> QED BY <3>1, <3>2
  <2>5. CASE DbError(r)
    BY <1>0, <2>5, ErrorIsOK DEF DbError
  <2>6. CASE Finish(r)
    BY <2>6 DEF Finish, TypeOK
  <2> QED BY <2>1, <2>2, <2>3, <2>4, <2>5, <2>6
<1> QED BY <1>3, <1>4 DEF PatchesOK

\* The UPDATE writes what its request names and overtakes the others.
LEMMA UpdateStep ==
  ASSUME TypeOK, PatchesOK, NEW r \in Req, PatchUpdate(r)
  PROVE  PatchesOK'
<1> DEFINE q == reqs[r]
           a == q.app
<1>0. q # Idle /\ q \in Request /\ q.pc = "update" /\ a \in App /\ q.change \in Change
  <2>1. q # Idle /\ q.pc = "update"
    BY PcIsBusy DEF PatchUpdate, Patching
  <2> QED BY <2>1, BusyIsRequest DEF Request
<1>1. CASE a \in Registered
  <2> DEFINE row == Patched(apps[a], q.change)
             o == Overtaking(r, a)
  <2>1. /\ row \in AppRow
        /\ \A f \in Field : row[f] = IF q.change[f] = Omitted THEN apps[a][f] ELSE q.change[f]
    BY <1>0, <1>1, Rows, PatchedTyped
  <2>2. o \in [Req -> Request \cup {Idle}] /\ o[r] = q
    BY OvertakingTyped
  <2>3. /\ apps' = [apps EXCEPT ![a] = row]
        /\ reqs' = [o EXCEPT ![r].pc = "reread"]
    BY <1>1 DEF PatchUpdate
  <2>4. \A s \in Req \ {r} : o[s] = IF reqs[s] # Idle /\ reqs[s].app = a
                                    THEN [reqs[s] EXCEPT !.overtaken = TRUE] ELSE reqs[s]
    BY DEF Overtaking
  <2> HIDE DEF row, o
  <2>5. apps'[a] = row /\ row # NoApp /\ \A b \in App \ {a} : apps'[b] = apps[b]
    BY <1>0, <2>1, <2>3, Rows DEF TypeOK
  <2>6. \A s \in Req \ {r} : reqs'[s] = o[s]
    BY <2>2, <2>3
  <2>7. /\ reqs'[r].pc = "reread" /\ reqs'[r].app = a /\ reqs'[r].change = q.change
    BY <1>0, <2>2, <2>3 DEF Request
  <2>8. a \in Registered'
    BY <1>0, <2>5 DEF Registered
  <2>9. \A b \in App \ {a} : Leaves(b)
    BY <2>5 DEF Leaves, Registered
  <2>10. PatchOK(reqs[r])'
    <3>1. \A f \in Named(q.change) : f \in Field /\ q.change[f] # Omitted
      BY DEF Named
    <3>2. \A f \in Named(q.change) : apps'[a][f] = q.change[f]
      BY <2>1, <2>5, <3>1
    <3> QED BY <2>7, <2>8, <3>2 DEF PatchOK, Shown
  <2>11. ASSUME NEW s \in Req \ {r}, reqs'[s] # Idle PROVE PatchOK(reqs[s])'
    <3>1. reqs[s] # Idle
      BY <2>4, <2>6, <2>11
    <3>2. reqs[s] \in Request /\ reqs[s].app \in App
      BY <3>1, BusyIsRequest DEF Request
    <3>3. CASE reqs[s].app = a
      BY <2>4, <2>6, <3>1, <3>2, <3>3, OvertakenIsOK
    <3>4. CASE reqs[s].app # a
      BY <2>4, <2>6, <2>9, <3>1, <3>2, <3>4, PatchUndisturbed
    <3> QED BY <3>3, <3>4
  <2> QED BY <2>10, <2>11 DEF PatchesOK
<1>2. CASE a \notin Registered
  <2>1. UNCHANGED apps /\ reqs' = [reqs EXCEPT ![r].pc = "reread"]
    BY <1>2 DEF PatchUpdate
  <2>2. q.overtaken
    BY <1>0, <1>2 DEF PatchesOK, PatchOK
  <2>3. reqs'[r].overtaken
    BY <1>0, <2>1, <2>2 DEF TypeOK, Request
  <2>4. \A s \in Req \ {r} : reqs'[s] = reqs[s] /\ Leaves(reqs[s].app)
    BY <2>1 DEF TypeOK, Leaves, Registered
  <2>5. \A s \in Req \ {r} : reqs'[s] # Idle => PatchOK(reqs[s])'
    BY <2>4, PatchUndisturbed
  <2>6. PatchOK(reqs[r])'
    BY <2>3 DEF PatchOK
  <2> QED BY <2>5, <2>6 DEF PatchesOK
<1> QED BY <1>1, <1>2

LEMMA PatchesStep ==
  ASSUME TypeOK, PatchesOK, RowidsBounded, [Next]_vars
  PROVE  PatchesOK'
<1>1. ASSUME NEW a \in App, AdminDeleteApp(a) PROVE PatchesOK'
  <2>1. /\ apps' = [apps EXCEPT ![a] = NoApp]
        /\ reqs' = Overtaking(NoReq, a)
    BY <1>1 DEF AdminDeleteApp
  <2>2. \A b \in App \ {a} : Leaves(b)
    BY <2>1 DEF TypeOK, Leaves, Registered
  <2>3. ASSUME NEW s \in Req, reqs'[s] # Idle PROVE PatchOK(reqs[s])'
    <3>1. /\ s # NoReq
          /\ reqs'[s] = IF reqs[s] # Idle /\ reqs[s].app = a
                        THEN [reqs[s] EXCEPT !.overtaken = TRUE] ELSE reqs[s]
      BY <2>1, RegistryAssumption DEF Overtaking
    <3>2. reqs[s] # Idle
      BY <2>3, <3>1
    <3>3. reqs[s] \in Request /\ reqs[s].app \in App
      BY <3>2, BusyIsRequest DEF Request
    <3>4. CASE reqs[s].app = a
      BY <3>1, <3>2, <3>3, <3>4, OvertakenIsOK
    <3>5. CASE reqs[s].app # a
      BY <2>2, <3>1, <3>2, <3>3, <3>5, PatchUndisturbed
    <3> QED BY <3>4, <3>5
  <2> QED BY <2>3 DEF PatchesOK
<1>2. ASSUME NEW a \in App, NEW name \in NewText, NEW description \in NewText,
             AdminCreateApp(a, name, description)
      PROVE  PatchesOK'
  <2> DEFINE row == [display_name |-> name, description |-> description,
                     at |-> clock, rowid |-> NextRowid]
  <2>1. a \notin Registered /\ apps' = [apps EXCEPT ![a] = row] /\ reqs' = reqs
    BY <1>2 DEF AdminCreateApp
  <2> HIDE DEF row
  <2>2. \A b \in App : Leaves(b)
    BY <2>1 DEF TypeOK, Leaves, Registered
  <2>3. \A s \in Req : reqs[s] # Idle => reqs[s].app \in App
    BY BusyIsRequest DEF Request
  <2> QED BY <2>1, <2>2, <2>3, PatchUndisturbed DEF PatchesOK
<1>3. CASE StartWalk \/ ReadPage \/ Tick \/ UNCHANGED vars
  <2>1. UNCHANGED <<apps, reqs>>
    BY <1>3 DEF StartWalk, ReadPage, Tick, vars
  <2>2. \A a : Leaves(a)
    BY <2>1 DEF Leaves, Registered
  <2> QED BY <2>1, <2>2, PatchUndisturbed DEF PatchesOK
<1> QED BY <1>1, <1>2, <1>3, OwnPatchStep, UpdateStep DEF Next

-----------------------------------------------------------------------------
(* The theorems. *)

LEMMA InitRegistry ==
  ASSUME Init
  PROVE  RegistryInv
<1>1. Registered = {}
  BY DEF Init, Registered
<1>2. TypeOK
  <2>1. NoWalk \in Walk
    <3>1. 0 \in 0 .. MaxDeletes
      BY RegistryAssumption
    <3> QED BY <3>1 DEF NoWalk, Walk
  <2> QED BY <2>1 DEF Init, TypeOK
<1>3. WalkOK
  <2>1. ~walk.reading /\ walk.unseen = {} /\ walk.deletes = 0
    BY DEF Init, NoWalk
  <2> QED BY <2>1, FS_EmptySet DEF WalkOK
<1>4. PatchesOK
  BY DEF Init, PatchesOK
<1> QED BY <1>1, <1>2, <1>3, <1>4, FS_EmptySet DEF RegistryInv, RowidsDistinct, RowidsBounded

\* Rowids stay distinct and grow; what lies behind the offset of a walk grows
\* by a deletion only; a patch nobody overtook finds and shows its row.
THEOREM RegistryInvariant == Spec => []RegistryInv
<1>1. ASSUME RegistryInv, [Next]_vars PROVE RegistryInv'
  BY <1>1, NextTyped, RowidsStep, WalkStep, PatchesStep DEF RegistryInv
<1> QED BY <1>1, InitRegistry, PTL DEF Spec

\* The types of the registry, of the patches in progress and of a walk.
THEOREM RegistryTyped == Spec => []TypeOK
<1>1. RegistryInv => TypeOK
  BY DEF RegistryInv
<1> QED BY <1>1, RegistryInvariant, PTL

\* For any number of apps and any clock: a client that pages through the
\* registry misses at most one of the apps registered all the time per app
\* deleted meanwhile.  It may ask for any limit, also for one that is replaced
\* by the default, and for another on each page, as long as it goes by the
\* limit that the answer reports (ListApps, AdminListApps).
THEOREM WalkMissesAtMostDeleted == Spec => []WalkMissesFew
<1>1. RegistryInv => WalkMissesFew
  BY DEF RegistryInv, WalkOK, WalkMissesFew
<1> QED BY <1>1, RegistryInvariant, PTL

\* A patch answered with 200 is in its row, field by field, unless its app was
\* deleted or patched by another request since it was sent (AdminPatchApp).
THEOREM PatchShows == Spec => []AcknowledgedPatchShows
<1>1. RegistryInv => AcknowledgedPatchShows
  BY DEF RegistryInv, PatchesOK, PatchOK, Shown, AcknowledgedPatchShows
<1> QED BY <1>1, RegistryInvariant, PTL
=============================================================================
