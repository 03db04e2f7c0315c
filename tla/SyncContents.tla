----------------------------- MODULE SyncContents -----------------------------
(***************************************************************************)
(* What the sync service stores: the history of a pair is its newest       *)
(* accepted writes, the service implements the versioned register of       *)
(* ConfigRegister, and a user's rows stay within the storage limit.        *)
(***************************************************************************)
EXTENDS SyncLocking, SyncRefinement, FunctionTheorems

(***************************************************************************)
(* The trim.  Along the history the versions, the times and the ids grow   *)
(* together, so ORDER BY created_at DESC, id DESC orders by version.       *)
(***************************************************************************)

\* rows has one row per version of oldest .. newest, in the order of time.
Consecutive(rows, oldest, newest) ==
  /\ {h.version : h \in rows} = oldest .. newest
  /\ \A g, h \in rows : g.version = h.version => g = h
  /\ \A g, h \in rows : g.version < h.version => g.id < h.id /\ g.at <= h.at

LEMMA NewerIsLater ==
  ASSUME NEW rows \in SUBSET HistoryRow, NEW oldest \in Int, NEW newest \in Int,
         Consecutive(rows, oldest, newest), NEW g \in rows, NEW h \in rows
  PROVE  Newer(g, h) <=> g.version > h.version
<1>1. /\ g.version \in Nat /\ g.id \in Nat /\ g.at \in Nat
      /\ h.version \in Nat /\ h.id \in Nat /\ h.at \in Nat
  BY DEF HistoryRow
<1>2. /\ g.version = h.version => g = h
      /\ g.version < h.version => g.id < h.id /\ g.at <= h.at
      /\ h.version < g.version => h.id < g.id /\ h.at <= g.at
  BY DEF Consecutive
<1> QED BY <1>1, <1>2 DEF Newer

\* As many rows are newer than h as there are versions after its own.
LEMMA RowsNewer ==
  ASSUME NEW rows \in SUBSET HistoryRow, NEW oldest \in Nat, NEW newest \in Nat,
         Consecutive(rows, oldest, newest), NEW h \in rows
  PROVE  Cardinality({g \in rows : Newer(g, h)}) = newest - h.version
<1> DEFINE S == {g \in rows : Newer(g, h)}
           T == h.version + 1 .. newest
           f == [g \in S |-> g.version]
<1>1. \A g \in rows : g.version \in oldest .. newest
  BY DEF Consecutive
<1>2. \A k \in oldest .. newest : \E g \in rows : g.version = k
  BY DEF Consecutive
<1>3. h.version \in Nat /\ oldest <= h.version /\ h.version <= newest
  BY <1>1
<1>4. S = {g \in rows : g.version > h.version}
  BY NewerIsLater
<1>5. ASSUME NEW g \in S PROVE g.version \in T
  <2>1. g.version \in oldest .. newest /\ g.version > h.version
    BY <1>1, <1>4
  <2> QED BY <1>3, <2>1
<1>6. ASSUME NEW k \in T PROVE \E g \in S : g.version = k
  <2>1. k \in oldest .. newest /\ k > h.version
    BY <1>3
  <2>2. PICK g \in rows : g.version = k
    BY <1>2, <2>1
  <2> QED BY <1>4, <2>1, <2>2
<1>7. \A g, e \in S : g.version = e.version => g = e
  BY DEF Consecutive
<1>8. f \in Bijection(S, T)
  BY <1>5, <1>6, <1>7 DEF Bijection, Injection, Surjection, IsInjective
<1>9. IsFiniteSet(T) /\ Cardinality(T) = newest - h.version
  <2>1. h.version + 1 \in Int /\ newest \in Int
    BY <1>3
  <2>2. /\ IsFiniteSet(T)
        /\ Cardinality(T) = IF h.version + 1 > newest THEN 0 ELSE newest - (h.version + 1) + 1
    BY <2>1, FS_Interval
  <2> HIDE DEF T
  <2> QED BY <1>3, <2>2
<1> HIDE DEF S, T, f
<1>10. Cardinality(S) = Cardinality(T)
  <2>1. ExistsBijection(S, T)
    BY <1>8 DEF ExistsBijection
  <2>2. ExistsBijection(T, S)
    BY <2>1, Fun_ExistsBijSymmetric
  <2> QED BY <1>9, <2>2, FS_Bijection
<1> QED BY <1>9, <1>10 DEF S

\* LIMIT keeps the newest versions and nothing else.
LEMMA TrimKeepsNewest ==
  ASSUME NEW rows \in SUBSET HistoryRow, NEW oldest \in Nat, NEW newest \in Nat,
         Consecutive(rows, oldest, newest)
  PROVE  Trimmed(rows) = IF HistoryPerApp > 0
                         THEN {h \in rows : h.version > newest - HistoryPerApp}
                         ELSE rows
<1>1. ASSUME NEW h \in rows
      PROVE  Cardinality({g \in rows : Newer(g, h)}) < HistoryPerApp
               <=> h.version > newest - HistoryPerApp
  <2>1. Cardinality({g \in rows : Newer(g, h)}) = newest - h.version
    BY RowsNewer
  <2>2. h.version \in Nat
    BY DEF HistoryRow
  <2> QED BY <2>1, <2>2, StoreAssumption
<1> QED BY <1>1 DEF Trimmed, MostRecent

(***************************************************************************)
(* The history, as long as the clock is not set back.                      *)
(***************************************************************************)
HistoryInv == HistoryInOrder /\ HistoryIsNewest

LEMMA RowVersions ==
  ASSUME TypeOK, NEW p \in Pair
  PROVE  /\ configs[p].version \in Nat /\ OldestKept(p) \in Nat \ {0}
         /\ OldestKept(p) <= configs[p].version + 1
         /\ HistoryOf(p) \in SUBSET HistoryRow
<1>1. configs[p].version \in Nat /\ HistoryPerApp \in Int
  BY StoreAssumption DEF TypeOK, StoreTypeOK, ConfigRow
<1> QED BY <1>1 DEF OldestKept, HistoryOf, TypeOK, StoreTypeOK

LEMMA HistoryConsecutive ==
  ASSUME HistoryInv, NEW p \in Pair
  PROVE  Consecutive(HistoryOf(p), OldestKept(p), configs[p].version)
BY DEF HistoryInv, HistoryInOrder, HistoryIsNewest, Consecutive

\* The row an accepted PUT adds to the history of its pair.
NewRow(r) ==
  [id |-> nextId, pair |-> reqs[r].pair, version |-> configs[reqs[r].pair].version + 1,
   payload |-> reqs[r].payload, at |-> clock]

\* The history after an accepted PUT: the new row and the newest of the others.
LEMMA WrittenHistory ==
  ASSUME TypeOK, HistoryInv, NEW r \in Req, Writes(r), NEW p \in Pair, p = reqs[r].pair
  PROVE  LET rows == HistoryOf(p) \cup {NewRow(r)}
             v == configs[p].version + 1
         IN  /\ rows \in SUBSET HistoryRow
             /\ Consecutive(rows, OldestKept(p), v)
             /\ HistoryOf(p)' = IF HistoryPerApp > 0
                                THEN {h \in rows : h.version > v - HistoryPerApp}
                                ELSE rows
<1> DEFINE rows == HistoryOf(p) \cup {NewRow(r)}
           v == configs[p].version + 1
           o == OldestKept(p)
<1>1. /\ configs[p].version \in Nat /\ o \in Nat /\ o <= v /\ v \in Nat
      /\ HistoryOf(p) \in SUBSET HistoryRow
  BY RowVersions
<1>2. NewRow(r) \in HistoryRow /\ NewRow(r).version = v /\ NewRow(r).pair = p
      /\ NewRow(r).id = nextId /\ NewRow(r).at = clock
  <2>1. clock \in Nat /\ nextId \in Nat
    BY StoreAssumption DEF TypeOK, StoreTypeOK
  <2> QED BY <1>1, <2>1 DEF NewRow, HistoryRow, Writes
<1>3. Consecutive(HistoryOf(p), o, configs[p].version)
  BY HistoryConsecutive
<1>4. \A h \in HistoryOf(p) : /\ h.version \in o .. configs[p].version
                              /\ h.id < nextId /\ h.at <= clock
  BY <1>3 DEF Consecutive, HistoryInv, HistoryInOrder, HistoryOf
<1>5. Consecutive(rows, o, v)
  <2>1. {h.version : h \in rows} = {h.version : h \in HistoryOf(p)} \cup {v}
    BY <1>2
  <2>2. {h.version : h \in HistoryOf(p)} = o .. configs[p].version
    BY <1>3 DEF Consecutive
  <2> DEFINE n == configs[p].version
  <2>a. o \in Nat /\ n \in Nat /\ o <= n + 1
    BY <1>1
  <2>b. (o .. n) \cup {n + 1} = o .. n + 1
    <3> HIDE DEF n, o
    <3> QED BY <2>a
  <2>3. {h.version : h \in rows} = o .. v
    BY <2>1, <2>2, <2>b
  <2>4. ASSUME NEW h \in HistoryOf(p)
        PROVE  h.version \in Nat /\ h.version < v /\ h.id < nextId /\ h.at <= clock
    BY <1>1, <1>4
  <2>5. \A g, h \in rows : g.version = h.version => g = h
    BY <1>1, <1>2, <1>3, <2>4 DEF Consecutive
  <2>6. ASSUME NEW g \in rows, NEW h \in rows, g.version < h.version
        PROVE  g.id < h.id /\ g.at <= h.at
    <3>1. CASE g \in HistoryOf(p) /\ h \in HistoryOf(p)
      BY <1>3, <2>6, <3>1 DEF Consecutive
    <3>2. CASE g = NewRow(r)
      BY <1>1, <1>2, <2>4, <2>6, <3>2
    <3>3. CASE g \in HistoryOf(p) /\ h = NewRow(r)
      BY <1>2, <2>4, <3>3
    <3> QED BY <3>1, <3>2, <3>3
  <2> QED BY <2>3, <2>5, <2>6 DEF Consecutive
<1>6. rows \in SUBSET HistoryRow
  BY <1>1, <1>2
<1>7. HistoryOf(p)' = Trimmed(rows)
  <2>1. history' = (history \ HistoryOf(p)) \cup Trimmed(rows)
    BY DEF Writes, PutCommit, WriteConfig, NewRow
  <2>2. Trimmed(rows) \subseteq rows
    BY DEF Trimmed, MostRecent
  <2>3. \A h \in rows : h.pair = p
    BY <1>2 DEF HistoryOf
  <2> HIDE DEF rows
  <2> QED BY <2>1, <2>2, <2>3 DEF HistoryOf
<1> HIDE DEF rows
<1>8. Trimmed(rows) = IF HistoryPerApp > 0
                      THEN {h \in rows : h.version > v - HistoryPerApp} ELSE rows
  BY <1>1, <1>5, <1>6, TrimKeepsNewest
<1> QED BY <1>5, <1>6, <1>7, <1>8 DEF rows

LEMMA WrittenIsNewest ==
  ASSUME TypeOK, HistoryInv, NEW r \in Req, Writes(r), NEW p \in Pair, p = reqs[r].pair
  PROVE  /\ Consecutive(HistoryOf(p)', OldestKept(p)', configs'[p].version)
         /\ \A h \in HistoryOf(p)' :
              h.version = configs'[p].version => h.payload = configs'[p].payload
<1> DEFINE rows == HistoryOf(p) \cup {NewRow(r)}
           v == configs[p].version + 1
           o == OldestKept(p)
           new == HistoryOf(p)'
<1>1. /\ rows \in SUBSET HistoryRow
      /\ Consecutive(rows, o, v)
      /\ new = IF HistoryPerApp > 0
               THEN {h \in rows : h.version > v - HistoryPerApp} ELSE rows
  BY WrittenHistory
<1>2. configs'[p] = [version |-> v, payload |-> reqs[r].payload]
  BY WriteEffect
<1>3. configs'[p].version = v /\ configs'[p].payload = reqs[r].payload
  BY <1>2
<1>4. /\ configs[p].version \in Nat /\ o \in Nat \ {0} /\ o <= v /\ HistoryPerApp \in Int
      /\ v \in Nat
  BY RowVersions, StoreAssumption
<1>5. /\ OldestKept(p)' = IF HistoryPerApp > 0 /\ v > HistoryPerApp
                          THEN v - HistoryPerApp + 1 ELSE 1
      /\ o = IF HistoryPerApp > 0 /\ v - 1 > HistoryPerApp
             THEN v - 1 - HistoryPerApp + 1 ELSE 1
  BY <1>3, <1>4 DEF OldestKept
<1>6. \A h \in HistoryOf(p) : h.version \in Nat /\ h.version < v
  <2>1. \A h \in HistoryOf(p) : h.version \in o .. configs[p].version
    BY HistoryConsecutive DEF Consecutive
  <2> QED BY <1>4, <2>1
<1>7. NewRow(r).payload = reqs[r].payload
  BY DEF NewRow
<1>8. \A h \in new : h.version = v => h.payload = reqs[r].payload
  BY <1>1, <1>6, <1>7
<1> HIDE DEF rows, new, o
<1>9. /\ \A h \in rows : h.version \in o .. v
      /\ \A k \in o .. v : \E h \in rows : h.version = k
  BY <1>1 DEF Consecutive
<1>10. {h.version : h \in new} = OldestKept(p)' .. v
  <2>1. CASE HistoryPerApp > 0
    <3>1. ASSUME NEW h \in new PROVE h.version \in OldestKept(p)' .. v
      <4>1. h.version \in o .. v /\ h.version > v - HistoryPerApp
        BY <1>1, <1>9, <2>1
      <4>2. h.version \in Nat /\ h.version >= OldestKept(p)'
        BY <1>4, <1>5, <4>1
      <4> QED BY <1>4, <1>5, <4>1, <4>2
    <3>2. ASSUME NEW k \in OldestKept(p)' .. v PROVE \E h \in new : h.version = k
      <4>1. k \in o .. v /\ k > v - HistoryPerApp
        BY <1>4, <1>5, <2>1
      <4>2. PICK h \in rows : h.version = k
        BY <1>9, <4>1
      <4> QED BY <1>1, <2>1, <4>1, <4>2
    <3> QED BY <3>1, <3>2
  <2>2. CASE ~(HistoryPerApp > 0)
    <3>1. new = rows /\ OldestKept(p)' = 1 /\ o = 1
      BY <1>1, <1>5, <2>2
    <3> QED BY <1>9, <3>1
  <2> QED BY <2>1, <2>2
<1>11. \A h \in new : h \in rows
  BY <1>1
<1>12. Consecutive(new, OldestKept(p)', v)
  BY <1>1, <1>10, <1>11 DEF Consecutive
<1> QED BY <1>3, <1>8, <1>12 DEF new

\* What else happens to the history of a pair: nothing, or it is emptied
\* together with the row.
LEMMA OtherHistory ==
  ASSUME TypeOK, [Next]_vars
  PROVE  \/ \E r \in Req : Writes(r)
         \/ /\ history' \subseteq history /\ nextId' = nextId
            /\ \A p \in Pair : \/ configs'[p] = configs[p] /\ HistoryOf(p)' = HistoryOf(p)
                               \/ configs'[p] = Absent /\ HistoryOf(p)' = {}
<1> DEFINE Kept == /\ history' \subseteq history /\ nextId' = nextId
                   /\ \A p \in Pair :
                        \/ configs'[p] = configs[p] /\ HistoryOf(p)' = HistoryOf(p)
                        \/ configs'[p] = Absent /\ HistoryOf(p)' = {}
<1>1. UNCHANGED <<configs, history, nextId>> => Kept
  BY DEF HistoryOf
<1>2. ASSUME NEW ps, DeleteRows(ps) PROVE Kept
  BY <1>2 DEF DeleteRows, HistoryOf
<1>3. ASSUME NEW u \in User, NEW prefix, DeleteAppToken(u, prefix) PROVE Kept
  BY <1>1, <1>3 DEF DeleteAppToken, DeleteTokens
<1>4. ASSUME NEW p \in Pair, DeleteAppData(p) PROVE Kept
  BY <1>2, <1>4 DEF DeleteAppData, WipePair
<1>5. ASSUME NEW a \in App, AdminDeleteApp(a) PROVE Kept
  BY <1>2, <1>5 DEF AdminDeleteApp, DeleteApp
<1>6. ASSUME NEW a \in App, AdminCreateApp(a) PROVE Kept
  BY <1>1, <1>6 DEF AdminCreateApp, InsertApp
<1>7. ASSUME NEW r \in Req, Touch(r) \/ TokenCommit(r) PROVE Kept
  BY <1>1, <1>7 DEF Touch, TouchToken, TokenCommit, ReplaceToken
<1>8. UNCHANGED <<storeVars, fate>> => Kept
  BY <1>1 DEF storeVars
<1> HIDE DEF Kept
<1>9. (\E r \in Req : Writes(r)) \/ Kept
  BY <1>3, <1>4, <1>5, <1>6, <1>7, <1>8, StoreCases DEF AdminNext
<1> QED BY <1>9 DEF Kept

LEMMA ClockForward ==
  ASSUME TypeOK, [Next]_vars, "clockback" \notin Events
  PROVE  clock \in Nat /\ clock' \in Nat /\ clock <= clock'
<1>1. clock \in Time /\ \A t \in Time : t \in Nat
  BY StoreAssumption DEF TypeOK
<1>2. CASE Tick
  BY <1>1, <1>2 DEF Tick
<1>3. CASE UNCHANGED clock
  BY <1>1, <1>3
<1>4. ASSUME NEW r \in Req, Serve(r) \/ DbError(r) \/ Cancel(r) \/ Deliver(r)
      PROVE  UNCHANGED clock
  BY <1>4 DEF Serve, DbError, Cancel, Deliver, AuthReject, AuthForbid, AuthPass, Touch,
     HandleGet, PutRejectBody, PutOverQuota, PutConflict, PutForeignKey, PutCommit,
     TokenCheckApp, TokenRefuse, TokenCommit, ReqOnly
<1>5. ASSUME NEW r \in Req, NEW d \in Device, SendGet(r, d) \/ SendPut(r, d)
      PROVE  UNCHANGED clock
  BY <1>5 DEF SendGet, SendPut, Send
<1>6. ASSUME NEW r \in Req, NEW p \in Pair, SendCreateToken(r, p) PROVE UNCHANGED clock
  BY <1>6 DEF SendCreateToken
<1>7. (\E d \in Device : GiveUp(d)) \/ Crash => UNCHANGED clock
  BY DEF GiveUp, Crash
<1>8. AdminNext => UNCHANGED clock
  BY DEF AdminNext, DeleteAppToken, DeleteAppData, AdminDeleteApp, AdminCreateApp,
     Deletion, serverVars
<1>9. UNCHANGED vars => UNCHANGED clock
  BY DEF vars, serverVars
<1> QED BY <1>2, <1>3, <1>4, <1>5, <1>6, <1>7, <1>8, <1>9, NextCases DEF EnvNext

LEMMA HistoryStepNewest ==
  ASSUME TypeOK, TypeOK', HistoryInv, [Next]_vars, "clockback" \notin Events
  PROVE  HistoryInv'
<1>0. /\ nextId \in Nat /\ clock \in Nat /\ clock' \in Nat /\ clock <= clock'
      /\ \A h \in history : h.id \in Nat /\ h.at \in Nat /\ h.pair \in Pair
  BY ClockForward DEF TypeOK, StoreTypeOK, HistoryRow
<1>1. ASSUME NEW r \in Req, Writes(r), NEW p \in Pair, p = reqs[r].pair
      PROVE  HistoryInv'
  <2>1. \A q \in Pair : q # p => configs'[q] = configs[q] /\ HistoryOf(q)' = HistoryOf(q)
    BY <1>1, WriteEffect
  <2>2. /\ Consecutive(HistoryOf(p)', OldestKept(p)', configs'[p].version)
        /\ \A h \in HistoryOf(p)' :
             h.version = configs'[p].version => h.payload = configs'[p].payload
    BY <1>1, <2>1, WrittenIsNewest
  <2>3. \A q \in Pair : q # p => OldestKept(q)' = OldestKept(q)
    BY <2>1 DEF OldestKept
  <2>4. HistoryIsNewest'
    BY <2>1, <2>2, <2>3 DEF HistoryInv, HistoryIsNewest, Consecutive
  <2>5. \A q \in Pair : \A g, h \in HistoryOf(q)' :
          g.version < h.version => g.id < h.id /\ g.at <= h.at
    BY <2>1, <2>2 DEF HistoryInv, HistoryInOrder, Consecutive
  <2>6. nextId' = nextId + 1
    BY <1>1 DEF Writes, PutCommit, WriteConfig
  <2>7. \A h \in history' : h \in history \/ h = NewRow(r)
    <3>1. history' = (history \ HistoryOf(p)) \cup Trimmed(HistoryOf(p) \cup {NewRow(r)})
      BY <1>1 DEF Writes, PutCommit, WriteConfig, NewRow
    <3>2. \A rows : Trimmed(rows) \subseteq rows
      BY DEF Trimmed, MostRecent
    <3> QED BY <3>1, <3>2 DEF HistoryOf
  <2>8. NewRow(r).id = nextId /\ NewRow(r).at = clock
    BY DEF NewRow
  <2>9. \A h \in history : h.id < nextId /\ h.at <= clock
    BY DEF HistoryInv, HistoryInOrder
  <2>10. ASSUME NEW h \in history' PROVE h.id < nextId' /\ h.at <= clock'
    BY <1>0, <2>6, <2>7, <2>8, <2>9
  <2> QED BY <2>4, <2>5, <2>10 DEF HistoryInv, HistoryInOrder
<1>2. ASSUME history' \subseteq history, nextId' = nextId,
             \A p \in Pair : \/ configs'[p] = configs[p] /\ HistoryOf(p)' = HistoryOf(p)
                             \/ configs'[p] = Absent /\ HistoryOf(p)' = {}
      PROVE  HistoryInv'
  <2>1. ASSUME NEW h \in history' PROVE h.id < nextId' /\ h.at <= clock'
    <3>1. h \in history /\ h.id < nextId /\ h.at <= clock
      BY <1>2 DEF HistoryInv, HistoryInOrder
    <3> QED BY <1>0, <1>2, <3>1
  <2>2. \A p \in Pair : \A g, h \in HistoryOf(p)' :
          g.version < h.version => g.id < h.id /\ g.at <= h.at
    BY <1>2 DEF HistoryInv, HistoryInOrder
  <2>3. ASSUME NEW p \in Pair
        PROVE  /\ {h.version : h \in HistoryOf(p)'} = OldestKept(p)' .. configs'[p].version
               /\ \A g, h \in HistoryOf(p)' : g.version = h.version => g = h
               /\ \A h \in HistoryOf(p)' :
                    h.version = configs'[p].version => h.payload = configs'[p].payload
    <3>1. CASE configs'[p] = configs[p] /\ HistoryOf(p)' = HistoryOf(p)
      <4>1. OldestKept(p)' = OldestKept(p)
        BY <3>1 DEF OldestKept
      <4> QED BY <3>1, <4>1 DEF HistoryInv, HistoryIsNewest
    <3>2. CASE configs'[p] = Absent /\ HistoryOf(p)' = {}
      <4>1. configs'[p].version = 0
        BY <3>2 DEF Absent
      <4>2. OldestKept(p)' = 1
        BY <4>1, StoreAssumption DEF OldestKept
      <4>3. 1 .. 0 = {}
        OBVIOUS
      <4> QED BY <3>2, <4>1, <4>2, <4>3
    <3> QED BY <1>2, <3>1, <3>2
  <2> QED BY <2>1, <2>2, <2>3 DEF HistoryInv, HistoryInOrder, HistoryIsNewest
<1>3. \A r \in Req : Writes(r) => reqs[r].pair \in Pair
  BY DEF Writes
<1> QED BY <1>1, <1>2, <1>3, OtherHistory

LEMMA InitHistory ==
  ASSUME Init
  PROVE  HistoryInv
<1>1. ASSUME NEW p \in Pair
      PROVE  configs[p].version = 0 /\ HistoryOf(p) = {} /\ OldestKept(p) = 1
  BY StoreAssumption DEF Init, StoreInit, HistoryOf, Absent, OldestKept
<1>2. 1 .. 0 = {} /\ history = {}
  BY DEF Init, StoreInit
<1> QED BY <1>1, <1>2 DEF HistoryInv, HistoryInOrder, HistoryIsNewest

\* As long as nobody sets the clock back, times and ids order the history as
\* its versions do, and the history is the newest accepted writes.
THEOREM HistoryInvariant == "clockback" \notin Events => (Spec => []HistoryInv)
<1> SUFFICES ASSUME "clockback" \notin Events PROVE Spec => []HistoryInv
  OBVIOUS
<1>1. TypeOK /\ HistoryInv /\ [Next]_vars => HistoryInv'
  BY NextTyped, HistoryStepNewest
<1> QED BY <1>1, InitHistory, TypeCorrect, PTL DEF Spec

\* The trim of PutConfig keeps the newest HISTORY_PER_APP writes without a
\* gap, the current one among them, for every limit and interleaving, if the
\* clock is not set back.
THEOREM HistoryKeepsNewest == "clockback" \notin Events => (Spec => []HistoryIsNewest)
<1>1. HistoryInv => HistoryIsNewest
  BY DEF HistoryInv
<1> QED BY <1>1, HistoryInvariant, PTL

(***************************************************************************)
(* The service implements the versioned register.                          *)
(***************************************************************************)
Registers == [p \in Pair |-> AsValue(configs[p])]
KeptWrites == [p \in Pair |-> {AsValue(h) : h \in HistoryOf(p)}]
Calls == [r \in Req |-> CallOf(reqs[r])]

SameTables == UNCHANGED <<configs, history>>

LEMMA RegistersUnchanged ==
  ASSUME SameTables
  PROVE  Registers' = Registers /\ KeptWrites' = KeptWrites
BY DEF SameTables, Registers, KeptWrites, HistoryOf

\* The request of a device is a call of the register.
LEMMA CallTyped ==
  ASSUME NEW q \in Request, q.op # "token"
  PROVE  /\ CallOf(q) \in Register!CallRecord
         /\ CallOf(q).state = (IF q.pc = "reply" THEN "answered" ELSE "invoked")
         /\ CallOf(q).op = (IF q.op = "get" THEN "read" ELSE "write")
         /\ CallOf(q).key = q.pair /\ CallOf(q).expect = q.sent.version
         /\ CallOf(q).force = q.force /\ CallOf(q).value = q.payload
         /\ CallOf(q).outcome = OutcomeOf(q) /\ CallOf(q).seen = AsValue(q.answer)
<1>1. q # Idle
  BY DEF Request, Idle, Serving
<1>2. /\ q.pair \in Pair /\ q.sent.version \in Nat /\ q.force \in BOOLEAN
      /\ q.payload \in Payload \cup {NoPayload}
  BY DEF Request, Snapshot
<1>3. AsValue(q.answer) \in [version : Nat, value : Payload \cup {NoPayload}]
  BY DEF Request, Snapshot, AsValue
<1>4. OutcomeOf(q) \in Register!Outcome
  BY DEF OutcomeOf, Register!Outcome
<1> HIDE DEF AsValue, OutcomeOf
<1> QED BY <1>1, <1>2, <1>3, <1>4 DEF CallOf, Register!CallRecord

\* It is invoked as long as it has no answer.
Pending(r) == reqs[r] \in Request /\ reqs[r].op # "token" /\ reqs[r].pc # "reply"

DecidedAs(status) ==
  IF status = "ok" THEN "done" ELSE IF status = "conflict" THEN "conflict" ELSE "refused"

\* Answering a pending request decides its call.
LEMMA AnswerDecides ==
  ASSUME TypeOK, NEW r \in Req, Pending(r), NEW status \in Status, NEW s \in Snapshot,
         AnswerWith(r, status, s)
  PROVE  Register!Decide(r, DecidedAs(status), AsValue(s))
<1>1. reqs' = [reqs EXCEPT ![r].pc = "reply", ![r].status = status, ![r].answer = s]
  BY DEF AnswerWith
<1>2. \A x \in Req \ {r} : reqs'[x] = reqs[x]
  BY <1>1 DEF TypeOK
<1>3. /\ reqs'[r] \in Request /\ reqs'[r].op = reqs[r].op /\ reqs'[r].pc = "reply"
      /\ reqs'[r].status = status /\ reqs'[r].answer = s
      /\ reqs'[r].pair = reqs[r].pair /\ reqs'[r].sent = reqs[r].sent
      /\ reqs'[r].force = reqs[r].force /\ reqs'[r].payload = reqs[r].payload
  BY <1>1 DEF TypeOK, Pending, Request
<1> DEFINE old == CallOf(reqs[r])
           new == CallOf(reqs'[r])
           value == AsValue(s)
           outcome == DecidedAs(status)
<1>4. OutcomeOf(reqs'[r]) = outcome
  BY <1>3 DEF OutcomeOf, DecidedAs
<1>5. /\ old \in Register!CallRecord /\ new \in Register!CallRecord
      /\ old.state = "invoked" /\ new.state = "answered"
      /\ new.op = old.op /\ new.key = old.key /\ new.expect = old.expect
      /\ new.force = old.force /\ new.value = old.value
      /\ new.outcome = outcome /\ new.seen = value
  BY <1>3, <1>4, CallTyped DEF Pending
<1>6. Calls[r] = old /\ Calls' = [Calls EXCEPT ![r] = new]
  BY <1>2 DEF Calls
<1>7. Calls = [x \in Req |-> Calls[x]]
  BY DEF Calls
<1> HIDE DEF old, new, value, outcome
<1>8. new = [old EXCEPT !.state = "answered", !.outcome = outcome, !.seen = value]
  BY <1>5 DEF Register!CallRecord
<1>9. Calls' = [Calls EXCEPT ![r].state = "answered", ![r].outcome = outcome,
                             ![r].seen = value]
  BY <1>6, <1>7, <1>8
<1> QED BY <1>5, <1>6, <1>9 DEF Register!Decide, Calls, outcome, value

\* A step after which every call is as before.
LEMMA CallsUnchanged ==
  ASSUME \A r \in Req : CallOf(reqs'[r]) = CallOf(reqs[r])
  PROVE  Calls' = Calls
BY DEF Calls

Stutter == UNCHANGED <<Registers, KeptWrites, Calls>>

LEMMA RefuseStep ==
  ASSUME TypeOK, NEW r \in Req, Pending(r),
         NEW status \in Status \ {"ok", "conflict"}, Answer(r, status), SameTables
  PROVE  Register!Refuse(r)
<1>1. Register!Decide(r, DecidedAs(status), AsValue(NoSnapshot))
  BY AnswerDecides, NoSnapshotTyped DEF Answer
<1>2. DecidedAs(status) = "refused"
  BY DEF DecidedAs
<1>3. AsValue(NoSnapshot) = Register!Empty
  BY DEF AsValue, NoSnapshot, Register!Empty
<1>4. Registers' = Registers /\ KeptWrites' = KeptWrites
  BY RegistersUnchanged
<1> QED BY <1>1, <1>2, <1>3, <1>4 DEF Register!Refuse, Registers, KeptWrites

\* A GET reads the register, a 409 carries what it holds.
LEMMA ReadStep ==
  ASSUME TypeOK, NEW r \in Req, Pending(r), HandleGet(r)
  PROVE  Register!Read(r)
<1> DEFINE p == reqs[r].pair
<1>1. p \in Pair /\ Calls[r].key = p /\ Calls[r].op = "read"
  BY CallTyped DEF Pending, Request, HandleGet, At, Calls
<1>2. AnswerWith(r, "ok", Current(p)) /\ SameTables
  BY DEF HandleGet, ReqOnly, storeVars, SameTables
<1>3. Register!Decide(r, DecidedAs("ok"), AsValue(Current(p)))
  <2>1. "ok" \in Status
    BY DEF Status
  <2> QED BY <1>1, <1>2, <2>1, AnswerDecides, CurrentTyped
<1>4. DecidedAs("ok") = "done" /\ AsValue(Current(p)) = Registers[Calls[r].key]
  BY <1>1 DEF DecidedAs, AsValue, Current, Registers
<1>5. Registers' = Registers /\ KeptWrites' = KeptWrites
  BY <1>2, RegistersUnchanged
<1> QED BY <1>1, <1>3, <1>4, <1>5 DEF Register!Read, Registers, KeptWrites, Calls

LEMMA ConflictStep ==
  ASSUME TypeOK, NEW r \in Req, Pending(r), PutConflict(r)
  PROVE  Register!Conflict(r) \/ Register!Refuse(r)
<1> DEFINE p == reqs[r].pair
<1>1. /\ p \in Pair /\ Calls[r].key = p /\ Calls[r].op = "write"
      /\ Calls[r].expect = reqs[r].sent.version /\ Calls[r].force = reqs[r].force
  BY CallTyped DEF Pending, Request, PutConflict, At, Calls
<1>2. SameTables
  BY DEF PutConflict, ReqOnly, storeVars, SameTables
<1>3. CASE configs[p] = Absent
  <2>1. Answer(r, "internal") /\ "internal" \in Status \ {"ok", "conflict"}
    BY <1>3 DEF PutConflict, Status
  <2> QED BY <1>2, <2>1, RefuseStep
<1>4. CASE configs[p] # Absent
  <2>1. AnswerWith(r, "conflict", Current(p)) /\ "conflict" \in Status
    BY <1>4 DEF PutConflict, Status
  <2>2. Register!Decide(r, DecidedAs("conflict"), AsValue(Current(p)))
    BY <1>1, <2>1, AnswerDecides, CurrentTyped
  <2>3. /\ DecidedAs("conflict") = "conflict"
        /\ AsValue(Current(p)) = Registers[Calls[r].key]
        /\ Registers[Calls[r].key].version = configs[p].version
    BY <1>1 DEF DecidedAs, AsValue, Current, Registers
  <2>4. ~Calls[r].force /\ Calls[r].expect # Registers[Calls[r].key].version
    BY <1>1, <2>3 DEF PutConflict, VersionMatches
  <2>5. Registers' = Registers /\ KeptWrites' = KeptWrites
    BY <1>2, RegistersUnchanged
  <2> QED BY <1>1, <2>2, <2>3, <2>4, <2>5
          DEF Register!Conflict, Registers, KeptWrites, Calls
<1> QED BY <1>3, <1>4

\* An accepted PUT is a write: it names the version the register has, or is
\* forced, and the register remembers the newest writes.
LEMMA WriteStep ==
  ASSUME TypeOK, HistoryInv, NEW r \in Req, Pending(r), Writes(r),
         NEW p \in Pair, p = reqs[r].pair
  PROVE  Register!Write(r)
<1> DEFINE new == [version |-> configs[p].version + 1, value |-> reqs[r].payload]
           seen == [version |-> configs[p].version + 1, payload |-> reqs[r].payload,
                    life |-> life[p]]
           rows == HistoryOf(p) \cup {NewRow(r)}
<1>1. /\ Calls[r].key = p /\ Calls[r].op = "write"
      /\ Calls[r].expect = reqs[r].sent.version /\ Calls[r].force = reqs[r].force
      /\ Calls[r].value = reqs[r].payload
  BY CallTyped DEF Pending, Request, Writes, PutCommit, At, Calls
<1>2. Register!Decide(r, DecidedAs("ok"), AsValue(seen))
  <2>1. AnswerWith(r, "ok", seen) /\ "ok" \in Status
    BY DEF Writes, PutCommit, Status
  <2>2. seen \in Snapshot
    BY DEF Snapshot, TypeOK, StoreTypeOK, ConfigRow, Writes
  <2> QED BY <2>1, <2>2, AnswerDecides
<1>3. DecidedAs("ok") = "done" /\ AsValue(seen) = new
  BY DEF DecidedAs, AsValue
<1>4. Registers[p] = AsValue(configs[p]) /\ Registers[p].version = configs[p].version
  BY DEF Registers, AsValue
<1>5. Calls[r].force \/ Calls[r].expect = Registers[p].version
  BY <1>1, <1>4 DEF Writes, PutCommit, VersionMatches
<1>6. /\ configs'[p] = [version |-> configs[p].version + 1, payload |-> reqs[r].payload]
      /\ \A q \in Pair : q # p => configs'[q] = configs[q] /\ HistoryOf(q)' = HistoryOf(q)
  BY WriteEffect
<1>7. Registers' = [Registers EXCEPT ![p] = new]
  <2>1. AsValue(configs'[p]) = new
    BY <1>6 DEF AsValue
  <2>2. \A q \in Pair : q # p => AsValue(configs'[q]) = AsValue(configs[q])
    BY <1>6
  <2> HIDE DEF new
  <2> QED BY <2>1, <2>2 DEF Registers, AsValue
<1>8. {AsValue(h) : h \in HistoryOf(p)'}
        = Register!Newest({AsValue(h) : h \in HistoryOf(p)} \cup {new}, new.version)
  <2>1. HistoryOf(p)' = IF HistoryPerApp > 0
                        THEN {h \in rows : h.version > new.version - HistoryPerApp}
                        ELSE rows
    BY WrittenHistory
  <2>2. AsValue(NewRow(r)) = new
    BY DEF AsValue, NewRow
  <2>3. {AsValue(h) : h \in rows} = {AsValue(h) : h \in HistoryOf(p)} \cup {new}
    BY <2>2
  <2>4. \A h : AsValue(h).version = h.version
    BY DEF AsValue
  <2> HIDE DEF rows, new, AsValue
  <2> QED BY <2>1, <2>3, <2>4 DEF Register!Newest
<1>9. KeptWrites' = [KeptWrites EXCEPT ![p] = Register!Newest(@ \cup {new}, new.version)]
  <2>1. KeptWrites[p] = {AsValue(h) : h \in HistoryOf(p)}
    BY DEF KeptWrites
  <2>2. KeptWrites' = [q \in Pair |-> {AsValue(h) : h \in HistoryOf(q)'}]
    BY DEF KeptWrites
  <2>3. \A q \in Pair : q # p =>
          {AsValue(h) : h \in HistoryOf(q)'} = KeptWrites[q]
    BY <1>6 DEF KeptWrites
  <2> DEFINE n == Register!Newest(KeptWrites[p] \cup {new}, new.version)
  <2>4. {AsValue(h) : h \in HistoryOf(p)'} = n
    BY <1>8, <2>1
  <2>5. KeptWrites = [q \in Pair |-> KeptWrites[q]]
    BY DEF KeptWrites
  <2> HIDE DEF n
  <2>6. KeptWrites' = [KeptWrites EXCEPT ![p] = n]
    BY <2>2, <2>3, <2>4, <2>5
  <2> QED BY <2>6 DEF n
<1>10. new = [version |-> Registers[Calls[r].key].version + 1, value |-> Calls[r].value]
  BY <1>1, <1>4
<1> HIDE DEF new
<1> QED BY <1>1, <1>2, <1>3, <1>5, <1>7, <1>9, <1>10
        DEF Register!Write, Registers, KeptWrites, Calls

\* The steps of a request that no caller sees: CreateAppToken, and what comes
\* before the handler.
LEMMA CallUnmoved ==
  ASSUME NEW r \in Req, Moves(r), reqs'[r].pair = reqs[r].pair,
         \/ reqs[r].op = "token"
         \/ /\ reqs[r].pc # "reply" /\ reqs'[r].pc # "reply"
            /\ reqs'[r].answer = reqs[r].answer
  PROVE  Calls' = Calls
<1>1. CallOf(reqs'[r]) = CallOf(reqs[r])
  <2>1. CASE reqs[r].op = "token"
    BY <2>1 DEF Moves, CallOf
  <2>2. CASE /\ reqs[r].op # "token" /\ reqs[r].pc # "reply" /\ reqs'[r].pc # "reply"
             /\ reqs'[r].answer = reqs[r].answer
    <3> DEFINE old == CallOf(reqs[r])
               new == CallOf(reqs'[r])
    <3>1. OutcomeOf(reqs[r]) = "pending" /\ OutcomeOf(reqs'[r]) = "pending"
      BY <2>2 DEF OutcomeOf
    <3>2. /\ old \in Register!CallRecord /\ new \in Register!CallRecord
          /\ new.state = old.state /\ new.op = old.op /\ new.key = old.key
          /\ new.expect = old.expect /\ new.force = old.force /\ new.value = old.value
          /\ new.outcome = old.outcome /\ new.seen = old.seen
      BY <2>2, <3>1, CallTyped DEF Moves
    <3> HIDE DEF old, new
    <3>3. new = old
      BY <3>2 DEF Register!CallRecord
    <3> QED BY <3>3 DEF old, new
  <2> QED BY <2>1, <2>2
<1>2. \A s \in Req : CallOf(reqs'[s]) = CallOf(reqs[s])
  BY <1>1 DEF Moves
<1> QED BY <1>2, CallsUnchanged

LEMMA ServeStep ==
  ASSUME IInv, HistoryInv, NEW r \in Req, Serve(r) \/ DbError(r)
  PROVE  \/ Register!Read(r) \/ Register!Write(r) \/ Register!Conflict(r)
         \/ Register!Refuse(r) \/ Stutter
<1>0. TypeOK /\ RowsAreLive /\ RequestsCarryTokens
  BY RowsAreLiveEquiv DEF IInv, TypeOK
<1>1. Moves(r) /\ reqs'[r].pair = reqs[r].pair
  BY <1>0, ServeMoves
<1>2. /\ reqs[r].pc \in {"auth", "touch", "handle"} => Pending(r)
      /\ reqs[r].pc \in {"check", "mint"} => reqs[r].op = "token"
  <2>1. reqs[r] # Idle
    BY <1>1 DEF Moves, Request, Idle, Serving
  <2> QED BY <1>0, <1>1, <2>1 DEF RequestsCarryTokens, Moves, Pending
<1>3. ReqOnly => SameTables
  BY DEF ReqOnly, storeVars, SameTables
<1>4. SameTables /\ Calls' = Calls => Stutter
  BY RegistersUnchanged DEF Stutter
<1>5. ASSUME NEW status \in Status \ {"ok", "conflict"}, Answer(r, status), ReqOnly,
             reqs[r].pc \in {"auth", "touch", "handle"}
      PROVE  Register!Refuse(r)
  BY <1>0, <1>2, <1>3, <1>5, RefuseStep
<1>6. ASSUME reqs[r].pc \in {"check", "mint"}, SameTables PROVE Stutter
  BY <1>1, <1>2, <1>4, <1>6, CallUnmoved
<1>7. ASSUME reqs[r].pc \in {"auth", "touch"}, reqs'[r].pc # "reply",
             reqs'[r].answer = reqs[r].answer, SameTables
      PROVE  Stutter
  BY <1>1, <1>4, <1>7, CallUnmoved
<1>8. ASSUME Goto(r, "handle"), reqs[r].pc = "touch", SameTables PROVE Stutter
  <2>1. reqs'[r].pc = "handle" /\ reqs'[r].answer = reqs[r].answer
    BY <1>0, <1>1, <1>8, GotoMoves DEF Moves, Serving
  <2> QED BY <1>7, <1>8, <2>1
<1>9. CASE AuthReject(r)
  BY <1>5, <1>9 DEF AuthReject, Status
<1>10. CASE AuthForbid(r)
  BY <1>5, <1>10 DEF AuthForbid, Status
<1>11. CASE AuthPass(r)
  <2>1. reqs'[r].pc = "touch" /\ reqs'[r].answer = reqs[r].answer
    BY <1>0, <1>1, <1>11 DEF AuthPass, Moves, TypeOK, Request
  <2> QED BY <1>3, <1>7, <1>11, <2>1 DEF AuthPass
<1>12. CASE Touch(r)
  BY <1>8, <1>12 DEF Touch, TouchToken, SameTables
<1>13. CASE HandleGet(r)
  BY <1>0, <1>2, <1>13, ReadStep DEF HandleGet, At
<1>14. CASE PutRejectBody(r)
  BY <1>5, <1>14 DEF PutRejectBody, At, Status
<1>15. CASE PutOverQuota(r)
  BY <1>5, <1>15 DEF PutOverQuota, At, Status
<1>16. CASE PutConflict(r)
  BY <1>0, <1>2, <1>16, ConflictStep DEF PutConflict, At
<1>17. CASE PutForeignKey(r)
  BY <1>5, <1>17 DEF PutForeignKey, At, Status
<1>18. CASE PutCommit(r)
  <2>1. Pending(r) /\ Writes(r)
    <3>1. reqs[r] # Idle /\ reqs[r] \in Request
      BY <1>1 DEF Moves, Request, Idle, Serving
    <3>2. reqs[r].pair \in Pair /\ reqs[r].payload \in Payload
      BY <1>0, <1>18, <3>1 DEF PutCommit, At, Request, TypeOK
    <3> QED BY <1>2, <1>18, <3>1, <3>2 DEF PutCommit, At, Writes
  <2>2. reqs[r].pair \in Pair
    BY <2>1 DEF Writes
  <2> QED BY <1>0, <2>1, <2>2, WriteStep
<1>19. CASE TokenCheckApp(r) \/ TokenRefuse(r)
  BY <1>3, <1>6, <1>19 DEF TokenCheckApp, TokenRefuse
<1>20. CASE TokenCommit(r)
  BY <1>6, <1>20 DEF TokenCommit, ReplaceToken, SameTables
<1>21. CASE DbError(r)
  <2>1. CASE reqs[r].pc = "touch"
    BY <1>3, <1>8, <1>21, <2>1 DEF DbError
  <2>2. CASE reqs[r].pc \in {"auth", "handle"}
    BY <1>5, <1>21, <2>2 DEF DbError, Status
  <2>3. CASE reqs[r].pc \in {"check", "mint"}
    BY <1>3, <1>6, <1>21, <2>3 DEF DbError
  <2> QED BY <1>21, <2>1, <2>2, <2>3 DEF DbError, Serving
<1> QED BY <1>9, <1>10, <1>11, <1>12, <1>13, <1>14, <1>15, <1>16, <1>17, <1>18, <1>19,
           <1>20, <1>21 DEF Serve

\* Sending a GET or a PUT invokes a call.
LEMMA InvokeStep ==
  ASSUME TypeOK, NEW r \in Req, NEW d \in Device, SendGet(r, d) \/ SendPut(r, d)
  PROVE  Register!Invoke(r)
<1>1. PICK op \in {"get", "put"}, h \in Presentable(d),
           payload \in Payload \cup {NoPayload}, force \in BOOLEAN :
        Send(r, d, op, h, payload, force)
  BY DEF SendGet, SendPut
<1> DEFINE q == [pc |-> "auth", op |-> op, pair |-> Owner[d], hash |-> h,
                 sent |-> base[d], payload |-> payload, force |-> force,
                 revoked |-> fate[h].state = "revoked",
                 status |-> "none", answer |-> NoSnapshot]
<1>2. /\ reqs[r] = Idle /\ reqs' = [reqs EXCEPT ![r] = q] /\ SameTables
      /\ h \in Token
  BY <1>1 DEF Send, storeVars, SameTables, Presentable
<1>3. q \in Request /\ q.op # "token" /\ q.pc = "auth" /\ q.answer = NoSnapshot
  <2>1. Owner[d] \in Pair /\ base[d] \in Snapshot
    BY ServerAssumption DEF TypeOK
  <2> QED BY <1>2, <2>1, NoSnapshotTyped DEF Request, Serving, Status
<1> HIDE DEF q
<1>4. Calls[r] = Register!NoCall
  BY <1>2 DEF Calls, CallOf, Register!NoCall
<1>5. Calls' = [Calls EXCEPT ![r] = CallOf(q)]
  BY <1>2 DEF Calls, TypeOK
<1>6. /\ CallOf(q) \in Register!CallRecord /\ CallOf(q).state = "invoked"
      /\ CallOf(q).outcome = "pending" /\ CallOf(q).seen = Register!Empty
  <2>1. OutcomeOf(q) = "pending"
    BY <1>3 DEF OutcomeOf
  <2>2. AsValue(q.answer) = Register!Empty
    BY <1>3 DEF AsValue, NoSnapshot, Register!Empty
  <2> QED BY <1>3, <2>1, <2>2, CallTyped
<1>7. Calls'[r] = CallOf(q)
  BY <1>5 DEF Calls
<1>8. Registers' = Registers /\ KeptWrites' = KeptWrites
  BY <1>2, RegistersUnchanged
<1> HIDE DEF CallOf
<1> QED BY <1>4, <1>5, <1>6, <1>7, <1>8
        DEF Register!Invoke, Registers, KeptWrites, Calls

\* The requests rs are over.
LEMMA ReturnStep ==
  ASSUME NEW rs \in SUBSET Req, SameTables,
         reqs' = [s \in Req |-> IF s \in rs THEN Idle ELSE reqs[s]]
  PROVE  Register!Return(rs)
<1>1. Calls' = [s \in Req |-> IF s \in rs THEN Register!NoCall ELSE Calls[s]]
  BY DEF Calls, CallOf, Register!NoCall
<1>2. Registers' = Registers /\ KeptWrites' = KeptWrites
  BY RegistersUnchanged
<1> QED BY <1>1, <1>2 DEF Register!Return, Registers, KeptWrites, Calls

\* Deleting the rows of some pairs empties their registers.
LEMMA EmptyStep ==
  ASSUME NEW ps \in SUBSET Pair, DeleteRows(ps), reqs' = reqs
  PROVE  Register!EmptyUnit(ps)
<1>1. Registers' = [p \in Pair |-> IF p \in ps THEN Register!Empty ELSE Registers[p]]
  <2>1. AsValue(Absent) = Register!Empty
    BY DEF AsValue, Absent, Register!Empty
  <2> QED BY <2>1 DEF DeleteRows, Registers
<1>2. \A p \in Pair : HistoryOf(p)' = IF p \in ps THEN {} ELSE HistoryOf(p)
  BY DEF DeleteRows, HistoryOf
<1>3. KeptWrites' = [p \in Pair |-> IF p \in ps THEN {} ELSE KeptWrites[p]]
  BY <1>2 DEF KeptWrites
<1>4. Calls' = Calls
  BY DEF Calls
<1> QED BY <1>1, <1>3, <1>4 DEF Register!EmptyUnit, Registers, KeptWrites, Calls

LEMMA EnvStep ==
  ASSUME IInv, HistoryInv, EnvNext
  PROVE  Register!RegisterNext \/ Stutter
<1>0. TypeOK /\ reqs \in [Req -> Request \cup {Idle}]
  BY DEF IInv, TypeOK
<1>1. SameTables /\ Calls' = Calls => Stutter
  BY RegistersUnchanged DEF Stutter
<1>2. ASSUME NEW r \in Req, Cancel(r) \/ Deliver(r)
      PROVE  Register!RegisterNext
  <2>1. SameTables /\ reqs' = [reqs EXCEPT ![r] = Idle]
    BY <1>2 DEF Cancel, Deliver, storeVars, SameTables
  <2>2. reqs' = [s \in Req |-> IF s \in {r} THEN Idle ELSE reqs[s]]
    BY <1>0, <2>1
  <2>3. Register!Return({r})
    BY <2>1, <2>2, ReturnStep
  <2> QED BY <2>3 DEF Register!RegisterNext
<1>3. ASSUME Crash PROVE Register!RegisterNext
  <2>1. SameTables /\ reqs' = [r \in Req |-> Idle]
    BY <1>3 DEF Crash, storeVars, SameTables
  <2>2. reqs' = [s \in Req |-> IF s \in Req THEN Idle ELSE reqs[s]]
    BY <2>1
  <2>3. Register!Return(Req)
    BY <2>1, <2>2, ReturnStep
  <2> QED BY <2>3 DEF Register!RegisterNext
<1>4. ASSUME NEW r \in Req, NEW d \in Device, SendGet(r, d) \/ SendPut(r, d)
      PROVE  Register!RegisterNext
  BY <1>0, <1>4, InvokeStep DEF Register!RegisterNext
<1>5. ASSUME NEW r \in Req, NEW p \in Pair, SendCreateToken(r, p) PROVE Stutter
  <2> DEFINE q == [pc |-> "check", op |-> "token", pair |-> p, hash |-> NoToken,
                   sent |-> NoSnapshot, payload |-> NoPayload, force |-> FALSE,
                   revoked |-> FALSE, status |-> "none", answer |-> NoSnapshot]
  <2>1. reqs[r] = Idle /\ reqs' = [reqs EXCEPT ![r] = q] /\ SameTables
    BY <1>5 DEF SendCreateToken, storeVars, SameTables
  <2>2. q.op = "token"
    OBVIOUS
  <2> HIDE DEF q
  <2>3. CallOf(q) = CallOf(Idle)
    BY <2>2 DEF CallOf
  <2>4. \A s \in Req : CallOf(reqs'[s]) = CallOf(reqs[s])
    BY <1>0, <2>1, <2>3
  <2> QED BY <1>1, <2>1, <2>4, CallsUnchanged
<1>6. ASSUME (\E d \in Device : GiveUp(d)) \/ Tick PROVE Stutter
  BY <1>1, <1>6 DEF GiveUp, Tick, storeVars, SameTables, Calls
<1>7. ASSUME NEW r \in Req, DbError(r)
      PROVE  Register!RegisterNext \/ Stutter
  BY <1>7, ServeStep DEF Register!RegisterNext
<1> QED BY <1>2, <1>3, <1>4, <1>5, <1>6, <1>7 DEF EnvNext

LEMMA AdminStep ==
  ASSUME AdminNext
  PROVE  Register!RegisterNext \/ Stutter
<1>1. SameTables /\ reqs' = reqs => Stutter
  BY RegistersUnchanged DEF Stutter, Calls
<1>2. ASSUME NEW u \in User, NEW prefix, DeleteAppToken(u, prefix) PROVE Stutter
  BY <1>1, <1>2 DEF DeleteAppToken, DeleteTokens, Deletion, SameTables
<1>3. ASSUME NEW p \in Pair, DeleteAppData(p) PROVE Register!RegisterNext
  <2>1. Register!EmptyUnit({p})
    BY <1>3, EmptyStep DEF DeleteAppData, WipePair, Deletion
  <2> QED BY <2>1 DEF Register!RegisterNext
<1>4. ASSUME NEW a \in App, AdminDeleteApp(a) PROVE Register!RegisterNext
  <2>1. User \X {a} \in SUBSET Pair
    BY DEF Pair
  <2>2. Register!EmptyUnit(User \X {a})
    BY <1>4, <2>1, EmptyStep DEF AdminDeleteApp, DeleteApp, Deletion
  <2> QED BY <2>2 DEF Register!RegisterNext
<1>5. ASSUME NEW a \in App, AdminCreateApp(a) PROVE Stutter
  BY <1>1, <1>5 DEF AdminCreateApp, InsertApp, serverVars, SameTables
<1> QED BY <1>2, <1>3, <1>4, <1>5 DEF AdminNext

LEMMA RegisterStep ==
  ASSUME IInv, HistoryInv, [Next]_vars
  PROVE  Register!RegisterNext \/ Stutter
<1>1. ASSUME NEW r \in Req, Serve(r) PROVE Register!RegisterNext \/ Stutter
  BY <1>1, ServeStep DEF Register!RegisterNext
<1>2. UNCHANGED vars => Stutter
  BY RegistersUnchanged DEF vars, storeVars, serverVars, SameTables, Stutter, Calls
<1> QED BY <1>1, <1>2, EnvStep, AdminStep, NextCases

LEMMA InitRegisters ==
  ASSUME Init
  PROVE  Register!RegisterInit
<1>1. Registers = [p \in Pair |-> Register!Empty]
  BY DEF Init, StoreInit, Registers, AsValue, Absent, Register!Empty
<1>2. KeptWrites = [p \in Pair |-> {}]
  BY DEF Init, StoreInit, KeptWrites, HistoryOf
<1>3. Calls = [r \in Req |-> Register!NoCall]
  BY DEF Init, Calls, CallOf, Register!NoCall
<1> QED BY <1>1, <1>2, <1>3 DEF Register!RegisterInit, Registers, KeptWrites, Calls

\* The service implements the register: each GET and each PUT takes effect at
\* one instant between its invocation and its answer, the same for all
\* devices, or not at all; and the register remembers the newest writes, if
\* the clock is not set back.
THEOREM ServiceImplementsRegister ==
  "clockback" \notin Events => (Spec => ImplementsRegister)
<1> SUFFICES ASSUME "clockback" \notin Events PROVE Spec => ImplementsRegister
  OBVIOUS
<1>1. IInv /\ HistoryInv /\ [Next]_vars =>
        [Register!RegisterNext]_(Register!registerVars)
  <2>1. Stutter => UNCHANGED Register!registerVars
    BY DEF Stutter, Register!registerVars, Registers, KeptWrites, Calls
  <2> QED BY <2>1, RegisterStep
<1>2. Spec => []IInv /\ []HistoryInv
  BY InvariantHolds, HistoryInvariant
<1> QED BY <1>1, <1>2, InitRegisters, PTL
        DEF Spec, ImplementsRegister, Register!RegisterSpec

(***************************************************************************)
(* Sums over finite sets.  Inductions are stated over the set P of the     *)
(* values for which a fact holds.                                          *)
(***************************************************************************)

LEMMA SubsetInduction ==
  ASSUME NEW S, IsFiniteSet(S), NEW P \in SUBSET (SUBSET S),
         \A T \in SUBSET S : (\A U \in SUBSET T : U # T => U \in P) => T \in P
  PROVE  P = SUBSET S
<1> SUFFICES ASSUME P # SUBSET S PROVE FALSE
  OBVIOUS
<1> DEFINE bad == (SUBSET S) \ P
<1>1. IsWellFoundedOn(StrictSubsetOrdering(S), SUBSET S)
  <2>1. FiniteSubsetsOf(S) = SUBSET S
    BY FS_FiniteSubsetsOfFinite
  <2>2. IsWellFoundedOn(StrictSubsetOrdering(S), FiniteSubsetsOf(S))
    BY FS_StrictSubsetOrderingWellFounded
  <2> QED BY <2>1, <2>2
<1>2. bad \subseteq SUBSET S /\ bad # {}
  OBVIOUS
<1> HIDE DEF bad
<1>3. PICK T \in bad : \A U \in bad : ~(<<U, T>> \in StrictSubsetOrdering(S))
  BY <1>1, <1>2, WFMin
<1>4. \A U \in SUBSET T : U # T => U \in P
  BY <1>2, <1>3 DEF bad, StrictSubsetOrdering
<1> QED BY <1>2, <1>3, <1>4 DEF bad

LEMMA NatInductionOnSet ==
  ASSUME NEW P \in SUBSET Nat, 0 \in P, \A n \in P : n + 1 \in P
  PROVE  P = Nat
<1> SUFFICES ASSUME P # Nat PROVE FALSE
  OBVIOUS
<1> DEFINE bad == Nat \ P
           Above == {p \in Nat \X Nat : p[1] < p[2]}
<1>1. IsWellFoundedOn(Above, Nat)
  BY NatLessThanWellFounded DEF OpToRel
<1>2. bad \subseteq Nat /\ bad # {}
  OBVIOUS
<1>3. \A i, j \in Nat : <<j, i>> \in Above <=> j < i
  OBVIOUS
<1> HIDE DEF bad, Above
<1>4. PICK n \in bad : \A m \in bad : ~(<<m, n>> \in Above)
  BY <1>1, <1>2, WFMin
<1>5. n \in Nat /\ n # 0 /\ n \notin P
  BY <1>4 DEF bad
<1>6. n - 1 \in Nat /\ n - 1 < n /\ n = (n - 1) + 1
  BY <1>5
<1>7. n - 1 \in P
  BY <1>3, <1>4, <1>5, <1>6 DEF bad
<1> QED BY <1>5, <1>6, <1>7

\* The fold of the community modules takes the elements in the order of
\* Chosen; the sum does not depend on it.
Chosen(s) == CHOOSE x \in s : TRUE
Unfolds(g, f, s) ==
  g[s] = IF s = {} THEN 0 ELSE f[Chosen(s)] + g[s \ {Chosen(s)}]

LEMMA ChosenIn == ASSUME NEW s, s # {} PROVE Chosen(s) \in s
BY DEF Chosen

LEMMA FoldExists ==
  ASSUME NEW S, IsFiniteSet(S), NEW f
  PROVE  \E g : \A s \in SUBSET S : Unfolds(g, f, s)
<1> DEFINE Upto(g, n) == \A s \in SUBSET S : Cardinality(s) <= n => Unfolds(g, f, s)
           P == {n \in Nat : \E g : Upto(g, n)}
<1>1. \A s \in SUBSET S : IsFiniteSet(s) /\ Cardinality(s) \in Nat
  BY FS_Subset, FS_CardinalityType
<1>2. 0 \in P
  <2> DEFINE g == [s \in SUBSET S |-> 0]
  <2>1. ASSUME NEW s \in SUBSET S, Cardinality(s) <= 0 PROVE Unfolds(g, f, s)
    <3>1. s = {}
      BY <1>1, <2>1, FS_EmptySet
    <3> QED BY <3>1 DEF Unfolds
  <2>2. Upto(g, 0)
    BY <2>1
  <2> QED BY <2>2
<1>3. ASSUME NEW n \in P PROVE n + 1 \in P
  <2>1. n \in Nat /\ \E g : Upto(g, n)
    OBVIOUS
  <2>2. PICK g : Upto(g, n)
    BY <2>1
  <2> DEFINE h == [s \in SUBSET S |-> IF s = {} THEN 0
                                      ELSE f[Chosen(s)] + g[s \ {Chosen(s)}]]
  <2>3. ASSUME NEW s \in SUBSET S, Cardinality(s) <= n + 1 PROVE Unfolds(h, f, s)
    <3>1. CASE s = {}
      BY <3>1 DEF Unfolds
    <3>2. CASE s # {}
      <4> DEFINE t == s \ {Chosen(s)}
      <4>1. Chosen(s) \in s /\ t \in SUBSET S
        BY <3>2, ChosenIn
      <4>2. Cardinality(t) = Cardinality(s) - 1
        BY <1>1, <4>1, FS_RemoveElement
      <4>3. Cardinality(t) <= n
        BY <1>1, <2>1, <2>3, <4>2
      <4>4. Unfolds(g, f, t)
        BY <2>2, <4>1, <4>3
      <4>5. h[s] = f[Chosen(s)] + g[t]
        BY <3>2
      <4>6. h[t] = IF t = {} THEN 0 ELSE f[Chosen(t)] + g[t \ {Chosen(t)}]
        BY <4>1
      <4> HIDE DEF h, t
      <4>7. h[t] = g[t]
        BY <4>4, <4>6 DEF Unfolds
      <4> QED BY <3>2, <4>5, <4>7 DEF Unfolds, t
    <3> QED BY <3>1, <3>2
  <2>4. Upto(h, n + 1)
    BY <2>3
  <2> HIDE DEF h
  <2> QED BY <2>1, <2>4
<1> HIDE DEF P
<1>4. P = Nat
  <2>1. P \in SUBSET Nat
    BY DEF P
  <2> QED BY <1>2, <1>3, <2>1, NatInductionOnSet
<1>5. Cardinality(S) \in P
  BY <1>1, <1>4
<1>6. PICK g : Upto(g, Cardinality(S))
  BY <1>5 DEF P
<1>7. \A s \in SUBSET S : Cardinality(s) <= Cardinality(S)
  BY FS_Subset
<1> QED BY <1>6, <1>7

LEMMA SumUnfolds ==
  ASSUME NEW S, IsFiniteSet(S), NEW f
  PROVE  \E g : /\ SumFunctionOnSet(f, S) = g[S]
                /\ \A s \in SUBSET S : Unfolds(g, f, s)
<1> DEFINE body(g) == [s \in SUBSET S |-> IF s = {} THEN 0
                                          ELSE f[Chosen(s)] + g[s \ {Chosen(s)}]]
           iter == CHOOSE g : g = body(g)
<1>1. SumFunctionOnSet(f, S) = iter[S]
  BY DEF SumFunctionOnSet, FoldFunctionOnSet, MapThenFoldSet, Chosen
<1>2. PICK g : \A s \in SUBSET S : Unfolds(g, f, s)
  BY FoldExists
<1> DEFINE h == [s \in SUBSET S |-> g[s]]
<1>3. h = body(h)
  <2>1. ASSUME NEW s \in SUBSET S
        PROVE  h[s] = IF s = {} THEN 0 ELSE f[Chosen(s)] + h[s \ {Chosen(s)}]
    BY <1>2 DEF Unfolds
  <2> QED BY <2>1
<1> HIDE DEF h
<1>4. iter = body(iter)
  BY <1>3
<1> HIDE DEF iter
<1>5. \A s \in SUBSET S : Unfolds(iter, f, s)
  <2> SUFFICES ASSUME NEW s \in SUBSET S PROVE Unfolds(iter, f, s)
    OBVIOUS
  <2>1. body(iter)[s] = IF s = {} THEN 0 ELSE f[Chosen(s)] + iter[s \ {Chosen(s)}]
    OBVIOUS
  <2> HIDE DEF body
  <2>2. iter[s] = body(iter)[s]
    BY <1>4
  <2> QED BY <2>1, <2>2 DEF Unfolds
<1> QED BY <1>1, <1>5

LEMMA FoldTyped ==
  ASSUME NEW S, IsFiniteSet(S), NEW f, \A x \in S : f[x] \in Nat,
         NEW g, \A s \in SUBSET S : Unfolds(g, f, s)
  PROVE  \A s \in SUBSET S : g[s] \in Nat
<1> DEFINE P == {s \in SUBSET S : g[s] \in Nat}
<1>1. ASSUME NEW T \in SUBSET S, \A U \in SUBSET T : U # T => U \in P
      PROVE  g[T] \in Nat
  <2>0. g[T] = IF T = {} THEN 0 ELSE f[Chosen(T)] + g[T \ {Chosen(T)}]
    BY DEF Unfolds
  <2>1. CASE T = {}
    BY <2>0, <2>1
  <2>2. CASE T # {}
    <3>1. Chosen(T) \in T /\ T \ {Chosen(T)} \in P
      BY <1>1, <2>2, ChosenIn
    <3> QED BY <2>0, <2>2, <3>1
  <2> QED BY <2>1, <2>2
<1>2. P \in SUBSET (SUBSET S) /\ \A T \in SUBSET S : T \in P <=> g[T] \in Nat
  OBVIOUS
<1> HIDE DEF P
<1>3. P = SUBSET S
  BY <1>1, <1>2, SubsetInduction
<1> QED BY <1>2, <1>3

\* Any element may be taken first.
LEMMA FoldRemoves ==
  ASSUME NEW S, IsFiniteSet(S), NEW f, \A x \in S : f[x] \in Nat,
         NEW g, \A s \in SUBSET S : Unfolds(g, f, s)
  PROVE  \A s \in SUBSET S : \A x \in s : g[s] = f[x] + g[s \ {x}]
<1> DEFINE P == {s \in SUBSET S : \A x \in s : g[s] = f[x] + g[s \ {x}]}
<1>0. \A s \in SUBSET S : g[s] \in Nat
  BY FoldTyped
<1>1. ASSUME NEW T \in SUBSET S, \A U \in SUBSET T : U # T => U \in P, NEW x \in T
      PROVE  g[T] = f[x] + g[T \ {x}]
  <2> DEFINE c == Chosen(T)
  <2>1. c \in T /\ g[T] = f[c] + g[T \ {c}]
    BY ChosenIn DEF Unfolds
  <2>2. CASE x = c
    BY <2>1, <2>2
  <2>3. CASE x # c
    <3>1. T \ {c} \in P /\ x \in T \ {c}
      BY <1>1, <2>1, <2>3
    <3>2. T \ {x} \in P /\ c \in T \ {x}
      BY <1>1, <2>1, <2>3
    <3> DEFINE rest == g[(T \ {x}) \ {c}]
    <3>3. (T \ {c}) \ {x} = (T \ {x}) \ {c}
      OBVIOUS
    <3>4. g[T \ {c}] = f[x] + rest
      BY <3>1, <3>3
    <3>5. g[T \ {x}] = f[c] + rest
      BY <3>2
    <3>6. rest \in Nat /\ f[x] \in Nat /\ f[c] \in Nat
      BY <1>0, <2>1
    <3>7. g[T] = f[c] + (f[x] + rest)
      BY <2>1, <3>4
    <3> HIDE DEF c, rest
    <3> QED BY <3>5, <3>6, <3>7
  <2> QED BY <2>2, <2>3
<1>2. /\ P \in SUBSET (SUBSET S)
      /\ \A T \in SUBSET S : T \in P <=> \A x \in T : g[T] = f[x] + g[T \ {x}]
  OBVIOUS
<1>3. \A T \in SUBSET S : (\A U \in SUBSET T : U # T => U \in P) => T \in P
  BY <1>1, <1>2
<1> HIDE DEF P
<1>4. P = SUBSET S
  BY <1>2, <1>3, SubsetInduction
<1> QED BY <1>2, <1>4

LEMMA FoldUnique ==
  ASSUME NEW S, IsFiniteSet(S), NEW f, NEW e, \A x \in S : f[x] = e[x],
         NEW g, \A s \in SUBSET S : Unfolds(g, f, s),
         NEW h, \A s \in SUBSET S : Unfolds(h, e, s)
  PROVE  \A s \in SUBSET S : g[s] = h[s]
<1> DEFINE P == {s \in SUBSET S : g[s] = h[s]}
<1>1. ASSUME NEW T \in SUBSET S, \A U \in SUBSET T : U # T => U \in P
      PROVE  g[T] = h[T]
  <2>1. CASE T = {}
    BY <2>1 DEF Unfolds
  <2>2. CASE T # {}
    <3>1. Chosen(T) \in T /\ T \ {Chosen(T)} \in P
      BY <1>1, <2>2, ChosenIn
    <3>2. /\ g[T] = f[Chosen(T)] + g[T \ {Chosen(T)}]
          /\ h[T] = e[Chosen(T)] + h[T \ {Chosen(T)}]
      BY <2>2 DEF Unfolds
    <3> QED BY <3>1, <3>2
  <2> QED BY <2>1, <2>2
<1>2. P \in SUBSET (SUBSET S) /\ \A T \in SUBSET S : T \in P <=> g[T] = h[T]
  OBVIOUS
<1> HIDE DEF P
<1>3. P = SUBSET S
  BY <1>1, <1>2, SubsetInduction
<1> QED BY <1>2, <1>3

\* The sum of no values is zero; one value can be taken out of a sum; and a
\* sum depends on the values it sums only.
LEMMA SumOfNone ==
  ASSUME NEW f
  PROVE  SumFunctionOnSet(f, {}) = 0
<1>1. IsFiniteSet({})
  BY FS_EmptySet
<1>2. PICK g : SumFunctionOnSet(f, {}) = g[{}] /\ \A s \in SUBSET {} : Unfolds(g, f, s)
  BY <1>1, SumUnfolds
<1> QED BY <1>2 DEF Unfolds

LEMMA SumRemoves ==
  ASSUME NEW S, IsFiniteSet(S), NEW f, \A x \in S : f[x] \in Nat
  PROVE  /\ SumFunctionOnSet(f, S) \in Nat
         /\ \A x \in S : SumFunctionOnSet(f, S) = f[x] + SumFunctionOnSet(f, S \ {x})
<1>1. PICK g : SumFunctionOnSet(f, S) = g[S] /\ \A s \in SUBSET S : Unfolds(g, f, s)
  BY SumUnfolds
<1>2. g[S] \in Nat /\ \A x \in S : g[S] = f[x] + g[S \ {x}]
  <2>1. S \in SUBSET S
    OBVIOUS
  <2> QED BY <1>1, <2>1, FoldTyped, FoldRemoves
<1>3. ASSUME NEW x \in S PROVE SumFunctionOnSet(f, S \ {x}) = g[S \ {x}]
  <2> DEFINE T == S \ {x}
  <2>1. T \in SUBSET S /\ T \in SUBSET T /\ IsFiniteSet(T)
    BY FS_Subset
  <2> HIDE DEF T
  <2>2. PICK h : SumFunctionOnSet(f, T) = h[T] /\ \A s \in SUBSET T : Unfolds(h, f, s)
    BY <2>1, SumUnfolds
  <2>3. \A s \in SUBSET T : Unfolds(g, f, s)
    BY <1>1, <2>1
  <2>4. g[T] = h[T]
    BY <2>1, <2>2, <2>3, FoldUnique
  <2> QED BY <2>2, <2>4 DEF T
<1> QED BY <1>1, <1>2, <1>3

LEMMA SumAgrees ==
  ASSUME NEW S, IsFiniteSet(S), NEW f, NEW e, \A x \in S : f[x] = e[x]
  PROVE  SumFunctionOnSet(f, S) = SumFunctionOnSet(e, S)
<1>1. PICK g : SumFunctionOnSet(f, S) = g[S] /\ \A s \in SUBSET S : Unfolds(g, f, s)
  BY SumUnfolds
<1>2. PICK h : SumFunctionOnSet(e, S) = h[S] /\ \A s \in SUBSET S : Unfolds(h, e, s)
  BY SumUnfolds
<1>3. \A s \in SUBSET S : g[s] = h[s]
  BY <1>1, <1>2, FoldUnique
<1> QED BY <1>1, <1>2, <1>3

(***************************************************************************)
(* The storage limit, where a character is a byte.                         *)
(***************************************************************************)
Sizes(u) == [a \in App |-> Bytes[configs[<<u, a>>].payload]]
FewRows == \A u \in User : IsFiniteSet(RowsOf(u))
WithinLimit(n) == n = 0 \/ n <= UserStorageLimit

LEMMA SizesTyped ==
  ASSUME TypeOK, NEW u \in User
  PROVE  /\ \A a \in App : /\ Sizes(u)[a] = Bytes[configs[<<u, a>>].payload]
                           /\ Sizes(u)[a] \in Nat
         /\ StoredBytes(u) = SumFunctionOnSet(Sizes(u), RowsOf(u))
         /\ IsFiniteSet(RowsOf(u)) => StoredBytes(u) \in Nat
<1>1. ASSUME NEW a \in App PROVE Bytes[configs[<<u, a>>].payload] \in Nat
  <2>1. <<u, a>> \in Pair
    BY DEF Pair
  <2>2. configs[<<u, a>>].payload \in Payload \cup {NoPayload}
    BY <2>1 DEF TypeOK, StoreTypeOK, ConfigRow
  <2> QED BY <2>2, StoreAssumption
<1>2. \A a \in App : /\ Sizes(u)[a] = Bytes[configs[<<u, a>>].payload]
                     /\ Sizes(u)[a] \in Nat
  BY <1>1 DEF Sizes
<1>3. StoredBytes(u) = SumFunctionOnSet(Sizes(u), RowsOf(u))
  BY DEF StoredBytes, Sizes
<1>4. \A a \in RowsOf(u) : Sizes(u)[a] \in Nat
  BY <1>2 DEF RowsOf
<1> QED BY <1>2, <1>3, <1>4, SumRemoves

\* The user's rows stay, or one of them is deleted.
LEMMA StorageKept ==
  ASSUME NEW u \in User, \A a \in App : configs'[<<u, a>>] = configs[<<u, a>>]
  PROVE  RowsOf(u)' = RowsOf(u) /\ StoredBytes(u)' = StoredBytes(u)
<1>1. RowsOf(u)' = RowsOf(u)
  BY DEF RowsOf
<1>2. Sizes(u)' = Sizes(u)
  BY DEF Sizes
<1> QED BY <1>1, <1>2 DEF StoredBytes, Sizes

LEMMA StorageDeleted ==
  ASSUME TypeOK, NEW u \in User, IsFiniteSet(RowsOf(u)), NEW a \in App,
         configs'[<<u, a>>] = Absent,
         \A b \in App \ {a} : configs'[<<u, b>>] = configs[<<u, b>>]
  PROVE  /\ IsFiniteSet(RowsOf(u)')
         /\ StoredBytes(u)' \in Nat /\ StoredBytes(u)' <= StoredBytes(u)
<1> DEFINE S == RowsOf(u)
           T == S \ {a}
           f == Sizes(u)
           e == Sizes(u)'
<1>1. RowsOf(u)' = T
  BY DEF RowsOf
<1>2. \A b \in T : e[b] = f[b]
  BY DEF Sizes, RowsOf
<1>3. IsFiniteSet(T)
  BY FS_Subset
<1>4. \A b \in S : f[b] \in Nat
  BY SizesTyped DEF RowsOf
<1>5. /\ StoredBytes(u) = SumFunctionOnSet(f, S)
      /\ StoredBytes(u)' = SumFunctionOnSet(e, T)
  BY <1>1 DEF StoredBytes, Sizes
<1> HIDE DEF S, f, e
<1>6. SumFunctionOnSet(e, T) = SumFunctionOnSet(f, T)
  BY <1>2, <1>3, SumAgrees
<1>7. SumFunctionOnSet(f, T) \in Nat /\ SumFunctionOnSet(f, S) \in Nat
  BY <1>3, <1>4, SumRemoves DEF S
<1>8. SumFunctionOnSet(f, T) <= SumFunctionOnSet(f, S)
  <2>1. CASE a \in S
    <3>1. SumFunctionOnSet(f, S) = f[a] + SumFunctionOnSet(f, T) /\ f[a] \in Nat
      BY <1>4, <2>1, SumRemoves DEF S
    <3> HIDE DEF T
    <3> QED BY <1>7, <3>1
  <2>2. CASE a \notin S
    <3>1. T = S
      BY <2>2
    <3> HIDE DEF T
    <3> QED BY <1>7, <3>1
  <2> QED BY <2>1, <2>2
<1> QED BY <1>1, <1>3, <1>5, <1>6, <1>7, <1>8

\* The sum PutConfig compares with the limit is the sum after the write.
LEMMA StorageWritten ==
  ASSUME Bytes = Chars, TypeOK, NEW p \in Pair, IsFiniteSet(RowsOf(p[1])),
         NEW payload \in Payload,
         configs'[p] = [version |-> configs[p].version + 1, payload |-> payload],
         \A q \in Pair \ {p} : configs'[q] = configs[q]
  PROVE  /\ IsFiniteSet(RowsOf(p[1])')
         /\ StoredBytes(p[1])' = TotalAfter(p, payload)
<1>1. PICK u \in User, a \in App : p = <<u, a>>
  BY DEF Pair
<1> DEFINE S == RowsOf(u)
           f == Sizes(u)
           e == Sizes(u)'
<1>2. p[1] = u
  BY <1>1
<1>3. RowsOf(u)' = S \cup {a}
  <2>1. configs'[<<u, a>>] # Absent
    <3>1. configs[p].version \in Nat
      BY DEF TypeOK, StoreTypeOK, ConfigRow
    <3> QED BY <1>1, <3>1 DEF Absent
  <2>2. \A b \in App \ {a} : configs'[<<u, b>>] = configs[<<u, b>>]
    BY <1>1 DEF Pair
  <2> QED BY <2>1, <2>2 DEF RowsOf
<1>4. /\ \A b \in S \ {a} : e[b] = f[b]
      /\ \A b \in S \cup {a} : e[b] \in Nat /\ f[b] \in Nat
      /\ e[a] = Bytes[payload] /\ f[a] = Bytes[configs[p].payload]
  <2>1. \A b \in App \ {a} : e[b] = f[b]
    BY <1>1 DEF Sizes, Pair
  <2>2. e[a] = Bytes[payload] /\ f[a] = Bytes[configs[p].payload]
    BY <1>1 DEF Sizes
  <2>3. \A b \in App : f[b] \in Nat
    BY SizesTyped
  <2>4. Bytes[payload] \in Nat
    BY StoreAssumption
  <2> QED BY <2>1, <2>2, <2>3, <2>4 DEF RowsOf
<1>5. IsFiniteSet(S)
  BY <1>2
<1>6. IsFiniteSet(S \cup {a}) /\ IsFiniteSet(S \ {a}) /\ (S \cup {a}) \ {a} = S \ {a}
  BY <1>5, FS_AddElement, FS_RemoveElement
<1>7. StoredBytes(u)' = SumFunctionOnSet(e, S \cup {a})
  BY <1>3 DEF StoredBytes, Sizes
<1>8. TotalAfter(p, payload) = SumFunctionOnSet(f, S) - f[a] + e[a]
  <2>1. StoredChars(u) = SumFunctionOnSet(f, S)
    BY DEF StoredChars, Sizes
  <2> QED BY <1>2, <1>4, <2>1 DEF TotalAfter
<1>9. a \notin S => f[a] = 0
  <2>1. a \notin S => configs[p] = Absent
    BY <1>1 DEF RowsOf
  <2> QED BY <1>4, <2>1, StoreAssumption DEF Absent
<1> HIDE DEF S, f, e
<1> DEFINE rest == SumFunctionOnSet(f, S \ {a})
<1>10. SumFunctionOnSet(e, S \cup {a}) = e[a] + rest
  <2>1. \A b \in S \cup {a} : e[b] \in Nat
    BY <1>4
  <2> DEFINE T == S \cup {a}
  <2>2. SumFunctionOnSet(e, T) = e[a] + SumFunctionOnSet(e, T \ {a})
    <3>1. IsFiniteSet(T) /\ a \in T /\ \A b \in T : e[b] \in Nat
      BY <1>6, <2>1
    <3> HIDE DEF T
    <3> QED BY <3>1, SumRemoves
  <2>3. SumFunctionOnSet(e, S \ {a}) = rest
    BY <1>4, <1>6, SumAgrees
  <2> QED BY <1>6, <2>2, <2>3
<1>11. SumFunctionOnSet(f, S) = f[a] + rest
  <2>0. \A b \in S : f[b] \in Nat
    BY <1>4
  <2>1. CASE a \in S
    BY <1>5, <2>0, <2>1, SumRemoves
  <2>2. CASE a \notin S
    <3>1. S \ {a} = S /\ f[a] = 0
      BY <1>9, <2>2
    <3>2. SumFunctionOnSet(f, S) \in Nat
      BY <1>5, <2>0, SumRemoves
    <3> QED BY <3>1, <3>2
  <2> QED BY <2>1, <2>2
<1>12. rest \in Nat /\ e[a] \in Nat /\ f[a] \in Nat
  <2>1. \A b \in S \ {a} : f[b] \in Nat
    BY <1>4
  <2> QED BY <1>4, <1>6, <2>1, SumRemoves
<1> HIDE DEF rest
<1>13. StoredBytes(u)' = TotalAfter(p, payload)
  BY <1>7, <1>8, <1>10, <1>11, <1>12
<1>14. IsFiniteSet(RowsOf(u)')
  BY <1>3, <1>6 DEF S
<1> QED BY <1>2, <1>13, <1>14

StorageInv == FewRows /\ \A u \in User : WithinLimit(StoredBytes(u))

LEMMA DeletionKeepsLimit ==
  ASSUME TypeOK, StorageInv, NEW ps \in SUBSET Pair, DeleteRows(ps),
         \A u \in User : \E a \in App : \A b \in App : <<u, b>> \in ps => b = a
  PROVE  StorageInv'
<1> SUFFICES ASSUME NEW u \in User
             PROVE  IsFiniteSet(RowsOf(u)') /\ WithinLimit(StoredBytes(u)')
  BY DEF StorageInv, FewRows, WithinLimit
<1>1. IsFiniteSet(RowsOf(u)) /\ WithinLimit(StoredBytes(u))
  BY DEF StorageInv, FewRows
<1>2. \A q \in Pair : configs'[q] = IF q \in ps THEN Absent ELSE configs[q]
  BY DEF DeleteRows
<1>3. \A b \in App : <<u, b>> \in Pair
  BY DEF Pair
<1>4. CASE \A b \in App : <<u, b>> \notin ps
  <2>1. \A b \in App : configs'[<<u, b>>] = configs[<<u, b>>]
    BY <1>2, <1>3, <1>4
  <2> QED BY <1>1, <2>1, StorageKept
<1>5. CASE \E a \in App : <<u, a>> \in ps
  <2>1. PICK a \in App : <<u, a>> \in ps
    BY <1>5
  <2>2. \A b \in App \ {a} : <<u, b>> \notin ps
    BY <2>1
  <2>3. /\ configs'[<<u, a>>] = Absent
        /\ \A b \in App \ {a} : configs'[<<u, b>>] = configs[<<u, b>>]
    BY <1>2, <1>3, <2>1, <2>2
  <2>4. /\ IsFiniteSet(RowsOf(u)')
        /\ StoredBytes(u)' \in Nat /\ StoredBytes(u)' <= StoredBytes(u)
    BY <1>1, <2>3, StorageDeleted
  <2>5. StoredBytes(u) \in Nat /\ UserStorageLimit \in Int
    BY <1>1, SizesTyped, StoreAssumption
  <2>6. WithinLimit(StoredBytes(u)')
    BY <1>1, <2>4, <2>5 DEF WithinLimit
  <2> QED BY <2>4, <2>6
<1> QED BY <1>4, <1>5

LEMMA StorageStep ==
  ASSUME Bytes = Chars, TypeOK, StorageInv, [Next]_vars
  PROVE  StorageInv'
<1>1. ASSUME UNCHANGED configs PROVE StorageInv'
  <2>1. \A u \in User : RowsOf(u)' = RowsOf(u) /\ StoredBytes(u)' = StoredBytes(u)
    BY <1>1, StorageKept
  <2> QED BY <2>1 DEF StorageInv, FewRows
<1>2. ASSUME NEW r \in Req, Writes(r), NEW p \in Pair, p = reqs[r].pair PROVE StorageInv'
  <2>1. /\ configs'[p] = [version |-> configs[p].version + 1, payload |-> reqs[r].payload]
        /\ \A q \in Pair \ {p} : configs'[q] = configs[q]
        /\ reqs[r].payload \in Payload /\ TotalAfter(p, reqs[r].payload) <= UserStorageLimit
    BY <1>2, WriteEffect DEF Writes, PutCommit, WithinQuota
  <2>2. p[1] \in User
    BY DEF Pair
  <2>3. /\ IsFiniteSet(RowsOf(p[1])')
        /\ StoredBytes(p[1])' = TotalAfter(p, reqs[r].payload)
    BY <2>1, <2>2, StorageWritten DEF StorageInv, FewRows
  <2>4. ASSUME NEW u \in User, u # p[1]
        PROVE  RowsOf(u)' = RowsOf(u) /\ StoredBytes(u)' = StoredBytes(u)
    <3>1. \A a \in App : <<u, a>> \in Pair \ {p}
      BY <2>4 DEF Pair
    <3> QED BY <2>1, <3>1, StorageKept
  <2>5. ASSUME NEW u \in User PROVE IsFiniteSet(RowsOf(u)') /\ WithinLimit(StoredBytes(u)')
    <3>1. CASE u = p[1]
      BY <2>1, <2>3, <3>1 DEF WithinLimit
    <3>2. CASE u # p[1]
      BY <2>4, <3>2 DEF StorageInv, FewRows
    <3> QED BY <3>1, <3>2
  <2> QED BY <2>5 DEF StorageInv, FewRows, WithinLimit
<1>3. ASSUME NEW p \in Pair, DeleteAppData(p) PROVE StorageInv'
  <2>1. DeleteRows({p})
    BY <1>3 DEF DeleteAppData, WipePair
  <2>2. \A u \in User : \E a \in App : \A b \in App : <<u, b>> \in {p} => b = a
    BY DEF Pair
  <2> QED BY <2>1, <2>2, DeletionKeepsLimit
<1>4. ASSUME NEW a \in App, AdminDeleteApp(a) PROVE StorageInv'
  <2>1. DeleteRows(User \X {a}) /\ User \X {a} \in SUBSET Pair
    BY <1>4 DEF AdminDeleteApp, DeleteApp, Pair
  <2> QED BY <2>1, DeletionKeepsLimit
<1>5. ASSUME NEW u \in User, NEW prefix, DeleteAppToken(u, prefix) PROVE UNCHANGED configs
  BY <1>5 DEF DeleteAppToken, DeleteTokens
<1>6. ASSUME NEW a \in App, AdminCreateApp(a) PROVE UNCHANGED configs
  BY <1>6 DEF AdminCreateApp, InsertApp
<1>7. ASSUME NEW r \in Req, Touch(r) \/ TokenCommit(r) PROVE UNCHANGED configs
  BY <1>7 DEF Touch, TouchToken, TokenCommit, ReplaceToken
<1>8. UNCHANGED <<storeVars, fate>> => UNCHANGED configs
  BY DEF storeVars
<1>9. \A r \in Req : Writes(r) => reqs[r].pair \in Pair
  BY DEF Writes
<1> QED BY <1>1, <1>2, <1>3, <1>4, <1>5, <1>6, <1>7, <1>8, <1>9, StoreCases DEF AdminNext

LEMMA InitStorage ==
  ASSUME Init
  PROVE  StorageInv
<1>1. ASSUME NEW u \in User PROVE RowsOf(u) = {} /\ StoredBytes(u) = 0
  <2>1. RowsOf(u) = {}
    BY DEF Init, StoreInit, RowsOf, Pair
  <2> QED BY <2>1, SumOfNone DEF StoredBytes
<1> QED BY <1>1, FS_EmptySet DEF StorageInv, FewRows, WithinLimit

\* Where every character is one byte, so that SQLite's LENGTH and Go's len
\* agree, no interleaving of PUT requests stores more than the limit, for any
\* number of apps and any sizes.
THEOREM StorageBounded == Bytes = Chars => (Spec => []StorageWithinLimit)
<1> SUFFICES ASSUME Bytes = Chars PROVE Spec => []StorageWithinLimit
  OBVIOUS
<1>1. TypeOK /\ StorageInv /\ [Next]_vars => StorageInv'
  BY StorageStep
<1>2. StorageInv => StorageWithinLimit
  BY DEF StorageInv, WithinLimit, StorageWithinLimit
<1> QED BY <1>1, <1>2, InitStorage, TypeCorrect, PTL DEF Spec
=============================================================================
