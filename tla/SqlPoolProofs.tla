---------------------------- MODULE SqlPoolProofs ----------------------------
(***************************************************************************)
(* Whatever statement fails, whoever dies, and however many connections    *)
(* the pool has: the tables change by one whole transaction at a time.     *)
(***************************************************************************)
EXTENDS SqlPool, TLAPS

-----------------------------------------------------------------------------
(* The tables, without the instance of CfgStore. *)

TokenRow == [hash : Token, pair : Pair, used : BOOLEAN]
HistoryRow == [id : Nat, pair : Pair, version : Nat, payload : Payload, at : Nat]
Field == {"apps", "tokens", "configs", "history", "nextId", "life"}

\* d has the columns and rows of the schema.
Typed(d) ==
  /\ DOMAIN d = Field
  /\ d.apps \subseteq App /\ d.tokens \subseteq TokenRow
  /\ d.configs \in [Pair -> Row] /\ d.history \subseteq HistoryRow
  /\ d.nextId \in Nat /\ d.life \in [Pair -> Nat]

LEMMA TypedTables ==
  ASSUME NEW d
  PROVE  IsTables(d) <=> Typed(d)
BY DEF IsTables, Typed, Tables!StoreTypeOK, Tables!Pair, Tables!TokenRow, Tables!ConfigRow,
       Tables!HistoryRow, Pair, TokenRow, HistoryRow, Row, Field

\* What each statement of a transaction leaves is typed.
LEMMA ConfigTyped ==
  ASSUME NEW d, Typed(d), NEW p \in Pair, NEW row \in Row
  PROVE  Typed([d EXCEPT !.configs[p] = row])
BY DEF Typed, Field

LEMMA HistoryTyped ==
  ASSUME NEW d, Typed(d), NEW rows, rows \subseteq HistoryRow, NEW n \in Nat
  PROVE  /\ Typed([d EXCEPT !.history = rows])
         /\ Typed([d EXCEPT !.history = rows, !.nextId = n])
BY DEF Typed, Field

LEMMA TokensTyped ==
  ASSUME NEW d, Typed(d), NEW rows, rows \subseteq TokenRow
  PROVE  Typed([d EXCEPT !.tokens = rows])
BY DEF Typed, Field

LEMMA WipedTyped ==
  ASSUME NEW d, Typed(d), NEW p \in Pair, NEW n \in Nat
  PROVE  Typed([d EXCEPT !.configs[p] = NoRow, !.life[p] = n])
BY DEF Typed, Field, NoRow, Row

LEMMA DroppedTyped ==
  ASSUME NEW d, Typed(d), NEW a
  PROVE  Typed(Dropped(d, a))
BY DEF Typed, Field, Dropped, NoRow, Row

-----------------------------------------------------------------------------
(* What a transaction has written so far, as a change of the committed d   *)
(* into its view v.                                                        *)

Archived(d, q, now) ==
  [id |-> d.nextId, pair |-> q.pair, version |-> d.configs[q.pair].version + 1,
   payload |-> q.payload, at |-> now]

PutConfigs(v, d, q) ==
  v.configs = [d.configs EXCEPT ![q.pair] =
                 [version |-> d.configs[q.pair].version + 1, payload |-> q.payload]]

MayStore(q, d) == MayPut(q, d) /\ (d.configs[q.pair] # NoRow \/ HasApp(q.pair, d))

Upserted(v, d, q) ==
  /\ MayStore(q, d)
  /\ PutConfigs(v, d, q)
  /\ v.apps = d.apps /\ v.tokens = d.tokens /\ v.history = d.history
  /\ v.nextId = d.nextId /\ v.life = d.life

ArchivedIn(v, d, q) ==
  /\ MayStore(q, d) /\ HistoryPerApp > 0
  /\ PutConfigs(v, d, q)
  /\ v.apps = d.apps /\ v.tokens = d.tokens /\ v.life = d.life
  /\ v.nextId = d.nextId + 1
  /\ \E now \in Time : v.history = d.history \cup {Archived(d, q, now)}

PutDone(v, d, q) ==
  /\ MayStore(q, d)
  /\ PutConfigs(v, d, q)
  /\ v.apps = d.apps /\ v.tokens = d.tokens /\ v.life = d.life
  /\ v.nextId = d.nextId + 1
  /\ \E now \in Time :
       v.history = (d.history \ Tables(d)!HistoryOf(q.pair)) \cup
         Tables(d)!Trimmed(Tables(d)!HistoryOf(q.pair) \cup {Archived(d, q, now)})

Deleted(v, d, q) ==
  /\ MayDraw(q, d)
  /\ v.apps = d.apps /\ v.configs = d.configs /\ v.history = d.history
  /\ v.nextId = d.nextId /\ v.life = d.life
  /\ v.tokens = {t \in d.tokens : t.pair # q.pair}

TokenDone(v, d, q, h) ==
  /\ MayDraw(q, d) /\ HasApp(q.pair, d)
  /\ v.apps = d.apps /\ v.configs = d.configs /\ v.history = d.history
  /\ v.nextId = d.nextId /\ v.life = d.life
  /\ v.tokens = {t \in d.tokens : t.pair # q.pair}
                  \cup {[hash |-> h, pair |-> q.pair, used |-> FALSE]}

ConfigWiped(v, d, q) ==
  /\ v.apps = d.apps /\ v.nextId = d.nextId
  /\ v.configs = [d.configs EXCEPT ![q.pair] = NoRow]
  /\ v.life = [d.life EXCEPT ![q.pair] = IF d.configs[q.pair] = NoRow THEN @ ELSE @ + 1]

HistoryWiped(v, d, q) == v.history = {x \in d.history : x.pair # q.pair}

WipedOne(v, d, q) ==
  ConfigWiped(v, d, q) /\ v.history = d.history /\ v.tokens = d.tokens
WipedTwo(v, d, q) ==
  ConfigWiped(v, d, q) /\ HistoryWiped(v, d, q) /\ v.tokens = d.tokens
WipeDone(v, d, q) ==
  /\ ConfigWiped(v, d, q) /\ HistoryWiped(v, d, q)
  /\ v.tokens = {t \in d.tokens : t.pair # q.pair}

-----------------------------------------------------------------------------
(* Each of them, committed, is the transaction as CfgStore has it. *)

LEMMA PutIsWhole ==
  ASSUME NEW h \in Handler, hs[h].job.op = "put", PutDone(db', db, hs[h].job)
  PROVE  Whole(h)
BY DEF PutDone, MayStore, PutConfigs, Archived, Whole, Tables!WriteConfig

LEMMA TokenIsWhole ==
  ASSUME NEW h \in Handler, hs[h].job.op = "token", TokenDone(db', db, hs[h].job, h)
  PROVE  Whole(h)
BY DEF TokenDone, Whole, Tables!ReplaceToken

LEMMA WipeIsWhole ==
  ASSUME NEW h \in Handler, hs[h].job.op = "wipe", hs[h].job.pair \in Pair,
         Typed(db), WipeDone(db', db, hs[h].job)
  PROVE  Whole(h)
<1> DEFINE p == hs[h].job.pair
<1>1. db'.configs = [x \in Pair |-> IF x \in {p} THEN NoRow ELSE db.configs[x]]
  BY DEF WipeDone, HistoryWiped, ConfigWiped, Typed
<1>2. db'.life = [x \in Pair |-> IF x \in {p} /\ db.configs[x] # NoRow
                                 THEN db.life[x] + 1 ELSE db.life[x]]
  BY DEF WipeDone, HistoryWiped, ConfigWiped, Typed
<1>3. Tables(db)!WipePair(p)
  BY <1>1, <1>2 DEF WipeDone, HistoryWiped, ConfigWiped, Tables!WipePair, Tables!DeleteRows,
     Tables!Absent, NoRow, Tables!Pair, Pair
<1> QED BY <1>3 DEF Whole

LEMMA RevokeIsWhole ==
  ASSUME NEW h \in Handler, hs[h].job.op = "revoke", NEW t \in Token,
         Typed(db), db' = Revoked(db, hs[h].job.pair[1], PrefixOf[t])
  PROVE  Whole(h)
<1>1. Tables(db)!DeleteTokens(hs[h].job.pair[1], PrefixOf[t])
  BY DEF Revoked, Typed, Field, Tables!DeleteTokens
<1> QED BY <1>1 DEF Whole

LEMMA DropIsWhole ==
  ASSUME NEW h \in Handler, hs[h].job.op = "drop", hs[h].job.pair \in Pair,
         Typed(db), db' = Dropped(db, hs[h].job.pair[2])
  PROVE  Whole(h)
<1> DEFINE a == hs[h].job.pair[2]
<1>1. \A x \in Pair : x \in User \X {a} <=> x[2] = a
  BY DEF Pair
<1>2. /\ db'.apps = db.apps \ {a}
      /\ db'.configs = [x \in Pair |-> IF x \in User \X {a} THEN NoRow ELSE db.configs[x]]
      /\ db'.life = [x \in Pair |-> IF x \in User \X {a} /\ db.configs[x] # NoRow
                                    THEN db.life[x] + 1 ELSE db.life[x]]
      /\ db'.nextId = db.nextId
  BY <1>1 DEF Dropped, Typed, Field
<1>3. db'.history = {x \in db.history : x.pair \notin User \X {a}}
  BY <1>1 DEF Dropped, Typed, Field, HistoryRow
<1>4. db'.tokens = {t \in db.tokens : t.pair \notin User \X {a}}
  BY <1>1 DEF Dropped, Typed, Field, TokenRow
<1>5. Tables(db)!DeleteApp(a)
  BY <1>2, <1>3, <1>4 DEF Tables!DeleteApp, Tables!DeleteRows, Tables!Absent, NoRow,
     Tables!Pair, Pair
<1> QED BY <1>5 DEF Whole

-----------------------------------------------------------------------------
(* The inductive invariant. *)

Outside == {"begin", "done", "select", "detect", "wipe_config", "statement"}
Wrote == {"archive", "trim", "insert", "wipe_history", "wipe_token", "commit"}

\* What handler h is doing is what its request asks for.
OnItsJob(q) ==
  /\ q.job = NoJob \/ q.job \in Put \cup Other
  /\ q.pc \in InTx => q.job \in Put \cup Other
  /\ q.pc \in {"select", "sum", "reread", "upsert", "archive", "trim"} => q.job.op = "put"
  /\ q.pc \in {"detect", "count", "delete", "insert"} => q.job.op = "token"
  /\ q.pc \in {"wipe_config", "wipe_history", "wipe_token"} => q.job.op = "wipe"
  /\ q.pc = "commit" => q.job.op \in {"put", "token", "wipe"}
  /\ q.pc = "statement" => q.job.op \in {"revoke", "drop"}

\* A transaction has a snapshot from its first statement, and the lock from
\* its first write, until it ends; with the lock, no commit of another makes
\* its snapshot old.
Isolated(h, q, d, l) ==
  /\ q.pc \in Outside <=> q.snap = "none"
  /\ q.pc \in Wrote <=> l = h
  /\ l = h => q.snap = "fresh"
  /\ q.snap = "fresh" /\ l # h => q.view = d

\* What was read and checked is true of the snapshot.
Checked(q) ==
  /\ q.pc \in {"sum", "reread", "upsert"} => q.seen = q.view.configs[q.job.pair]
  /\ q.pc = "upsert" => MayPut(q.job, q.view)
  /\ q.pc = "delete" => MayDraw(q.job, q.view)

\* What was written is a beginning of the transaction, on the committed d.
Staged(h, q, d) ==
  /\ q.pc \in {"archive", "trim"} => q.seen = d.configs[q.job.pair]
  /\ q.pc = "archive" => Upserted(q.view, d, q.job)
  /\ q.pc = "trim" => ArchivedIn(q.view, d, q.job)
  /\ q.pc = "insert" => Deleted(q.view, d, q.job)
  /\ q.pc = "wipe_history" => WipedOne(q.view, d, q.job)
  /\ q.pc = "wipe_token" => WipedTwo(q.view, d, q.job)
  /\ q.pc = "commit" => CASE q.job.op = "put" -> PutDone(q.view, d, q.job)
                          [] q.job.op = "token" -> TokenDone(q.view, d, q.job, h)
                          [] OTHER -> WipeDone(q.view, d, q.job)

Sound(h, q, d, l) ==
  /\ IsHandler(q)
  /\ OnItsJob(q) /\ Isolated(h, q, d, l) /\ Checked(q) /\ Staged(h, q, d)

PoolInv ==
  /\ size \in PoolSizes /\ inUse \subseteq Handler
  /\ IsTables(db)
  /\ lock \in Handler \cup {NoHandler}
  /\ DOMAIN hs = Handler
  /\ \A h \in Handler : Sound(h, hs[h], db, lock)

-----------------------------------------------------------------------------
(* What a handler's step leaves of the others. *)

LEMMA KeptSound ==
  ASSUME NEW k, NEW q, NEW d, NEW l, NEW l2, Sound(k, q, d, l), l2 = k <=> l = k
  PROVE  Sound(k, q, d, l2)
BY DEF Sound, Isolated

\* A commit of another makes a snapshot old, not what was read in it untrue.
LEMMA StaleSound ==
  ASSUME NEW k, NEW q, NEW d, NEW l, NEW d2, NEW l2, Sound(k, q, d, l), l # k, l2 # k
  PROVE  Sound(k, IF q.snap = "fresh" THEN [q EXCEPT !.snap = "stale"] ELSE q, d2, l2)
<1> DEFINE s == IF q.snap = "fresh" THEN [q EXCEPT !.snap = "stale"] ELSE q
<1>1. /\ DOMAIN s = DOMAIN q /\ s.pc = q.pc /\ s.job = q.job /\ s.view = q.view
      /\ s.seen = q.seen /\ s.status = q.status
      /\ s.snap = IF q.snap = "fresh" THEN "stale" ELSE q.snap
  BY DEF Sound, IsHandler
<1> HIDE DEF s
<1>2. IsHandler(s)
  BY <1>1 DEF Sound, IsHandler
<1>3. OnItsJob(s) /\ Checked(s)
  BY <1>1 DEF Sound, OnItsJob, Checked
<1>4. Isolated(k, s, d2, l2)
  BY <1>1 DEF Sound, Isolated
<1>5. Staged(k, s, d2)
  BY <1>1 DEF Sound, Isolated, Staged, Wrote
<1> QED BY <1>2, <1>3, <1>4, <1>5 DEF Sound, s

LEMMA EmptyTyped == IsTables(EmptyDb)
<1>1. Typed(EmptyDb)
  BY DEF Typed, EmptyDb, Field, NoRow, Row
<1> QED BY <1>1, TypedTables

\* A handler outside a transaction, before it asks or after it answers.
LEMMA IdleSound ==
  ASSUME NEW h \in Handler, NEW l, l # h, NEW d, NEW pc \in {"begin", "done"},
         NEW status \in Status
  PROVE  Sound(h, NoTx(pc, status), d, l)
<1> DEFINE q == NoTx(pc, status)
<1>1. /\ q.pc = pc /\ q.job = NoJob /\ q.snap = "none" /\ q.view = EmptyDb
      /\ q.seen = NoRow /\ q.status = status
      /\ DOMAIN q = {"pc", "job", "snap", "view", "seen", "status"}
  BY DEF NoTx
<1> HIDE DEF q
<1>2. IsHandler(q)
  BY <1>1, EmptyTyped DEF IsHandler, NoRow, Row
<1>3. OnItsJob(q) /\ Checked(q) /\ Staged(h, q, d)
  BY <1>1 DEF OnItsJob, Checked, Staged, InTx, Writing
<1>4. Isolated(h, q, d, l)
  BY <1>1 DEF Isolated, Outside, Wrote
<1> QED BY <1>2, <1>3, <1>4 DEF Sound, q

\* A step of handler h alone, which may take or give back the lock.
LEMMA OwnStep ==
  ASSUME PoolInv, NEW h \in Handler, NEW q,
         hs' = [hs EXCEPT ![h] = q],
         size' = size, inUse' \subseteq Handler, db' = db,
         lock' \in {lock, h} \/ (lock = h /\ lock' = NoHandler),
         lock' = h => lock \in {NoHandler, h},
         Sound(h, q, db, lock')
  PROVE  PoolInv'
<1>1. \A k \in Handler \ {h} : lock' = k <=> lock = k
  BY PoolAssumption DEF PoolInv
<1>2. ASSUME NEW k \in Handler
      PROVE  Sound(k, hs[k], db, lock)'
  <2>1. CASE k = h
    BY <2>1 DEF PoolInv
  <2>2. CASE k # h
    BY <1>1, <2>2, KeptSound DEF PoolInv
  <2> QED BY <2>1, <2>2
<1>3. IsTables(db)'
  BY DEF PoolInv, IsTables, Tables!StoreTypeOK
<1> QED BY <1>2, <1>3, PoolAssumption DEF PoolInv

LEMMA ReturnKeeps ==
  ASSUME PoolInv, NEW h \in Handler, NEW status \in Status, Return(h, status)
  PROVE  PoolInv'
<1>1. Over(status) = NoTx("done", status)
  BY DEF Over
<1>2. lock' # h
  BY PoolAssumption DEF Return, Unlocked, PoolInv
<1>3. Sound(h, Over(status), db, lock')
  <2>1. Sound(h, NoTx("done", status), db, lock')
    BY <1>2, IdleSound
  <2> QED BY <1>1, <2>1
<1>4. /\ lock' \in {lock, h} \/ (lock = h /\ lock' = NoHandler)
      /\ lock' = h => lock \in {NoHandler, h}
      /\ inUse' \subseteq Handler
  BY DEF Return, Unlocked, PoolInv
<1> QED BY <1>3, <1>4, OwnStep DEF Return

LEMMA PublishKeeps ==
  ASSUME PoolInv, NEW h \in Handler, NEW d, Typed(d),
         lock \in {NoHandler, h}, Publish(h, d)
  PROVE  PoolInv'
<1>1. lock' = NoHandler
  BY DEF Publish, Unlocked
<1>2. Over("ok") = NoTx("done", "ok")
  BY DEF Over
<1>3. ASSUME NEW k \in Handler
      PROVE  Sound(k, hs[k], db, lock)'
  <2>1. CASE k = h
    BY <1>1, <1>2, <2>1, IdleSound, PoolAssumption DEF Publish, Status
  <2>2. CASE k # h
    <3>1. lock # k /\ lock' # k
      BY <1>1, <2>2, PoolAssumption
    <3>2. hs'[k] = IF hs[k].snap = "fresh" THEN [hs[k] EXCEPT !.snap = "stale"] ELSE hs[k]
      BY <2>2 DEF Publish
    <3> QED BY <3>1, <3>2, StaleSound DEF PoolInv
  <2> QED BY <2>1, <2>2
<1>4. IsTables(db)'
  BY TypedTables DEF Publish
<1> QED BY <1>1, <1>3, <1>4 DEF PoolInv, Publish

-----------------------------------------------------------------------------
(* Reads. *)

\* A transaction that may write, and has not yet, sees the committed tables.
LEMMA SeenIsCommitted ==
  ASSUME PoolInv, NEW h \in Handler, hs[h].snap # "stale", lock # h
  PROVE  Seen(h) = db
BY DEF PoolInv, Sound, IsHandler, Isolated, Seen

LEMMA SeenTyped ==
  ASSUME PoolInv, NEW h \in Handler
  PROVE  IsTables(Seen(h)) /\ Typed(Seen(h))
BY TypedTables DEF PoolInv, Sound, IsHandler, Seen

\* Handler h after a read that leaves it at pc with the row seen.
ReadAt(h, pc, seen) ==
  [hs[h] EXCEPT !.pc = pc, !.seen = seen,
                !.snap = IF hs[h].snap = "none" THEN "fresh" ELSE hs[h].snap,
                !.view = Seen(h)]

LEMMA ReadKeeps ==
  ASSUME PoolInv, NEW h \in Handler, lock # h,
         NEW pc \in {"sum", "reread", "upsert", "count", "delete"}, NEW seen \in Row,
         hs' = [hs EXCEPT ![h] = ReadAt(h, pc, seen)],
         UNCHANGED <<size, inUse, db, lock>>,
         OnItsJob(ReadAt(h, pc, seen)), Checked(ReadAt(h, pc, seen))
  PROVE  PoolInv'
<1> DEFINE q == ReadAt(h, pc, seen)
<1>1. Sound(h, hs[h], db, lock)
  BY DEF PoolInv
<1>2. /\ q.pc = pc /\ q.job = hs[h].job /\ q.view = Seen(h) /\ q.seen = seen
      /\ q.status = hs[h].status /\ DOMAIN q = DOMAIN hs[h]
      /\ q.snap = IF hs[h].snap = "none" THEN "fresh" ELSE hs[h].snap
  BY <1>1 DEF ReadAt, Sound, IsHandler
<1>3. IsHandler(q)
  BY <1>1, <1>2, SeenTyped DEF Sound, IsHandler, InTx, Writing
<1>4. Isolated(h, q, db, lock)
  BY <1>1, <1>2, SeenIsCommitted DEF Sound, Isolated, Outside, Wrote
<1>5. Staged(h, q, db)
  BY <1>2 DEF Staged
<1>6. Sound(h, q, db, lock)
  BY <1>3, <1>4, <1>5 DEF Sound
<1> HIDE DEF q
<1> QED BY <1>6, OwnStep DEF PoolInv, q

LEMMA SelectKeeps ==
  ASSUME PoolInv, NEW h \in Handler, Select(h)
  PROVE  PoolInv'
<1> DEFINE seen == Seen(h).configs[hs[h].job.pair]
           q == ReadAt(h, "sum", seen)
<1>1. Sound(h, hs[h], db, lock) /\ hs[h].pc = "select"
  BY DEF PoolInv, Select
<1>2. lock # h
  BY <1>1 DEF Sound, Isolated, Wrote
<1>3. hs[h].job \in Put
  BY <1>1 DEF Sound, OnItsJob, InTx, Put, Other
<1>4. seen \in Row
  BY <1>3, SeenTyped DEF Typed, Put
<1>5. hs' = [hs EXCEPT ![h] = q]
  BY <1>1 DEF Select, Read, ReadAt, Sound, IsHandler
<1>6. q.pc = "sum" /\ q.job = hs[h].job /\ q.view = Seen(h) /\ q.seen = seen
  BY <1>1 DEF ReadAt, Sound, IsHandler
<1>7. OnItsJob(q) /\ Checked(q)
  BY <1>1, <1>3, <1>6 DEF OnItsJob, Checked, Sound
<1> QED BY <1>2, <1>4, <1>5, <1>7, ReadKeeps DEF Select, Read

LEMMA SumKeeps ==
  ASSUME PoolInv, NEW h \in Handler, Sum(h)
  PROVE  PoolInv'
<1> DEFINE q(pc) == ReadAt(h, pc, hs[h].seen)
<1>1. Sound(h, hs[h], db, lock) /\ hs[h].pc = "sum"
  BY DEF PoolInv, Sum
<1>2. CASE Return(h, "quota_exceeded")
  BY <1>2, ReturnKeeps DEF Status
<1>3. CASE /\ ~(Total(h) > UserStorageLimit)
           /\ Read(h, [hs[h] EXCEPT !.pc = IF Matches(h) THEN "upsert" ELSE "reread"])
  <2> DEFINE pc == IF Matches(h) THEN "upsert" ELSE "reread"
  <2>1. lock # h /\ hs[h].job \in Put /\ hs[h].seen \in Row
    BY <1>1 DEF Sound, Isolated, Wrote, OnItsJob, InTx, Put, Other, IsHandler
  <2>2. Seen(h) = hs[h].view /\ hs[h].seen = Seen(h).configs[hs[h].job.pair]
    BY <1>1 DEF Sound, Isolated, Outside, Seen, Checked
  <2>3. hs' = [hs EXCEPT ![h] = q(pc)]
    BY <1>1, <1>3 DEF Read, ReadAt, Sound, IsHandler
  <2>4. q(pc).pc = pc /\ q(pc).job = hs[h].job /\ q(pc).view = Seen(h) /\ q(pc).seen = hs[h].seen
    BY <1>1 DEF ReadAt, Sound, IsHandler
  <2>5. pc = "upsert" => MayPut(hs[h].job, Seen(h))
    BY <1>3, <2>2 DEF Matches, MayPut, Total, Tables!TotalAfter
  <2>6. OnItsJob(q(pc)) /\ Checked(q(pc))
    BY <1>1, <2>1, <2>2, <2>4, <2>5 DEF OnItsJob, Checked, Sound
  <2> QED BY <1>3, <2>1, <2>3, <2>6, ReadKeeps DEF Read
<1> QED BY <1>2, <1>3 DEF Sum

LEMMA DetectKeeps ==
  ASSUME PoolInv, NEW h \in Handler, Detect(h) \/ DetectFails(h)
  PROVE  PoolInv'
<1> DEFINE found == \E t \in Seen(h).tokens : t.pair = hs[h].job.pair
           q(pc) == ReadAt(h, pc, hs[h].seen)
<1>1. Sound(h, hs[h], db, lock) /\ hs[h].pc = "detect"
  BY DEF PoolInv, Detect, DetectFails
<1>2. PICK pc \in {"count", "delete"} :
        /\ Read(h, [hs[h] EXCEPT !.pc = pc])
        /\ pc = "delete" => found
  BY DEF Detect, DetectFails
<1>3. lock # h /\ hs[h].seen \in Row
  BY <1>1 DEF Sound, Isolated, Wrote, IsHandler
<1>4. hs' = [hs EXCEPT ![h] = q(pc)]
  BY <1>1, <1>2 DEF Read, ReadAt, Sound, IsHandler
<1>5. q(pc).pc = pc /\ q(pc).job = hs[h].job /\ q(pc).view = Seen(h)
  BY <1>1 DEF ReadAt, Sound, IsHandler
<1>6. OnItsJob(q(pc)) /\ Checked(q(pc))
  BY <1>1, <1>2, <1>5 DEF OnItsJob, Checked, Sound, MayDraw, InTx
<1> QED BY <1>2, <1>3, <1>4, <1>6, ReadKeeps DEF Read

LEMMA CountKeeps ==
  ASSUME PoolInv, NEW h \in Handler, Count(h)
  PROVE  PoolInv'
<1> DEFINE n == Cardinality(Tables(Seen(h))!TokensOf(hs[h].job.pair[1]))
           q == ReadAt(h, "delete", hs[h].seen)
<1>1. Sound(h, hs[h], db, lock) /\ hs[h].pc = "count"
  BY DEF PoolInv, Count
<1>2. CASE Return(h, "token_limit")
  BY <1>2, ReturnKeeps DEF Status
<1>3. CASE ~(n >= UserAppTokenLimit) /\ Read(h, [hs[h] EXCEPT !.pc = "delete"])
  <2>1. lock # h /\ hs[h].seen \in Row
    BY <1>1 DEF Sound, Isolated, Wrote, IsHandler
  <2>2. hs' = [hs EXCEPT ![h] = q]
    BY <1>1, <1>3 DEF Read, ReadAt, Sound, IsHandler
  <2>3. q.pc = "delete" /\ q.job = hs[h].job /\ q.view = Seen(h)
    BY <1>1 DEF ReadAt, Sound, IsHandler
  <2>4. OnItsJob(q) /\ Checked(q)
    BY <1>1, <1>3, <2>3 DEF OnItsJob, Checked, Sound, MayDraw, InTx, Writing
  <2> QED BY <1>3, <2>1, <2>2, <2>4, ReadKeeps DEF Read
<1> QED BY <1>2, <1>3 DEF Count

\* A request begins: what it asks for, and its first statement.
LEMMA ConnectKeeps ==
  ASSUME PoolInv, NEW h \in Handler, Connect(h)
  PROVE  PoolInv'
<1>1. PICK job \in Put \cup Other : hs' = [hs EXCEPT ![h].pc = First(job.op), ![h].job = job]
  BY DEF Connect
<1> DEFINE q == [hs[h] EXCEPT !.pc = First(job.op), !.job = job]
<1>2. Sound(h, hs[h], db, lock) /\ hs[h].pc = "begin"
  BY DEF PoolInv, Connect
<1>3. /\ q.pc = First(job.op) /\ q.job = job /\ q.view = hs[h].view /\ q.seen = hs[h].seen
      /\ q.status = hs[h].status /\ q.snap = hs[h].snap /\ DOMAIN q = DOMAIN hs[h]
  BY <1>2 DEF Sound, IsHandler
<1>4. job.op \in {"put", "token", "wipe", "revoke", "drop"}
  BY DEF Put, Other
<1> HIDE DEF q
<1>5. IsHandler(q)
  BY <1>2, <1>3, <1>4 DEF Sound, IsHandler, InTx, Writing, First
<1>6. OnItsJob(q)
  BY <1>3, <1>4 DEF OnItsJob, First
<1>7. Isolated(h, q, db, lock) /\ Checked(q) /\ Staged(h, q, db)
  BY <1>2, <1>3, <1>4 DEF Sound, Isolated, Checked, Staged, First, Outside, Wrote
<1>8. Sound(h, q, db, lock)
  BY <1>5, <1>6, <1>7 DEF Sound
<1>9. hs' = [hs EXCEPT ![h] = q]
  BY <1>1 DEF q
<1>10. inUse' \subseteq Handler
  BY DEF Connect, PoolInv
<1>11. lock \in Handler \cup {NoHandler} /\ (lock = h => lock \in {NoHandler, h})
  BY DEF PoolInv
<1> QED BY <1>8, <1>9, <1>10, <1>11, OwnStep DEF Connect

-----------------------------------------------------------------------------
(* Writes. *)

\* Handler h after a write that leaves it at pc with view d.
WroteAt(h, pc, d) == [hs[h] EXCEPT !.pc = pc, !.snap = "fresh", !.view = d]

LEMMA WriteKeeps ==
  ASSUME PoolInv, NEW h \in Handler, NEW d, NEW pc \in Wrote, Write(h, d, pc), Typed(d),
         OnItsJob(WroteAt(h, pc, d)), Staged(h, WroteAt(h, pc, d), db)
  PROVE  PoolInv'
<1> DEFINE q == WroteAt(h, pc, d)
<1>1. Sound(h, hs[h], db, lock)
  BY DEF PoolInv
<1>2. /\ q.pc = pc /\ q.job = hs[h].job /\ q.view = d /\ q.seen = hs[h].seen
      /\ q.status = hs[h].status /\ q.snap = "fresh" /\ DOMAIN q = DOMAIN hs[h]
  BY <1>1 DEF WroteAt, Sound, IsHandler
<1>3. hs' = [hs EXCEPT ![h] = q]
  BY <1>1 DEF Write, WroteAt, Sound, IsHandler
<1> HIDE DEF q
<1>4. IsHandler(q)
  BY <1>1, <1>2, TypedTables DEF Sound, IsHandler, InTx, Writing, Wrote
<1>5. Isolated(h, q, db, h) /\ Checked(q)
  BY <1>2 DEF Isolated, Checked, Outside, Wrote
<1>6. Sound(h, q, db, h)
  BY <1>4, <1>5 DEF Sound, q
<1> QED BY <1>3, <1>6, OwnStep DEF Write, CanWrite, PoolInv

\* What is written, next to what was there.
LEMMA WroteIs ==
  ASSUME PoolInv, NEW h \in Handler, NEW pc, NEW d
  PROVE  /\ WroteAt(h, pc, d).pc = pc /\ WroteAt(h, pc, d).job = hs[h].job
         /\ WroteAt(h, pc, d).view = d /\ WroteAt(h, pc, d).seen = hs[h].seen
BY DEF WroteAt, PoolInv, Sound, IsHandler

\* The job of a handler in a transaction.
LEMMA JobTyped ==
  ASSUME PoolInv, NEW h \in Handler, hs[h].pc \in InTx
  PROVE  /\ hs[h].job.pair \in Pair
         /\ hs[h].job.op = "put" => hs[h].job.payload \in Payload /\ hs[h].job \in Put
BY DEF PoolInv, Sound, OnItsJob, Put, Other

LEMMA UpsertKeeps ==
  ASSUME PoolInv, NEW h \in Handler, Upsert(h)
  PROVE  PoolInv'
<1> DEFINE p == hs[h].job.pair
           d == [Seen(h) EXCEPT !.configs[p] = NewRow(h)]
<1>1. Sound(h, hs[h], db, lock) /\ hs[h].pc = "upsert" /\ hs[h].job.op = "put"
  BY DEF PoolInv, Upsert, Sound, OnItsJob
<1>2. CASE hs[h].seen = NoRow /\ p[2] \notin Seen(h).apps
  BY <1>2, ReturnKeeps DEF Upsert, Status
<1>3. CASE ~(hs[h].seen = NoRow /\ p[2] \notin Seen(h).apps)
  <2>0. Write(h, d, "archive")
    BY <1>3 DEF Upsert
  <2>1. lock # h /\ hs[h].snap = "fresh"
    BY <1>1, <2>0 DEF Sound, Isolated, Wrote, Outside, Write, CanWrite, IsHandler
  <2>2. Seen(h) = db /\ hs[h].view = db
    BY <1>1, <2>1, SeenIsCommitted DEF Sound, Isolated
  <2>3. hs[h].seen = db.configs[p] /\ MayPut(hs[h].job, db) /\ hs[h].seen \in Row
    BY <1>1, <2>2 DEF Sound, Checked, IsHandler
  <2>4. p \in Pair /\ hs[h].job.payload \in Payload
    BY <1>1, JobTyped DEF InTx, Writing
  <2>5. NewRow(h) \in Row
    BY <2>3, <2>4 DEF NewRow, Row
  <2>6. Typed(db) /\ Typed(d)
    BY <2>2, <2>4, <2>5, ConfigTyped, TypedTables DEF PoolInv
  <2>7. Upserted(d, db, hs[h].job)
    BY <1>3, <2>2, <2>3, <2>6 DEF Upserted, MayStore, HasApp, PutConfigs, NewRow, Typed, Field
  <2> DEFINE q == WroteAt(h, "archive", d)
  <2>8. q.pc = "archive" /\ q.job = hs[h].job /\ q.view = d /\ q.seen = hs[h].seen
    BY WroteIs
  <2>9. OnItsJob(q) /\ Staged(h, q, db)
    BY <1>1, <2>3, <2>7, <2>8 DEF OnItsJob, Staged, Sound, InTx, Writing
  <2> QED BY <2>0, <2>6, <2>9, WriteKeeps DEF Wrote
<1> QED BY <1>2, <1>3

LEMMA ArchiveKeeps ==
  ASSUME PoolInv, NEW h \in Handler, Archive(h)
  PROVE  PoolInv'
<1> DEFINE v == hs[h].view
           pc == IF HistoryPerApp > 0 THEN "trim" ELSE "commit"
           row(now) == [id |-> v.nextId, pair |-> hs[h].job.pair,
                        version |-> NewRow(h).version,
                        payload |-> NewRow(h).payload, at |-> now]
           d(now) == [v EXCEPT !.history = @ \cup {row(now)}, !.nextId = @ + 1]
<1>1. Sound(h, hs[h], db, lock) /\ hs[h].pc = "archive" /\ hs[h].job.op = "put"
  BY DEF PoolInv, Archive, Sound, OnItsJob
<1>2. Seen(h) = v /\ Typed(v) /\ Typed(db)
  BY <1>1, TypedTables DEF Sound, Isolated, Wrote, Seen, IsHandler, PoolInv
<1>3. PICK now \in Time : Write(h, d(now), pc)
  BY <1>2 DEF Archive
<1>4. Upserted(v, db, hs[h].job) /\ hs[h].seen = db.configs[hs[h].job.pair] /\ hs[h].seen \in Row
  BY <1>1 DEF Sound, Staged, IsHandler
<1>5. hs[h].job.pair \in Pair /\ hs[h].job.payload \in Payload
  BY <1>1, JobTyped DEF InTx, Writing
<1>6. row(now) = Archived(db, hs[h].job, now)
  BY <1>4 DEF Archived, NewRow, Upserted
<1>7. row(now) \in HistoryRow
  BY <1>2, <1>4, <1>5, PoolAssumption DEF HistoryRow, NewRow, Row, Typed
<1> HIDE DEF row
<1>8. /\ d(now).history = v.history \cup {row(now)} /\ d(now).nextId = v.nextId + 1
      /\ d(now).apps = v.apps /\ d(now).tokens = v.tokens
      /\ d(now).configs = v.configs /\ d(now).life = v.life
  BY <1>2 DEF Typed, Field
<1>9. Typed(d(now))
  BY <1>2, <1>7 DEF Typed, Field
<1> HIDE DEF d
<1>10. pc = "trim" => ArchivedIn(d(now), db, hs[h].job)
  BY <1>4, <1>6, <1>8 DEF ArchivedIn, Upserted, PutConfigs
<1>11. pc = "commit" => PutDone(d(now), db, hs[h].job)
  <2>1. v.history \cup {row(now)} =
          (db.history \ Tables(db)!HistoryOf(hs[h].job.pair)) \cup
            (Tables(db)!HistoryOf(hs[h].job.pair) \cup {row(now)})
    BY <1>4 DEF Upserted, Tables!HistoryOf
  <2>2. pc = "commit" => \A rows : Tables(db)!Trimmed(rows) = rows
    BY DEF Tables!Trimmed
  <2> QED BY <1>4, <1>6, <1>8, <2>1, <2>2 DEF PutDone, Upserted, PutConfigs
<1> DEFINE q == WroteAt(h, pc, d(now))
<1>12. q.pc = pc /\ q.job = hs[h].job /\ q.view = d(now) /\ q.seen = hs[h].seen
  BY WroteIs
<1> HIDE DEF q
<1>13. OnItsJob(q) /\ Staged(h, q, db)
  BY <1>1, <1>4, <1>10, <1>11, <1>12 DEF OnItsJob, Staged, Sound, InTx, Writing
<1> QED BY <1>3, <1>9, <1>13, WriteKeeps DEF Wrote, q

\* What is kept of some rows does not depend on the tables.
LEMMA TrimmedAlike ==
  ASSUME NEW v, NEW d, NEW rows
  PROVE  Tables(v)!Trimmed(rows) = Tables(d)!Trimmed(rows)
<1>1. \A g, h : Tables(v)!Newer(g, h) <=> Tables(d)!Newer(g, h)
  BY DEF Tables!Newer
<1>2. \A h : {g \in rows : Tables(v)!Newer(g, h)} = {g \in rows : Tables(d)!Newer(g, h)}
  BY <1>1
<1>3. Tables(v)!MostRecent(rows, HistoryPerApp) = Tables(d)!MostRecent(rows, HistoryPerApp)
  <2>1. \A S : Tables(v)!Cardinality(S) = Tables(d)!Cardinality(S)
    BY DEF Tables!Cardinality
  <2> QED BY <1>2, <2>1 DEF Tables!MostRecent
<1> QED BY <1>3 DEF Tables!Trimmed

LEMMA TrimKeeps ==
  ASSUME PoolInv, NEW h \in Handler, Trim(h)
  PROVE  PoolInv'
<1> DEFINE v == hs[h].view
           p == hs[h].job.pair
           kept == (v.history \ Tables(v)!HistoryOf(p)) \cup Tables(v)!Trimmed(Tables(v)!HistoryOf(p))
           d == [v EXCEPT !.history = kept]
<1>1. Sound(h, hs[h], db, lock) /\ hs[h].pc = "trim" /\ hs[h].job.op = "put"
  BY DEF PoolInv, Trim, Sound, OnItsJob
<1>2. Seen(h) = v /\ Typed(v) /\ Typed(db)
  BY <1>1, TypedTables DEF Sound, Isolated, Wrote, Seen, IsHandler, PoolInv
<1>3. Write(h, d, "commit")
  BY <1>2 DEF Trim, Typed
<1>4. ArchivedIn(v, db, hs[h].job)
  BY <1>1 DEF Sound, Staged
<1>5. PICK now \in Time : v.history = db.history \cup {Archived(db, hs[h].job, now)}
  BY <1>4 DEF ArchivedIn
<1> DEFINE row == Archived(db, hs[h].job, now)
<1>6. row.pair = p
  BY DEF Archived
<1> HIDE DEF row
<1>7. Tables(v)!HistoryOf(p) = Tables(db)!HistoryOf(p) \cup {row}
  BY <1>5, <1>6 DEF Tables!HistoryOf, row
<1>8. v.history \ Tables(v)!HistoryOf(p) = db.history \ Tables(db)!HistoryOf(p)
  BY <1>5, <1>6 DEF Tables!HistoryOf, row
<1>9. \A rows : Tables(v)!Trimmed(rows) = Tables(db)!Trimmed(rows)
  BY TrimmedAlike
<1>10. kept = (db.history \ Tables(db)!HistoryOf(p)) \cup
                Tables(db)!Trimmed(Tables(db)!HistoryOf(p) \cup {row})
  BY <1>7, <1>8, <1>9
<1>11. Tables(v)!Trimmed(Tables(v)!HistoryOf(p)) \subseteq Tables(v)!HistoryOf(p)
  BY DEF Tables!Trimmed, Tables!MostRecent
<1>12. kept \subseteq HistoryRow
  BY <1>2, <1>11 DEF Typed, Tables!HistoryOf
<1> HIDE DEF kept
<1>13. Typed(d)
  BY <1>2, <1>12, HistoryTyped DEF Typed
<1>14. /\ d.history = kept /\ d.nextId = v.nextId /\ d.apps = v.apps
       /\ d.tokens = v.tokens /\ d.configs = v.configs /\ d.life = v.life
  BY <1>2 DEF Typed, Field
<1> HIDE DEF d
<1>15. PutDone(d, db, hs[h].job)
  BY <1>4, <1>10, <1>14 DEF PutDone, ArchivedIn, PutConfigs, row
<1> DEFINE q == WroteAt(h, "commit", d)
<1>16. q.pc = "commit" /\ q.job = hs[h].job /\ q.view = d
  BY WroteIs
<1> HIDE DEF q
<1>17. OnItsJob(q) /\ Staged(h, q, db)
  BY <1>1, <1>15, <1>16 DEF OnItsJob, Staged, Sound, InTx, Writing
<1> QED BY <1>3, <1>13, <1>17, WriteKeeps DEF Wrote, q

LEMMA DeleteKeeps ==
  ASSUME PoolInv, NEW h \in Handler, Delete(h)
  PROVE  PoolInv'
<1> DEFINE d == WithoutTokens(Seen(h), hs[h].job.pair)
           q == WroteAt(h, "insert", d)
<1>1. Sound(h, hs[h], db, lock) /\ hs[h].pc = "delete" /\ hs[h].job.op = "token"
  BY DEF PoolInv, Delete, Sound, OnItsJob
<1>2. Write(h, d, "insert") /\ lock # h /\ hs[h].snap = "fresh"
  BY <1>1 DEF Delete, Sound, Isolated, Wrote, Outside, Write, CanWrite, IsHandler
<1>3. Seen(h) = db /\ hs[h].view = db /\ Typed(db)
  BY <1>1, <1>2, SeenIsCommitted, TypedTables DEF Sound, Isolated, PoolInv
<1>4. Typed(d)
  BY <1>3, TokensTyped DEF WithoutTokens, Typed
<1>5. Deleted(d, db, hs[h].job)
  BY <1>1, <1>3 DEF Deleted, WithoutTokens, Typed, Field, Sound, Checked
<1>6. q.pc = "insert" /\ q.job = hs[h].job /\ q.view = d
  BY WroteIs
<1> HIDE DEF q, d
<1>7. OnItsJob(q) /\ Staged(h, q, db)
  BY <1>1, <1>5, <1>6 DEF OnItsJob, Staged, Sound, InTx, Writing
<1> QED BY <1>2, <1>4, <1>7, WriteKeeps DEF Wrote, q

LEMMA InsertKeeps ==
  ASSUME PoolInv, NEW h \in Handler, Insert(h)
  PROVE  PoolInv'
<1> DEFINE v == hs[h].view
           row == [hash |-> h, pair |-> hs[h].job.pair, used |-> FALSE]
           d == [v EXCEPT !.tokens = v.tokens \cup {row}]
           q == WroteAt(h, "commit", d)
<1>1. Sound(h, hs[h], db, lock) /\ hs[h].pc = "insert" /\ hs[h].job.op = "token"
  BY DEF PoolInv, Insert, Sound, OnItsJob
<1>2. CASE hs[h].job.pair[2] \notin Seen(h).apps
  BY <1>2, ReturnKeeps DEF Insert, Status
<1>3. CASE hs[h].job.pair[2] \in Seen(h).apps
  <2>1. Seen(h) = v /\ Typed(v)
    BY <1>1, TypedTables DEF Sound, Isolated, Wrote, Seen, IsHandler
  <2>2. Write(h, d, "commit")
    BY <1>3, <2>1 DEF Insert, Typed
  <2>3. row \in TokenRow
    BY <1>1, JobTyped, PoolAssumption DEF TokenRow, InTx, Writing
  <2>4. Typed(d)
    BY <2>1, <2>3, TokensTyped DEF Typed
  <2>5. /\ d.tokens = v.tokens \cup {row} /\ d.apps = v.apps /\ d.configs = v.configs
        /\ d.history = v.history /\ d.nextId = v.nextId /\ d.life = v.life
    BY <2>1 DEF Typed, Field
  <2> HIDE DEF d
  <2>6. TokenDone(d, db, hs[h].job, h)
    BY <1>1, <1>3, <2>1, <2>5 DEF Sound, Staged, Deleted, TokenDone, HasApp
  <2>7. q.pc = "commit" /\ q.job = hs[h].job /\ q.view = d
    BY WroteIs
  <2> HIDE DEF q
  <2>8. OnItsJob(q) /\ Staged(h, q, db)
    BY <1>1, <2>6, <2>7 DEF OnItsJob, Staged, Sound, InTx, Writing
  <2> QED BY <2>2, <2>4, <2>8, WriteKeeps DEF Wrote, q
<1> QED BY <1>2, <1>3

LEMMA WipeConfigKeeps ==
  ASSUME PoolInv, NEW h \in Handler, WipeConfig(h)
  PROVE  PoolInv'
<1> DEFINE p == hs[h].job.pair
           n == IF db.configs[p] = NoRow THEN db.life[p] ELSE db.life[p] + 1
           d == [db EXCEPT !.configs[p] = NoRow, !.life[p] = n]
           q == WroteAt(h, "wipe_history", d)
<1>1. Sound(h, hs[h], db, lock) /\ hs[h].pc = "wipe_config" /\ hs[h].job.op = "wipe"
  BY DEF PoolInv, WipeConfig, Sound, OnItsJob
<1>2. lock # h /\ Seen(h) = db /\ Typed(db)
  BY <1>1, TypedTables DEF Sound, Isolated, Wrote, Outside, Seen, PoolInv
<1>3. p \in Pair
  BY <1>1, JobTyped DEF InTx, Writing
<1>4. [db EXCEPT !.configs[p] = NoRow,
                 !.life[p] = IF db.configs[p] = NoRow THEN @ ELSE @ + 1] = d
  BY <1>2, <1>3 DEF Typed, Field
<1>5. Write(h, d, "wipe_history")
  BY <1>2, <1>4 DEF WipeConfig
<1>6. n \in Nat
  BY <1>2, <1>3 DEF Typed
<1>7. Typed(d)
  BY <1>2, <1>3, <1>6, WipedTyped
<1>8. WipedOne(d, db, hs[h].job)
  BY <1>2, <1>3 DEF WipedOne, ConfigWiped, Typed, Field
<1>9. q.pc = "wipe_history" /\ q.job = hs[h].job /\ q.view = d
  BY WroteIs
<1> HIDE DEF q, d
<1>10. OnItsJob(q) /\ Staged(h, q, db)
  BY <1>1, <1>8, <1>9 DEF OnItsJob, Staged, Sound, InTx, Writing
<1> QED BY <1>5, <1>7, <1>10, WriteKeeps DEF Wrote, q

LEMMA WipeHistoryKeeps ==
  ASSUME PoolInv, NEW h \in Handler, WipeHistory(h)
  PROVE  PoolInv'
<1> DEFINE v == hs[h].view
           d == [v EXCEPT !.history = {x \in v.history : x.pair # hs[h].job.pair}]
           q == WroteAt(h, "wipe_token", d)
<1>1. Sound(h, hs[h], db, lock) /\ hs[h].pc = "wipe_history" /\ hs[h].job.op = "wipe"
  BY DEF PoolInv, WipeHistory, Sound, OnItsJob
<1>2. Seen(h) = v /\ Typed(v)
  BY <1>1, TypedTables DEF Sound, Isolated, Wrote, Seen, IsHandler
<1>3. Write(h, d, "wipe_token")
  BY <1>2 DEF WipeHistory, Typed
<1>4. Typed(d)
  BY <1>2, HistoryTyped DEF Typed
<1>5. /\ d.history = {x \in v.history : x.pair # hs[h].job.pair} /\ d.apps = v.apps
      /\ d.configs = v.configs /\ d.nextId = v.nextId /\ d.life = v.life
      /\ d.tokens = v.tokens
  BY <1>2 DEF Typed, Field
<1>6. WipedOne(v, db, hs[h].job)
  BY <1>1 DEF Sound, Staged
<1> HIDE DEF d
<1>7. WipedTwo(d, db, hs[h].job)
  BY <1>5, <1>6 DEF WipedOne, WipedTwo, ConfigWiped, HistoryWiped
<1>8. q.pc = "wipe_token" /\ q.job = hs[h].job /\ q.view = d
  BY WroteIs
<1> HIDE DEF q
<1>9. OnItsJob(q) /\ Staged(h, q, db)
  BY <1>1, <1>7, <1>8 DEF OnItsJob, Staged, Sound, InTx, Writing
<1> QED BY <1>3, <1>4, <1>9, WriteKeeps DEF Wrote, q

LEMMA WipeTokenKeeps ==
  ASSUME PoolInv, NEW h \in Handler, WipeToken(h)
  PROVE  PoolInv'
<1> DEFINE v == hs[h].view
           d == WithoutTokens(v, hs[h].job.pair)
           q == WroteAt(h, "commit", d)
<1>1. Sound(h, hs[h], db, lock) /\ hs[h].pc = "wipe_token" /\ hs[h].job.op = "wipe"
  BY DEF PoolInv, WipeToken, Sound, OnItsJob
<1>2. Seen(h) = v /\ Typed(v)
  BY <1>1, TypedTables DEF Sound, Isolated, Wrote, Seen, IsHandler
<1>3. Write(h, d, "commit")
  BY <1>2 DEF WipeToken
<1>4. Typed(d)
  BY <1>2, TokensTyped DEF WithoutTokens, Typed
<1>5. /\ d.tokens = {t \in v.tokens : t.pair # hs[h].job.pair} /\ d.apps = v.apps
      /\ d.configs = v.configs /\ d.nextId = v.nextId /\ d.life = v.life
      /\ d.history = v.history
  BY <1>2 DEF WithoutTokens, Typed, Field
<1> HIDE DEF d
<1>6. WipedTwo(v, db, hs[h].job)
  BY <1>1 DEF Sound, Staged
<1>7. WipeDone(d, db, hs[h].job)
  BY <1>5, <1>6 DEF WipedTwo, WipeDone, ConfigWiped, HistoryWiped
<1>8. q.pc = "commit" /\ q.job = hs[h].job /\ q.view = d
  BY WroteIs
<1> HIDE DEF q
<1>9. OnItsJob(q) /\ Staged(h, q, db)
  BY <1>1, <1>7, <1>8 DEF OnItsJob, Staged, Sound, InTx, Writing
<1> QED BY <1>3, <1>4, <1>9, WriteKeeps DEF Wrote, q

-----------------------------------------------------------------------------
(* Commits, and every step. *)

\* The step publishes nothing and answers nobody "ok".
Silent == db' = db /\ \A h \in Handler : hs[h].status # "ok" => hs'[h].status # "ok"

\* Or it publishes a whole transaction and answers its handler alone.
Commits(h) ==
  /\ Whole(h)
  /\ \A k \in Handler \ {h} : hs'[k].status = hs[k].status

LEMMA PublishAnswers ==
  ASSUME PoolInv, NEW h \in Handler, NEW d, Publish(h, d)
  PROVE  \A k \in Handler \ {h} : hs'[k].status = hs[k].status
BY DEF Publish, PoolInv, Sound, IsHandler

LEMMA CommitKeeps ==
  ASSUME PoolInv, NEW h \in Handler, Commit(h)
  PROVE  PoolInv' /\ Commits(h)
<1>1. Sound(h, hs[h], db, lock) /\ hs[h].pc = "commit" /\ Publish(h, hs[h].view)
  BY DEF PoolInv, Commit
<1>2. lock = h /\ Typed(hs[h].view) /\ Typed(db) /\ db' = hs[h].view
  BY <1>1, TypedTables DEF Sound, Isolated, Wrote, IsHandler, Publish, PoolInv
<1>3. PoolInv'
  BY <1>1, <1>2, PublishKeeps
<1>4. hs[h].job.op \in {"put", "token", "wipe"} /\ hs[h].job.pair \in Pair
  BY <1>1, JobTyped DEF Sound, OnItsJob, InTx
<1>5. CASE hs[h].job.op = "put"
  <2>1. PutDone(db', db, hs[h].job)
    BY <1>1, <1>2, <1>5 DEF Sound, Staged
  <2> QED BY <1>1, <1>3, <1>5, <2>1, PutIsWhole, PublishAnswers DEF Commits
<1>6. CASE hs[h].job.op = "token"
  <2>1. TokenDone(db', db, hs[h].job, h)
    BY <1>1, <1>2, <1>6 DEF Sound, Staged
  <2> QED BY <1>1, <1>3, <1>6, <2>1, TokenIsWhole, PublishAnswers DEF Commits
<1>7. CASE hs[h].job.op = "wipe"
  <2>1. WipeDone(db', db, hs[h].job)
    BY <1>1, <1>2, <1>7 DEF Sound, Staged
  <2> QED BY <1>1, <1>2, <1>3, <1>4, <1>7, <2>1, WipeIsWhole, PublishAnswers DEF Commits
<1> QED BY <1>4, <1>5, <1>6, <1>7

LEMMA StatementKeeps ==
  ASSUME PoolInv, NEW h \in Handler, Statement(h)
  PROVE  PoolInv' /\ Commits(h)
<1> DEFINE p == hs[h].job.pair
<1>1. hs[h].pc = "statement" /\ lock = NoHandler /\ Typed(db) /\ p \in Pair
  BY JobTyped, TypedTables DEF Statement, PoolInv, InTx
<1>2. CASE /\ hs[h].job.op = "revoke"
           /\ \E t \in Token : Publish(h, Revoked(db, p[1], PrefixOf[t]))
  <2>1. PICK t \in Token : Publish(h, Revoked(db, p[1], PrefixOf[t]))
    BY <1>2
  <2>2. Typed(Revoked(db, p[1], PrefixOf[t]))
    BY <1>1, TokensTyped DEF Revoked, Typed
  <2>3. db' = Revoked(db, p[1], PrefixOf[t])
    BY <2>1 DEF Publish
  <2>4. Whole(h)
    BY <1>1, <1>2, <2>3, RevokeIsWhole
  <2> QED BY <1>1, <2>1, <2>2, <2>4, PublishKeeps, PublishAnswers DEF Commits
<1>3. CASE hs[h].job.op = "drop" /\ Publish(h, Dropped(db, p[2]))
  <2>1. db' = Dropped(db, p[2]) /\ Typed(Dropped(db, p[2]))
    BY <1>1, <1>3, DroppedTyped DEF Publish
  <2>2. Whole(h)
    BY <1>1, <1>3, <2>1, DropIsWhole
  <2> QED BY <1>1, <1>3, <2>1, <2>2, PublishKeeps, PublishAnswers DEF Commits
<1> QED BY <1>2, <1>3 DEF Statement

LEMMA CrashKeeps ==
  ASSUME PoolInv, Crash
  PROVE  PoolInv' /\ Silent
<1>1. lock' = NoHandler /\ inUse' = {} /\ size' = size /\ db' = db
  BY DEF Crash
<1>2. Over("lost") = NoTx("done", "lost")
  BY DEF Over
<1>3. ASSUME NEW h \in Handler
      PROVE  Sound(h, hs[h], db, lock)'
  <2>1. lock' # h
    BY <1>1, PoolAssumption
  <2>2. CASE hs[h].pc \in InTx \cup {"begin"}
    <3>1. hs'[h] = NoTx("done", "lost")
      BY <1>2, <2>2 DEF Crash
    <3>2. Sound(h, NoTx("done", "lost"), db, lock')
      BY <2>1, IdleSound DEF Status
    <3> QED BY <1>1, <3>1, <3>2
  <2>3. CASE hs[h].pc = "done"
    <3>1. hs'[h] = hs[h] /\ Sound(h, hs[h], db, lock) /\ lock # h
      BY <2>3 DEF Crash, InTx, Writing, PoolInv, Sound, Isolated, Wrote
    <3> QED BY <1>1, <2>1, <3>1, KeptSound
  <2> QED BY <2>2, <2>3 DEF PoolInv, Sound, IsHandler
<1>4. Silent
  BY <1>1 DEF Crash, Silent, Over, NoTx
<1>5. IsTables(db)' /\ DOMAIN hs' = Handler
  BY <1>1 DEF Crash, PoolInv
<1> QED BY <1>1, <1>3, <1>4, <1>5 DEF PoolInv

LEMMA ReturnSilent ==
  ASSUME PoolInv, NEW h \in Handler, NEW status \in Status \ {"ok"}, Return(h, status)
  PROVE  Silent
BY DEF Return, Silent, Over, NoTx, PoolInv

LEMMA WriteSilent ==
  ASSUME PoolInv, NEW h \in Handler, NEW d, NEW pc, Write(h, d, pc)
  PROVE  Silent
BY DEF Write, Silent, PoolInv, Sound, IsHandler

\* The steps of a handler that do not commit.
Quiet(h) ==
  \/ Connect(h) \/ WriteRefused(h) \/ Fail(h)
  \/ Select(h) \/ Sum(h) \/ Reread(h) \/ Upsert(h) \/ Archive(h) \/ Trim(h)
  \/ Detect(h) \/ DetectFails(h) \/ Count(h) \/ Delete(h) \/ Insert(h)
  \/ WipeConfig(h) \/ WipeHistory(h) \/ WipeToken(h)

LEMMA StatementsSilent ==
  ASSUME PoolInv, NEW h \in Handler, Quiet(h)
  PROVE  Silent
<1> USE DEF Status
<1>1. CASE Connect(h) \/ Select(h) \/ Detect(h) \/ DetectFails(h)
  <2>1. DOMAIN hs = Handler /\ "status" \in DOMAIN hs[h]
    BY DEF PoolInv, Sound, IsHandler
  <2>2. CASE Connect(h)
    BY <2>1, <2>2 DEF Connect, Silent
  <2>3. CASE Select(h)
    BY <2>1, <2>3 DEF Select, Read, Silent
  <2>4. CASE Detect(h) \/ DetectFails(h)
    <3>1. PICK pc \in {"count", "delete"} : Read(h, [hs[h] EXCEPT !.pc = pc])
      BY <2>4 DEF Detect, DetectFails
    <3> QED BY <2>1, <3>1 DEF Read, Silent
  <2> QED BY <1>1, <2>2, <2>3, <2>4
<1>2. CASE WriteRefused(h) \/ Fail(h) \/ Reread(h)
  BY <1>2, ReturnSilent DEF WriteRefused, Fail, Reread
<1>3. CASE Sum(h) \/ Count(h)
  <2>1. CASE Return(h, "quota_exceeded") \/ Return(h, "token_limit")
    BY <2>1, ReturnSilent
  <2>2. CASE \E pc \in {"upsert", "reread", "delete"} : Read(h, [hs[h] EXCEPT !.pc = pc])
    BY <2>2 DEF Read, Silent, PoolInv, Sound, IsHandler
  <2> QED BY <1>3, <2>1, <2>2 DEF Sum, Count
<1>4. CASE Upsert(h) \/ Insert(h)
  BY <1>4, ReturnSilent, WriteSilent DEF Upsert, Insert
<1>5. CASE Archive(h)
  BY <1>5, WriteSilent DEF Archive
<1>6. CASE Trim(h) \/ Delete(h) \/ WipeConfig(h) \/ WipeHistory(h) \/ WipeToken(h)
  BY <1>6, WriteSilent DEF Trim, Delete, WipeConfig, WipeHistory, WipeToken
<1> QED BY <1>1, <1>2, <1>3, <1>4, <1>5, <1>6 DEF Quiet

LEMMA RefusedKeeps ==
  ASSUME PoolInv, NEW h \in Handler, WriteRefused(h) \/ Fail(h) \/ Reread(h)
  PROVE  PoolInv'
BY ReturnKeeps DEF WriteRefused, Fail, Reread, Status

LEMMA PoolInit ==
  ASSUME Init
  PROVE  PoolInv
<1>1. \A h \in Handler : Sound(h, hs[h], db, lock)
  BY IdleSound, PoolAssumption DEF Init, Status
<1> QED BY <1>1, EmptyTyped DEF Init, PoolInv

LEMMA PoolNext ==
  ASSUME PoolInv, [Next]_vars
  PROVE  PoolInv' /\ (Silent \/ \E h \in Handler : Commits(h))
<1>1. ASSUME NEW h \in Handler, Step(h) \/ DetectFails(h) \/ Fail(h)
      PROVE  PoolInv' /\ (Silent \/ Commits(h))
  <2>1. CASE Commit(h) \/ Statement(h)
    BY <2>1, CommitKeeps, StatementKeeps
  <2>2. CASE Quiet(h)
    <3>1. Silent
      BY <2>2, StatementsSilent
    <3>2. PoolInv'
      BY <2>2, RefusedKeeps, ConnectKeeps, SelectKeeps, SumKeeps, UpsertKeeps,
         ArchiveKeeps, TrimKeeps, DetectKeeps, CountKeeps, DeleteKeeps, InsertKeeps,
         WipeConfigKeeps, WipeHistoryKeeps, WipeTokenKeeps DEF Quiet
    <3> QED BY <3>1, <3>2
  <2> QED BY <1>1, <2>1, <2>2 DEF Step, Quiet
<1>2. CASE UNCHANGED vars
  <2>1. PoolInv'
    BY <1>2 DEF vars, PoolInv
  <2> QED BY <1>2, <2>1 DEF vars, Silent
<1> QED BY <1>1, <1>2, CrashKeeps DEF Next, Finished

-----------------------------------------------------------------------------
(* The theorems. *)

\* What a transaction has written is a beginning of it, on tables nobody
\* else changes meanwhile, in every reachable state.
THEOREM PoolInvariant == Spec => []PoolInv
<1>1. Init => PoolInv
  BY PoolInit
<1>2. PoolInv /\ [Next]_vars => PoolInv'
  BY PoolNext
<1> QED BY <1>1, <1>2, PTL DEF Spec

\* The handlers' state and the tables they commit are well typed.
THEOREM PoolTyping == Spec => []TypeOK
<1>1. PoolInv => TypeOK
  BY DEF PoolInv, Sound, TypeOK
<1> QED BY <1>1, PoolInvariant, PTL

\* The tables change by whole transactions, for a pool of any size.
THEOREM TransactionsAreAtomic == Spec => CommitsAreAtomic
<1>1. PoolInv /\ [Next]_vars => [db' = db \/ \E h \in Handler : Whole(h)]_vars
  BY PoolNext DEF Silent, Commits
<1> QED BY <1>1, PoolInvariant, PTL DEF Spec, CommitsAreAtomic

\* A handler that answers "ok" has committed the whole of its transaction in
\* that step.
THEOREM SuccessIsCommitted == Spec => OkMeansCommitted
<1>1. PoolInv /\ [Next]_vars =>
        [\A h \in Handler : hs[h].status # "ok" /\ hs'[h].status = "ok" => Whole(h)]_vars
  <2> SUFFICES ASSUME PoolInv, [Next]_vars, NEW h \in Handler,
                      hs[h].status # "ok", hs'[h].status = "ok"
               PROVE  Whole(h)
    OBVIOUS
  <2>1. ~Silent
    BY DEF Silent
  <2>2. PICK k \in Handler : Commits(k)
    BY <2>1, PoolNext
  <2> QED BY <2>2 DEF Commits
<1> QED BY <1>1, PoolInvariant, PTL DEF Spec, OkMeansCommitted
=============================================================================
