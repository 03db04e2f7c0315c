-------------------------------- MODULE SqlPool --------------------------------
(***************************************************************************)
(* The transactions of PutConfig, CreateAppToken and DeleteAppData,        *)
(* statement by statement, on a pool of SQLite connections; and, beside    *)
(* them, handlers of a single statement.  CfgStore has each of them as one *)
(* step: here that is to be shown, for the one connection the code opens   *)
(* (db.go:46) and for more, as me.go:56 asks for.                          *)
(*                                                                         *)
(* database/sql and SQLite are external.  A handler waits for a connection.*)
(* A transaction is deferred: its first read takes a snapshot; its first   *)
(* write takes the only write lock, fails at once if the snapshot is not   *)
(* the newest or, with a snapshot, if the lock is taken, and waits for the *)
(* lock only without a snapshot.  (WAL; the busy timeout does not apply to *)
(* a transaction that has read.)  Other connections see what is committed. *)
(***************************************************************************)
EXTENDS Integers, FiniteSets

CONSTANTS
  User, App, Token, Payload, NoPayload, Bytes, Chars, PrefixOf,
  UserStorageLimit, UserAppTokenLimit, HistoryPerApp, Time,  \* see CfgStore
  Handler,    \* requests, each served once; also the token a request draws
  NoHandler,
  PoolSizes,  \* values of SetMaxOpenConns to consider; the code has 1
  MaxVersion  \* bound: versions a PUT names

ASSUME PoolAssumption ==
  /\ Handler \subseteq Token
  /\ NoHandler \notin Handler
  /\ PoolSizes \subseteq Nat \ {0}
  /\ MaxVersion \in Nat /\ Time \subseteq Nat

VARIABLES
  size,   \* connections the pool may open
  inUse,  \* the handlers that have one
  db,     \* the committed database: the variables of CfgStore in a record
  lock,   \* the handler whose transaction holds the write lock
  hs      \* the handlers

vars == <<size, inUse, db, lock, hs>>

\* The tables as d has them.
Tables(d) == INSTANCE CfgStore WITH
  apps <- d.apps, tokens <- d.tokens, configs <- d.configs,
  history <- d.history, nextId <- d.nextId, life <- d.life

Pair == User \X App
NoRow == [version |-> 0, payload |-> NoPayload]
Row == [version : Nat, payload : Payload \cup {NoPayload}]
EmptyDb == [apps |-> App, tokens |-> {}, configs |-> [p \in Pair |-> NoRow],
            history |-> {}, nextId |-> 1, life |-> [p \in Pair |-> 0]]

\* (A forced PUT names a version, too: none is looked at.)
Put ==
  {q \in [op : {"put"}, pair : Pair, payload : Payload, version : 0..MaxVersion,
          force : BOOLEAN] : q.force => q.version = 0}
\* The last two are single statements outside a transaction.
Other == [op : {"token", "wipe", "revoke", "drop"}, pair : Pair]
NoJob == [op |-> "none"]

Writing == {"upsert", "archive", "trim", "delete", "insert",
            "wipe_config", "wipe_history", "wipe_token"}
InTx == Writing \cup {"select", "sum", "reread", "detect", "count", "statement", "commit"}
Status == {"none", "ok", "conflict", "quota_exceeded", "token_limit", "internal", "lost"}
IsTables(d) ==
  /\ DOMAIN d = {"apps", "tokens", "configs", "history", "nextId", "life"}
  /\ Tables(d)!StoreTypeOK
\* snap: whether the transaction has a snapshot, and whether it is the newest;
\* view: that snapshot with the transaction's own writes; seen: the row read.
IsHandler(q) ==
  /\ DOMAIN q = {"pc", "job", "snap", "view", "seen", "status"}
  /\ q.pc \in InTx \cup {"begin", "done"}
  /\ q.job \in Put \cup Other \cup {NoJob}
  /\ q.snap \in {"none", "fresh", "stale"}
  /\ IsTables(q.view)
  /\ q.seen \in Row
  /\ q.status \in Status

TypeOK ==
  /\ size \in PoolSizes
  /\ inUse \subseteq Handler
  /\ IsTables(db)
  /\ lock \in Handler \cup {NoHandler}
  /\ DOMAIN hs = Handler /\ \A h \in Handler : IsHandler(hs[h])

\* A handler with no transaction.
NoTx(pc, status) ==
  [pc |-> pc, job |-> NoJob, snap |-> "none", view |-> EmptyDb, seen |-> NoRow,
   status |-> status]
Init ==
  /\ size \in PoolSizes
  /\ inUse = {}
  /\ db = EmptyDb
  /\ lock = NoHandler
  /\ hs = [h \in Handler |-> NoTx("begin", "none")]

-----------------------------------------------------------------------------
(* database/sql and SQLite. *)

\* What a statement of handler h reads.
Seen(h) == IF hs[h].snap = "none" THEN db ELSE hs[h].view

\* A read; u is the handler after it.
Read(h, u) ==
  /\ hs' = [hs EXCEPT ![h] =
       [u EXCEPT !.snap = IF @ = "none" THEN "fresh" ELSE @, !.view = Seen(h)]]
  /\ UNCHANGED <<size, inUse, db, lock>>

CanWrite(h) == lock \in {NoHandler, h} /\ hs[h].snap # "stale"

\* A write that turns what h sees into d.
Write(h, d, next) ==
  /\ CanWrite(h)
  /\ lock' = h
  /\ hs' = [hs EXCEPT ![h].pc = next, ![h].snap = "fresh", ![h].view = d]
  /\ UNCHANGED <<size, inUse, db>>

Over(status) == NoTx("done", status)
Unlocked(h) == IF lock = h THEN NoHandler ELSE lock

\* The early return leaves the connection with the transaction.
BadReturn(h, status) ==
  /\ hs' = [hs EXCEPT ![h] = Over(status)]
  /\ lock' = Unlocked(h)
  /\ UNCHANGED <<size, inUse, db>>

\* The handler answers and returns; its deferred Rollback gives up what was
\* not committed and returns the connection.
Return(h, status) ==
  /\ hs' = [hs EXCEPT ![h] = Over(status)]
  /\ lock' = Unlocked(h) /\ inUse' = inUse \ {h}
  /\ UNCHANGED <<size, db>>

\* d is committed for h: the snapshots others have are no longer the newest.
Publish(h, d) ==
  /\ db' = d
  /\ hs' = [k \in Handler |->
       IF k = h THEN Over("ok")
       ELSE IF hs[k].snap = "fresh" THEN [hs[k] EXCEPT !.snap = "stale"] ELSE hs[k]]
  /\ lock' = Unlocked(h) /\ inUse' = inUse \ {h}
  /\ UNCHANGED size

\* The first statement after BeginTx, or the only one without.
First(op) ==
  CASE op = "put" -> "select" [] op = "token" -> "detect"
    [] op = "wipe" -> "wipe_config" [] OTHER -> "statement"

\* What the request asks for matters only once it has a connection.
Connect(h) ==
  /\ hs[h].pc = "begin" /\ Cardinality(inUse) < size
  /\ inUse' = inUse \cup {h}
  /\ \E job \in Put \cup Other :
       hs' = [hs EXCEPT ![h].pc = First(job.op), ![h].job = job]
  /\ UNCHANGED <<size, db, lock>>

\* SQLITE_BUSY, or SQLITE_BUSY_SNAPSHOT.
WriteRefused(h) ==
  /\ hs[h].pc \in Writing /\ hs[h].snap # "none" /\ ~CanWrite(h)
  /\ Return(h, "internal")

\* The answer is 200 although nothing was committed.
BadCommit(h) == hs[h].pc = "commit" /\ Return(h, "ok")

Commit(h) == hs[h].pc = "commit" /\ Publish(h, hs[h].view)

-----------------------------------------------------------------------------
(* PutConfig. *)

Select(h) ==
  /\ hs[h].pc = "select"
  /\ Read(h, [hs[h] EXCEPT !.pc = "sum", !.seen = Seen(h).configs[hs[h].job.pair]])

Total(h) ==
  LET q == hs[h].job IN
  Tables(Seen(h))!StoredChars(q.pair[1]) - Bytes[hs[h].seen.payload] + Bytes[q.payload]
Matches(h) == hs[h].job.force \/ hs[h].job.version = hs[h].seen.version

Sum(h) ==
  /\ hs[h].pc = "sum"
  /\ IF Total(h) > UserStorageLimit
     THEN Return(h, "quota_exceeded")
     ELSE Read(h, [hs[h] EXCEPT !.pc = IF Matches(h) THEN "upsert" ELSE "reread"])

\* writeConflict asks the pool for a connection.
BadReread(h) ==
  /\ hs[h].pc = "reread" /\ Cardinality(inUse) < size
  /\ Return(h, IF db.configs[hs[h].job.pair] = NoRow THEN "internal" ELSE "conflict")

Reread(h) ==
  /\ hs[h].pc = "reread"
  /\ Return(h, IF Seen(h).configs[hs[h].job.pair] = NoRow THEN "internal" ELSE "conflict")

NewRow(h) == [version |-> hs[h].seen.version + 1, payload |-> hs[h].job.payload]

\* The statement runs on the pool's database instead of the transaction.
BadUpsert(h) ==
  /\ hs[h].pc = "upsert" /\ CanWrite(h)
  /\ db' = [db EXCEPT !.configs[hs[h].job.pair] = NewRow(h)]
  /\ hs' = [hs EXCEPT ![h].pc = "archive"]
  /\ UNCHANGED <<size, inUse, lock>>

\* INSERT, if the app is registered, or UPDATE.
Upsert(h) ==
  LET p == hs[h].job.pair IN
  /\ hs[h].pc = "upsert"
  /\ IF hs[h].seen = NoRow /\ p[2] \notin Seen(h).apps
     THEN CanWrite(h) /\ Return(h, "internal")
     ELSE Write(h, [Seen(h) EXCEPT !.configs[p] = NewRow(h)], "archive")

Archive(h) ==
  LET d == Seen(h) IN
  /\ hs[h].pc = "archive"
  /\ \E now \in Time :
       Write(h, [d EXCEPT
                   !.history = @ \cup {[id |-> d.nextId, pair |-> hs[h].job.pair,
                                       version |-> NewRow(h).version,
                                       payload |-> NewRow(h).payload, at |-> now]},
                   !.nextId = @ + 1],
             IF HistoryPerApp > 0 THEN "trim" ELSE "commit")

Trim(h) ==
  LET d == Seen(h)
      p == hs[h].job.pair
  IN
  /\ hs[h].pc = "trim"
  /\ Write(h, [d EXCEPT !.history = (@ \ Tables(d)!HistoryOf(p))
                          \cup Tables(d)!Trimmed(Tables(d)!HistoryOf(p))],
           "commit")

-----------------------------------------------------------------------------
(* CreateAppToken, after its check of the app. *)

Detect(h) ==
  LET found == \E t \in Seen(h).tokens : t.pair = hs[h].job.pair IN
  /\ hs[h].pc = "detect"
  /\ Read(h, [hs[h] EXCEPT !.pc = IF found THEN "delete" ELSE "count"])

\* The error of this one statement is ignored: as if there were no token.
DetectFails(h) ==
  /\ hs[h].pc = "detect"
  /\ Read(h, [hs[h] EXCEPT !.pc = "count"])

Count(h) ==
  LET n == Cardinality(Tables(Seen(h))!TokensOf(hs[h].job.pair[1])) IN
  /\ hs[h].pc = "count"
  /\ IF n >= UserAppTokenLimit
     THEN Return(h, "token_limit")
     ELSE Read(h, [hs[h] EXCEPT !.pc = "delete"])

WithoutTokens(d, p) == [d EXCEPT !.tokens = {t \in @ : t.pair # p}]
Delete(h) ==
  /\ hs[h].pc = "delete"
  /\ Write(h, WithoutTokens(Seen(h), hs[h].job.pair), "insert")

\* The app is left out.
BadInsert(h) ==
  /\ hs[h].pc = "insert"
  /\ Write(h, [Seen(h) EXCEPT !.tokens = @ \cup
                 {[hash |-> h, pair |-> hs[h].job.pair[1], used |-> FALSE]}],
           "commit")

Insert(h) ==
  /\ hs[h].pc = "insert"
  /\ IF hs[h].job.pair[2] \notin Seen(h).apps
     THEN Return(h, "internal")
     ELSE Write(h, [Seen(h) EXCEPT !.tokens = @ \cup
                      {[hash |-> h, pair |-> hs[h].job.pair, used |-> FALSE]}],
                "commit")

-----------------------------------------------------------------------------
(* DeleteAppData, and handlers of one statement. *)

WipeConfig(h) ==
  LET p == hs[h].job.pair
      d == Seen(h)
  IN
  /\ hs[h].pc = "wipe_config"
  /\ Write(h, [d EXCEPT !.configs[p] = NoRow,
                        !.life[p] = IF d.configs[p] = NoRow THEN @ ELSE @ + 1],
           "wipe_history")

WipeHistory(h) ==
  /\ hs[h].pc = "wipe_history"
  /\ Write(h, [Seen(h) EXCEPT !.history = {x \in @ : x.pair # hs[h].job.pair}],
           "wipe_token")

WipeToken(h) ==
  /\ hs[h].pc = "wipe_token"
  /\ Write(h, WithoutTokens(Seen(h), hs[h].job.pair), "commit")

\* DELETE FROM app_tokens (DeleteAppToken), DELETE FROM apps (AdminDeleteApp).
Revoked(d, u, prefix) ==
  [d EXCEPT !.tokens = {t \in @ : ~(t.pair[1] = u /\ PrefixOf[t.hash] = prefix)}]
Dropped(d, a) ==
  [d EXCEPT !.apps = @ \ {a},
            !.tokens = {t \in @ : t.pair[2] # a},
            !.history = {x \in @ : x.pair[2] # a},
            !.configs = [p \in Pair |-> IF p[2] = a THEN NoRow ELSE @[p]],
            !.life = [p \in Pair |->
                        IF p[2] = a /\ d.configs[p] # NoRow THEN @[p] + 1 ELSE @[p]]]

Statement(h) ==
  LET p == hs[h].job.pair IN
  /\ hs[h].pc = "statement" /\ lock = NoHandler
  /\ \/ /\ hs[h].job.op = "revoke"
        /\ \E t \in Token : Publish(h, Revoked(db, p[1], PrefixOf[t]))
     \/ hs[h].job.op = "drop" /\ Publish(h, Dropped(db, p[2]))

-----------------------------------------------------------------------------
Step(h) ==
  \/ Connect(h) \/ WriteRefused(h) \/ Commit(h)
  \/ Select(h) \/ Sum(h) \/ Reread(h) \/ Upsert(h) \/ Archive(h) \/ Trim(h)
  \/ Detect(h) \/ Count(h) \/ Delete(h) \/ Insert(h)
  \/ WipeConfig(h) \/ WipeHistory(h) \/ WipeToken(h) \/ Statement(h)

\* A statement fails, the busy timeout ends, the client goes away (which
\* cancels a wait for a connection, too), or the handler panics.
Fail(h) ==
  /\ hs[h].pc \in InTx \cup {"begin"}
  /\ Return(h, "internal")

\* The process dies: what is not committed is gone (WAL).
Crash ==
  /\ hs' = [h \in Handler |->
       IF hs[h].pc \in InTx \cup {"begin"} THEN Over("lost") ELSE hs[h]]
  /\ lock' = NoHandler /\ inUse' = {}
  /\ UNCHANGED <<size, db>>

\* Every request has been served.
Finished == (\A h \in Handler : hs[h].pc = "done") /\ UNCHANGED vars

Next ==
  \/ \E h \in Handler : Step(h) \/ DetectFails(h) \/ Fail(h)
  \/ Crash
  \/ Finished

Spec == Init /\ [][Next]_vars

\* A handler with a connection, or with one to have, runs on.
FairSpec == Spec /\ \A h \in Handler : WF_vars(Step(h))

-----------------------------------------------------------------------------
(* What the transactions promise. *)

\* The checks of PutConfig and CreateAppToken, of the tables d.
MayPut(q, d) ==
  /\ q.force \/ q.version = d.configs[q.pair].version
  /\ ~(Tables(d)!TotalAfter(q.pair, q.payload) > UserStorageLimit)
MayDraw(q, d) ==
  \/ \E t \in d.tokens : t.pair = q.pair
  \/ ~(Cardinality(Tables(d)!TokensOf(q.pair[1])) >= UserAppTokenLimit)

\* The foreign key of a new row.
HasApp(p, d) == p[2] \in d.apps

\* What handler h does to the tables, as CfgStore has it, in one step.
Whole(h) ==
  LET q == hs[h].job IN
  \/ /\ q.op = "put" /\ MayPut(q, db)
     /\ db.configs[q.pair] # NoRow \/ HasApp(q.pair, db)
     /\ \E now \in Time : Tables(db)!WriteConfig(q.pair, q.payload, now)
  \/ /\ q.op = "token" /\ MayDraw(q, db) /\ HasApp(q.pair, db)
     /\ Tables(db)!ReplaceToken(q.pair, h)
  \/ q.op = "wipe" /\ Tables(db)!WipePair(q.pair)
  \/ q.op = "revoke" /\ \E t \in Token : Tables(db)!DeleteTokens(q.pair[1], PrefixOf[t])
  \/ q.op = "drop" /\ Tables(db)!DeleteApp(q.pair[2])

\* The committed tables change by one whole transaction at a time, with its
\* checks and foreign keys true of the tables it changes, whatever fails or crashes between
\* its statements, and for a pool of more connections too (me.go:56 "even if
\* SetMaxOpenConns is raised").
CommitsAreAtomic == [][db' = db \/ \E h \in Handler : Whole(h)]_vars

\* A handler answers success in the step that commits all of its changes, and
\* nobody else's.
OkMeansCommitted ==
  [][\A h \in Handler : hs[h].status # "ok" /\ hs'[h].status = "ok" => Whole(h)]_vars

\* Every request is answered: nobody waits for ever for a connection or for
\* the write lock, whichever way others return (sync.go:188).
EveryHandlerReturns ==
  \A h \in Handler : hs[h].pc = "begin" ~> hs[h].pc = "done"
=============================================================================
