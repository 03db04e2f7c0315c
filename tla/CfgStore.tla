------------------------------- MODULE CfgStore -------------------------------
(***************************************************************************)
(* The tables of internal/db/schema.sql that the sync path reads and       *)
(* writes, and the effect on them of each statement or transaction the     *)
(* handlers run.  The server opens SQLite with a single connection         *)
(* (db.go:46), so a statement outside a transaction, and a transaction as  *)
(* a whole, takes effect in one step: every operator below is one of them. *)
(* The users table is not here: no operation ever deletes a user.          *)
(***************************************************************************)
EXTENDS Integers, FiniteSets, FiniteSetsExt

CONSTANTS
  User,               \* users.id
  App,                \* app_ids an administrator may register
  Token,              \* app tokens, one value for the plaintext and its hash
  Payload,            \* payloads a client may store
  NoPayload,          \* the "" a GET returns for a pair without a row
  Bytes,              \* len(payload): UTF-8 bytes, what Go counts
  Chars,              \* LENGTH(payload): characters, what SQLite counts
  PrefixOf,           \* token_prefix, the first 12 characters of the plaintext
  UserStorageLimit,   \* USER_STORAGE_LIMIT_MB, in bytes
  UserAppTokenLimit,  \* USER_APP_TOKEN_LIMIT
  HistoryPerApp,      \* HISTORY_PER_APP; 0 or less keeps everything
  Time                \* values of time.Now().Unix()

ASSUME StoreAssumption ==
  /\ NoPayload \notin Payload
  /\ Bytes \in [Payload \cup {NoPayload} -> Nat]
  /\ Chars \in [Payload \cup {NoPayload} -> Nat]
  /\ Bytes[NoPayload] = 0 /\ Chars[NoPayload] = 0
  /\ UserStorageLimit \in Int /\ UserAppTokenLimit \in Int
  /\ HistoryPerApp \in Int
  /\ Time \subseteq Nat

VARIABLES
  apps,     \* apps: the registered app_ids
  tokens,   \* app_tokens: rows [hash, pair, used]
  configs,  \* configs: the row of each (user, app), or Absent
  history,  \* config_history: rows [id, pair, version, payload, at]
  nextId,   \* the next AUTOINCREMENT id of config_history
  life      \* ghost: how many times the pair's row has been deleted

storeVars == <<apps, tokens, configs, history, nextId, life>>

Pair == User \X App
Absent == [version |-> 0, payload |-> NoPayload]
ConfigRow == [version : Nat, payload : Payload \cup {NoPayload}]
TokenRow == [hash : Token, pair : Pair, used : BOOLEAN]
HistoryRow ==
  [id : Nat, pair : Pair, version : Nat, payload : Payload, at : Nat]

StoreTypeOK ==
  /\ apps \subseteq App
  /\ tokens \subseteq TokenRow
  /\ configs \in [Pair -> ConfigRow]
  /\ history \subseteq HistoryRow
  /\ nextId \in Nat
  /\ life \in [Pair -> Nat]

StoreInit ==
  /\ apps = {} /\ tokens = {} /\ history = {}
  /\ configs = [p \in Pair |-> Absent]
  /\ nextId = 1
  /\ life = [p \in Pair |-> 0]

-----------------------------------------------------------------------------
(* What the handlers read. *)

TokensOf(u) == {t \in tokens : t.pair[1] = u}
HistoryOf(p) == {h \in history : h.pair = p}

\* FROM configs WHERE user_id = u
RowsOf(u) == {a \in App : configs[<<u, a>>] # Absent}

\* SELECT COALESCE(SUM(LENGTH(payload)), 0) FROM configs WHERE user_id = u
StoredChars(u) ==
  SumFunctionOnSet([a \in App |-> Chars[configs[<<u, a>>].payload]], RowsOf(u))

\* The total PutConfig compares with the limit: the old row is subtracted,
\* and the new payload added, with Go's byte length.
TotalAfter(p, payload) ==
  StoredChars(p[1]) - Bytes[configs[p].payload] + Bytes[payload]

-----------------------------------------------------------------------------
(* What the handlers write. *)

\* Operators named Bad... are deviations a bug could introduce; no action
\* uses them.  Each shows that some property notices the deviation.

\* Without the second sort key.
BadNewer(g, h) == g.at > h.at

\* ORDER BY created_at DESC, id DESC
Newer(g, h) == g.at > h.at \/ (g.at = h.at /\ g.id > h.id)

\* ... LIMIT n
MostRecent(rows, n) ==
  {h \in rows : Cardinality({g \in rows : Newer(g, h)}) < n}
Trimmed(rows) ==
  IF HistoryPerApp > 0 THEN MostRecent(rows, HistoryPerApp) ELSE rows

\* The UPDATE keeps the version.
BadWriteConfig(p, payload, now) ==
  LET version == IF configs[p] = Absent THEN 1 ELSE configs[p].version
  IN  /\ configs' = [configs EXCEPT ![p] =
                       [version |-> version, payload |-> payload]]
      /\ history' = history \cup
           {[id |-> nextId, pair |-> p, version |-> version,
             payload |-> payload, at |-> now]}
      /\ nextId' = nextId + 1
      /\ UNCHANGED <<apps, tokens, life>>

\* The trim without AND app_id = ? in the outer WHERE.
BadTrimUser(p, payload, now) ==
  LET version == configs[p].version + 1
      row == [id |-> nextId, pair |-> p, version |-> version,
              payload |-> payload, at |-> now]
  IN  /\ configs' = [configs EXCEPT ![p] =
                       [version |-> version, payload |-> payload]]
      /\ history' = {h \in history : h.pair[1] # p[1]}
                      \cup Trimmed(HistoryOf(p) \cup {row})
      /\ nextId' = nextId + 1
      /\ UNCHANGED <<apps, tokens, life>>

\* The writes of PutConfig's transaction: INSERT at version 1 or UPDATE to
\* version + 1, INSERT INTO config_history, trim.
WriteConfig(p, payload, now) ==
  LET version == configs[p].version + 1
      row == [id |-> nextId, pair |-> p, version |-> version,
              payload |-> payload, at |-> now]
  IN  /\ configs' = [configs EXCEPT ![p] =
                       [version |-> version, payload |-> payload]]
      /\ history' = (history \ HistoryOf(p)) \cup Trimmed(HistoryOf(p) \cup {row})
      /\ nextId' = nextId + 1
      /\ UNCHANGED <<apps, tokens, life>>

\* Rows of configs, config_history and app_tokens disappear for the pairs ps.
DeleteRows(ps) ==
  /\ configs' = [p \in Pair |-> IF p \in ps THEN Absent ELSE configs[p]]
  /\ history' = {h \in history : h.pair \notin ps}
  /\ tokens' = {t \in tokens : t.pair \notin ps}
  /\ life' = [p \in Pair |->
               IF p \in ps /\ configs[p] # Absent THEN life[p] + 1 ELSE life[p]]
  /\ UNCHANGED nextId

\* Without the third DELETE.
BadWipeKeepsToken(p) ==
  /\ configs' = [configs EXCEPT ![p] = Absent]
  /\ history' = history \ HistoryOf(p)
  /\ UNCHANGED <<apps, tokens, nextId, life>>

\* DeleteAppData's transaction.
WipePair(p) == DeleteRows({p}) /\ UNCHANGED apps

\* INSERT INTO apps
InsertApp(a) ==
  /\ apps' = apps \cup {a}
  /\ UNCHANGED <<tokens, configs, history, nextId, life>>

\* PRAGMA foreign_keys off.
BadDeleteApp(a) ==
  apps' = apps \ {a} /\ UNCHANGED <<tokens, configs, history, nextId, life>>

\* DELETE FROM apps; ON DELETE CASCADE empties the three dependent tables.
DeleteApp(a) == apps' = apps \ {a} /\ DeleteRows(User \X {a})

\* Without the DELETE.
BadReplaceToken(p, h) ==
  /\ tokens' = tokens \cup {[hash |-> h, pair |-> p, used |-> FALSE]}
  /\ UNCHANGED <<apps, configs, history, nextId, life>>

\* CreateAppToken's DELETE and INSERT.
ReplaceToken(p, h) ==
  /\ tokens' = {t \in tokens : t.pair # p}
                 \cup {[hash |-> h, pair |-> p, used |-> FALSE]}
  /\ UNCHANGED <<apps, configs, history, nextId, life>>

\* DELETE FROM app_tokens WHERE user_id = u AND token_prefix = prefix
DeleteTokens(u, prefix) ==
  /\ tokens' = {t \in tokens : ~(t.pair[1] = u /\ PrefixOf[t.hash] = prefix)}
  /\ UNCHANGED <<apps, configs, history, nextId, life>>

\* An upsert: a token deleted meanwhile comes back without its pair.
BadTouchToken(h) ==
  /\ tokens' = {t \in tokens : t.hash # h}
                 \cup {[hash |-> h, pair |-> <<>>, used |-> TRUE]}
  /\ UNCHANGED <<apps, configs, history, nextId, life>>

\* UPDATE app_tokens SET last_used_at; `used` stands for last_used_at # NULL.
TouchToken(h) ==
  /\ tokens' = {IF t.hash = h THEN [t EXCEPT !.used = TRUE] ELSE t : t \in tokens}
  /\ UNCHANGED <<apps, configs, history, nextId, life>>
=============================================================================
