# cfgsync in TLA+

cfgsync is a small HTTP server that stores one configuration per user and
registered app, gives it a version number, refuses writes based on a stale
version, and keeps a bounded history. These modules model its behaviour between
database statements, check it with TLC on small instances and prove the most
important properties with TLAPS for every instance. Paths are relative to the
repository (`src/...`).

## The system

One Go process serves HTTP. Every request runs in a goroutine of `net/http`, and
all requests share one SQLite database opened with **one** connection
(`internal/db/db.go`, `SetMaxOpenConns(1)`). A statement outside a transaction is
atomic, a transaction holds the connection from `BeginTx` to `Commit`, and
between two statements of a handler any other handler may run. That is the
granularity of the modules here; `SqlPool` looks inside a transaction, `Startup`
at the steps of `main`, and `WebClient` at the tasks of the browser's event loop and, inside
a task, at the accesses to localStorage.

| component | state | operations | talks to |
|---|---|---|---|
| **Sync API** `handler/sync.go`, `auth/middleware.go` (AppTokenMW) | `configs`, `config_history`, `app_tokens.last_used_at` | GET and PUT `/sync/apps/{app_id}/config` | the tables; devices (clients) |
| **User self-service** `handler/me.go` | `app_tokens`, deletes `configs`, `config_history` | create / list / revoke an app token, wipe an app's data, quota | the tables |
| **App administration** `handler/admin.go`, `handler/apps.go` | `apps`, `users.is_admin` | create, list, get, patch, delete an app; promote; list users | cascades into the three per-app tables |
| **Sessions** `handler/auth.go`, `auth/*.go` | `users`, `refresh_tokens`, JWTs in the client's hands | register, login, refresh, logout; UserMW, AdminMW | the tables, the clock |
| **Database** `db/schema.sql`, `db/db.go` | the tables, keys and cascades | Open, Migrate, BootstrapAdmin | the file system |
| **Startup and configuration** `cmd/server/main.go`, `config/*.go` | the environment, `cfgsync.env`, the database file | GenerateDefaultConfig, LoadDotEnv, Load, migrate, bootstrap, serve, shut down | operator, crash and restart |
| **WebUI client** `webui/dist/assets/app.js` | signals per tab, `localStorage` shared by the tabs | login, call with refresh and one retry, logout | the HTTP API |
| **Routing and middleware** `server/server.go`, `webui/webui.go`, `handler/health.go`, `handler/errors.go` | none | static routes, logging, panic recovery, static files | – |
| **Scripts** `scripts/*`, `deploy/*` | files | install, back up | the operator |

### What is hard, and what correctness means

* *Sync API.* Two devices write the same version; a device times out and retries
  a write that was committed; an answer arrives late; the token is revoked or the
  data wiped after a request authenticated; an app is deleted under a write.
  Correct means: optimistic locking loses no update, a version names one
  payload, one write wins per version, devices never go back, a revoked token
  does nothing, no row outlives its app, limits hold, history is the newest
  writes, and the whole behaves as an atomic versioned register.
* *Self-service.* Two token requests at the limit; a revocation that matches
  more than one token. Correct means: at most one token per app, at most the
  limit per user, and live tokens are exactly the rows.
* *Administration.* Check, update and re-read of a patch are three statements; an
  app may go in between. Correct means: a patch leaves alone what it does not name, its answer says what happened, and
  reading the list page by page finds the apps that are there.
* *Sessions.* Refresh is three statements without a transaction; a failing
  statement leaves it half done; refresh races logout. Correct means: a revoked
  session stays closed and a refresh token is exchanged once.
* *Transactions.* A failure, a panic, a cancelled request or a crash between two
  statements; early returns that must give the only connection back; checks that
  are to hold with more connections, too. Correct means: the tables change by whole
  transactions, success is answered with the commit, and everyone returns.
* *Startup.* A crash while the environment file is written; a database that
  outlives it; an environment that says something else. Correct means: restarts sign
  with the same secret, the logged password opens the administrator, and a server that was
  given an account has it.
* *WebUI.* Two tabs refresh at once, or store the two tokens of a pair at once; an answer arrives after a logout or another
  login; a retry after a refresh; logout. Correct means: what is kept is one user's
  pair of tokens and the newest there is, a spent token is not presented again, and
  logging out ends the session.

`PROJECT.json` lists each hazard at its line with the properties aimed at it.

## Modules

    CfgStore         the tables, and each statement or transaction on them
      SyncServer     requests, devices, the user's and administrator's operations
        SyncProperties   what is promised
          SyncRefinement   SyncServer implements ConfigRegister
            MCSync           constants and symmetry for TLC
          SyncInvariant    the inductive invariant
            SyncProofs       theorems: types, cascades, tokens and their limit
              SyncLocking      theorems: locking, isolation of pairs
                SyncContents     theorems: history, the register, the storage limit
    ConfigRegister   abstract specification: a versioned register per (user, app)

    SqlPool          the transactions, statement by statement, on a pool of connections;
                     each commit is a step of CfgStore (INSTANCE, the tables substituted)
      SqlPoolProofs    its theorems
      MCPool           constants for TLC

    Sessions         accounts, refresh tokens, access tokens; bootstrap and restart
      SessionsProofs   its theorems
      MCSessions       symmetry for TLC
      WebClient        the tabs of a browser, composed with Sessions
        WebProofs        its theorems, and that it implements Sessions
        MCWeb            symmetry for TLC

    AppRegistry      the rows of apps: create, patch, delete, a client reading pages
      RegistryProofs   its theorems
      MCRegistry       symmetry for TLC

    Startup          main, cfgsync.env, environment and database over many starts
      StartupProofs    its theorems
      MCStartup        constants for TLC

`SyncContents` also extends `SyncRefinement`.

**CfgStore** holds the tables as sets of rows (`tokens`, `history`) or a function
(`configs`, by user and app; `Absent` when there is no row). An operator is one
statement or one transaction: `WriteConfig` is everything PutConfig's transaction
writes (row, history row, trim), `DeleteApp` is `DELETE FROM apps` with its
cascades, `WipePair` is the transaction of DeleteAppData. Payloads are model
values with two lengths, `Bytes` (Go's `len`) and `Chars` (SQLite's `LENGTH`),
because the quota mixes them. `life` is a ghost that counts the deletions of a
pair's row: after a deletion versions start at 1 again.

**SyncServer** gives each request a program counter: `auth` (SELECT of the token),
`touch` (UPDATE of `last_used_at`), `handle` (GetConfig's SELECT or PutConfig's
transaction, with its early returns in the order of the code), `check` and `mint`
(CreateAppToken's SELECT and transaction) and `reply`. PutConfig is one step
because its transaction holds the only connection: `PutRejectBody`,
`PutOverQuota`, `PutConflict`, `PutForeignKey` and `PutCommit` are its outcomes.
`DbError` is a failing statement (rolled back, 500; ignored at `touch`, as
AppTokenMW does); `Cancel` is the request context of a client that went away;
`Crash` loses the requests and keeps the tables. DeleteAppToken, DeleteAppData,
AdminCreateApp and AdminDeleteApp are authenticated by a JWT, which reads no table,
and run one statement or transaction: one action each. Devices are external: a
device keeps the snapshot it last received, sends it as the version of its next
write, may force, may give up waiting and retry. Ghosts: `fate` (what became of a
token), `sent` and `revoked` in a request, `life`.

**ConfigRegister** is what a client may rely on: a call is invoked, takes effect at
one instant or is refused, and is answered; an unforced write succeeds only on the
version it names; the newest `Window` writes are remembered; keys are emptied by
the unit. **SyncRefinement** maps requests to calls (`CallOf`), rows to registers
and history rows to remembered writes, and states `ImplementsRegister`.

**Sessions** is about the other tables, `users` (a function from email to account) and
`refresh_tokens` (`rows`), and about what clients hold: `held` refresh tokens and
`jwts`, access tokens that no table knows. The handlers of `auth.go` use no
transaction, so each statement is a step: `insert` then `issue` for Register,
`lookup` then `issue` for Login, `find`, `revoke`, `issue` for Refresh, `auth` (UserMW,
and AdminMW for the promotion) then `close` or `promote`. `DbError` fails any statement and
keeps what the earlier ones wrote, `Abandon` is a client that went away, `Stop` loses the
requests and `Start` runs BootstrapAdmin, with the environment naming an account or
not. Passwords are model values of three kinds, by the two checks of Register (8
bytes; bcrypt's 72); bootstrap makes only the second. Ghosts: `from` (the token
exchanged for this one), `stale` and `wasAdmin` (facts at the moment a request was sent).
It is not composed with `SyncServer`: the two share no table but `users.id`, whose rows
are never deleted, and a JWT only names the user. When the refresh token is stored the
JWT has just been signed, and both read one value of the clock here.

**AppRegistry** is about the contents of `apps`, which `SyncServer` knows only as a set.
`PatchCheck` (or `PatchRefuse`), `PatchUpdate` and `PatchReread` are the three
statements of AdminPatchApp; `DbError` fails any of them and keeps an update made
before it. `ReadPage` is ListApps and AdminListApps, which page alike, as called by a client
that asks for the next rows under any limit of `Limits` until a page is not full. `PageSize` is
the limit in force: a limit of 0 or above `MaxLimit` (100 in the code) becomes `DefaultLimit` (20), and
the client goes by the limit that the answer reports. An equal `created_at` is
resolved by rowid, the largest plus one for a new row. Ghosts: `overtaken` (since the patch
was sent its app was deleted, or patched by another), `unseen` (apps registered during the whole walk and on none of its
pages) and `deletes`.

**SqlPool** has the transactions of PutConfig, CreateAppToken (after its check of the app)
and DeleteAppData statement by statement, and beside them handlers of one statement
(DeleteAppToken, AdminDeleteApp). `db` is the committed database, one record with the
variables of `CfgStore`; `inUse` are the handlers with a connection, at most `size` (the code
has 1, `PoolSizes` may have more, because `me.go:56` argues about that); `lock` is SQLite's
write lock. A handler's `view` is its snapshot with its own writes. `Read`, `Write`,
`CanWrite`, `WriteRefused` and `Publish` say what SQLite and `database/sql` do
with a deferred transaction under WAL (external): the first read takes the snapshot, a
write on a snapshot that is not the newest fails. `Return` is an early return with its
deferred Rollback, `Fail` a failing statement, a cancelled context or a panic that
`recoverMW` turns into a 500, and `Crash` the end of the process. `CommitsAreAtomic` says that every
change of `db` is `Whole(h)`: the operator of `CfgStore` that `SyncServer` uses as one
step, with the checks and the foreign keys that guard it there true at that moment.

**WebClient** extends `Sessions` with the tabs of one browser. A step is a JavaScript task:
what the code does from one `await` to the next. A task runs to its end before its tab starts
another, but localStorage has no lock between tabs, and the pair of tokens is two of its keys: a task that
stores, clears or loads the pair takes a step for each (`BeginStore` or `BeginLoad`, then
`FinishTask`), and until the second only other tabs may step (`Busy`). `storage` is localStorage, read only
when a tab loads (`Reload`); `tabs` has the two signals of each tab, the form it submitted and its half-done task;
`calls` are invocations of `call()` that need a session, with the header they built at
their start. `refreshInFlight` is the request that waiting calls share (`RefreshInFlight`).
`OpenExpired` is App's effect on a page opened with an expired token, `Relogin` the
link in ErrorBox. The server is that of `Sessions`, steps included; a tab's requests are
`PresentRefresh`, `PresentLogout`, `SendRegister` and `SendLogin`, and a request whose tab no longer
waits may be dropped (`Discard`). A fetch may reject at any time, so a server
that stops shows as `DbError`, `Discard` and failing fetches. A tab is not killed inside a task. Ghosts: `got`
(the tab each refresh token was delivered to) and `torn` (a tab came to localStorage while another was
between its two accesses; from then on the code promises nothing about pairs, see Remarks).

**Startup** is one server started again and again. `Stat`, `Create`, `Write`, `Log` are the
first run (`GenerateDefaultConfig` writes with `os.WriteFile`, so a file can be empty or torn:
`Torn`), `Load` is `config.Load` with `LoadDotEnv` (a variable of the environment wins, also
an empty one; of several lines the first), `Migrate`, `Lookup` and `Insert` are the database's part, `Listen`
the server. `Die` ends the process at any step. The operator (external) edits or deletes
the file, changes the environment, deletes the database. Of the settings only the three that
decide who can get in are kept. Ghosts: `signed` and `logged`, the secret in use and the
password logged, both forgotten when the operator changes what they rest on.

Operators called `Bad...` are deviations a plausible bug would introduce. No
action uses them. Each is put in the place of the original to see that a property
notices, as `PROJECT.json` lists under `mutants`.

## Runs

| run | question | instance |
|---|---|---|
| `race` | Is locking right when devices race, time out and retry while the token is replaced, revoked and the data wiped? | 2 devices of one pair, 2 requests at once, 2 payloads, 2 tokens, 3 PUTs, 1 deletion |
| `tables` | Do the tables stay consistent and within limits, pairs isolated, and is every write in the history? | 2 apps of one user, token limit 1, a quota of 2 with payloads of 1 and 2, history of 2, app deletion |
| `answers` | Is every request answered, does a failed write leave the history, the newest write, alone, and does the service implement the atomic register? | 2 requests at once of a device that gives up and retries, one payload per reason to refuse a PUT's body, 2 PUTs, history (and window) of 1, deletions, failing statements, restarts, a clock that advances |
| `sessions` | Do sessions close, roles propagate and accounts stay? | 2 accounts (one the bootstrap's), 2 refresh tokens, 2 requests at once, 3 passwords, clock of 2 values with tokens that expire |
| `registry` | Does a client that pages through the registry find the apps that stay, and is an acknowledged patch in its row? | 3 apps, pages of 1 and 2, a limit too large, a clock of 2 values that moves both ways, 1 deletion during a walk, rowids up to 4, 1 patch at a time |
| `web` | Does a browser keep the newest tokens, and present no spent one, however tasks of its tabs overlap? | 2 tabs, 2 calls, 1 account, 3 refresh tokens, 1 submission, 2 requests at once, tokens that expire |
| `users` | Are the two tokens a browser keeps one user's? | 2 accounts, 2 tabs, 1 call, 3 refresh tokens, 2 submissions, 2 requests at once, access tokens that are expired at once |
| `pool` | Are transactions atomic, is success committed, does everyone return? | 3 handlers of any kind on 1 or 2 connections, 2 apps of one user, limits of 1 |
| `startup` | Do restarts keep the secret and the administrator? | 2 first runs, 4 environments, 1 edit of the file, torn files, a directory that may be read-only |
| `exchange` `logout` `managed` | one statement of a document each, violated (see Findings) | the smallest instance that shows it |

The numbers are enough for what they are asked. A lost update, a double
acknowledgement or an ABA needs two writers (or one and its retry), one deletion
and two payloads; the token limit needs two requests at limit minus one; the
quota needs two apps; a double exchange needs one refresh token and
two requests, a stale one a token and its successor; the trim needs more writes
than the window, in one second or two (`answers`); a page skips a row when one app of three is
deleted between two pages; two refreshes with one token need two tabs (or two calls), a
successor and the successor's; a stale snapshot needs two connections and a third
handler finds the pool exhausted; a database that outlives its file needs
two first runs. In `users` the two submissions log in two users, or one of them twice, from one tab or two; an
access token that is expired at once makes every call refresh, and `CONSTRAINT NotTorn` drops the states after
two tabs used localStorage at once, in which `PairsMatch` says nothing: `torn` is never reset. In `web`
such states stay, and `VIEW WithoutTorn` does not tell them apart from the others: no guard and no property of that
run looks at `torn`. For the properties with a theorem the bound does not matter, since the proof
covers every value of the constants and no bound on requests or deletions.
`MaxPuts`, `MaxDeletes` and the number of tokens are the bounds of the state space;
they appear in the guards of `SendPut`, `Deletion` and `SendCreateToken`. In `Sessions` it is
the set of refresh tokens: when all are drawn (`Fresh`) a request waits at `issue` until
it fails or is dropped. In `AppRegistry`: `MaxRowid`, in AdminCreateApp's guard,
`MaxDeletes`, in AdminDeleteApp's, and `NewText`, the texts an app is created with. In `WebClient`: `MaxLogins`, in Submit's, and
`RoomToDraw`, by which a call or submission starts only while there are refresh tokens
left to draw; in `SqlPool` each handler serves one request, and `MaxVersion` bounds the version a
PUT names; in `Startup` it is `Draws`, one pair for each first run.

Every run but `answers` and `pool` checks safety, so `Spec` without fairness. `answers` uses
`FairSpec`: weak fairness of `Serve(r)` for every request; `pool` uses weak fairness of
`Step(h)` for every handler. `net/http` runs a
handler's goroutine until it returns and the Go scheduler starves no runnable
goroutine; a handler waits only for the connection, which the transaction in
progress gives back. Nothing is assumed of clients, the administrator, the clock or
failures. The property says that a request does not stay in service forever; it
would fail if a handler asked the pool for a second connection inside its own
transaction (the deviations `BadPutConflict` and `BadReread`) or kept the connection on
an early return (`BadReturn`). In `pool` weak fairness is enough even though handlers compete for
a connection: each has one request to serve, so the others run out. (With an endless
stream of requests it rests on `database/sql`, which hands a returned connection to one of
those that wait, chosen at random.)

Deadlock is checked in every run: a client can always send a request or give up, an operator
can always start the server; in `pool` it ends when all requests are served (`Finished`), so there a
deadlock would be handlers that wait for each other.

## Findings

Each is a run that TLC must find violated, with its lines in `PROJECT.json`.

1. `exchange`: Refresh checks a token in one statement and revokes it
   unconditionally in a later one, so two requests with one token both get a new pair.
2. `logout`: the WebUI's logout sends no access token to a route behind UserMW and ignores
   the 401, so the session it forgets stays valid until it expires; the settings page
   says it ends at once.
3. `managed`: `main` generates cfgsync.env whenever it is absent, even if the
   environment has everything, and gives up when it cannot write it, as under the shipped
   systemd unit (`ProtectSystem=strict`, a working directory that is not writable);
   `file.go:14` says that such deployments keep working unchanged.

## Remarks

What the passing runs state is what remains true: `NoLostUpdate` carries an exception
for a deleted row, `StorageWithinLimit` is checked with as many bytes as
characters, `HistoryIsNewest` and `ImplementsRegister` with a clock that never goes back,
`StaleSessionRefused` speaks of a token closed before the request was sent, and
`AcknowledgedPatchShows` of an app that nobody deleted. The exceptions are real:

* After a wipe versions start again, so a PUT based on version 1 of the deleted row is
  accepted over contents its device never read (`me.go:198`; the design's "monotone
  version").
* A PUT that names a version on a pair without a row is answered 500, not 409 with the
  current state (`sync.go:190`, `PutConflict`; developer guide, line 242).
* The quota sums characters and adds bytes (`sync.go:101`, `StoredChars` and `TotalAfter`): with
  multi-byte text a user stores more bytes than the limit.
* AdminPatchApp never looks at the rows its UPDATE affects: if the app is deleted after the
  check the answer is 500, and 200 with a row the patch never touched if it was registered
  again (`admin.go:206`, against the comment at `admin.go:192`).
* History is ranked by `created_at` first, so after the clock is set back the row just
  written may be the one trimmed (`sync.go:164`).
* The body limit applies to the encoded JSON, so a payload within `MAX_PAYLOAD_BYTES` whose
  characters need escaping may be refused as too large (`sync.go:44`).
* `DELETE /me/tokens/{token_prefix}` matches the first 12 characters of the token,
  `APP_TOKEN_PREFIX` included, so with a configured prefix of 12 characters or more one call
  revokes all of the user's tokens (`me.go:162`; the model's `PrefixOf` allows it, the theorems
  hold with it, and the runs give every token its own prefix).
* `call()` builds its headers once, so the retry after a successful refresh carries the old
  access token and is refused again (`app.js:125`, `RetryRefused`), although the WebUI design (line 446) has
  the original call retried; the page works after a reload or the next call.
* A refresh that was under way when the user logged out saves its tokens when it is
  answered: the tab is logged in again, as the old user if somebody else logged in
  meanwhile (`app.js:113`). The pair is one user's all the same (`PairsMatch`).
* The tabs of a browser share localStorage without a lock, and a pair of tokens is two keys (`app.js:113-114`,
  `179-180`, `456-457`, read at `55-56`). When two tabs store at once, or one stores while another clears or loads, what is
  left may be half a pair, or the access token of one user and the refresh token of another: the page then shows
  one user and turns into the other at the next refresh. `PairsMatch` excepts this (`torn`);
  `StorageHoldsNewest` and `NeverPresentsSpent` do not.
* The WebUI design (line 447) has a refresh use the token of localStorage, and a failed one clear localStorage and go to
  `/login`. The code uses the tab's signal (`app.js:102`), so a tab goes on with a token that another tab has
  exchanged, and when a refresh fails it clears nothing: the page shows the error with a link to log in again.
  A refresh whose answer is lost leaves a revoked token behind; `StorageHoldsNewest` is only about successors that arrived.
* A client of the listings that asks for more than 100 apps gets 20 (`apps.go:16`, `admin.go:81`). One that counts on the
  limit it asked for, and not on the `limit` the answer reports, takes that page for the last and misses apps although
  none was deleted; `WalkMissesFew` is about the other kind.
* Opening a page with an expired token clears localStorage for all tabs, a newer session of
  another tab included (`app.js:259`).
* A torn cfgsync.env without a long enough secret stops every later start until somebody
  deletes it (`file.go:105`). The password a first run logs does not open the account when the database is older
  than the file or the environment names another password; `LoggedPasswordOpens` excepts both. With an empty
  password in the environment `main.go:59` logs "bootstrap admin ensured" and makes no account.

## Proofs

All theorems are about the specification of a module (`Spec`, in `WebClient` `WebSpec`), for
every value of the constants that meets its assumptions: `StoreAssumption` and
`ServerAssumption`, `RegistryAssumption`, `PoolAssumption`, `SessionsAssumption` and `WebAssumption`,
`StartupAssumption` (lengths are naturals, the empty payload
has length 0, a device's owner is a pair, ...). Four theorems have a hypothesis besides, each an
exception that is listed in Remarks as what the code does: `"clockback" \notin Events` (the
administrator, NTP or a restored machine may set the clock back; then the history may lose the row
just written) and `Bytes = Chars` (every payload has as many bytes as characters, as
ASCII JSON has).

| theorem | module | states |
|---|---|---|
| `TypeCorrect` | SyncProofs | `TypeOK` |
| `CascadeCorrect` | SyncProofs | `CascadeIntegrity` |
| `LiveTokensCorrect` | SyncProofs | `LiveTokensHaveRows` |
| `RevokedTokensCorrect` | SyncProofs | `RevokedTokenRefused` |
| `TokensWithinLimit` | SyncProofs | `TokensBounded` |
| `InvariantHolds` | SyncLocking | `IInv` |
| `SnapshotsAgree` | SyncLocking | `SnapshotAgreement` |
| `NoUpdateLost` | SyncLocking | `NoLostUpdate` |
| `AtMostOneWinner` | SyncLocking | `OneWinner` |
| `DeviceOnlyForward` | SyncLocking | `DeviceNeverGoesBack` |
| `PairsIsolated` | SyncLocking | `Isolation` |
| `HistoryInvariant` | SyncContents | `HistoryInv` if no clock is set back |
| `HistoryKeepsNewest` | SyncContents | `HistoryIsNewest` if no clock is set back |
| `ServiceImplementsRegister` | SyncContents | `ImplementsRegister` if no clock is set back |
| `StorageBounded` | SyncContents | `StorageWithinLimit` if `Bytes = Chars` |
| `RegistryInvariant` | RegistryProofs | `RegistryInv` |
| `RegistryTyped` | RegistryProofs | `TypeOK` |
| `WalkMissesAtMostDeleted` | RegistryProofs | `WalkMissesFew` |
| `PatchShows` | RegistryProofs | `AcknowledgedPatchShows` |
| `SessionsInvariant` | SessionsProofs | `SessionInv` |
| `SessionsTyped` | SessionsProofs | `TypeOK` |
| `AdminsFromRoot` | SessionsProofs | `AdminsNeedRoot` |
| `ClosedSessionsRefused` | SessionsProofs | `StaleSessionRefused` |
| `PromotionsPropagate` | SessionsProofs | `PromotionPropagates` |
| `AccountsKept` | SessionsProofs | `CredentialsKept` |
| `WebInvariant` | WebProofs | `WebInv` |
| `WebImplementsSessions` | WebProofs | `WebSpec => Spec` |
| `WebTyping` | WebProofs | `WebTypeOK` |
| `PairsAlwaysMatch` | WebProofs | `PairsMatch` |
| `StorageAlwaysNewest` | WebProofs | `StorageHoldsNewest` |
| `SpentNeverPresented` | WebProofs | `NeverPresentsSpent` |
| `PoolInvariant` | SqlPoolProofs | `PoolInv` |
| `PoolTyping` | SqlPoolProofs | `TypeOK` |
| `TransactionsAreAtomic` | SqlPoolProofs | `CommitsAreAtomic` |
| `SuccessIsCommitted` | SqlPoolProofs | `OkMeansCommitted` |
| `StartInvariant` | StartupProofs | `StartInv` |
| `StartTyping` | StartupProofs | `TypeOK` |
| `LoggedOpens` | StartupProofs | `LoggedPasswordOpens` |
| `AdminIsThere` | StartupProofs | `AdminEnsured` |
| `SecretStays` | StartupProofs | `SecretKept` |

The argument for locking: `SnapshotAgreement` is not inductive, because a write
could create a version that someone already holds with other contents. The
strengthening `SnapshotsNotAhead` says that no snapshot anywhere (history, devices,
what requests carry, answers under way) is ahead of its row: of an earlier life, or
of this one with a version at most the row's. Then the version a write creates is
new. It needs to know that a device waits only for requests about its own pair
(`WaitingForOwn`), that the pair of a request does not change when its token is
looked up, which holds because a token's row names the user it was granted to
(`RequestsCarryTokens`, `LiveTokensHaveRows`), and that history rows are of this
life (`HistoryOfRow`). `StoreCases` and `PairStep` reduce every step to what it does
to the tables and to one pair; `NewSnapshots` shows that a step adds no snapshot
but that of the row after it. `NoUpdateLost` then follows at the step that
accepts a write, `AtMostOneWinner` because a new acknowledgement is ahead of all
others, `DeviceOnlyForward` because an answer, when it is computed, is the row, and
the row is not behind what any device holds.

Revocation: a token's fate moves only forward (`FateOnlyForward`), and
authentication needs a row, which only a live token has.

History: `Newer` ranks by time, then id, and the promise is about versions. `HistoryInOrder` says that
within a pair the three grow together: an id is the largest so far plus one, and a clock that is not set back
is at least every time written. So `ORDER BY created_at DESC, id DESC` is the order of versions
(`NewerIsLater`), a row has as many newer ones as there are later versions (`RowsNewer`, by a
bijection onto an interval), and `LIMIT` keeps an interval that ends with the newest (`TrimKeepsNewest`). A
wipe and a deletion of the app empty history and row together (`OtherHistory`), so the next life starts
at 1 with no older rows in the way. `HistoryIsNewest` is inductive only with it.

The register: `ServiceImplementsRegister` maps every step of the service to one of `ConfigRegister`, or
to a stutter. Sending is an invocation (`InvokeStep`). A GET's SELECT and a 409 are a read (`ReadStep`,
`ConflictStep`), and a committed PUT is the write, at the step of its transaction (`WriteStep`). This needs
`HistoryInv`: what the trim leaves is what the register remembers. Every other answer decides a
call that did nothing (`RefuseStep`): a 401, a quota, a failing statement. `CallUnmoved` is for the
steps that no caller sees, `ReturnStep` for a client that reads its answer, gives up or is cut off by
a crash, and `EmptyStep` for a wipe and a deletion of an app. So the linearization point of
a PUT is its commit, whatever the client learns of it.

Storage: the total is a fold over a set of rows, which takes the elements in an unspecified order.
`SumRemoves` says that it may take any element first, and `SumAgrees` that a sum depends only on the values
it sums. With these the number PutConfig compares with the limit is the sum after its write
(`StorageWritten`), with the new row and without the old. `StorageInv` adds that a user has
finitely many rows, without which a fold means nothing: a step adds one at most.

The registry: a walk by offset loses an app when a row before it disappears. `WalkOK` counts those it has not
seen and whose position is already behind its offset (`Behind`), and bounds them by the deletions so far. A
new row cannot add to them, because the list is ordered by `created_at`, then rowid, and what a new row
does is to push others back, toward the pages still to come (`CreatedPositions`). A patch and the clock leave positions
alone (`KeptPositions`), and a deletion moves the others forward by one, so at most one of them passes the
offset (`DeletionSkipsOne`). A page, whatever its size (`SizeTyped`), that is not full is the last (`PagesAreFull`), so at the end all that is
unseen is behind. Positions are defined because rowids are distinct (`NextRowidFresh`). `PatchOK`
follows a patch through its three statements: if nobody overtook it the app is there after the check and
has its fields after the UPDATE (`OwnPatchStep`, `UpdateStep`), and a step of somebody
else on the same app sets `overtaken` (`PatchUndisturbed`).

Sessions: none of the four properties is inductive, because a request between two of
its statements carries what it read. `RequestOK` says what is true of such a request: a
claim of administration, read, signed or in a client's hands, is true of its account
(`ClaimsTrue`), a closed session gets no further than its lookup (`StaleAtLookup`), and the
role at the time of sending is carried along (`RoleCarried`). All of it survives any step
of others because the tables only grow (`UsersGrow`, `RowsGrow`): accounts are promoted
but never demoted, rows revoked but never restored. `RequestStep` then leaves, for each
action, what it writes and the one request it advances.

The WebUI: `StorageHoldsNewest` says of localStorage what must be known of every tab, of a
successor delivered to that tab (`TabsHoldNewest`); it survives the answer of a refresh because the
token just delivered is new and has no successor (`Lineage`, `DrawnOnce`), and because a tab
has one refresh under way, which all its calls share (`CallsWait`). It also survives the
step between the two keys of a pair, in any overlap of tabs, because a token that a tab is about to store is known
to nobody else and was not presented (`Unshared`). `PairsMatch` needs that an answer's
two tokens are one user's (`ShapeInv`, from the rows of `Sessions`), and that while no two tabs overlap at most one
is inside a task, which has then put or taken the first key of the same pair (`PairsTogether`). Each step of the browser is a step
of a client of `Sessions` or none (`TabStepIsStep` and its neighbours), so `WebSpec => Spec`
and the theorems about `Sessions` hold with a WebUI in front of it.

Transactions: `Isolated` says that a handler that has written has the lock and the newest
snapshot, and that the `view` of one that has only read is the committed database while its
snapshot is the newest. So at its first write what it checked (`Checked`) is true of the
committed tables, and after each write the view is the committed tables with a beginning of its
transaction (`Staged`), whatever others do meanwhile: they cannot commit without the lock.
At the commit this is the operator of `CfgStore` (`PutIsWhole`, `TokenIsWhole`, `WipeIsWhole`). Nothing
depends on how many connections there are.

Startup: `Signed` says that the secret in use is what the next start would load: `Stat` draws
only when there is no file, and no file that was loaded is written again. `Logged` says where a
logged password is: in the file, not overridden, and in the account or about to be, because a
start does not listen before `Lookup` and `Insert`. `LeastIndex` gives the `CHOOSE` in
`InFile` its least line.

Only model-checked: liveness (`EveryRequestAnswered`, `EveryHandlerReturns`), whose fairness needs ENABLED.
Every safety invariant, action property and refinement that a passing run checks has a theorem.
The induction theorems of the library take an operator as a parameter, which the provers cannot
instantiate, so the two inductions the sums need are stated over a set of values
(`NatInductionOnSet` and `SubsetInduction`), from the theorems on finite sets and a least element of a set
of naturals.

## Not modelled

Within the sync path: names, timestamps other than the history's, `device_id` and
`updated_by` beyond their presence, the order of rows in listings, log lines, and
the 404 of a deletion that finds nothing (a stuttering step). A rate limit does not
exist in the code. JWT verification is assumed to identify the user. Two values of
`NewID` never collide (128 random bits). In `SyncServer` a transaction is one step;
`SqlPool` shows that it may be.

Of the WebUI, pages and rendering: they keep nothing that outlives them. Of the settings,
the listen address, the database path and the limits: they have defaults and are read once.
ListMyTokens, GetApp and AdminGetApp read rows in one statement; GetQuota reads two numbers in two
statements and promises no snapshot; AdminListUsers pages like the listings of apps, over
rows that are never deleted. Two servers started at once on one directory. Routing,
static files, logging and the health check have no state worth a model (which middleware
guards which handler is in the handlers' first steps, panic recovery in `SqlPool`);
the scripts are run by an operator.

## Plan

1. `SqlPool` as a refinement of `SyncServer`'s transactions including the answers, so that
   both layers are one specification, proved step by step as the register is.
2. An abstract specification of paging (the walk of `AppRegistry` without rows and offsets) and
   one of sessions (who may refresh), each shown to be implemented.
3. Two patches at once in `registry`, on fewer apps; the theorems already cover any number.
