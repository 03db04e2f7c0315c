------------------------------ MODULE SyncServer ------------------------------
(***************************************************************************)
(* The sync service: requests authenticated by an app token (AppTokenMW,   *)
(* GetConfig, PutConfig), the user's and the administrator's operations    *)
(* that change the same tables (CreateAppToken, DeleteAppToken,            *)
(* DeleteAppData, AdminCreateApp, AdminDeleteApp), and the devices that    *)
(* call it.                                                                *)
(*                                                                         *)
(* A request is a goroutine of net/http: between two of its statements any *)
(* other request may run.  Its program counter names the statement it      *)
(* runs next:                                                              *)
(*   auth    SELECT of AppTokenMW          check   SELECT of CreateAppToken*)
(*   touch   UPDATE of last_used_at        mint    its transaction         *)
(*   handle  GetConfig or PutConfig        reply   the response is written *)
(*                                                                         *)
(* A device keeps the snapshot it last received and bases its writes on    *)
(* it.  It may stop waiting for a response; the request it abandoned may   *)
(* still run to its end, or stop at its next statement because the request *)
(* context is cancelled.                                                   *)
(***************************************************************************)
EXTENDS CfgStore

CONSTANTS
  Device,           \* client programs, each bound to one (user, app)
  Owner,            \* the pair a device synchronises
  Req,              \* slots for requests in progress
  NoToken,          \* what a request of the user presents
  NoReq,            \* what a device waits for when it waits for nothing
  BodySize,         \* bytes of the JSON body that carries a payload
  Malformed,        \* payloads sent in a body without updated_by or not JSON
  MaxPayloadBytes,  \* MAX_PAYLOAD_BYTES
  BodySlack,        \* the envelope allowance added to it (1024)
  Events,           \* rare events to consider, a subset of RareEvents
  MaxPuts,          \* bound: PUT requests sent
  MaxDeletes        \* bound: deletions (wipe, revoke, delete app)

\* A statement fails, the process dies, the clock is set back, an
\* administrator deletes an app.
RareEvents == {"dberror", "crash", "clockback", "appdelete"}

ASSUME ServerAssumption ==
  /\ Owner \in [Device -> Pair]
  /\ NoReq \notin Req /\ NoToken \notin Token
  /\ BodySize \in [Payload -> Nat]
  /\ Malformed \subseteq Payload
  /\ MaxPayloadBytes \in Nat /\ BodySlack \in Nat
  /\ Events \subseteq RareEvents
  /\ MaxPuts \in Nat /\ MaxDeletes \in Nat

VARIABLES
  clock,    \* time.Now().Unix()
  reqs,     \* the requests in progress
  base,     \* the snapshot each device last received
  waiting,  \* the request each device waits for
  fate,     \* what became of each token
  puts,     \* PUT requests sent so far
  deletes   \* deletions so far

serverVars == <<clock, reqs, base, waiting, fate, puts, deletes>>
vars == <<storeVars, serverVars>>

\* A snapshot is what a response carries; `life` is a ghost that tells apart
\* two rows of the same pair separated by a deletion.
Snapshot == [version : Nat, payload : Payload \cup {NoPayload}, life : Nat]
Current(p) == [version |-> configs[p].version, payload |-> configs[p].payload,
               life |-> life[p]]
NoSnapshot == [version |-> 0, payload |-> NoPayload, life |-> 0]

Status == {"none", "ok", "conflict", "unauthorized", "forbidden", "not_found",
           "bad_request", "payload_too_large", "quota_exceeded",
           "token_limit", "internal"}
Serving == {"auth", "touch", "handle", "check", "mint"}
Request ==
  [pc : Serving \cup {"reply"}, op : {"get", "put", "token"},
   pair : Pair,                         \* (user_id, app_id) it acts on
   hash : Token \cup {NoToken},          \* app token it presents
   sent : Snapshot,                     \* what its sender knew; its version is sent
   payload : Payload \cup {NoPayload},
   force : BOOLEAN,
   revoked : BOOLEAN,                   \* ghost: its token was revoked before it was sent
   status : Status, answer : Snapshot]  \* the response
Idle == [pc |-> "idle"]

NoPair == <<>>
TokenFate == [state : {"unissued", "live", "revoked"}, pair : Pair \cup {NoPair}]

TypeOK ==
  /\ StoreTypeOK
  /\ clock \in Time
  /\ reqs \in [Req -> Request \cup {Idle}]
  /\ \A r \in Req : reqs[r] # Idle /\ reqs[r].op = "put" => reqs[r].payload \in Payload
  /\ base \in [Device -> Snapshot]
  /\ waiting \in [Device -> Req \cup {NoReq}]
  /\ fate \in [Token -> TokenFate]
  /\ puts \in Nat /\ deletes \in Nat

Init ==
  /\ StoreInit
  /\ clock \in Time
  /\ reqs = [r \in Req |-> Idle]
  /\ base = [d \in Device |-> NoSnapshot]
  /\ waiting = [d \in Device |-> NoReq]
  /\ fate = [h \in Token |-> [state |-> "unissued", pair |-> NoPair]]
  /\ puts = 0 /\ deletes = 0

-----------------------------------------------------------------------------
(* Steps of a request. *)

Goto(r, pc) == reqs' = [reqs EXCEPT ![r].pc = pc]
AnswerWith(r, status, snapshot) ==
  reqs' = [reqs EXCEPT ![r].pc = "reply", ![r].status = status,
                       ![r].answer = snapshot]
Answer(r, status) == AnswerWith(r, status, NoSnapshot)
At(r, pc, op) == reqs[r].pc = pc /\ reqs[r].op = op
ReqOnly == UNCHANGED <<storeVars, clock, base, waiting, fate, puts, deletes>>

\* AppTokenMW's lookup: the row of the presented token, if there is one.
RowOf(h) == {t \in tokens : t.hash = h}

AuthReject(r) ==
  /\ reqs[r].pc = "auth"
  /\ RowOf(reqs[r].hash) = {}
  /\ Answer(r, "unauthorized")
  /\ ReqOnly

AuthForbid(r) ==
  /\ reqs[r].pc = "auth"
  /\ \E t \in RowOf(reqs[r].hash) : t.pair[2] # reqs[r].pair[2]
  /\ Answer(r, "forbidden")
  /\ ReqOnly

AuthPass(r) ==
  /\ reqs[r].pc = "auth"
  /\ \E t \in RowOf(reqs[r].hash) :
       /\ t.pair[2] = reqs[r].pair[2]
       /\ reqs' = [reqs EXCEPT ![r].pc = "touch", ![r].pair = t.pair]
  /\ ReqOnly

Touch(r) ==
  /\ reqs[r].pc = "touch"
  /\ TouchToken(reqs[r].hash)
  /\ Goto(r, "handle")
  /\ UNCHANGED <<clock, base, waiting, fate, puts, deletes>>

HandleGet(r) ==
  /\ At(r, "handle", "get")
  /\ AnswerWith(r, "ok", Current(reqs[r].pair))
  /\ ReqOnly

\* PutConfig, in the order of its early returns.
BodyTooLong(q) == BodySize[q.payload] > MaxPayloadBytes + BodySlack
PayloadTooLong(q) == Bytes[q.payload] > MaxPayloadBytes
BodyAccepted(q) ==
  ~BodyTooLong(q) /\ q.payload \notin Malformed /\ ~PayloadTooLong(q)

\* force bypasses the quota; a version the server has passed is accepted.
BadWithinQuota(q) == q.force \/ TotalAfter(q.pair, q.payload) <= UserStorageLimit
BadVersionMatches(q) == q.force \/ q.sent.version <= configs[q.pair].version

WithinQuota(q) == TotalAfter(q.pair, q.payload) <= UserStorageLimit
VersionMatches(q) == q.force \/ q.sent.version = configs[q.pair].version
\* A row whose app is not registered violates the foreign key.
InsertAllowed(q) == configs[q.pair] # Absent \/ q.pair[2] \in apps

PutRejectBody(r) ==
  /\ At(r, "handle", "put")
  /\ \/ BodyTooLong(reqs[r]) /\ Answer(r, "payload_too_large")
     \/ /\ ~BodyTooLong(reqs[r]) /\ reqs[r].payload \in Malformed
        /\ Answer(r, "bad_request")
     \/ /\ ~BodyTooLong(reqs[r]) /\ reqs[r].payload \notin Malformed
        /\ PayloadTooLong(reqs[r])
        /\ Answer(r, "payload_too_large")
  /\ ReqOnly

PutOverQuota(r) ==
  /\ At(r, "handle", "put")
  /\ BodyAccepted(reqs[r]) /\ ~WithinQuota(reqs[r])
  /\ Answer(r, "quota_exceeded")
  /\ ReqOnly

\* writeConflict asks the pool for a connection: its own transaction holds
\* the only one.
BadPutConflict(r) ==
  /\ At(r, "handle", "put")
  /\ BodyAccepted(reqs[r]) /\ WithinQuota(reqs[r]) /\ ~VersionMatches(reqs[r])
  /\ FALSE
  /\ UNCHANGED vars

\* writeConflict reads the row again; without one it answers 500.
PutConflict(r) ==
  /\ At(r, "handle", "put")
  /\ BodyAccepted(reqs[r]) /\ WithinQuota(reqs[r]) /\ ~VersionMatches(reqs[r])
  /\ IF configs[reqs[r].pair] = Absent
     THEN Answer(r, "internal")
     ELSE AnswerWith(r, "conflict", Current(reqs[r].pair))
  /\ ReqOnly

PutForeignKey(r) ==
  /\ At(r, "handle", "put")
  /\ BodyAccepted(reqs[r]) /\ WithinQuota(reqs[r]) /\ VersionMatches(reqs[r])
  /\ ~InsertAllowed(reqs[r])
  /\ Answer(r, "internal")
  /\ ReqOnly

\* The new version is computed from the request instead of the row.
BadPutCommit(r) ==
  LET q == reqs[r]
      new == [version |-> q.sent.version + 1, payload |-> q.payload]
  IN
  /\ At(r, "handle", "put")
  /\ BodyAccepted(q) /\ WithinQuota(q) /\ VersionMatches(q) /\ InsertAllowed(q)
  /\ configs' = [configs EXCEPT ![q.pair] = new]
  /\ AnswerWith(r, "ok", [version |-> new.version, payload |-> new.payload,
                          life |-> life[q.pair]])
  /\ UNCHANGED <<apps, tokens, history, nextId, life>>
  /\ UNCHANGED <<clock, base, waiting, fate, puts, deletes>>

PutCommit(r) ==
  LET q == reqs[r] IN
  /\ At(r, "handle", "put")
  /\ BodyAccepted(q) /\ WithinQuota(q) /\ VersionMatches(q) /\ InsertAllowed(q)
  /\ WriteConfig(q.pair, q.payload, clock)
  /\ AnswerWith(r, "ok", [version |-> configs[q.pair].version + 1,
                          payload |-> q.payload, life |-> life[q.pair]])
  /\ UNCHANGED <<clock, base, waiting, fate, puts, deletes>>

\* CreateAppToken.
TokenCheckApp(r) ==
  /\ reqs[r].pc = "check"
  /\ IF reqs[r].pair[2] \in apps THEN Goto(r, "mint") ELSE Answer(r, "not_found")
  /\ ReqOnly

HasToken(p) == \E t \in tokens : t.pair = p
BadRoomForToken(p) ==
  HasToken(p) \/ Cardinality(TokensOf(p[1])) <= UserAppTokenLimit
RoomForToken(p) ==
  HasToken(p) \/ Cardinality(TokensOf(p[1])) < UserAppTokenLimit

TokenRefuse(r) ==
  /\ reqs[r].pc = "mint"
  /\ \/ ~RoomForToken(reqs[r].pair) /\ Answer(r, "token_limit")
     \/ /\ RoomForToken(reqs[r].pair) /\ reqs[r].pair[2] \notin apps
        /\ Answer(r, "internal")  \* the INSERT violates the foreign key
  /\ ReqOnly

\* Ghost: the live tokens among hs are revoked.
Revoked(hs) ==
  [h \in Token |-> IF h \in hs /\ fate[h].state = "live"
                   THEN [fate[h] EXCEPT !.state = "revoked"] ELSE fate[h]]
Unissued == {h \in Token : fate[h].state = "unissued"}
TokensFor(ps) == {h \in Token : fate[h].pair \in ps}

\* NewID draws a value never drawn before; drawing it here rather than
\* before BeginTx makes no difference, nobody sees it until the commit.
TokenCommit(r) ==
  LET q == reqs[r] IN
  /\ q.pc = "mint"
  /\ RoomForToken(q.pair) /\ q.pair[2] \in apps
  /\ \E h \in Unissued :
       /\ ReplaceToken(q.pair, h)
       /\ fate' = [Revoked(TokensFor({q.pair})) EXCEPT
                     ![h] = [state |-> "live", pair |-> q.pair]]
  /\ Answer(r, "ok")
  /\ UNCHANGED <<clock, base, waiting, puts, deletes>>

\* A statement fails: the transaction rolls back and the handler answers 500,
\* except that AppTokenMW ignores the outcome of its UPDATE.
DbError(r) ==
  /\ "dberror" \in Events
  /\ \/ reqs[r].pc \in Serving \ {"touch"} /\ Answer(r, "internal")
     \/ reqs[r].pc = "touch" /\ Goto(r, "handle")
  /\ ReqOnly

Serve(r) ==
  \/ AuthReject(r) \/ AuthForbid(r) \/ AuthPass(r) \/ Touch(r) \/ HandleGet(r)
  \/ PutRejectBody(r) \/ PutOverQuota(r) \/ PutConflict(r) \/ PutForeignKey(r)
  \/ PutCommit(r) \/ TokenCheckApp(r) \/ TokenRefuse(r) \/ TokenCommit(r)

-----------------------------------------------------------------------------
(* The devices and the network (external). *)

\* The plaintext leaves the server once its transaction has committed; a
\* device presents a token its own user obtained, for this app or another.
Presentable(d) ==
  {h \in Token \ Unissued : fate[h].pair[1] = Owner[d][1]}

Send(r, d, op, h, payload, force) ==
  /\ reqs[r] = Idle
  /\ waiting[d] = NoReq
  /\ reqs' = [reqs EXCEPT ![r] =
       [pc |-> "auth", op |-> op, pair |-> Owner[d], hash |-> h,
        sent |-> base[d], payload |-> payload, force |-> force,
        revoked |-> fate[h].state = "revoked",
        status |-> "none", answer |-> NoSnapshot]]
  /\ waiting' = [waiting EXCEPT ![d] = r]
  /\ UNCHANGED <<storeVars, clock, base, fate, deletes>>

SendGet(r, d) ==
  /\ \E h \in Presentable(d) : Send(r, d, "get", h, NoPayload, FALSE)
  /\ UNCHANGED puts

SendPut(r, d) ==
  /\ puts < MaxPuts
  /\ \E h \in Presentable(d), payload \in Payload, force \in BOOLEAN :
       Send(r, d, "put", h, payload, force)
  /\ puts' = puts + 1

\* A 200 or a 409 carries the current snapshot; the device bases its next
\* write on it.
Receive(r) ==
  base' = [d \in Device |->
            IF waiting[d] = r /\ reqs[r].status \in {"ok", "conflict"}
            THEN reqs[r].answer ELSE base[d]]

Deliver(r) ==
  /\ reqs[r].pc = "reply"
  /\ Receive(r)
  /\ waiting' = [d \in Device |-> IF waiting[d] = r THEN NoReq ELSE waiting[d]]
  /\ reqs' = [reqs EXCEPT ![r] = Idle]
  /\ UNCHANGED <<storeVars, clock, fate, puts, deletes>>

\* The device's HTTP client times out or the connection breaks.
GiveUp(d) ==
  /\ waiting[d] # NoReq
  /\ waiting' = [waiting EXCEPT ![d] = NoReq]
  /\ UNCHANGED <<storeVars, clock, reqs, base, fate, puts, deletes>>

\* The context of an abandoned request is cancelled before its next
\* statement: an open transaction rolls back and nobody reads the answer.
Cancel(r) ==
  /\ reqs[r].pc \in Serving
  /\ \A d \in Device : waiting[d] # r
  /\ reqs' = [reqs EXCEPT ![r] = Idle]
  /\ UNCHANGED <<storeVars, clock, base, waiting, fate, puts, deletes>>

\* The process dies and restarts: the tables survive, the requests do not.
Crash ==
  /\ "crash" \in Events
  /\ reqs' = [r \in Req |-> Idle]
  /\ waiting' = [d \in Device |-> NoReq]
  /\ UNCHANGED <<storeVars, clock, base, fate, puts, deletes>>

Tick ==
  /\ \E t \in Time :
       /\ t > clock \/ ("clockback" \in Events /\ t < clock)
       /\ clock' = t
  /\ UNCHANGED <<storeVars, reqs, base, waiting, fate, puts, deletes>>

-----------------------------------------------------------------------------
(* The user and the administrator, authenticated by a JWT: no table is     *)
(* read to authenticate them, and all but CreateAppToken run one statement *)
(* or one transaction.  Where it finds nothing to delete the code answers  *)
(* 404 (204 for DeleteAppData) and no table changes: a stuttering step.    *)

SendCreateToken(r, p) ==
  /\ reqs[r] = Idle
  /\ Cardinality({s \in Req : reqs[s].pc \in {"check", "mint"}})
       < Cardinality(Unissued)  \* bound: the values Token leaves to draw
  /\ reqs' = [reqs EXCEPT ![r] =
       [pc |-> "check", op |-> "token", pair |-> p, hash |-> NoToken,
        sent |-> NoSnapshot, payload |-> NoPayload, force |-> FALSE,
        revoked |-> FALSE, status |-> "none", answer |-> NoSnapshot]]
  /\ UNCHANGED <<storeVars, clock, base, waiting, fate, puts, deletes>>

Deletion ==
  /\ deletes < MaxDeletes
  /\ deletes' = deletes + 1
  /\ UNCHANGED <<clock, reqs, base, waiting, puts>>

DeleteAppToken(u, prefix) ==
  /\ \E t \in TokensOf(u) : PrefixOf[t.hash] = prefix
  /\ DeleteTokens(u, prefix)
  /\ fate' = Revoked({h \in TokensFor({u} \X App) : PrefixOf[h] = prefix})
  /\ Deletion

DeleteAppData(p) ==
  /\ configs[p] # Absent \/ HasToken(p)
  /\ WipePair(p)
  /\ fate' = Revoked(TokensFor({p}))
  /\ Deletion

AdminDeleteApp(a) ==
  /\ "appdelete" \in Events
  /\ a \in apps
  /\ DeleteApp(a)
  /\ fate' = Revoked(TokensFor(User \X {a}))
  /\ Deletion

AdminCreateApp(a) ==
  /\ a \notin apps
  /\ InsertApp(a)
  /\ UNCHANGED serverVars

-----------------------------------------------------------------------------
Next ==
  \/ \E r \in Req :
       \/ Serve(r) \/ DbError(r) \/ Cancel(r) \/ Deliver(r)
       \/ \E d \in Device : SendGet(r, d) \/ SendPut(r, d)
       \/ \E p \in Pair : SendCreateToken(r, p)
  \/ \E d \in Device : GiveUp(d)
  \/ \E u \in User : \E prefix \in {PrefixOf[h] : h \in Token} :
       DeleteAppToken(u, prefix)
  \/ \E p \in Pair : DeleteAppData(p)
  \/ \E a \in App : AdminDeleteApp(a) \/ AdminCreateApp(a)
  \/ Crash
  \/ Tick

Spec == Init /\ [][Next]_vars

\* net/http runs every handler goroutine until it returns.
FairSpec == Spec /\ \A r \in Req : WF_vars(Serve(r))
=============================================================================
