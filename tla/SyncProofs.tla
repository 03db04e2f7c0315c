------------------------------ MODULE SyncProofs ------------------------------
(***************************************************************************)
(* Theorems about the sync service, for every set of users, apps, devices, *)
(* tokens and payloads and every value of the limits.                      *)
(***************************************************************************)
EXTENDS SyncInvariant, FiniteSetTheorems, TLAPS

USE StoreAssumption, ServerAssumption

(***************************************************************************)
(* Lemmas on the steps of a request.                                       *)
(***************************************************************************)

\* A slot that is being served or answered holds a request.
LEMMA BusyIsRequest ==
  ASSUME TypeOK, NEW r \in Req, reqs[r].pc \in Serving \cup {"reply"}
  PROVE  reqs[r] \in Request
BY DEF TypeOK, Idle, Serving

LEMMA CurrentTyped ==
  ASSUME TypeOK, NEW p \in Pair
  PROVE  Current(p) \in Snapshot
BY DEF TypeOK, StoreTypeOK, Current, Snapshot, ConfigRow

LEMMA NoSnapshotTyped == NoSnapshot \in Snapshot
BY DEF NoSnapshot, Snapshot

\* The requests are well typed after a step that answers, or advances, one.
RequestsTyped ==
  /\ reqs \in [Req -> Request \cup {Idle}]
  /\ \A r \in Req : reqs[r] # Idle /\ reqs[r].op = "put" => reqs[r].payload \in Payload

LEMMA AnswerTyped ==
  ASSUME TypeOK, NEW r \in Req, reqs[r] \in Request,
         NEW status \in Status, NEW s \in Snapshot, AnswerWith(r, status, s)
  PROVE  RequestsTyped'
<1>1. reqs' \in [Req -> Request \cup {Idle}]
  BY DEF TypeOK, AnswerWith, Request
<1>2. \A q \in Req : reqs'[q] # Idle /\ reqs'[q].op = "put"
                     => reqs'[q].payload \in Payload
  BY DEF TypeOK, AnswerWith, Request, Idle
<1> QED BY <1>1, <1>2 DEF RequestsTyped

LEMMA GotoTyped ==
  ASSUME TypeOK, NEW r \in Req, reqs[r] \in Request,
         NEW pc \in Serving, Goto(r, pc)
  PROVE  RequestsTyped'
<1>1. reqs' \in [Req -> Request \cup {Idle}]
  BY DEF TypeOK, Goto, Request
<1>2. \A q \in Req : reqs'[q] # Idle /\ reqs'[q].op = "put"
                     => reqs'[q].payload \in Payload
  BY DEF TypeOK, Goto, Request, Idle
<1> QED BY <1>1, <1>2 DEF RequestsTyped

(***************************************************************************)
(* Lemmas on the store: each statement or transaction keeps it well typed. *)
(***************************************************************************)

LEMMA WriteTyped ==
  ASSUME StoreTypeOK, NEW p \in Pair, NEW payload \in Payload, NEW now \in Nat,
         WriteConfig(p, payload, now)
  PROVE  StoreTypeOK'
<1> DEFINE version == configs[p].version + 1
           row == [id |-> nextId, pair |-> p, version |-> version,
                   payload |-> payload, at |-> now]
<1>1. version \in Nat /\ row \in HistoryRow
  BY DEF StoreTypeOK, ConfigRow, HistoryRow
<1>2. configs' \in [Pair -> ConfigRow]
  BY <1>1 DEF StoreTypeOK, WriteConfig, ConfigRow
<1>3. history' \subseteq HistoryRow
  BY <1>1 DEF StoreTypeOK, WriteConfig, Trimmed, MostRecent, HistoryOf
<1>4. nextId' \in Nat /\ UNCHANGED <<apps, tokens, life>>
  BY DEF StoreTypeOK, WriteConfig
<1> QED BY <1>2, <1>3, <1>4 DEF StoreTypeOK

LEMMA DeleteRowsTyped ==
  ASSUME StoreTypeOK, NEW ps \in SUBSET Pair, DeleteRows(ps), apps' \subseteq App
  PROVE  StoreTypeOK'
<1>1. configs' \in [Pair -> ConfigRow]
  BY DEF StoreTypeOK, DeleteRows, ConfigRow, Absent
<1>2. life' \in [Pair -> Nat]
  BY DEF StoreTypeOK, DeleteRows
<1>3. history' \subseteq HistoryRow /\ tokens' \subseteq TokenRow /\ nextId' \in Nat
  BY DEF StoreTypeOK, DeleteRows
<1> QED BY <1>1, <1>2, <1>3 DEF StoreTypeOK

LEMMA ReplaceTokenTyped ==
  ASSUME StoreTypeOK, NEW p \in Pair, NEW h \in Token, ReplaceToken(p, h)
  PROVE  StoreTypeOK'
<1>1. [hash |-> h, pair |-> p, used |-> FALSE] \in TokenRow
  BY DEF TokenRow
<1>2. tokens' \subseteq TokenRow
  BY <1>1 DEF StoreTypeOK, ReplaceToken
<1> QED BY <1>2 DEF StoreTypeOK, ReplaceToken

LEMMA TouchTyped ==
  ASSUME StoreTypeOK, NEW h, TouchToken(h)
  PROVE  StoreTypeOK'
<1>1. tokens' \subseteq TokenRow
  <2> SUFFICES ASSUME NEW t \in tokens
               PROVE  (IF t.hash = h THEN [t EXCEPT !.used = TRUE] ELSE t) \in TokenRow
    BY DEF TouchToken
  <2> QED BY DEF StoreTypeOK, TokenRow
<1> QED BY <1>1 DEF StoreTypeOK, TouchToken

(***************************************************************************)
(* Type correctness.                                                       *)
(***************************************************************************)

LEMMA RevokedTyped ==
  ASSUME TypeOK, NEW hs
  PROVE  Revoked(hs) \in [Token -> TokenFate]
BY DEF TypeOK, Revoked, TokenFate

LEMMA InitTyped == Init => TypeOK
<1> SUFFICES ASSUME Init PROVE TypeOK
  OBVIOUS
<1>1. StoreTypeOK
  BY DEF Init, StoreInit, StoreTypeOK, ConfigRow, Absent
<1>2. fate \in [Token -> TokenFate]
  BY DEF Init, TokenFate
<1>3. reqs \in [Req -> Request \cup {Idle}] /\ \A r \in Req : reqs[r] = Idle
  BY DEF Init
<1>4. base \in [Device -> Snapshot]
  BY NoSnapshotTyped DEF Init
<1> QED BY <1>1, <1>2, <1>3, <1>4 DEF Init, TypeOK

\* Steps of a request that touch nothing but the request.
LEMMA ReqOnlyTyped ==
  ASSUME TypeOK, RequestsTyped', ReqOnly
  PROVE  TypeOK'
BY DEF TypeOK, RequestsTyped, ReqOnly, StoreTypeOK, storeVars

LEMMA ServeTyped ==
  ASSUME TypeOK, NEW r \in Req, Serve(r)
  PROVE  TypeOK'
<1>0. reqs[r] \in Request
  <2>1. reqs[r].pc \in Serving
    BY DEF Serve, AuthReject, AuthForbid, AuthPass, Touch, HandleGet, At,
           PutRejectBody, PutOverQuota, PutConflict, PutForeignKey, PutCommit,
           TokenCheckApp, TokenRefuse, TokenCommit, Serving
  <2> QED BY <2>1, BusyIsRequest
<1> DEFINE p == reqs[r].pair
<1>a. p \in Pair /\ reqs[r].pair \in Pair
  BY <1>0 DEF Request
<1>b. \A status \in Status : Answer(r, status) => RequestsTyped'
  BY <1>0, AnswerTyped, NoSnapshotTyped DEF Answer
<1>1. CASE AuthReject(r)
  BY <1>1, <1>b, ReqOnlyTyped DEF AuthReject, Status
<1>2. CASE AuthForbid(r)
  BY <1>2, <1>b, ReqOnlyTyped DEF AuthForbid, Status
<1>3. CASE AuthPass(r)
  <2>1. PICK t \in RowOf(reqs[r].hash) :
          reqs' = [reqs EXCEPT ![r].pc = "touch", ![r].pair = t.pair]
    BY <1>3 DEF AuthPass
  <2>2. t.pair \in Pair
    BY <2>1 DEF RowOf, TypeOK, StoreTypeOK, TokenRow
  <2>3. reqs' \in [Req -> Request \cup {Idle}]
    BY <1>0, <2>1, <2>2 DEF TypeOK, Request, Serving
  <2>4. \A q \in Req : reqs'[q] # Idle /\ reqs'[q].op = "put"
                       => reqs'[q].payload \in Payload
    BY <1>0, <2>1 DEF TypeOK, Request, Idle
  <2> QED BY <1>3, <2>3, <2>4, ReqOnlyTyped DEF AuthPass, RequestsTyped
<1>4. CASE Touch(r)
  <2>1. RequestsTyped'
    BY <1>4, <1>0, GotoTyped DEF Touch, Serving
  <2>2. StoreTypeOK'
    BY <1>4, TouchTyped DEF Touch, TypeOK
  <2> QED BY <1>4, <2>1, <2>2 DEF Touch, TypeOK, RequestsTyped
<1>5. CASE HandleGet(r)
  <2>1. RequestsTyped'
    BY <1>5, <1>0, <1>a, AnswerTyped, CurrentTyped DEF HandleGet, Status
  <2> QED BY <1>5, <2>1, ReqOnlyTyped DEF HandleGet
<1>6. CASE PutRejectBody(r)
  BY <1>6, <1>b, ReqOnlyTyped DEF PutRejectBody, Status
<1>7. CASE PutOverQuota(r)
  BY <1>7, <1>b, ReqOnlyTyped DEF PutOverQuota, Status
<1>8. CASE PutConflict(r)
  <2>1. RequestsTyped'
    BY <1>8, <1>0, <1>a, <1>b, AnswerTyped, CurrentTyped DEF PutConflict, Status
  <2> QED BY <1>8, <2>1, ReqOnlyTyped DEF PutConflict
<1>9. CASE PutForeignKey(r)
  BY <1>9, <1>b, ReqOnlyTyped DEF PutForeignKey, Status
<1>10. CASE PutCommit(r)
  <2>1. reqs[r].payload \in Payload
    BY <1>10, <1>0 DEF PutCommit, At, TypeOK, Idle, Request
  <2>2. clock \in Nat
    BY DEF TypeOK, StoreAssumption
  <2>3. StoreTypeOK'
    BY <1>10, <1>a, <2>1, <2>2, WriteTyped DEF PutCommit, TypeOK
  <2> DEFINE s == [version |-> configs[p].version + 1,
                   payload |-> reqs[r].payload, life |-> life[p]]
  <2>4. s \in Snapshot
    BY <1>a, <2>1 DEF Snapshot, TypeOK, StoreTypeOK, ConfigRow
  <2>5. AnswerWith(r, "ok", s)
    BY <1>10 DEF PutCommit
  <2>6. RequestsTyped'
    BY <1>0, <2>4, <2>5, AnswerTyped DEF Status
  <2> QED BY <1>10, <2>3, <2>6 DEF PutCommit, TypeOK, RequestsTyped
<1>11. CASE TokenCheckApp(r)
  <2>1. RequestsTyped'
    BY <1>11, <1>0, <1>b, GotoTyped DEF TokenCheckApp, Status, Serving
  <2> QED BY <1>11, <2>1, ReqOnlyTyped DEF TokenCheckApp
<1>12. CASE TokenRefuse(r)
  BY <1>12, <1>b, ReqOnlyTyped DEF TokenRefuse, Status
<1>13. CASE TokenCommit(r)
  <2>1. PICK h \in Unissued :
          /\ ReplaceToken(p, h)
          /\ fate' = [Revoked(TokensFor({p})) EXCEPT
                        ![h] = [state |-> "live", pair |-> p]]
    BY <1>13 DEF TokenCommit
  <2>2. h \in Token
    BY DEF Unissued
  <2>3. StoreTypeOK'
    BY <1>a, <2>1, <2>2, ReplaceTokenTyped DEF TypeOK
  <2>4. fate' \in [Token -> TokenFate]
    BY <1>a, <2>1, RevokedTyped DEF TokenFate
  <2>5. RequestsTyped'
    BY <1>13, <1>b DEF TokenCommit, Status
  <2> QED BY <1>13, <2>3, <2>4, <2>5 DEF TokenCommit, TypeOK, RequestsTyped
<1> QED BY <1>1, <1>2, <1>3, <1>4, <1>5, <1>6, <1>7, <1>8, <1>9, <1>10, <1>11,
           <1>12, <1>13 DEF Serve

\* Steps of the devices, the network and the clock.
EnvNext ==
  \/ \E r \in Req : \/ DbError(r) \/ Cancel(r) \/ Deliver(r)
                    \/ \E d \in Device : SendGet(r, d) \/ SendPut(r, d)
                    \/ \E p \in Pair : SendCreateToken(r, p)
  \/ \E d \in Device : GiveUp(d)
  \/ Crash
  \/ Tick

\* Steps of the user and the administrator on the tables.
AdminNext ==
  \/ \E u \in User : \E prefix \in {PrefixOf[h] : h \in Token} :
       DeleteAppToken(u, prefix)
  \/ \E p \in Pair : DeleteAppData(p)
  \/ \E a \in App : AdminDeleteApp(a) \/ AdminCreateApp(a)

LEMMA NextCases ==
  ASSUME Next
  PROVE  (\E r \in Req : Serve(r)) \/ EnvNext \/ AdminNext
BY DEF Next, EnvNext, AdminNext

LEMMA SendTyped ==
  ASSUME TypeOK, NEW r \in Req, NEW d \in Device, NEW op \in {"get", "put"},
         NEW h \in Token, NEW payload \in Payload \cup {NoPayload},
         NEW force \in BOOLEAN, op = "put" => payload \in Payload,
         Send(r, d, op, h, payload, force), puts' \in Nat
  PROVE  TypeOK'
<1> DEFINE q == [pc |-> "auth", op |-> op, pair |-> Owner[d], hash |-> h,
                 sent |-> base[d], payload |-> payload, force |-> force,
                 revoked |-> fate[h].state = "revoked",
                 status |-> "none", answer |-> NoSnapshot]
<1>1. base[d] \in Snapshot /\ Owner[d] \in Pair
  BY DEF TypeOK
<1>2. q \in Request
  BY <1>1, NoSnapshotTyped DEF Request, Serving, Status
<1>3. reqs' = [reqs EXCEPT ![r] = q]
  BY DEF Send
<1>4. /\ reqs' \in [Req -> Request \cup {Idle}]
      /\ \A s \in Req : reqs'[s] # Idle /\ reqs'[s].op = "put"
                        => reqs'[s].payload \in Payload
  BY <1>2, <1>3 DEF TypeOK
<1>5. waiting' \in [Device -> Req \cup {NoReq}]
  BY DEF TypeOK, Send
<1> QED BY <1>4, <1>5 DEF Send, TypeOK, StoreTypeOK, storeVars

LEMMA ClearTyped ==
  ASSUME TypeOK, NEW r \in Req, reqs' = [reqs EXCEPT ![r] = Idle]
  PROVE  RequestsTyped'
<1>1. reqs' \in [Req -> Request \cup {Idle}]
  BY DEF TypeOK
<1>2. \A q \in Req : reqs'[q] # Idle => reqs'[q] = reqs[q]
  BY DEF TypeOK
<1> QED BY <1>1, <1>2 DEF TypeOK, RequestsTyped

LEMMA StoreUnchanged == StoreTypeOK /\ UNCHANGED storeVars => StoreTypeOK'
BY DEF StoreTypeOK, storeVars

LEMMA EnvTyped ==
  ASSUME TypeOK, EnvNext
  PROVE  TypeOK'
<1>1. ASSUME NEW r \in Req, DbError(r) PROVE TypeOK'
  <2>1. reqs[r] \in Request
    BY <1>1, BusyIsRequest DEF DbError, Serving
  <2>2. RequestsTyped'
    BY <1>1, <2>1, AnswerTyped, GotoTyped, NoSnapshotTyped
       DEF DbError, Answer, Status, Serving
  <2> QED BY <1>1, <2>2, ReqOnlyTyped DEF DbError
<1>2. ASSUME NEW r \in Req, Cancel(r) PROVE TypeOK'
  BY <1>2, ClearTyped, StoreUnchanged DEF Cancel, TypeOK, RequestsTyped
<1>3. ASSUME NEW r \in Req, Deliver(r) PROVE TypeOK'
  <2>1. reqs[r] \in Request
    BY <1>3, BusyIsRequest DEF Deliver
  <2>2. base' \in [Device -> Snapshot]
    BY <1>3, <2>1 DEF Deliver, Receive, TypeOK, Request
  <2>3. waiting' \in [Device -> Req \cup {NoReq}]
    BY <1>3 DEF Deliver, TypeOK
  <2>4. RequestsTyped'
    BY <1>3, ClearTyped DEF Deliver
  <2> QED BY <1>3, <2>2, <2>3, <2>4, StoreUnchanged
          DEF Deliver, TypeOK, RequestsTyped
<1>4. ASSUME NEW r \in Req, NEW d \in Device, SendGet(r, d) PROVE TypeOK'
  BY <1>4, SendTyped DEF SendGet, Presentable, TypeOK
<1>5. ASSUME NEW r \in Req, NEW d \in Device, SendPut(r, d) PROVE TypeOK'
  BY <1>5, SendTyped DEF SendPut, Presentable, TypeOK
<1>6. ASSUME NEW r \in Req, NEW p \in Pair, SendCreateToken(r, p) PROVE TypeOK'
  <2> DEFINE q == [pc |-> "check", op |-> "token", pair |-> p, hash |-> NoToken,
                   sent |-> NoSnapshot, payload |-> NoPayload, force |-> FALSE,
                   revoked |-> FALSE, status |-> "none", answer |-> NoSnapshot]
  <2>1. q \in Request
    BY NoSnapshotTyped DEF Request, Serving, Status
  <2>2. reqs' = [reqs EXCEPT ![r] = q]
    BY <1>6 DEF SendCreateToken
  <2>3. /\ reqs' \in [Req -> Request \cup {Idle}]
        /\ \A s \in Req : reqs'[s] # Idle /\ reqs'[s].op = "put"
                          => reqs'[s].payload \in Payload
    BY <2>1, <2>2 DEF TypeOK
  <2> QED BY <1>6, <2>3 DEF SendCreateToken, TypeOK, StoreTypeOK, storeVars
<1>7. ASSUME NEW d \in Device, GiveUp(d) PROVE TypeOK'
  BY <1>7 DEF GiveUp, TypeOK, StoreTypeOK, storeVars
<1>8. CASE Crash
  BY <1>8 DEF Crash, TypeOK, StoreTypeOK, storeVars
<1>9. CASE Tick
  BY <1>9 DEF Tick, TypeOK, StoreTypeOK, storeVars
<1> QED BY <1>1, <1>2, <1>3, <1>4, <1>5, <1>6, <1>7, <1>8, <1>9 DEF EnvNext

LEMMA DeletionTyped ==
  ASSUME TypeOK, Deletion, StoreTypeOK', fate' \in [Token -> TokenFate]
  PROVE  TypeOK'
<1>1. deletes' \in Nat
  BY DEF Deletion, TypeOK
<1>2. UNCHANGED <<clock, reqs, base, waiting, puts>>
  BY DEF Deletion
<1> QED BY <1>1, <1>2 DEF TypeOK

LEMMA AdminTyped ==
  ASSUME TypeOK, AdminNext
  PROVE  TypeOK'
<1>1. ASSUME NEW u \in User, NEW prefix, DeleteAppToken(u, prefix) PROVE TypeOK'
  <2>1. StoreTypeOK'
    BY <1>1 DEF DeleteAppToken, DeleteTokens, TypeOK, StoreTypeOK
  <2>2. fate' \in [Token -> TokenFate]
    BY <1>1, RevokedTyped DEF DeleteAppToken
  <2> QED BY <1>1, <2>1, <2>2, DeletionTyped DEF DeleteAppToken
<1>2. ASSUME NEW p \in Pair, DeleteAppData(p) PROVE TypeOK'
  <2>1. StoreTypeOK'
    BY <1>2, DeleteRowsTyped DEF DeleteAppData, WipePair, TypeOK, StoreTypeOK
  <2>2. fate' \in [Token -> TokenFate]
    BY <1>2, RevokedTyped DEF DeleteAppData
  <2> QED BY <1>2, <2>1, <2>2, DeletionTyped DEF DeleteAppData
<1>3. ASSUME NEW a \in App, AdminDeleteApp(a) PROVE TypeOK'
  <2>1. User \X {a} \in SUBSET Pair
    BY DEF Pair
  <2>2. apps' \subseteq App
    BY <1>3 DEF AdminDeleteApp, DeleteApp, TypeOK, StoreTypeOK
  <2>3. StoreTypeOK'
    BY <1>3, <2>1, <2>2, DeleteRowsTyped DEF AdminDeleteApp, DeleteApp, TypeOK
  <2>4. fate' \in [Token -> TokenFate]
    BY <1>3, RevokedTyped DEF AdminDeleteApp
  <2> QED BY <1>3, <2>3, <2>4, DeletionTyped DEF AdminDeleteApp
<1>4. ASSUME NEW a \in App, AdminCreateApp(a) PROVE TypeOK'
  BY <1>4 DEF AdminCreateApp, InsertApp, serverVars, TypeOK, StoreTypeOK
<1> QED BY <1>1, <1>2, <1>3, <1>4 DEF AdminNext

LEMMA NextTyped == TypeOK /\ [Next]_vars => TypeOK'
<1> SUFFICES ASSUME TypeOK, [Next]_vars PROVE TypeOK'
  OBVIOUS
<1>1. CASE UNCHANGED vars
  BY <1>1 DEF vars, storeVars, serverVars, TypeOK, StoreTypeOK
<1>2. CASE Next
  BY <1>2, NextCases, ServeTyped, EnvTyped, AdminTyped
<1> QED BY <1>1, <1>2

\* The tables, the requests and the devices keep their types: in particular
\* no write brings a request, an answer or a device something that is not a
\* snapshot.
THEOREM TypeCorrect == Spec => []TypeOK
BY InitTyped, NextTyped, PTL DEF Spec


(***************************************************************************)
(* What a step does to the tables: nothing, or one statement or            *)
(* transaction of CfgStore.                                                *)
(***************************************************************************)
Writes(r) ==
  /\ PutCommit(r)
  /\ reqs[r] \in Request /\ reqs[r].pair \in Pair /\ reqs[r].payload \in Payload

LEMMA StoreCases ==
  ASSUME TypeOK, [Next]_vars
  PROVE  \/ UNCHANGED <<storeVars, fate>>
         \/ \E r \in Req : Writes(r)
         \/ \E r \in Req : Touch(r)
         \/ \E r \in Req : TokenCommit(r) /\ reqs[r].pair \in Pair
         \/ AdminNext
<1>1. CASE UNCHANGED vars
  BY <1>1 DEF vars, serverVars
<1>2. ASSUME NEW r \in Req, Serve(r)
      PROVE  \/ UNCHANGED <<storeVars, fate>>
             \/ Writes(r)
             \/ Touch(r)
             \/ TokenCommit(r) /\ reqs[r].pair \in Pair
  <2>1. CASE PutCommit(r)
    <3>1. reqs[r] \in Request
      BY <2>1, BusyIsRequest DEF PutCommit, At, Serving
    <3>2. reqs[r].pair \in Pair /\ reqs[r].payload \in Payload
      BY <2>1, <3>1 DEF PutCommit, At, Request, TypeOK, Idle
    <3> QED BY <2>1, <3>1, <3>2 DEF Writes
  <2>2. CASE TokenCommit(r)
    <3>1. reqs[r] \in Request
      BY <2>2, BusyIsRequest DEF TokenCommit, Serving
    <3> QED BY <2>2, <3>1 DEF Request
  <2>3. CASE ReqOnly
    BY <2>3 DEF ReqOnly, storeVars
  <2> QED BY <1>2, <2>1, <2>2, <2>3
          DEF Serve, AuthReject, AuthForbid, AuthPass, HandleGet, PutRejectBody,
              PutOverQuota, PutConflict, PutForeignKey, TokenCheckApp, TokenRefuse
<1>3. CASE EnvNext
  <2>1. ASSUME NEW r \in Req, DbError(r) \/ Cancel(r) \/ Deliver(r)
        PROVE  UNCHANGED <<storeVars, fate>>
    BY <2>1 DEF DbError, ReqOnly, Cancel, Deliver
  <2>2. ASSUME NEW r \in Req, NEW d \in Device, SendGet(r, d) \/ SendPut(r, d)
        PROVE  UNCHANGED <<storeVars, fate>>
    BY <2>2 DEF SendGet, SendPut, Send
  <2>3. ASSUME NEW r \in Req, NEW p \in Pair, SendCreateToken(r, p)
        PROVE  UNCHANGED <<storeVars, fate>>
    BY <2>3 DEF SendCreateToken
  <2>4. CASE (\E d \in Device : GiveUp(d)) \/ Crash \/ Tick
    BY <2>4 DEF GiveUp, Crash, Tick
  <2> QED BY <1>3, <2>1, <2>2, <2>3, <2>4 DEF EnvNext
<1> QED BY <1>1, <1>2, <1>3, NextCases

(***************************************************************************)
(* Foreign keys.                                                           *)
(***************************************************************************)
LEMMA CascadeStep ==
  ASSUME TypeOK, CascadeIntegrity, [Next]_vars
  PROVE  CascadeIntegrity'
<1>1. CASE UNCHANGED storeVars
  BY <1>1 DEF CascadeIntegrity, storeVars
<1>2. ASSUME NEW r \in Req, Writes(r) PROVE CascadeIntegrity'
  <2> DEFINE p == reqs[r].pair
  <2>1. p[2] \in apps /\ p \in Pair
    BY <1>2 DEF Writes, PutCommit, InsertAllowed, CascadeIntegrity
  <2>2. /\ \A q \in Pair : q # p => configs'[q] = configs[q]
        /\ \A h \in history' : h \in history \/ h.pair = p
        /\ UNCHANGED <<apps, tokens>>
    BY <1>2 DEF Writes, PutCommit, WriteConfig, Trimmed, MostRecent, HistoryOf,
                TypeOK, StoreTypeOK
  <2> QED BY <2>1, <2>2 DEF CascadeIntegrity
<1>3. ASSUME NEW r \in Req, Touch(r) PROVE CascadeIntegrity'
  <2>1. \A t \in tokens' : \E s \in tokens : t.pair = s.pair
    <3> SUFFICES ASSUME NEW s \in tokens
                 PROVE  (IF s.hash = reqs[r].hash
                         THEN [s EXCEPT !.used = TRUE] ELSE s).pair = s.pair
      BY <1>3 DEF Touch, TouchToken
    <3> QED BY DEF TypeOK, StoreTypeOK, TokenRow
  <2>2. UNCHANGED <<apps, configs, history>>
    BY <1>3 DEF Touch, TouchToken
  <2> QED BY <2>1, <2>2 DEF CascadeIntegrity
<1>4. ASSUME NEW r \in Req, TokenCommit(r), reqs[r].pair \in Pair
      PROVE  CascadeIntegrity'
  <2>1. /\ \A t \in tokens' : t \in tokens \/ t.pair = reqs[r].pair
        /\ UNCHANGED <<apps, configs, history>>
        /\ reqs[r].pair[2] \in apps
    BY <1>4 DEF TokenCommit, ReplaceToken
  <2> QED BY <2>1 DEF CascadeIntegrity
<1>5. ASSUME NEW u, NEW prefix, DeleteAppToken(u, prefix) PROVE CascadeIntegrity'
  BY <1>5 DEF DeleteAppToken, DeleteTokens, CascadeIntegrity
<1>6. ASSUME NEW p \in Pair, DeleteAppData(p) PROVE CascadeIntegrity'
  BY <1>6 DEF DeleteAppData, WipePair, DeleteRows, CascadeIntegrity
<1>7. ASSUME NEW a \in App, AdminDeleteApp(a) PROVE CascadeIntegrity'
  <2>1. /\ apps' = apps \ {a}
        /\ configs' = [p \in Pair |-> IF p \in User \X {a} THEN Absent ELSE configs[p]]
        /\ history' = {h \in history : h.pair \notin User \X {a}}
        /\ tokens' = {t \in tokens : t.pair \notin User \X {a}}
    BY <1>7 DEF AdminDeleteApp, DeleteApp, DeleteRows
  <2>2. \A p \in Pair : p \in User \X {a} <=> p[2] = a
    BY DEF Pair
  <2>3. /\ \A h \in history : h.pair \in Pair
        /\ \A t \in tokens : t.pair \in Pair
    BY DEF TypeOK, StoreTypeOK, HistoryRow, TokenRow
  <2> QED BY <2>1, <2>2, <2>3 DEF CascadeIntegrity
<1>8. ASSUME NEW a \in App, AdminCreateApp(a) PROVE CascadeIntegrity'
  BY <1>8 DEF AdminCreateApp, InsertApp, CascadeIntegrity
<1> QED BY <1>1, <1>2, <1>3, <1>4, <1>5, <1>6, <1>7, <1>8, StoreCases DEF AdminNext

\* No row outlives its app, for any number of users and apps and under every
\* interleaving of authenticated requests with AdminDeleteApp.
THEOREM CascadeCorrect == Spec => []CascadeIntegrity
<1>1. Init => CascadeIntegrity
  BY DEF Init, StoreInit, CascadeIntegrity
<1>2. TypeOK /\ CascadeIntegrity /\ [Next]_vars => CascadeIntegrity'
  BY CascadeStep
<1> QED BY <1>1, <1>2, TypeCorrect, PTL DEF Spec

(***************************************************************************)
(* Tokens that authenticate are the tokens granted and not revoked.        *)
(***************************************************************************)
RowsAreLive ==
  /\ \A t \in tokens : /\ t.hash \in Token
                       /\ fate[t.hash].state = "live"
                       /\ t.pair = fate[t.hash].pair
  /\ \A h \in Token : fate[h].state = "live" => \E t \in tokens : t.hash = h

LEMMA RowsAreLiveEquiv ==
  ASSUME StoreTypeOK
  PROVE  LiveTokensHaveRows <=> RowsAreLive
<1>1. \A t \in tokens : t.hash \in Token
  BY DEF StoreTypeOK, TokenRow
<1>2. LiveTokensHaveRows => RowsAreLive
  BY <1>1 DEF LiveTokensHaveRows, RowsAreLive
<1>3. RowsAreLive => LiveTokensHaveRows
  BY DEF LiveTokensHaveRows, RowsAreLive
<1> QED BY <1>2, <1>3

\* Deleting the rows of the tokens hs and revoking them agree.
LEMMA RevokeRows ==
  ASSUME TypeOK, RowsAreLive, NEW hs,
         tokens' = {t \in tokens : t.hash \notin hs}, fate' = Revoked(hs)
  PROVE  RowsAreLive'
<1>1. \A h \in Token : h \notin hs => fate'[h] = fate[h]
  BY DEF Revoked
<1>2. \A h \in Token : h \in hs => fate'[h].state # "live"
  BY DEF Revoked, TypeOK, TokenFate
<1> QED BY <1>1, <1>2 DEF RowsAreLive

LEMMA LiveTokensStep ==
  ASSUME TypeOK, RowsAreLive, [Next]_vars
  PROVE  RowsAreLive'
<1>0. /\ \A t \in tokens : t.pair \in Pair
      /\ \A t \in tokens, ps \in SUBSET Pair : t.hash \in TokensFor(ps) <=> t.pair \in ps
  BY DEF RowsAreLive, TokensFor, TypeOK, StoreTypeOK, TokenRow
<1>1. CASE UNCHANGED <<storeVars, fate>>
  BY <1>1 DEF RowsAreLive, storeVars
<1>2. ASSUME NEW r \in Req, Writes(r) PROVE RowsAreLive'
  BY <1>2 DEF Writes, PutCommit, WriteConfig, RowsAreLive
<1>3. ASSUME NEW r \in Req, Touch(r) PROVE RowsAreLive'
  <2> DEFINE touched(t) == IF t.hash = reqs[r].hash THEN [t EXCEPT !.used = TRUE] ELSE t
  <2>1. tokens' = {touched(t) : t \in tokens} /\ UNCHANGED fate
    BY <1>3 DEF Touch, TouchToken
  <2>2. \A t \in tokens : touched(t).hash = t.hash /\ touched(t).pair = t.pair
    BY DEF TypeOK, StoreTypeOK, TokenRow
  <2> HIDE DEF touched
  <2> QED BY <2>1, <2>2 DEF RowsAreLive
<1>4. ASSUME NEW r \in Req, TokenCommit(r), reqs[r].pair \in Pair PROVE RowsAreLive'
  <2> DEFINE p == reqs[r].pair
  <2>1. PICK h \in Unissued :
          /\ tokens' = {t \in tokens : t.pair # p}
                         \cup {[hash |-> h, pair |-> p, used |-> FALSE]}
          /\ fate' = [Revoked(TokensFor({p})) EXCEPT ![h] = [state |-> "live", pair |-> p]]
    BY <1>4 DEF TokenCommit, ReplaceToken
  <2>2. h \in Token /\ fate[h].state = "unissued"
    BY DEF Unissued
  <2>3. /\ fate'[h] = [state |-> "live", pair |-> p]
        /\ \A g \in Token : g # h /\ g \notin TokensFor({p}) => fate'[g] = fate[g]
        /\ \A g \in Token : g # h /\ g \in TokensFor({p}) => fate'[g].state # "live"
    BY <2>1, <2>2 DEF Revoked, TypeOK, TokenFate
  <2>4. \A t \in tokens : t.pair # p => t.hash \notin TokensFor({p}) /\ t.hash # h
    BY <1>0, <1>4, <2>2 DEF RowsAreLive
  <2> DEFINE new == [hash |-> h, pair |-> p, used |-> FALSE]
  <2>a. new.hash = h /\ new.pair = p /\ new \in tokens'
    BY <2>1
  <2>b. \A t \in tokens' : t = new \/ (t \in tokens /\ t.pair # p)
    BY <2>1
  <2> HIDE DEF new
  <2>5. ASSUME NEW t \in tokens'
        PROVE  t.hash \in Token /\ fate'[t.hash].state = "live" /\ t.pair = fate'[t.hash].pair
    <3>1. CASE t = new
      BY <3>1, <2>2, <2>3, <2>a
    <3>2. CASE t \in tokens /\ t.pair # p
      BY <3>2, <2>3, <2>4 DEF RowsAreLive
    <3> QED BY <3>1, <3>2, <2>b
  <2>6. ASSUME NEW g \in Token, fate'[g].state = "live"
        PROVE  \E t \in tokens' : t.hash = g
    <3>1. CASE g = h
      BY <3>1, <2>a
    <3>2. CASE g # h
      <4>1. g \notin TokensFor({p}) /\ fate[g].state = "live"
        BY <3>2, <2>3, <2>6
      <4>2. PICK t \in tokens : t.hash = g
        BY <4>1 DEF RowsAreLive
      <4>3. t.pair # p
        BY <4>1, <4>2, <1>0, <1>4
      <4> QED BY <4>2, <4>3, <2>1
    <3> QED BY <3>1, <3>2
  <2> QED BY <2>5, <2>6 DEF RowsAreLive
<1>5. ASSUME NEW u \in User, NEW prefix, DeleteAppToken(u, prefix) PROVE RowsAreLive'
  <2> DEFINE hs == {h \in TokensFor({u} \X App) : PrefixOf[h] = prefix}
  <2>1. \A t \in tokens : t.pair \in {u} \X App <=> t.pair[1] = u
    BY <1>0 DEF Pair
  <2>2. {u} \X App \in SUBSET Pair
    BY DEF Pair
  <2>3. \A t \in tokens : t.hash \in hs <=> (t.pair[1] = u /\ PrefixOf[t.hash] = prefix)
    BY <1>0, <2>1, <2>2
  <2>4. tokens' = {t \in tokens : t.hash \notin hs}
    BY <1>5, <2>3 DEF DeleteAppToken, DeleteTokens
  <2> QED BY <1>5, <2>4, RevokeRows DEF DeleteAppToken
<1>6. ASSUME NEW p \in Pair, DeleteAppData(p) PROVE RowsAreLive'
  <2>1. tokens' = {t \in tokens : t.hash \notin TokensFor({p})}
    BY <1>6, <1>0 DEF DeleteAppData, WipePair, DeleteRows
  <2> QED BY <1>6, <2>1, RevokeRows DEF DeleteAppData
<1>7. ASSUME NEW a \in App, AdminDeleteApp(a) PROVE RowsAreLive'
  <2>0. User \X {a} \in SUBSET Pair
    BY DEF Pair
  <2>1. tokens' = {t \in tokens : t.hash \notin TokensFor(User \X {a})}
    BY <1>7, <1>0, <2>0 DEF AdminDeleteApp, DeleteApp, DeleteRows
  <2> QED BY <1>7, <2>1, RevokeRows DEF AdminDeleteApp
<1>8. ASSUME NEW a \in App, AdminCreateApp(a) PROVE RowsAreLive'
  BY <1>8 DEF AdminCreateApp, InsertApp, serverVars, RowsAreLive
<1> QED BY <1>1, <1>2, <1>3, <1>4, <1>5, <1>6, <1>7, <1>8, StoreCases DEF AdminNext

\* The rows of app_tokens are the tokens granted and not revoked since.
THEOREM LiveTokensCorrect == Spec => []LiveTokensHaveRows
<1>1. Init => LiveTokensHaveRows
  BY DEF Init, StoreInit, LiveTokensHaveRows
<1>2. TypeOK /\ LiveTokensHaveRows /\ TypeOK' /\ [Next]_vars => LiveTokensHaveRows'
  <2>1. TypeOK => (LiveTokensHaveRows <=> RowsAreLive)
    BY RowsAreLiveEquiv DEF TypeOK
  <2>2. TypeOK' => (LiveTokensHaveRows' <=> RowsAreLive')
    BY <2>1, PTL
  <2> QED BY <2>1, <2>2, LiveTokensStep
<1> QED BY <1>1, <1>2, TypeCorrect, PTL DEF Spec

(***************************************************************************)
(* Revoked tokens.                                                         *)
(***************************************************************************)

\* Once issued a token keeps its pair, and once revoked it stays revoked.
FateStep ==
  \A h \in Token : fate[h].state # "unissued" =>
    /\ fate'[h].state # "unissued"
    /\ fate'[h].pair = fate[h].pair
    /\ fate[h].state = "revoked" => fate'[h].state = "revoked"

LEMMA RevokedFate ==
  ASSUME TypeOK, NEW hs, fate' = Revoked(hs)
  PROVE  FateStep
BY DEF Revoked, FateStep, TypeOK, TokenFate

LEMMA FateOnlyForward ==
  ASSUME TypeOK, [Next]_vars
  PROVE  FateStep
<1>1. CASE UNCHANGED <<storeVars, fate>>
  BY <1>1 DEF FateStep
<1>2. ASSUME NEW r \in Req, Writes(r) PROVE FateStep
  BY <1>2 DEF Writes, PutCommit, FateStep
<1>3. ASSUME NEW r \in Req, Touch(r) PROVE FateStep
  BY <1>3 DEF Touch, FateStep
<1>4. ASSUME NEW r \in Req, TokenCommit(r) PROVE FateStep
  <2>1. PICK h \in Unissued :
          fate' = [Revoked(TokensFor({reqs[r].pair})) EXCEPT
                     ![h] = [state |-> "live", pair |-> reqs[r].pair]]
    BY <1>4 DEF TokenCommit
  <2>2. \A g \in Token : g # h => fate'[g] = Revoked(TokensFor({reqs[r].pair}))[g]
    BY <2>1 DEF Revoked
  <2> QED BY <2>2 DEF Unissued, Revoked, FateStep, TypeOK, TokenFate
<1>5. ASSUME AdminNext PROVE FateStep
  BY <1>5, RevokedFate
     DEF AdminNext, DeleteAppToken, DeleteAppData, AdminDeleteApp, AdminCreateApp,
         serverVars, FateStep
<1> QED BY <1>1, <1>2, <1>3, <1>4, <1>5, StoreCases

\* What one request must satisfy for RequestsCarryTokens.
Carries(q) ==
  q # Idle =>
    IF q.op = "token"
    THEN q.pc \in {"check", "mint", "reply"} /\ ~q.revoked
    ELSE q.pc \in {"auth", "touch", "handle", "reply"} /\ TokenCarried(q)

LEMMA CarriesEquiv == RequestsCarryTokens <=> \A r \in Req : Carries(reqs[r])
BY DEF RequestsCarryTokens, Carries

\* A request that does not move keeps it, whatever happens to the tokens.
LEMMA CarriesUnmoved ==
  ASSUME FateStep, NEW r \in Req, Carries(reqs[r]), reqs'[r] = reqs[r]
  PROVE  Carries(reqs[r])'
BY DEF FateStep, Carries, TokenCarried

\* A step of r changes only its program counter, its answer and, when the
\* token is looked up, the pair; and it can pass the lookup only with a row.
Moves(r) ==
  /\ reqs[r] \in Request /\ reqs'[r] \in Request
  /\ reqs'[r].op = reqs[r].op /\ reqs'[r].hash = reqs[r].hash
  /\ reqs'[r].revoked = reqs[r].revoked /\ reqs'[r].sent = reqs[r].sent
  /\ reqs'[r].payload = reqs[r].payload /\ reqs'[r].force = reqs[r].force
  /\ \A s \in Req : s # r => reqs'[s] = reqs[s]

LEMMA AnswerMoves ==
  ASSUME TypeOK, NEW r \in Req, reqs[r] \in Request,
         NEW status \in Status, NEW s \in Snapshot, AnswerWith(r, status, s)
  PROVE  /\ Moves(r)
         /\ reqs'[r].pc = "reply" /\ reqs'[r].status = status
         /\ reqs'[r].answer = s /\ reqs'[r].pair = reqs[r].pair
BY DEF TypeOK, AnswerWith, Moves, Request

LEMMA GotoMoves ==
  ASSUME TypeOK, NEW r \in Req, reqs[r] \in Request, NEW pc \in Serving, Goto(r, pc)
  PROVE  /\ Moves(r)
         /\ reqs'[r].pc = pc /\ reqs'[r].answer = reqs[r].answer
         /\ reqs'[r].pair = reqs[r].pair
BY DEF TypeOK, Goto, Moves, Request

\* The steps of a request by what they do to it.
LEMMA ServeMoves ==
  ASSUME TypeOK, RowsAreLive, RequestsCarryTokens, NEW r \in Req,
         Serve(r) \/ DbError(r)
  PROVE  /\ Moves(r)
         /\ reqs'[r].pair = reqs[r].pair
         /\ \/ /\ reqs[r].pc = "auth" /\ ~reqs[r].revoked
               /\ reqs'[r].pc \in {"touch", "reply"}
            \/ /\ reqs[r].pc = "auth" /\ reqs'[r].pc = "reply"
               /\ reqs'[r].status \in {"unauthorized", "internal"}
            \/ reqs[r].pc = "touch" /\ reqs'[r].pc = "handle"
            \/ reqs[r].pc = "handle" /\ reqs'[r].pc = "reply"
            \/ reqs[r].pc \in {"check", "mint"} /\ reqs'[r].pc \in {"mint", "reply"}
         /\ \/ reqs'[r].answer \in {reqs[r].answer, NoSnapshot, Current(reqs[r].pair)}
            \/ PutCommit(r)
<1>0. reqs[r] \in Request /\ reqs[r].pc \in Serving
  BY BusyIsRequest DEF Serve, DbError, AuthReject, AuthForbid, AuthPass, Touch,
     HandleGet, At, PutRejectBody, PutOverQuota, PutConflict, PutForeignKey,
     PutCommit, TokenCheckApp, TokenRefuse, TokenCommit, Serving
<1>c. reqs[r].pair \in Pair /\ Carries(reqs[r]) /\ reqs[r] # Idle
  BY <1>0, CarriesEquiv DEF Request, Idle, Serving
<1>d. \A status \in Status : Answer(r, status) =>
        /\ Moves(r)
        /\ reqs'[r].pc = "reply" /\ reqs'[r].status = status
        /\ reqs'[r].answer = NoSnapshot /\ reqs'[r].pair = reqs[r].pair
  BY <1>0, AnswerMoves, NoSnapshotTyped DEF Answer
\* A row of the presented token is a row of the pair's own, live token.
<1>e. ASSUME NEW t \in RowOf(reqs[r].hash), reqs[r].pc = "auth"
      PROVE  /\ ~reqs[r].revoked /\ t.pair \in Pair
             /\ t.pair[1] = reqs[r].pair[1]
  BY <1>c, <1>e DEF RowOf, RowsAreLive, Carries, TokenCarried, TypeOK, StoreTypeOK,
     TokenRow, Request
<1>1. CASE AuthReject(r)
  BY <1>1, <1>d DEF AuthReject, Status
<1>2. CASE AuthForbid(r)
  BY <1>2, <1>d, <1>e DEF AuthForbid, Status
<1>3. CASE AuthPass(r)
  <2>1. PICK t \in RowOf(reqs[r].hash) :
          /\ t.pair[2] = reqs[r].pair[2]
          /\ reqs' = [reqs EXCEPT ![r].pc = "touch", ![r].pair = t.pair]
    BY <1>3 DEF AuthPass
  <2>2. t.pair = reqs[r].pair
    BY <1>3, <1>c, <1>e, <2>1 DEF AuthPass, Pair
  <2>3. /\ Moves(r)
        /\ reqs'[r].pc = "touch" /\ reqs'[r].pair = reqs[r].pair
        /\ reqs'[r].answer = reqs[r].answer
    BY <1>0, <2>1, <2>2 DEF TypeOK, Moves, Request, Serving
  <2> QED BY <1>3, <1>e, <2>1, <2>3 DEF AuthPass
<1>4. CASE Touch(r)
  BY <1>4, <1>0, GotoMoves DEF Touch, Serving
<1>5. CASE HandleGet(r)
  BY <1>5, <1>0, <1>c, AnswerMoves, CurrentTyped DEF HandleGet, At, Status
<1>6. CASE PutRejectBody(r)
  BY <1>6, <1>d DEF PutRejectBody, At, Status
<1>7. CASE PutOverQuota(r)
  BY <1>7, <1>d DEF PutOverQuota, At, Status
<1>8. CASE PutConflict(r)
  BY <1>8, <1>0, <1>c, <1>d, AnswerMoves, CurrentTyped DEF PutConflict, At, Status
<1>9. CASE PutForeignKey(r)
  BY <1>9, <1>d DEF PutForeignKey, At, Status
<1>10. CASE PutCommit(r)
  <2> DEFINE s == [version |-> configs[reqs[r].pair].version + 1,
                   payload |-> reqs[r].payload, life |-> life[reqs[r].pair]]
  <2>1. s \in Snapshot
    BY <1>0, <1>c DEF Snapshot, TypeOK, StoreTypeOK, ConfigRow, Request
  <2>2. AnswerWith(r, "ok", s)
    BY <1>10 DEF PutCommit
  <2> QED BY <1>10, <1>0, <2>1, <2>2, AnswerMoves DEF PutCommit, At, Status
<1>11. CASE TokenCheckApp(r)
  BY <1>11, <1>0, <1>d, GotoMoves DEF TokenCheckApp, Status, Serving
<1>12. CASE TokenRefuse(r)
  BY <1>12, <1>d DEF TokenRefuse, Status
<1>13. CASE TokenCommit(r)
  BY <1>13, <1>d DEF TokenCommit, Status
<1>14. CASE DbError(r)
  BY <1>14, <1>0, <1>d, GotoMoves DEF DbError, Status, Serving
<1> QED BY <1>1, <1>2, <1>3, <1>4, <1>5, <1>6, <1>7, <1>8, <1>9, <1>10, <1>11,
           <1>12, <1>13, <1>14 DEF Serve

\* The steps that neither serve nor fail a request, by what they do to reqs.
Sends(r) ==
  \/ \E d \in Device : \E op \in {"get", "put"} : \E h \in Presentable(d) :
       \E payload, force : Send(r, d, op, h, payload, force)
  \/ \E p \in Pair : SendCreateToken(r, p)

LEMMA RequestCases ==
  ASSUME TypeOK, [Next]_vars
  PROVE  \/ \E r \in Req : Serve(r) \/ DbError(r)
         \/ \E r \in Req : Sends(r)
         \/ \A r \in Req : reqs'[r] \in {reqs[r], Idle}
<1>1. CASE UNCHANGED vars
  BY <1>1 DEF vars, serverVars
<1>2. CASE AdminNext
  BY <1>2 DEF AdminNext, DeleteAppToken, DeleteAppData, AdminDeleteApp,
              AdminCreateApp, Deletion, serverVars
<1>3. CASE EnvNext
  <2>1. ASSUME NEW r \in Req, Cancel(r) \/ Deliver(r)
        PROVE  \A s \in Req : reqs'[s] \in {reqs[s], Idle}
    BY <2>1 DEF Cancel, Deliver, TypeOK
  <2>2. ASSUME NEW r \in Req, NEW d \in Device, SendGet(r, d) \/ SendPut(r, d)
        PROVE  Sends(r)
    BY <2>2 DEF SendGet, SendPut, Sends
  <2>3. ASSUME NEW d \in Device, GiveUp(d)
        PROVE  \A s \in Req : reqs'[s] \in {reqs[s], Idle}
    BY <2>3 DEF GiveUp
  <2>4. ASSUME Crash \/ Tick
        PROVE  \A s \in Req : reqs'[s] \in {reqs[s], Idle}
    BY <2>4 DEF Crash, Tick
  <2> QED BY <1>3, <2>1, <2>2, <2>3, <2>4 DEF EnvNext, Sends
<1> QED BY <1>1, <1>2, <1>3, NextCases

LEMMA CarriesStep ==
  ASSUME TypeOK, RowsAreLive, RequestsCarryTokens, [Next]_vars
  PROVE  RequestsCarryTokens'
<1>0. FateStep /\ \A r \in Req : Carries(reqs[r])
  BY FateOnlyForward, CarriesEquiv
<1>1. ASSUME NEW r \in Req, Serve(r) \/ DbError(r), NEW s \in Req
      PROVE  Carries(reqs[s])'
  <2>1. CASE s # r
    BY <1>0, <1>1, <2>1, ServeMoves, CarriesUnmoved DEF Moves
  <2>2. CASE s = r
    <3>1. /\ reqs'[r].op = reqs[r].op /\ reqs'[r].hash = reqs[r].hash
          /\ reqs'[r].revoked = reqs[r].revoked /\ reqs'[r].pair = reqs[r].pair
          /\ \/ /\ reqs[r].pc = "auth" /\ ~reqs[r].revoked
                /\ reqs'[r].pc \in {"touch", "reply"}
             \/ /\ reqs[r].pc = "auth" /\ reqs'[r].pc = "reply"
                /\ reqs'[r].status \in {"unauthorized", "internal"}
             \/ reqs[r].pc = "touch" /\ reqs'[r].pc = "handle"
             \/ reqs[r].pc = "handle" /\ reqs'[r].pc = "reply"
             \/ reqs[r].pc \in {"check", "mint"} /\ reqs'[r].pc \in {"mint", "reply"}
          /\ reqs[r] # Idle
      BY <1>1, ServeMoves DEF Moves, Request, Idle, Serving
    <3> QED BY <1>0, <2>2, <3>1 DEF Carries, TokenCarried, FateStep
  <2> QED BY <2>1, <2>2
<1>2. ASSUME NEW r \in Req, Sends(r), NEW s \in Req
      PROVE  Carries(reqs[s])'
  <2>1. CASE s # r
    <3>1. reqs'[s] = reqs[s]
      BY <1>2, <2>1 DEF Sends, Send, SendCreateToken, TypeOK
    <3> QED BY <1>0, <3>1, CarriesUnmoved
  <2>2. ASSUME NEW d \in Device, NEW op \in {"get", "put"}, NEW h \in Presentable(d),
               NEW payload, NEW force, Send(r, d, op, h, payload, force)
        PROVE  Carries(reqs[r])'
    <3>1. /\ h \in Token /\ fate[h].state # "unissued"
          /\ fate[h].pair[1] = Owner[d][1] /\ fate' = fate
      BY <2>2 DEF Presentable, Unissued, Send
    <3>2. /\ reqs'[r].op = op /\ reqs'[r].hash = h /\ reqs'[r].pc = "auth"
          /\ reqs'[r].revoked = (fate[h].state = "revoked")
          /\ reqs'[r].pair = Owner[d]
      BY <2>2 DEF Send, TypeOK
    <3> QED BY <3>1, <3>2 DEF Carries, TokenCarried
  <2>3. ASSUME NEW p \in Pair, SendCreateToken(r, p)
        PROVE  Carries(reqs[r])'
    BY <2>3 DEF SendCreateToken, TypeOK, Carries
  <2> QED BY <1>2, <2>1, <2>2, <2>3 DEF Sends
<1>3. ASSUME NEW s \in Req, reqs'[s] \in {reqs[s], Idle}
      PROVE  Carries(reqs[s])'
  BY <1>0, <1>3, CarriesUnmoved DEF Carries
<1>4. \A s \in Req : Carries(reqs[s])'
  BY <1>1, <1>2, <1>3, RequestCases
<1> QED BY <1>4 DEF Carries, RequestsCarryTokens, TokenCarried

\* A request with a revoked token reaches no handler, for any number of
\* requests, tokens and revocations in progress.
THEOREM RevokedTokensCorrect == Spec => []RevokedTokenRefused
<1>1. Init => RequestsCarryTokens
  BY DEF Init, RequestsCarryTokens
<1>2. /\ TypeOK /\ LiveTokensHaveRows /\ RequestsCarryTokens /\ [Next]_vars
      => RequestsCarryTokens'
  BY CarriesStep, RowsAreLiveEquiv DEF TypeOK
<1>3. TypeOK /\ RequestsCarryTokens => RevokedTokenRefused
  <2> SUFFICES ASSUME TypeOK, RequestsCarryTokens, NEW r \in Req,
                      reqs[r].pc \in Serving \cup {"reply"}, reqs[r].revoked
               PROVE  \/ reqs[r].pc = "auth"
                      \/ /\ reqs[r].pc = "reply"
                         /\ reqs[r].status \in {"unauthorized", "internal"}
    BY DEF RevokedTokenRefused
  <2>1. reqs[r] # Idle
    BY DEF Idle, Serving
  <2> QED BY <2>1 DEF RequestsCarryTokens, TokenCarried
<1> QED BY <1>1, <1>2, <1>3, TypeCorrect, LiveTokensCorrect, PTL DEF Spec

(***************************************************************************)
(* The limit on app tokens.                                                *)
(***************************************************************************)
OnePerPair == \A s, t \in tokens : s.pair = t.pair => s = t
Bounded(S) == S = {} \/ Cardinality(S) <= UserAppTokenLimit
FewTokens == \A u \in User : IsFiniteSet(TokensOf(u)) /\ Bounded(TokensOf(u))

LEMMA FewerBounded ==
  ASSUME NEW S, IsFiniteSet(S), Bounded(S), NEW T \in SUBSET S
  PROVE  IsFiniteSet(T) /\ Bounded(T)
<1>1. /\ IsFiniteSet(T) /\ Cardinality(T) <= Cardinality(S)
      /\ Cardinality(T) \in Nat /\ Cardinality(S) \in Nat
  BY FS_Subset, FS_CardinalityType
<1>2. S = {} => T = {}
  OBVIOUS
<1> QED BY <1>1, <1>2, StoreAssumption DEF Bounded

\* Deletions only remove tokens.
LEMMA FewerTokens ==
  ASSUME OnePerPair, FewTokens, tokens' \subseteq tokens
  PROVE  OnePerPair' /\ FewTokens'
<1>1. \A u \in User : TokensOf(u)' \in SUBSET TokensOf(u)
  BY DEF TokensOf
<1> QED BY <1>1, FewerBounded DEF OnePerPair, FewTokens

\* last_used_at changes a token, not the number of them.
LEMMA TouchedTokens ==
  ASSUME StoreTypeOK, OnePerPair, FewTokens, NEW h, TouchToken(h)
  PROVE  OnePerPair' /\ FewTokens'
<1> DEFINE touched(t) == IF t.hash = h THEN [t EXCEPT !.used = TRUE] ELSE t
<1>1. tokens' = {touched(t) : t \in tokens}
  BY DEF TouchToken
<1>2. \A t \in tokens : touched(t).pair = t.pair
  BY DEF StoreTypeOK, TokenRow
<1> HIDE DEF touched
<1>3. OnePerPair'
  BY <1>1, <1>2 DEF OnePerPair
<1>4. ASSUME NEW u \in User PROVE IsFiniteSet(TokensOf(u)') /\ Bounded(TokensOf(u)')
  <2> DEFINE S == TokensOf(u)
             T == TokensOf(u)'
             f == [t \in S |-> touched(t)]
  <2>1. T = {touched(t) : t \in S}
    BY <1>1, <1>2 DEF TokensOf
  <2>2. f \in [S -> T] /\ \A y \in T : \E x \in S : f[x] = y
    BY <2>1
  <2>3. f \in Surjection(S, T)
    BY <2>2 DEF Surjection
  <2>4. IsFiniteSet(S) /\ Bounded(S)
    BY DEF FewTokens
  <2> HIDE DEF f, S, T
  <2>5. IsFiniteSet(T) /\ Cardinality(T) <= Cardinality(S)
    BY <2>3, <2>4, FS_Surjection
  <2>6. Cardinality(T) \in Nat /\ Cardinality(S) \in Nat
    BY <2>4, <2>5, FS_CardinalityType
  <2>7. S = {} => T = {}
    BY <2>1
  <2>8. IsFiniteSet(T) /\ Bounded(T)
    BY <2>4, <2>5, <2>6, <2>7, StoreAssumption DEF Bounded
  <2> QED BY <2>8 DEF T
<1> QED BY <1>3, <1>4 DEF FewTokens, Bounded

\* A new token replaces the pair's own or takes a place that was free.
LEMMA ReplacedTokens ==
  ASSUME StoreTypeOK, OnePerPair, FewTokens, NEW p \in Pair, NEW h \in Token,
         RoomForToken(p), ReplaceToken(p, h)
  PROVE  OnePerPair' /\ FewTokens'
<1> DEFINE new == [hash |-> h, pair |-> p, used |-> FALSE]
<1>1. tokens' = {t \in tokens : t.pair # p} \cup {new} /\ new.pair = p
  BY DEF ReplaceToken
<1> HIDE DEF new
<1>2. OnePerPair'
  BY <1>1 DEF OnePerPair
<1>3. ASSUME NEW u \in User, u # p[1] PROVE TokensOf(u)' \in SUBSET TokensOf(u)
  BY <1>1, <1>3 DEF TokensOf
<1> DEFINE S == TokensOf(p[1])
           T == TokensOf(p[1])'
<1>4. T = {t \in S : t.pair # p} \cup {new}
  BY <1>1 DEF TokensOf
<1>5. p[1] \in User
  BY DEF Pair
<1>6. IsFiniteSet(S) /\ Bounded(S) /\ Cardinality(S) \in Nat
  BY <1>5, FS_CardinalityType DEF FewTokens
<1>7. ASSUME HasToken(p) PROVE IsFiniteSet(T) /\ Bounded(T)
  <2>1. PICK t \in tokens : t.pair = p
    BY <1>7 DEF HasToken
  <2>2. t \in S /\ T = (S \ {t}) \cup {new}
    BY <1>4, <2>1 DEF TokensOf, OnePerPair
  <2> HIDE DEF S, T
  <2>3. IsFiniteSet(S \ {t}) /\ Cardinality(S \ {t}) = Cardinality(S) - 1
    BY <1>6, <2>2, FS_RemoveElement
  <2> DEFINE R == S \ {t}
  <2> HIDE DEF R
  <2>a. /\ IsFiniteSet(R \cup {new})
        /\ Cardinality(R \cup {new}) = IF new \in R THEN Cardinality(R) ELSE Cardinality(R) + 1
    BY <2>3, FS_AddElement DEF R
  <2>4. IsFiniteSet(T) /\ Cardinality(T) <= Cardinality(S)
    BY <1>6, <2>2, <2>3, <2>a DEF R
  <2>5. Cardinality(T) \in Nat /\ S # {}
    BY <2>2, <2>4, FS_CardinalityType
  <2> QED BY <1>6, <2>4, <2>5, StoreAssumption DEF Bounded
<1>8. ASSUME ~HasToken(p) PROVE IsFiniteSet(T) /\ Bounded(T)
  <2>1. T = S \cup {new}
    BY <1>4, <1>8 DEF HasToken, TokensOf
  <2>2. Cardinality(S) < UserAppTokenLimit
    BY <1>8 DEF RoomForToken
  <2> HIDE DEF S, T
  <2>a. /\ IsFiniteSet(S \cup {new})
        /\ Cardinality(S \cup {new}) = IF new \in S THEN Cardinality(S) ELSE Cardinality(S) + 1
    BY <1>6, FS_AddElement
  <2>3. IsFiniteSet(T) /\ Cardinality(T) <= Cardinality(S) + 1
    BY <1>6, <2>1, <2>a
  <2>4. Cardinality(T) \in Nat
    BY <2>3, FS_CardinalityType
  <2> QED BY <1>6, <2>2, <2>3, <2>4, StoreAssumption DEF Bounded
<1>9. ASSUME NEW u \in User PROVE IsFiniteSet(TokensOf(u)') /\ Bounded(TokensOf(u)')
  <2>1. CASE u = p[1]
    <3>1. TokensOf(u)' = T
      BY <2>1
    <3> QED BY <1>7, <1>8, <3>1
  <2>2. CASE u # p[1]
    <3>1. IsFiniteSet(TokensOf(u)) /\ Bounded(TokensOf(u))
      BY DEF FewTokens
    <3> QED BY <1>3, <2>2, <3>1, FewerBounded
  <2> QED BY <2>1, <2>2
<1> QED BY <1>2, <1>9 DEF FewTokens, Bounded

LEMMA FewTokensStep ==
  ASSUME TypeOK, OnePerPair, FewTokens, [Next]_vars
  PROVE  OnePerPair' /\ FewTokens'
<1>1. ASSUME NEW r \in Req, Writes(r) PROVE tokens' \subseteq tokens
  BY <1>1 DEF Writes, PutCommit, WriteConfig
<1>2. AdminNext => tokens' \subseteq tokens
  BY DEF AdminNext, DeleteAppToken, DeleteTokens, DeleteAppData, WipePair,
     AdminDeleteApp, DeleteApp, DeleteRows, AdminCreateApp, InsertApp
<1>3. UNCHANGED <<storeVars, fate>> => tokens' \subseteq tokens
  BY DEF storeVars
<1>4. ASSUME NEW r \in Req, Touch(r) PROVE OnePerPair' /\ FewTokens'
  BY <1>4, TouchedTokens DEF Touch, TypeOK
<1>5. ASSUME NEW r \in Req, TokenCommit(r), reqs[r].pair \in Pair
      PROVE  OnePerPair' /\ FewTokens'
  BY <1>5, ReplacedTokens DEF TokenCommit, Unissued, TypeOK
<1> QED BY <1>1, <1>2, <1>3, <1>4, <1>5, StoreCases, FewerTokens

\* No interleaving of CreateAppToken requests exceeds the limit or grants a
\* second token for an app, for any limit.
THEOREM TokensWithinLimit == Spec => []TokensBounded
<1>1. Init => OnePerPair /\ FewTokens
  BY FS_EmptySet DEF Init, StoreInit, OnePerPair, FewTokens, TokensOf, Bounded
<1>2. TypeOK /\ OnePerPair /\ FewTokens /\ [Next]_vars => OnePerPair' /\ FewTokens'
  BY FewTokensStep
<1>3. OnePerPair /\ FewTokens => TokensBounded
  BY DEF OnePerPair, FewTokens, Bounded, TokensBounded
<1> QED BY <1>1, <1>2, <1>3, TypeCorrect, PTL DEF Spec
=============================================================================
