---------------------------- MODULE SessionsProofs ----------------------------
(***************************************************************************)
(* Theorems about accounts and sessions, for every set of accounts,        *)
(* passwords, tokens and requests, any lifetimes and any clock.            *)
(***************************************************************************)
EXTENDS Sessions, TLAPS

USE SessionsAssumption

(***************************************************************************)
(* The inductive invariant: what is true of each request, given the tables *)
(* us (users), rs (refresh_tokens) and the tokens hs clients have.         *)
(***************************************************************************)

\* The sessions a request names have rows.
SessionsExist(q, rs, hs) ==
  /\ q.newSession # NoSession => rs[q.newSession] # NoRow
  /\ q.pc = "find" => q.session \in hs

\* A claim of administration is true of the account it names.
ClaimsTrue(q, us) ==
  /\ q.jwt.admin => us[q.jwt.user].admin
  /\ q.newJwt.admin => us[q.newJwt.user].admin
  /\ q.pc \in {"issue", "revoke"} => (q.admin => us[q.email].admin)
  /\ q.pc = "promote" => q.jwt.admin

\* Only a refresh is sent with a closed session, and its lookup refuses it.
StaleAtLookup(q, rs) ==
  q.stale =>
    \/ q.pc = "find" /\ rs[q.session].revoked
    \/ q.pc = "reply" /\ q.status \in {"unauthorized", "internal"}

\* The role an account had when a login or refresh was sent is found by its
\* SELECT and carried into the token it issues.
RoleCarried(q, us, rs) ==
  q.wasAdmin =>
    \/ q.pc = "lookup" /\ us[q.email].admin
    \/ q.pc = "find" /\ us[rs[q.session].user].admin
    \/ q.pc \in {"revoke", "issue"} /\ q.admin
    \/ q.pc = "reply" /\ (q.status = "ok" => q.newJwt.admin)

RequestOK(q, us, rs, hs) ==
  /\ SessionsExist(q, rs, hs)
  /\ ClaimsTrue(q, us)
  /\ StaleAtLookup(q, rs)
  /\ RoleCarried(q, us, rs)

TablesTyped ==
  /\ up \in BOOLEAN
  /\ clock \in Time
  /\ users \in [Email -> Account \cup {NoAccount}]
  /\ rows \in [Session -> Row \cup {NoRow}]
  /\ held \subseteq Session
  /\ jwts \subseteq Jwt
TablesOK ==
  /\ TablesTyped
  /\ AdminsNeedRoot
  /\ \A s \in held : rows[s] # NoRow
  /\ \A j \in jwts : j.admin => users[j.user].admin

SessionInv ==
  /\ TypeOK
  /\ TablesOK
  /\ \A r \in Req : reqs[r] # Idle => RequestOK(reqs[r], users, rows, held)

(***************************************************************************)
(* What every step does to the tables.                                     *)
(***************************************************************************)

\* Accounts are added and promoted, never lost, replaced or demoted.
UsersGrow ==
  \A e \in Email :
    /\ Exists(e) =>
         users'[e] # NoAccount /\ users'[e].password = users[e].password
    /\ users[e].admin => users'[e].admin

\* Refresh tokens are added and revoked, never lost or reassigned.
RowsGrow ==
  \A s \in Session :
    rows[s] # NoRow =>
      /\ rows'[s] # NoRow /\ rows'[s].user = rows[s].user
      /\ rows[s].revoked => rows'[s].revoked

TablesGrow == UsersGrow /\ RowsGrow /\ held \subseteq held'

LEMMA StutterGrows ==
  ASSUME UNCHANGED <<users, rows, held>>
  PROVE  TablesGrow
BY DEF TablesGrow, UsersGrow, RowsGrow, Exists

\* What is true of a request stays true while the tables grow.
LEMMA RequestKept ==
  ASSUME SessionInv, TablesGrow, NEW q \in Request, RequestOK(q, users, rows, held)
  PROVE  RequestOK(q, users', rows', held')
<1>1. SessionsExist(q, rows', held')
  BY DEF SessionsExist, RequestOK, TablesGrow, RowsGrow, Request
<1>2. ClaimsTrue(q, users')
  BY DEF ClaimsTrue, RequestOK, TablesGrow, UsersGrow, Request, Jwt
<1>3. q.pc = "find" => /\ q.session \in Session /\ rows[q.session] # NoRow
                       /\ rows[q.session].user \in Email
  BY DEF SessionInv, TablesOK, TablesTyped, RequestOK, SessionsExist, Row
<1>4. StaleAtLookup(q, rows')
  BY <1>3 DEF StaleAtLookup, RequestOK, TablesGrow, RowsGrow
<1>5. RoleCarried(q, users', rows')
  BY <1>3 DEF RoleCarried, RequestOK, TablesGrow, RowsGrow, UsersGrow, Request
<1> QED BY <1>1, <1>2, <1>4, <1>5 DEF RequestOK

\* A step that gives one request slot new contents preserves the invariant
\* if the new contents satisfy it.
LEMMA RequestStep ==
  ASSUME SessionInv, TablesGrow, TablesOK',
         NEW r \in Req, NEW q \in Request \cup {Idle}, reqs' = [reqs EXCEPT ![r] = q],
         q # Idle => RequestOK(q, users', rows', held')
  PROVE  SessionInv'
<1>1. TypeOK'
  BY DEF SessionInv, TypeOK, TablesOK, TablesTyped
<1>2. \A p \in Req : reqs'[p] # Idle => RequestOK(reqs'[p], users', rows', held')
  <2> SUFFICES ASSUME NEW p \in Req, reqs'[p] # Idle
               PROVE  RequestOK(reqs'[p], users', rows', held')
    OBVIOUS
  <2>1. CASE p = r
    BY <2>1 DEF SessionInv, TypeOK
  <2>2. CASE p # r
    <3>1. reqs'[p] = reqs[p] /\ reqs[p] \in Request
      BY <2>2 DEF SessionInv, TypeOK
    <3>2. RequestOK(reqs[p], users, rows, held)
      BY <3>1 DEF SessionInv
    <3> QED BY <3>1, <3>2, RequestKept
  <2> QED BY <2>1, <2>2
<1> QED BY <1>1, <1>2 DEF SessionInv

LEMMA TablesUnchanged ==
  ASSUME SessionInv, UNCHANGED <<up, clock, users, rows, held, jwts>>
  PROVE  TablesOK' /\ TablesGrow
<1>1. TablesOK'
  BY DEF SessionInv, TablesOK, TablesTyped, AdminsNeedRoot
<1> QED BY <1>1, StutterGrows

(***************************************************************************)
(* The contents a step gives to a request.                                 *)
(***************************************************************************)

LEMMA Serves ==
  ASSUME SessionInv, NEW r \in Req, reqs[r].pc \in Serving \cup {"reply"}
  PROVE  reqs[r] \in Request /\ reqs[r] # Idle /\ RequestOK(reqs[r], users, rows, held)
BY DEF SessionInv, TypeOK, Idle, Serving

LEMMA BlankTyped ==
  Blank \in Request /\ NoJwt.admin = FALSE /\ NoJwt \in Jwt
BY DEF Blank, Request, NoJwt, Jwt, Serving, Status

LEMMA KeptTyped ==
  ASSUME NEW r \in Req, reqs[r] \in Request
  PROVE  /\ Kept(r) \in Request
         /\ Kept(r).stale = reqs[r].stale /\ Kept(r).wasAdmin = reqs[r].wasAdmin
         /\ Kept(r).session = NoSession /\ Kept(r).newSession = NoSession
         /\ Kept(r).jwt = NoJwt /\ Kept(r).newJwt = NoJwt
BY BlankTyped DEF Kept, Request, Blank

\* An answer without tokens.
LEMMA AnswerOK ==
  ASSUME SessionInv, TablesOK', TablesGrow,
         NEW r \in Req, reqs[r] \in Request, reqs[r] # Idle,
         NEW status \in Status, Answer(r, status),
         reqs[r].stale => status \in {"unauthorized", "internal"},
         reqs[r].wasAdmin => status # "ok"
  PROVE  SessionInv'
<1> DEFINE q == [Kept(r) EXCEPT !.pc = "reply", !.status = status]
<1>1. q \in Request
  BY KeptTyped DEF Request
<1>2. /\ q.pc = "reply" /\ q.status = status /\ q.newSession = NoSession
      /\ q.jwt = NoJwt /\ q.newJwt = NoJwt
      /\ q.stale = reqs[r].stale /\ q.wasAdmin = reqs[r].wasAdmin
  BY KeptTyped DEF Request
<1>3. RequestOK(q, users', rows', held')
  BY <1>2, BlankTyped DEF RequestOK, SessionsExist, ClaimsTrue, StaleAtLookup, RoleCarried
<1>4. reqs' = [reqs EXCEPT ![r] = q]
  BY DEF Answer
<1> HIDE DEF q
<1> QED BY <1>1, <1>3, <1>4, RequestStep

\* A login or registration, or the lookup of a refresh, that passes.
LEMMA ProceedOK ==
  ASSUME SessionInv, TablesOK', TablesGrow,
         NEW r \in Req, reqs[r] \in Request, reqs[r] # Idle, ~reqs[r].stale,
         NEW pc \in {"issue", "revoke"}, NEW email \in Email, NEW admin \in BOOLEAN,
         Proceed(r, pc, email, admin),
         admin => users'[email].admin,
         reqs[r].wasAdmin => admin
  PROVE  SessionInv'
<1> DEFINE q == [Kept(r) EXCEPT !.pc = pc, !.email = email, !.admin = admin,
                                !.session = reqs[r].session]
<1>1. q \in Request
  BY KeptTyped DEF Request, Serving
<1>2. /\ q.pc = pc /\ q.email = email /\ q.admin = admin /\ q.newSession = NoSession
      /\ q.jwt = NoJwt /\ q.newJwt = NoJwt
      /\ q.stale = reqs[r].stale /\ q.wasAdmin = reqs[r].wasAdmin
  BY KeptTyped DEF Request
<1>3. RequestOK(q, users', rows', held')
  BY <1>2, BlankTyped DEF RequestOK, SessionsExist, ClaimsTrue, StaleAtLookup, RoleCarried
<1>4. reqs' = [reqs EXCEPT ![r] = q]
  BY DEF Proceed
<1> HIDE DEF q
<1> QED BY <1>1, <1>3, <1>4, RequestStep

\* Only the program counter moves.
LEMMA GotoOK ==
  ASSUME SessionInv, TablesOK', TablesGrow,
         NEW r \in Req, reqs[r] \in Request, reqs[r] # Idle,
         NEW pc \in {"issue", "close", "promote"}, Goto(r, pc), ~reqs[r].stale,
         pc = "issue" => reqs[r].pc = "revoke",
         pc # "issue" => ~reqs[r].wasAdmin,
         pc = "promote" => reqs[r].jwt.admin
  PROVE  SessionInv'
<1> DEFINE q == [reqs[r] EXCEPT !.pc = pc]
<1>1. q \in Request
  BY DEF Request, Serving
<1>2. /\ q.pc = pc /\ q.email = reqs[r].email /\ q.admin = reqs[r].admin
      /\ q.newSession = reqs[r].newSession
      /\ q.jwt = reqs[r].jwt /\ q.newJwt = reqs[r].newJwt
      /\ q.stale = reqs[r].stale /\ q.wasAdmin = reqs[r].wasAdmin
  BY DEF Request
<1>3. RequestOK(reqs[r], users', rows', held')
  BY RequestKept DEF SessionInv
<1>4. RequestOK(q, users', rows', held')
  BY <1>2, <1>3 DEF RequestOK, SessionsExist, ClaimsTrue, StaleAtLookup, RoleCarried
<1>5. reqs' = [reqs EXCEPT ![r] = q]
  BY DEF Goto, SessionInv, TypeOK
<1> HIDE DEF q
<1> QED BY <1>1, <1>4, <1>5, RequestStep

(***************************************************************************)
(* The steps of a request.                                                 *)
(***************************************************************************)

\* At a program counter other than a lookup's no request is stale, and only
\* those of a login or refresh know of a role.
LEMMA StaleOnlyAtFind ==
  ASSUME SessionInv, NEW r \in Req, reqs[r].pc \in Serving
  PROVE  /\ reqs[r].pc # "find" => ~reqs[r].stale
         /\ reqs[r].pc \notin {"lookup", "find", "revoke", "issue"} => ~reqs[r].wasAdmin
<1>1. RequestOK(reqs[r], users, rows, held) /\ reqs[r] \in Request
  BY Serves
<1>2. reqs[r].pc # "reply"
  BY DEF Serving
<1> QED BY <1>1, <1>2 DEF RequestOK, StaleAtLookup, RoleCarried, Request

LEMMA RegisterKeeps ==
  ASSUME SessionInv, NEW r \in Req, RegisterRefuse(r) \/ RegisterPass(r)
  PROVE  SessionInv' /\ UsersGrow
<1>1. reqs[r].pc = "insert" /\ reqs[r].pc \in Serving
  BY DEF RegisterRefuse, RegisterPass, Serving
<1>2. /\ reqs[r] \in Request /\ reqs[r] # Idle
      /\ ~reqs[r].stale /\ ~reqs[r].wasAdmin
  BY <1>1, Serves, StaleOnlyAtFind
<1>3. CASE RegisterRefuse(r)
  <2>1. PICK status \in {"bad_request", "internal", "conflict"} : Answer(r, status)
    BY <1>3 DEF RegisterRefuse
  <2>2. TablesOK' /\ TablesGrow
    BY <1>3, TablesUnchanged DEF RegisterRefuse, ReqOnly
  <2>3. status \in Status
    BY DEF Status
  <2> QED BY <1>2, <2>1, <2>2, <2>3, AnswerOK DEF TablesGrow
<1>4. CASE RegisterPass(r)
  <2> DEFINE e == reqs[r].email
             row == [password |-> reqs[r].password, admin |-> FALSE]
  <2>1. e \in Email /\ row \in Account
    BY <1>2 DEF Request, Account
  <2>2. /\ users' = [users EXCEPT ![e] = row] /\ ~Exists(e)
        /\ UNCHANGED <<up, clock, rows, held, jwts>>
        /\ Proceed(r, "issue", e, FALSE)
    BY <1>4 DEF RegisterPass
  <2>3. users \in [Email -> Account \cup {NoAccount}]
    BY DEF SessionInv, TablesOK, TablesTyped
  <2>4. users[e].admin = FALSE
    BY <2>2 DEF Exists, NoAccount
  <2>5. \A f \in Email : users'[f].admin = users[f].admin
    BY <2>1, <2>2, <2>3, <2>4
  <2>6. TablesTyped'
    BY <2>1, <2>2, <2>3 DEF SessionInv, TablesOK, TablesTyped
  <2>7. TablesOK'
    <3>1. AdminsNeedRoot'
      BY <2>5 DEF SessionInv, TablesOK, AdminsNeedRoot
    <3>2. \A j \in jwts' : j.admin => users'[j.user].admin
      BY <2>2, <2>5 DEF SessionInv, TablesOK, TablesTyped, Jwt
    <3> QED BY <2>2, <2>6, <3>1, <3>2 DEF SessionInv, TablesOK
  <2>8. UsersGrow
    BY <2>2, <2>3, <2>5 DEF UsersGrow, Exists
  <2>9. TablesGrow
    BY <2>2, <2>8 DEF TablesGrow, RowsGrow
  <2> QED BY <1>2, <2>1, <2>2, <2>7, <2>8, <2>9, ProceedOK
<1> QED BY <1>3, <1>4

LEMMA RoleTyped ==
  ASSUME SessionInv, NEW e \in Email
  PROVE  users[e].admin \in BOOLEAN
<1>1. users[e] \in Account \/ users[e] = NoAccount
  BY DEF SessionInv, TablesOK, TablesTyped
<1>2. NoAccount.admin = FALSE
  BY DEF NoAccount
<1> QED BY <1>1, <1>2 DEF Account

LEMMA LoginKeeps ==
  ASSUME SessionInv, NEW r \in Req, LoginRefuse(r) \/ LoginPass(r)
  PROVE  SessionInv' /\ UsersGrow
<1>1. reqs[r].pc = "lookup" /\ reqs[r].pc \in Serving
  BY DEF LoginRefuse, LoginPass, Serving
<1>2. /\ reqs[r] \in Request /\ reqs[r] # Idle
      /\ RequestOK(reqs[r], users, rows, held) /\ ~reqs[r].stale
  BY <1>1, Serves, StaleOnlyAtFind
<1>3. TablesOK' /\ TablesGrow /\ UsersGrow
  BY TablesUnchanged DEF LoginRefuse, LoginPass, ReqOnly, TablesGrow
<1>4. CASE LoginRefuse(r)
  <2>1. Answer(r, "unauthorized") /\ "unauthorized" \in Status
    BY <1>4 DEF LoginRefuse, Status
  <2> QED BY <1>2, <1>3, <2>1, AnswerOK
<1>5. CASE LoginPass(r)
  <2> DEFINE e == reqs[r].email
  <2>1. /\ Exists(e) /\ Proceed(r, "issue", e, users[e].admin)
        /\ users' = users
    BY <1>5 DEF LoginPass, Verifies, ReqOnly
  <2>2. e \in Email /\ users[e].admin \in BOOLEAN
    BY <1>2, <2>1 DEF Request, SessionInv, TablesOK, TablesTyped, Account, Exists
  <2>3. reqs[r].wasAdmin => users[e].admin
    BY <1>1, <1>2 DEF RequestOK, RoleCarried
  <2> QED BY <1>2, <1>3, <2>1, <2>2, <2>3, ProceedOK
<1> QED BY <1>4, <1>5

LEMMA LookupKeeps ==
  ASSUME SessionInv, NEW r \in Req, RefreshRefuse(r) \/ RefreshPass(r)
  PROVE  SessionInv' /\ UsersGrow
<1>1. reqs[r].pc = "find" /\ reqs[r].pc \in Serving
  BY DEF RefreshRefuse, RefreshPass, Serving
<1>2. /\ reqs[r] \in Request /\ reqs[r] # Idle
      /\ RequestOK(reqs[r], users, rows, held)
  BY <1>1, Serves
<1>3. TablesOK' /\ TablesGrow /\ UsersGrow
  BY TablesUnchanged DEF RefreshRefuse, RefreshPass, ReqOnly, TablesGrow
<1>4. CASE RefreshRefuse(r)
  <2>1. Answer(r, "unauthorized") /\ "unauthorized" \in Status
    BY <1>4 DEF RefreshRefuse, Status
  <2> QED BY <1>2, <1>3, <2>1, AnswerOK
<1>5. CASE RefreshPass(r)
  <2> DEFINE s == reqs[r].session
             e == rows[s].user
  <2>1. /\ Usable(s) /\ Proceed(r, "revoke", e, users[e].admin)
        /\ users' = users
    BY <1>5 DEF RefreshPass, ReqOnly
  <2>2. s \in Session
    BY <1>1, <1>2 DEF RequestOK, SessionsExist, SessionInv, TablesOK, TablesTyped
  <2>3. e \in Email
    BY <2>1, <2>2 DEF Usable, SessionInv, TablesOK, TablesTyped, Row
  <2>4. users[e].admin \in BOOLEAN
    BY <2>3, RoleTyped
  <2>5. ~reqs[r].stale
    BY <1>1, <1>2, <2>1 DEF RequestOK, StaleAtLookup, Usable
  <2>6. reqs[r].wasAdmin => users[e].admin
    BY <1>1, <1>2 DEF RequestOK, RoleCarried
  <2> QED BY <1>2, <1>3, <2>1, <2>3, <2>4, <2>5, <2>6, ProceedOK
<1> QED BY <1>4, <1>5

\* Revoking a row.
LEMMA RevokeTables ==
  ASSUME SessionInv, NEW s, RevokeRow(s), UNCHANGED <<up, clock, users, held, jwts>>
  PROVE  TablesOK' /\ TablesGrow /\ UsersGrow
<1>1. rows \in [Session -> Row \cup {NoRow}]
  BY DEF SessionInv, TablesOK, TablesTyped
<1>2. ASSUME NEW t \in Session, rows[t] # NoRow
      PROVE  /\ rows'[t] \in Row /\ rows'[t].user = rows[t].user
             /\ rows[t].revoked => rows'[t].revoked
  <2>1. rows'[t] = IF t = s THEN [rows[t] EXCEPT !.revoked = TRUE] ELSE rows[t]
    BY <1>1, <1>2 DEF RevokeRow
  <2>2. rows[t] \in Row
    BY <1>1, <1>2
  <2> QED BY <2>1, <2>2 DEF Row
<1>3. ASSUME NEW t \in Session, rows[t] = NoRow PROVE rows'[t] = NoRow
  BY <1>1, <1>3 DEF RevokeRow
<1>4. rows' \in [Session -> Row \cup {NoRow}]
  <2>1. rows' = [t \in Session |-> rows'[t]]
    BY <1>1 DEF RevokeRow
  <2> QED BY <1>2, <1>3, <2>1
<1>5. \A t : t \in Row => t # NoRow
  BY DEF Row, NoRow
<1>6. RowsGrow
  BY <1>2, <1>5 DEF RowsGrow
<1>7. \A t \in held' : rows'[t] # NoRow
  BY <1>2, <1>5 DEF SessionInv, TablesOK, TablesTyped
<1>8. TablesOK'
  BY <1>4, <1>7 DEF SessionInv, TablesOK, TablesTyped, AdminsNeedRoot
<1> QED BY <1>6, <1>8 DEF TablesGrow, UsersGrow, Exists

LEMMA RevokeKeeps ==
  ASSUME SessionInv, NEW r \in Req, RefreshRevoke(r) \/ Close(r)
  PROVE  SessionInv' /\ UsersGrow
<1>1. reqs[r].pc \in {"revoke", "close"} /\ reqs[r].pc \in Serving
  BY DEF RefreshRevoke, Close, Serving
<1>2. /\ reqs[r] \in Request /\ reqs[r] # Idle /\ ~reqs[r].stale
      /\ reqs[r].pc = "close" => ~reqs[r].wasAdmin
  BY <1>1, Serves, StaleOnlyAtFind
<1>3. TablesOK' /\ TablesGrow /\ UsersGrow
  BY RevokeTables DEF RefreshRevoke, Close
<1>4. CASE RefreshRevoke(r)
  BY <1>2, <1>3, <1>4, GotoOK DEF RefreshRevoke
<1>5. CASE Close(r)
  <2>1. Answer(r, "ok") /\ "ok" \in Status /\ reqs[r].pc = "close"
    BY <1>5 DEF Close, Status
  <2> QED BY <1>2, <1>3, <2>1, AnswerOK
<1> QED BY <1>4, <1>5

LEMMA IssueKeeps ==
  ASSUME SessionInv, NEW r \in Req, Issue(r)
  PROVE  SessionInv' /\ UsersGrow
<1>1. reqs[r].pc = "issue" /\ reqs[r].pc \in Serving
  BY DEF Issue, Serving
<1>2. /\ reqs[r] \in Request /\ reqs[r] # Idle /\ ~reqs[r].stale
      /\ RequestOK(reqs[r], users, rows, held)
  BY <1>1, Serves, StaleOnlyAtFind
<1> DEFINE jwt == JwtFor(reqs[r])
           row == [user |-> reqs[r].email, expires |-> clock + RefreshTTL,
                   revoked |-> FALSE, from |-> reqs[r].session]
<1>3. PICK s \in Fresh :
        /\ rows' = [rows EXCEPT ![s] = row]
        /\ reqs' = [reqs EXCEPT ![r] =
             [Kept(r) EXCEPT !.pc = "reply", !.status = "ok",
                             !.newSession = s, !.newJwt = jwt]]
  BY DEF Issue
<1>4. UNCHANGED <<up, clock, users, held, jwts>>
  BY DEF Issue
<1>5. clock \in Int
  BY DEF SessionInv, TablesOK, TablesTyped
<1>6. /\ jwt \in Jwt /\ row \in Row /\ row # NoRow
      /\ jwt.user = reqs[r].email /\ jwt.admin = reqs[r].admin
  BY <1>2, <1>5 DEF JwtFor, Jwt, Row, NoRow, Request
<1>7. s \in Session /\ rows[s] = NoRow
  BY DEF Fresh
<1> HIDE DEF jwt, row
<1>8. TablesOK'
  BY <1>3, <1>4, <1>6, <1>7 DEF SessionInv, TablesOK, TablesTyped, AdminsNeedRoot
<1>9. TablesGrow /\ UsersGrow
  BY <1>3, <1>4, <1>7 DEF TablesGrow, UsersGrow, RowsGrow, Exists, SessionInv,
     TablesOK, TablesTyped
<1> DEFINE q == [Kept(r) EXCEPT !.pc = "reply", !.status = "ok",
                                !.newSession = s, !.newJwt = jwt]
<1>10. q \in Request
  BY <1>2, <1>6, <1>7, KeptTyped DEF Request, Status
<1>11. /\ q.pc = "reply" /\ q.status = "ok" /\ q.newSession = s /\ q.newJwt = jwt
       /\ q.jwt = NoJwt /\ q.stale = reqs[r].stale /\ q.wasAdmin = reqs[r].wasAdmin
  BY <1>2, KeptTyped DEF Request
<1>12. rows'[s] # NoRow
  BY <1>3, <1>6, <1>7 DEF SessionInv, TablesOK, TablesTyped
<1>13. /\ reqs[r].admin => users[reqs[r].email].admin
       /\ reqs[r].wasAdmin => reqs[r].admin
  BY <1>1, <1>2 DEF RequestOK, ClaimsTrue, RoleCarried
<1> HIDE DEF q
<1>14. RequestOK(q, users', rows', held')
  BY <1>2, <1>4, <1>6, <1>11, <1>12, <1>13, BlankTyped
     DEF RequestOK, SessionsExist, ClaimsTrue, StaleAtLookup, RoleCarried
<1>15. reqs' = [reqs EXCEPT ![r] = q]
  BY <1>3 DEF q
<1> QED BY <1>8, <1>9, <1>10, <1>14, <1>15, RequestStep

LEMMA AuthKeeps ==
  ASSUME SessionInv, NEW r \in Req, AuthRefuse(r) \/ AuthPass(r)
  PROVE  SessionInv' /\ UsersGrow
<1>1. reqs[r].pc = "auth" /\ reqs[r].pc \in Serving
  BY DEF AuthRefuse, AuthPass, Serving
<1>2. /\ reqs[r] \in Request /\ reqs[r] # Idle
      /\ ~reqs[r].stale /\ ~reqs[r].wasAdmin
  BY <1>1, Serves, StaleOnlyAtFind
<1>3. TablesOK' /\ TablesGrow /\ UsersGrow
  BY TablesUnchanged DEF AuthRefuse, AuthPass, ReqOnly, TablesGrow
<1>4. CASE AuthRefuse(r)
  <2>1. PICK status \in {"unauthorized", "forbidden"} : Answer(r, status)
    BY <1>4 DEF AuthRefuse
  <2>2. status \in Status
    BY DEF Status
  <2> QED BY <1>2, <1>3, <2>1, <2>2, AnswerOK
<1>5. CASE AuthPass(r)
  <2>1. CASE Goto(r, "close")
    BY <1>2, <1>3, <2>1, GotoOK
  <2>2. CASE reqs[r].jwt.admin /\ Goto(r, "promote")
    BY <1>2, <1>3, <2>2, GotoOK
  <2> QED BY <1>5, <2>1, <2>2 DEF AuthPass
<1> QED BY <1>4, <1>5

\* Granting the role to an account e, new with password p or not.
LEMMA GrantTables ==
  ASSUME SessionInv, NEW e \in Email, NEW a \in Account,
         users' = [users EXCEPT ![e] = a], a.admin,
         Exists(e) => a.password = users[e].password,
         users[BootEmail].admin \/ e = BootEmail,
         TablesTyped', UNCHANGED <<rows, held, jwts>>
  PROVE  TablesOK' /\ TablesGrow /\ UsersGrow
<1>1. users \in [Email -> Account \cup {NoAccount}]
  BY DEF SessionInv, TablesOK, TablesTyped
<1>2. \A f \in Email : users[f].admin => users'[f].admin
  BY <1>1
<1>3. a # NoAccount
  BY DEF Account, NoAccount
<1>4. UsersGrow
  BY <1>1, <1>2, <1>3 DEF UsersGrow, Exists
<1>5. AdminsNeedRoot'
  BY <1>1, <1>2 DEF AdminsNeedRoot
<1>6. \A j \in jwts' : j.admin => users'[j.user].admin
  BY <1>2 DEF SessionInv, TablesOK, TablesTyped, Jwt
<1>7. TablesOK'
  BY <1>5, <1>6 DEF SessionInv, TablesOK
<1> QED BY <1>4, <1>7 DEF TablesGrow, RowsGrow

LEMMA PromoteKeeps ==
  ASSUME SessionInv, NEW r \in Req, Promote(r)
  PROVE  SessionInv' /\ UsersGrow
<1>1. reqs[r].pc = "promote" /\ reqs[r].pc \in Serving
  BY DEF Promote, Serving
<1>2. /\ reqs[r] \in Request /\ reqs[r] # Idle
      /\ ~reqs[r].stale /\ ~reqs[r].wasAdmin
      /\ RequestOK(reqs[r], users, rows, held)
  BY <1>1, Serves, StaleOnlyAtFind
<1> DEFINE e == reqs[r].email
<1>3. e \in Email /\ reqs[r].jwt \in Jwt
  BY <1>2 DEF Request
<1>4. users[BootEmail].admin
  <2>1. users[reqs[r].jwt.user].admin
    BY <1>1, <1>2 DEF RequestOK, ClaimsTrue
  <2>2. reqs[r].jwt.user \in Email
    BY <1>3 DEF Jwt
  <2> QED BY <2>1, <2>2 DEF SessionInv, TablesOK, AdminsNeedRoot
<1>5. CASE Exists(e)
  <2> DEFINE a == [users[e] EXCEPT !.admin = TRUE]
  <2>1. users[e] \in Account
    BY <1>3, <1>5 DEF Exists, SessionInv, TablesOK, TablesTyped
  <2>2. a \in Account /\ a.admin /\ a.password = users[e].password
    BY <2>1 DEF Account
  <2>3. /\ users' = [users EXCEPT ![e] = a] /\ Answer(r, "ok")
        /\ UNCHANGED <<up, clock, rows, held, jwts>>
    BY <1>5 DEF Promote
  <2> HIDE DEF a
  <2>4. TablesTyped'
    BY <1>3, <2>2, <2>3 DEF SessionInv, TablesOK, TablesTyped
  <2>5. TablesOK' /\ TablesGrow /\ UsersGrow
    BY <1>3, <1>4, <2>2, <2>3, <2>4, GrantTables
  <2> QED BY <1>2, <2>3, <2>5, AnswerOK DEF Status
<1>6. CASE ~Exists(e)
  <2>1. Answer(r, "not_found") /\ UNCHANGED <<up, clock, users, rows, held, jwts>>
    BY <1>6 DEF Promote
  <2>2. TablesOK' /\ TablesGrow /\ UsersGrow
    BY <2>1, TablesUnchanged DEF TablesGrow
  <2> QED BY <1>2, <2>1, <2>2, AnswerOK DEF Status
<1> QED BY <1>5, <1>6

LEMMA DbErrorKeeps ==
  ASSUME SessionInv, NEW r \in Req, DbError(r)
  PROVE  SessionInv' /\ UsersGrow
<1>1. reqs[r] \in Request /\ reqs[r] # Idle
  BY Serves DEF DbError
<1>2. TablesOK' /\ TablesGrow /\ UsersGrow
  BY TablesUnchanged DEF DbError, ReqOnly, TablesGrow
<1> QED BY <1>1, <1>2, AnswerOK DEF DbError, Status

(***************************************************************************)
(* Clients and the process.                                                *)
(***************************************************************************)

\* A request enters a free slot.
LEMMA SendOK ==
  ASSUME SessionInv, NEW r \in Req, NEW q \in Request, Send(r, q),
         RequestOK(q, users, rows, held)
  PROVE  SessionInv' /\ UsersGrow
<1>1. TablesOK' /\ TablesGrow /\ UsersGrow
  BY TablesUnchanged DEF Send, ReqOnly, TablesGrow
<1>2. users' = users /\ rows' = rows /\ held' = held /\ reqs' = [reqs EXCEPT ![r] = q]
  BY DEF Send, ReqOnly
<1> QED BY <1>1, <1>2, RequestStep

LEMMA SendAccountKeeps ==
  ASSUME SessionInv, NEW r \in Req, SendRegister(r) \/ SendLogin(r)
  PROVE  SessionInv' /\ UsersGrow
<1>1. CASE SendRegister(r)
  <2>1. PICK e \in Email, p \in Password :
          Send(r, [Blank EXCEPT !.pc = "insert", !.op = "register", !.email = e,
                                !.password = p])
    BY <1>1 DEF SendRegister
  <2> DEFINE q == [Blank EXCEPT !.pc = "insert", !.op = "register", !.email = e,
                                !.password = p]
  <2>2. q \in Request
    BY BlankTyped DEF Request, Serving
  <2>3. RequestOK(q, users, rows, held)
    BY BlankTyped DEF RequestOK, SessionsExist, ClaimsTrue, StaleAtLookup, RoleCarried, Blank
  <2> QED BY <2>1, <2>2, <2>3, SendOK
<1>2. CASE SendLogin(r)
  <2>1. PICK e \in Email, p \in Password :
          Send(r, [Blank EXCEPT !.pc = "lookup", !.op = "login", !.email = e,
                                !.password = p, !.wasAdmin = users[e].admin])
    BY <1>2 DEF SendLogin
  <2> DEFINE q == [Blank EXCEPT !.pc = "lookup", !.op = "login", !.email = e,
                                !.password = p, !.wasAdmin = users[e].admin]
  <2>2. users[e].admin \in BOOLEAN
    BY RoleTyped
  <2>3. q \in Request
    BY <2>2, BlankTyped DEF Request, Serving
  <2>4. RequestOK(q, users, rows, held)
    BY BlankTyped DEF RequestOK, SessionsExist, ClaimsTrue, StaleAtLookup, RoleCarried, Blank
  <2> QED BY <2>1, <2>3, <2>4, SendOK
<1> QED BY <1>1, <1>2

LEMMA SendRefreshKeeps ==
  ASSUME SessionInv, NEW r \in Req, SendRefresh(r)
  PROVE  SessionInv' /\ UsersGrow
<1>1. PICK s \in held :
        Send(r, [Blank EXCEPT !.pc = "find", !.op = "refresh", !.session = s,
                              !.stale = rows[s].revoked,
                              !.wasAdmin = users[rows[s].user].admin])
  BY DEF SendRefresh, PresentRefresh
<1> DEFINE q == [Blank EXCEPT !.pc = "find", !.op = "refresh", !.session = s,
                              !.stale = rows[s].revoked,
                              !.wasAdmin = users[rows[s].user].admin]
<1>2. s \in Session /\ rows[s] \in Row
  BY DEF SessionInv, TablesOK, TablesTyped
<1>3. rows[s].user \in Email /\ rows[s].revoked \in BOOLEAN
  BY <1>2 DEF Row
<1>4. users[rows[s].user].admin \in BOOLEAN
  BY <1>3, RoleTyped
<1>5. q \in Request
  BY <1>2, <1>3, <1>4, BlankTyped DEF Request, Serving
<1>6. RequestOK(q, users, rows, held)
  BY BlankTyped DEF RequestOK, SessionsExist, ClaimsTrue, StaleAtLookup, RoleCarried, Blank
<1> QED BY <1>1, <1>5, <1>6, SendOK

\* A request with an access token some client has.
LEMMA SendWithJwtKeeps ==
  ASSUME SessionInv, NEW r \in Req, SendLogout(r) \/ SendPromote(r)
  PROVE  SessionInv' /\ UsersGrow
<1>1. ASSUME NEW j \in jwts \cup {NoJwt}
      PROVE  j \in Jwt /\ (j.admin => users[j.user].admin)
  BY BlankTyped DEF SessionInv, TablesOK, TablesTyped
<1>2. CASE SendLogout(r)
  <2>1. PICK s \in held, j \in jwts \cup {NoJwt} :
          Send(r, [Blank EXCEPT !.session = s, !.jwt = j])
    BY <1>2 DEF SendLogout, PresentLogout
  <2> DEFINE q == [Blank EXCEPT !.session = s, !.jwt = j]
  <2>2. q \in Request
    BY <1>1, BlankTyped DEF Request, SessionInv, TablesOK, TablesTyped
  <2>3. RequestOK(q, users, rows, held)
    BY <1>1, BlankTyped
       DEF RequestOK, SessionsExist, ClaimsTrue, StaleAtLookup, RoleCarried, Blank
  <2> QED BY <2>1, <2>2, <2>3, SendOK
<1>3. CASE SendPromote(r)
  <2>1. PICK e \in Email, j \in jwts :
          Send(r, [Blank EXCEPT !.op = "promote", !.email = e, !.jwt = j])
    BY <1>3 DEF SendPromote
  <2> DEFINE q == [Blank EXCEPT !.op = "promote", !.email = e, !.jwt = j]
  <2>2. q \in Request
    BY <1>1, BlankTyped DEF Request
  <2>3. RequestOK(q, users, rows, held)
    BY <1>1, BlankTyped
       DEF RequestOK, SessionsExist, ClaimsTrue, StaleAtLookup, RoleCarried, Blank
  <2> QED BY <2>1, <2>2, <2>3, SendOK
<1> QED BY <1>2, <1>3

LEMMA FreedKeeps ==
  ASSUME SessionInv, NEW r \in Req, Deliver(r) \/ Abandon(r)
  PROVE  SessionInv' /\ UsersGrow
<1>1. reqs' = [reqs EXCEPT ![r] = Idle] /\ UNCHANGED <<up, clock, users, rows>>
  BY DEF Deliver, Abandon, ReqOnly
<1>2. CASE Abandon(r)
  <2>1. TablesOK' /\ TablesGrow /\ UsersGrow
    BY <1>2, TablesUnchanged DEF Abandon, ReqOnly, TablesGrow
  <2> QED BY <1>1, <2>1, RequestStep
<1>3. CASE Deliver(r)
  <2> DEFINE q == reqs[r]
  <2>1. q \in Request /\ RequestOK(q, users, rows, held)
    BY <1>3, Serves DEF Deliver
  <2>2. \/ UNCHANGED <<held, jwts>>
        \/ /\ q.newSession # NoSession
           /\ held' = held \cup {q.newSession} /\ jwts' = jwts \cup {q.newJwt}
    BY <1>3 DEF Deliver
  <2>3. q.newSession # NoSession => q.newSession \in Session /\ rows[q.newSession] # NoRow
    BY <2>1 DEF Request, RequestOK, SessionsExist
  <2>4. q.newJwt \in Jwt /\ (q.newJwt.admin => users[q.newJwt.user].admin)
    BY <2>1 DEF Request, RequestOK, ClaimsTrue
  <2> HIDE DEF q
  <2>5. TablesOK'
    BY <1>1, <2>2, <2>3, <2>4 DEF SessionInv, TablesOK, TablesTyped, AdminsNeedRoot
  <2>6. TablesGrow /\ UsersGrow
    BY <1>1, <2>2 DEF TablesGrow, UsersGrow, RowsGrow, Exists
  <2> QED BY <1>1, <2>5, <2>6, RequestStep
<1> QED BY <1>2, <1>3

\* Steps that leave the requests alone, or drop them all.
LEMMA RequestsDropped ==
  ASSUME SessionInv, TablesOK', TablesGrow,
         reqs' = reqs \/ reqs' = [r \in Req |-> Idle]
  PROVE  SessionInv'
<1>1. TypeOK'
  BY DEF SessionInv, TypeOK, TablesOK, TablesTyped
<1>2. ASSUME NEW r \in Req, reqs'[r] # Idle
      PROVE  RequestOK(reqs'[r], users', rows', held')
  <2>1. reqs'[r] = reqs[r] /\ reqs[r] \in Request
    BY <1>2 DEF SessionInv, TypeOK
  <2>2. RequestOK(reqs[r], users, rows, held)
    BY <1>2, <2>1 DEF SessionInv
  <2> QED BY <2>1, <2>2, RequestKept
<1> QED BY <1>1, <1>2 DEF SessionInv

LEMMA StartKeeps ==
  ASSUME SessionInv, Start
  PROVE  SessionInv' /\ UsersGrow
<1>1. up' = TRUE /\ UNCHANGED <<clock, rows, reqs, held, jwts>>
  BY DEF Start
<1>2. CASE users' = users
  <2>1. TablesOK' /\ UsersGrow /\ TablesGrow
    BY <1>1, <1>2, StutterGrows DEF SessionInv, TablesOK, TablesTyped, AdminsNeedRoot,
       TablesGrow
  <2> QED BY <1>1, <2>1, RequestsDropped
<1>3. CASE users' = Bootstrapped
  <2> DEFINE a == [password |-> IF Exists(BootEmail) THEN users[BootEmail].password
                                ELSE BootPassword,
                   admin |-> TRUE]
  <2>1. a \in Account /\ a.admin /\ (Exists(BootEmail) => a.password = users[BootEmail].password)
    BY DEF Exists, SessionInv, TablesOK, TablesTyped, Account
  <2>2. users' = [users EXCEPT ![BootEmail] = a]
    BY <1>3 DEF Bootstrapped
  <2> HIDE DEF a
  <2>3. TablesTyped'
    BY <1>1, <2>1, <2>2 DEF SessionInv, TablesOK, TablesTyped
  <2>4. TablesOK' /\ TablesGrow /\ UsersGrow
    BY <1>1, <2>1, <2>2, <2>3, GrantTables
  <2> QED BY <1>1, <2>4, RequestsDropped
<1> QED BY <1>2, <1>3 DEF Start

LEMMA StopTickKeeps ==
  ASSUME SessionInv, Stop \/ Tick
  PROVE  SessionInv' /\ UsersGrow
<1>1. /\ UNCHANGED <<users, rows, held, jwts>>
      /\ up' \in BOOLEAN /\ clock' \in Time
      /\ reqs' = reqs \/ reqs' = [r \in Req |-> Idle]
  BY DEF Stop, Tick, SessionInv, TablesOK, TablesTyped
<1>2. TablesOK' /\ TablesGrow /\ UsersGrow
  BY <1>1, StutterGrows DEF SessionInv, TablesOK, TablesTyped, AdminsNeedRoot, TablesGrow
<1> QED BY <1>1, <1>2, RequestsDropped

(***************************************************************************)
(* The theorems.                                                           *)
(***************************************************************************)

LEMMA InvInit == Init => SessionInv
<1> SUFFICES ASSUME Init PROVE SessionInv
  OBVIOUS
<1>1. TypeOK
  BY DEF Init, TypeOK
<1>2. TablesOK
  BY DEF Init, TablesOK, TablesTyped, AdminsNeedRoot, NoAccount
<1>3. \A r \in Req : reqs[r] = Idle
  BY DEF Init
<1> QED BY <1>1, <1>2, <1>3 DEF SessionInv

\* One step per action.
LEMMA InvNext ==
  ASSUME SessionInv, [Next]_vars
  PROVE  SessionInv' /\ UsersGrow
<1>1. CASE UNCHANGED vars
  <2>1. TablesOK' /\ TablesGrow /\ UsersGrow /\ reqs' = reqs
    BY <1>1, TablesUnchanged DEF vars, TablesGrow
  <2> QED BY <2>1, RequestsDropped
<1>2. ASSUME NEW r \in Req, Serve(r) PROVE SessionInv' /\ UsersGrow
  BY <1>2, RegisterKeeps, LoginKeeps, LookupKeeps, RevokeKeeps, IssueKeeps, AuthKeeps,
     PromoteKeeps DEF Serve
<1>3. ASSUME NEW r \in Req, DbError(r) \/ Abandon(r) \/ Deliver(r)
      PROVE  SessionInv' /\ UsersGrow
  BY <1>3, DbErrorKeeps, FreedKeeps
<1>4. ASSUME NEW r \in Req,
             SendRegister(r) \/ SendLogin(r) \/ SendRefresh(r) \/ SendLogout(r)
             \/ SendPromote(r)
      PROVE  SessionInv' /\ UsersGrow
  BY <1>4, SendAccountKeeps, SendRefreshKeeps, SendWithJwtKeeps
<1>5. CASE Start \/ Stop \/ Tick
  BY <1>5, StartKeeps, StopTickKeeps
<1> QED BY <1>1, <1>2, <1>3, <1>4, <1>5 DEF Next

\* The invariant: every claim of administration, in a client's hands or in a
\* request between two statements, is true of its account, and closed
\* sessions go no further than a lookup.
THEOREM SessionsInvariant == Spec => []SessionInv
<1>1. SessionInv /\ [Next]_vars => SessionInv'
  BY InvNext
<1> QED BY InvInit, <1>1, PTL DEF Spec

\* Every reachable state is well typed.
THEOREM SessionsTyped == Spec => []TypeOK
<1>1. SessionInv => TypeOK
  BY DEF SessionInv
<1> QED BY SessionsInvariant, <1>1, PTL

\* Nobody administers unless the bootstrap account does, whatever sequence
\* of registrations, promotions, failures and restarts (admin.go:252).
THEOREM AdminsFromRoot == Spec => []AdminsNeedRoot
<1>1. SessionInv => AdminsNeedRoot
  BY DEF SessionInv, TablesOK
<1> QED BY SessionsInvariant, <1>1, PTL

\* A refresh token closed before a request was sent is never exchanged by it
\* (auth.go:117).
THEOREM ClosedSessionsRefused == Spec => []StaleSessionRefused
<1>1. SessionInv => StaleSessionRefused
  <2> SUFFICES ASSUME SessionInv, NEW r \in Req,
                      reqs[r].pc \in Serving \cup {"reply"}, reqs[r].stale
               PROVE  \/ reqs[r].pc = "find"
                      \/ reqs[r].pc = "reply"
                         /\ reqs[r].status \in {"unauthorized", "internal"}
    BY DEF StaleSessionRefused
  <2>1. RequestOK(reqs[r], users, rows, held)
    BY Serves
  <2> QED BY <2>1 DEF RequestOK, StaleAtLookup
<1> QED BY SessionsInvariant, <1>1, PTL

\* A login or refresh sent after a promotion brings the claim (README.md:119).
THEOREM PromotionsPropagate == Spec => []PromotionPropagates
<1>1. SessionInv => PromotionPropagates
  <2> SUFFICES ASSUME SessionInv, NEW r \in Req, reqs[r].pc = "reply",
                      reqs[r].wasAdmin, reqs[r].status = "ok"
               PROVE  reqs[r].newJwt.admin
    BY DEF PromotionPropagates
  <2>1. RequestOK(reqs[r], users, rows, held)
    BY Serves
  <2> QED BY <2>1 DEF RequestOK, RoleCarried
<1> QED BY SessionsInvariant, <1>1, PTL

\* Accounts, passwords and roles are never lost or replaced (db.go:66).
THEOREM AccountsKept == Spec => CredentialsKept
<1>1. SessionInv /\ [Next]_vars
      => [\A e \in Email :
            Exists(e) =>
              /\ users'[e] # NoAccount /\ users'[e].password = users[e].password
              /\ users[e].admin => users'[e].admin]_vars
  BY InvNext DEF UsersGrow
<1> QED BY SessionsInvariant, <1>1, PTL DEF Spec, CredentialsKept
=============================================================================
