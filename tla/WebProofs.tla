------------------------------- MODULE WebProofs -------------------------------
(***************************************************************************)
(* Theorems about the WebUI, for any number of tabs, calls, accounts and   *)
(* refresh tokens: the WebUI is a client of Sessions, so what is proved of *)
(* Sessions holds of it; and what it keeps in tabs and localStorage.       *)
(***************************************************************************)
EXTENDS WebClient, SessionsProofs

USE SessionsAssumption, WebAssumption

(***************************************************************************)
(* The WebUI is a client of Sessions.                                      *)
(***************************************************************************)

LEMMA PresentsIsSends ==
  ASSUME TypeOK, NEW r \in Req, NEW s
  PROVE  /\ PresentRefresh(r, s) => SendRefresh(r)
         /\ PresentLogout(r, s, NoJwt) => SendLogout(r)
<1>1. PresentRefresh(r, s) => SendRefresh(r)
  <2> HAVE PresentRefresh(r, s)
  <2>1. s \in Session
    BY DEF TypeOK, PresentRefresh
  <2> QED BY <2>1 DEF SendRefresh
<1>2. PresentLogout(r, s, NoJwt) => SendLogout(r)
  <2> HAVE PresentLogout(r, s, NoJwt)
  <2>1. s \in Session /\ NoJwt \in jwts \cup {NoJwt}
    BY DEF TypeOK, PresentLogout
  <2> QED BY <2>1 DEF SendLogout
<1> QED BY <1>1, <1>2

LEMMA TabStepIsStep ==
  ASSUME TypeOK, NEW t \in Tab, TabStep(t) \/ FinishTask(t), WebTypeOK
  PROVE  [Next]_vars
<1>1. CASE Submit(t)
  BY <1>1 DEF Submit, Next
<1>2. CASE FormAnswered(t)
  <2>1. PICK r \in tabs[t].form : Deliver(r)
    BY <1>2 DEF FormAnswered
  <2>2. r \in Req
    BY <2>1 DEF WebTypeOK, TabState
  <2> QED BY <2>1, <2>2 DEF Next
<1>3. CASE Logout(t)
  <2>1. CASE UNCHANGED vars
    BY <2>1
  <2>2. CASE \E r \in Req : PresentLogout(r, tabs[t].refresh, NoJwt)
    BY <2>2, PresentsIsSends DEF Next
  <2> QED BY <1>3, <2>1, <2>2 DEF Logout
<1>4. CASE RefreshAnswered(t)
  <2>1. PICK r \in RefreshInFlight(t) : Deliver(r)
    BY <1>4 DEF RefreshAnswered
  <2>2. PICK c \in Call : calls[c].pc = "waiting" /\ r \in calls[c].req
    BY <2>1 DEF RefreshInFlight, CallsAt
  <2>3. r \in Req
    BY <2>2 DEF WebTypeOK, CallState, NoCall
  <2> QED BY <2>1, <2>3 DEF Next
<1>5. CASE FormFails(t) \/ Act(t) \/ OpenExpired(t) \/ RefreshFails(t)
             \/ Relogin(t) \/ Reload(t) \/ FinishTask(t)
  BY <1>5 DEF FormFails, Act, OpenExpired, RefreshFails, Relogin, Reload, FinishTask
<1> QED BY <1>1, <1>2, <1>3, <1>4, <1>5 DEF TabStep

LEMMA CallStepIsStep ==
  ASSUME TypeOK, NEW c \in Call, CallStep(c)
  PROVE  [Next]_vars
<1>1. CASE StartRefresh(c)
  <2>1. \E r \in Req : PresentRefresh(r, tabs[calls[c].tab].refresh)
    BY <1>1 DEF StartRefresh
  <2> QED BY <2>1, PresentsIsSends DEF Next
<1>2. CASE CallPasses(c) \/ CallFails(c) \/ CallRefused(c) \/ JoinRefresh(c)
             \/ RetryRefused(c) \/ Dismiss(c)
  BY <1>2 DEF CallPasses, CallFails, CallRefused, JoinRefresh, RetryRefused, Dismiss
<1> QED BY <1>1, <1>2 DEF CallStep

LEMMA WebStepIsStep ==
  ASSUME WebTypeOK, [WebNext]_webVars
  PROVE  [Next]_vars
<1> USE DEF WebTypeOK
<1>1. CASE \E r \in Req : (Serve(r) \/ DbError(r)) /\ UNCHANGED tabVars
  BY <1>1 DEF Next
<1>2. CASE \E r \in Req : Discard(r)
  BY <1>2 DEF Discard, Next
<1>3. CASE (Start \/ (Tick /\ clock' > clock)) /\ UNCHANGED tabVars
  BY <1>3 DEF Next
<1>4. CASE UNCHANGED webVars
  BY <1>4 DEF webVars
<1> QED BY <1>1, <1>2, <1>3, <1>4, TabStepIsStep, CallStepIsStep DEF WebNext

(***************************************************************************)
(* What the server's requests look like to whoever waits for them.         *)
(***************************************************************************)

Drawing == {"register", "login", "refresh"}

\* What each handler's statements are about: only a refresh names a session,
\* one that a client has; exactly the successful answers of the three
\* handlers that draw a refresh token carry one, and nobody has it yet.
ShapeOK(q, rs, hs) ==
  /\ q.pc = "insert" => q.op = "register" /\ q.session = NoSession
  /\ q.pc = "lookup" => q.op = "login" /\ q.session = NoSession
  /\ q.pc \in {"find", "revoke"} => q.op = "refresh"
  /\ q.pc = "issue" => q.op \in Drawing /\ (q.op # "refresh" => q.session = NoSession)
  /\ q.pc \in {"auth", "close", "promote"} => q.op \notin Drawing
  /\ q.op \in Drawing /\ q.session # NoSession => q.session \in hs
  /\ q.newSession # NoSession <=>
       q.pc = "reply" /\ q.status = "ok" /\ q.op \in Drawing
  /\ q.newSession # NoSession =>
       /\ q.newSession \notin hs
       /\ rs[q.newSession] # NoRow
       /\ rs[q.newSession].user = q.newJwt.user
       /\ q.op # "refresh" => rs[q.newSession].from = NoSession

\* The session a refresh token was drawn for is one that a client had.
Lineage ==
  \A s \in Session :
    rows[s] # NoRow /\ rows[s].from # NoSession => rows[s].from \in held

\* No two answers carry the same refresh token.
DrawnOnce ==
  \A p, r \in Req :
    /\ reqs[p] # Idle /\ reqs[r] # Idle
    /\ reqs[p].newSession # NoSession /\ reqs[p].newSession = reqs[r].newSession
    => p = r

ShapeInv ==
  /\ Lineage
  /\ DrawnOnce
  /\ \A r \in Req : reqs[r] # Idle => ShapeOK(reqs[r], rows, held)

\* A row keeps its user and its origin.
RowsKept ==
  \A s \in Session :
    rows[s] # NoRow => /\ rows'[s] # NoRow /\ rows'[s].user = rows[s].user
                       /\ rows'[s].from = rows[s].from

LEMMA ShapeKept ==
  ASSUME SessionInv, RowsKept, held \subseteq held',
         NEW q \in Request, ShapeOK(q, rows, held),
         q.newSession # NoSession => q.newSession \notin held'
  PROVE  ShapeOK(q, rows', held')
<1>1. q.newSession # NoSession => q.newSession \in Session
  BY DEF Request
<1> QED BY <1>1 DEF ShapeOK, RowsKept

\* One request slot has new contents.
LEMMA ShapeStep ==
  ASSUME SessionInv, ShapeInv, RowsKept, Lineage', held \subseteq held',
         NEW r \in Req, NEW q \in Request \cup {Idle}, reqs' = [reqs EXCEPT ![r] = q],
         q # Idle => ShapeOK(q, rows', held'),
         \A p \in Req \ {r} : reqs[p] # Idle /\ reqs[p].newSession # NoSession =>
           /\ reqs[p].newSession \notin held'
           /\ q # Idle => reqs[p].newSession # q.newSession
  PROVE  ShapeInv'
<1>1. \A p \in Req : reqs'[p] = IF p = r THEN q ELSE reqs[p]
  BY DEF SessionInv, TypeOK
<1>2. ASSUME NEW p \in Req, reqs'[p] # Idle
      PROVE  ShapeOK(reqs'[p], rows', held')
  <2>1. CASE p = r
    BY <1>1, <1>2, <2>1
  <2>2. CASE p # r
    <3>1. reqs'[p] = reqs[p] /\ reqs[p] # Idle /\ p \in Req \ {r}
      BY <1>1, <1>2, <2>2
    <3>2. reqs[p] \in Request /\ ShapeOK(reqs[p], rows, held)
      BY <3>1 DEF SessionInv, TypeOK, ShapeInv
    <3> QED BY <3>1, <3>2, ShapeKept
  <2> QED BY <2>1, <2>2
<1>3. DrawnOnce'
  BY <1>1 DEF DrawnOnce, ShapeInv
<1> QED BY <1>2, <1>3 DEF ShapeInv

\* The rows stay, and a request gets contents without a refresh token.
LEMMA ShapeQuiet ==
  ASSUME SessionInv, ShapeInv, UNCHANGED <<held, rows>>,
         NEW r \in Req, NEW q \in Request \cup {Idle}, reqs' = [reqs EXCEPT ![r] = q],
         q # Idle => ShapeOK(q, rows, held) /\ q.newSession = NoSession
  PROVE  ShapeInv'
<1>1. RowsKept /\ Lineage'
  BY DEF RowsKept, Lineage, ShapeInv
<1>2. \A p \in Req \ {r} : reqs[p] # Idle /\ reqs[p].newSession # NoSession =>
        /\ reqs[p].newSession \notin held'
        /\ q # Idle => reqs[p].newSession # q.newSession
  BY DEF ShapeInv, ShapeOK
<1> QED BY <1>1, <1>2, ShapeStep

\* An answer without a refresh token.
LEMMA AnswerShape ==
  ASSUME SessionInv, NEW r \in Req, reqs[r] \in Request, NEW status \in Status,
         status = "ok" => reqs[r].op \notin Drawing, NEW rs, NEW hs,
         NEW q, q = [Kept(r) EXCEPT !.pc = "reply", !.status = status]
  PROVE  q \in Request /\ ShapeOK(q, rs, hs) /\ q.newSession = NoSession
         /\ q.op = reqs[r].op
<1>1. Kept(r) \in Request /\ Kept(r).session = NoSession
      /\ Kept(r).newSession = NoSession
  BY KeptTyped
<1>2. Kept(r).op = reqs[r].op
  BY BlankTyped DEF Kept, Request
<1>3. /\ q \in Request /\ q.pc = "reply" /\ q.status = status /\ q.op = reqs[r].op
      /\ q.session = NoSession /\ q.newSession = NoSession
  BY <1>1, <1>2 DEF Request
<1> QED BY <1>3 DEF ShapeOK

\* The contents Proceed gives.
LEMMA ProceedShape ==
  ASSUME SessionInv, NEW r \in Req, reqs[r] \in Request, ShapeOK(reqs[r], rows, held),
         NEW pc, NEW email \in Email, NEW admin \in BOOLEAN,
         \/ pc = "issue" /\ reqs[r].pc \in {"insert", "lookup"}
         \/ pc = "revoke" /\ reqs[r].pc = "find",
         NEW q, q = [Kept(r) EXCEPT !.pc = pc, !.email = email, !.admin = admin,
                                    !.session = reqs[r].session]
  PROVE  q \in Request /\ ShapeOK(q, rows, held) /\ q.newSession = NoSession
<1>1. Kept(r) \in Request /\ Kept(r).newSession = NoSession
  BY KeptTyped
<1>2. Kept(r).op = reqs[r].op /\ Kept(r).status = "none"
  BY DEF Kept, Blank
<1>3. pc \in Serving /\ reqs[r].session \in Session \cup {NoSession}
  BY DEF Serving, Request
<1>4. /\ q \in Request /\ q.pc = pc /\ q.status = "none" /\ q.op = reqs[r].op
      /\ q.session = reqs[r].session /\ q.newSession = NoSession
  BY <1>1, <1>2, <1>3 DEF Request
<1> QED BY <1>4 DEF ShapeOK, Drawing
(***************************************************************************)
(* Every step of Sessions keeps the shape of its requests.                 *)
(***************************************************************************)

LEMMA ShapeAnswer ==
  ASSUME SessionInv, ShapeInv, NEW r \in Req, reqs[r] \in Request, reqs[r] # Idle,
         NEW status \in Status, Answer(r, status),
         status = "ok" => reqs[r].op \notin Drawing, UNCHANGED <<rows, held>>
  PROVE  ShapeInv'
<1> DEFINE q == [Kept(r) EXCEPT !.pc = "reply", !.status = status]
<1>1. q \in Request /\ ShapeOK(q, rows, held) /\ q.newSession = NoSession
  BY AnswerShape
<1>2. reqs' = [reqs EXCEPT ![r] = q]
  BY DEF Answer
<1> HIDE DEF q
<1> QED BY <1>1, <1>2, ShapeQuiet

LEMMA ShapeProceed ==
  ASSUME SessionInv, ShapeInv, NEW r \in Req, reqs[r] \in Request, reqs[r] # Idle,
         NEW pc, NEW email \in Email, NEW admin \in BOOLEAN,
         Proceed(r, pc, email, admin),
         \/ pc = "issue" /\ reqs[r].pc \in {"insert", "lookup"}
         \/ pc = "revoke" /\ reqs[r].pc = "find",
         UNCHANGED <<rows, held>>
  PROVE  ShapeInv'
<1> DEFINE q == [Kept(r) EXCEPT !.pc = pc, !.email = email, !.admin = admin,
                                !.session = reqs[r].session]
<1>1. ShapeOK(reqs[r], rows, held)
  BY DEF ShapeInv
<1>2. q \in Request /\ ShapeOK(q, rows, held) /\ q.newSession = NoSession
  BY <1>1, ProceedShape
<1>3. reqs' = [reqs EXCEPT ![r] = q]
  BY DEF Proceed
<1> HIDE DEF q
<1> QED BY <1>2, <1>3, ShapeQuiet

\* The row of session s is revoked.
LEMMA RevokedRows ==
  ASSUME SessionInv, ShapeInv, NEW s, RevokeRow(s), held' = held
  PROVE  RowsKept /\ Lineage'
<1>1. RowsKept
  BY DEF RowsKept, RevokeRow, SessionInv, TypeOK, NoRow, Row
<1>2. \A t \in Session : rows'[t] # NoRow => rows[t] # NoRow
  BY DEF RevokeRow, SessionInv, TypeOK
<1> QED BY <1>1, <1>2 DEF Lineage, RowsKept, ShapeInv

LEMMA ShapeRevoke ==
  ASSUME SessionInv, ShapeInv, NEW r \in Req, RefreshRevoke(r) \/ Close(r)
  PROVE  ShapeInv'
<1>1. reqs[r] \in Request /\ reqs[r] # Idle /\ ShapeOK(reqs[r], rows, held)
  BY Serves DEF RefreshRevoke, Close, Serving, ShapeInv
<1>2. RowsKept /\ Lineage' /\ held' = held
  BY RevokedRows DEF RefreshRevoke, Close
<1>3. \A p \in Req \ {r} : reqs[p] # Idle /\ reqs[p].newSession # NoSession =>
        reqs[p].newSession \notin held'
  BY <1>2 DEF ShapeInv, ShapeOK
<1>4. CASE RefreshRevoke(r)
  <2> DEFINE q == [reqs[r] EXCEPT !.pc = "issue"]
  <2>1. /\ q \in Request /\ q.pc = "issue" /\ q.status = reqs[r].status
        /\ q.op = reqs[r].op /\ q.session = reqs[r].session
        /\ q.newSession = reqs[r].newSession
    BY <1>1 DEF Request, Serving
  <2>2. reqs' = [reqs EXCEPT ![r] = q]
    BY <1>1, <1>4 DEF RefreshRevoke, Goto, SessionInv, TypeOK
  <2>3. q.newSession = NoSession /\ ShapeOK(q, rows', held')
    BY <1>1, <1>2, <1>4, <2>1 DEF RefreshRevoke, ShapeOK, Drawing
  <2> HIDE DEF q
  <2> QED BY <1>2, <1>3, <2>1, <2>2, <2>3, ShapeStep
<1>5. CASE Close(r)
  <2> DEFINE q == [Kept(r) EXCEPT !.pc = "reply", !.status = "ok"]
  <2>1. reqs[r].op \notin Drawing
    BY <1>1, <1>5 DEF Close, ShapeOK
  <2>2. q \in Request /\ ShapeOK(q, rows', held') /\ q.newSession = NoSession
    BY <1>1, <2>1, AnswerShape DEF Status
  <2>3. reqs' = [reqs EXCEPT ![r] = q]
    BY <1>5 DEF Close, Answer
  <2> HIDE DEF q
  <2> QED BY <1>2, <1>3, <2>2, <2>3, ShapeStep
<1> QED BY <1>4, <1>5

LEMMA ShapeIssue ==
  ASSUME SessionInv, ShapeInv, NEW r \in Req, Issue(r)
  PROVE  ShapeInv'
<1>1. reqs[r] \in Request /\ reqs[r] # Idle /\ ShapeOK(reqs[r], rows, held)
  BY Serves DEF Issue, Serving, ShapeInv
<1> DEFINE row == [user |-> reqs[r].email, expires |-> clock + RefreshTTL,
                   revoked |-> FALSE, from |-> reqs[r].session]
<1>2. PICK s \in Session :
        /\ rows[s] = NoRow
        /\ rows' = [rows EXCEPT ![s] = row]
        /\ reqs' = [reqs EXCEPT ![r] =
             [Kept(r) EXCEPT !.pc = "reply", !.status = "ok",
                             !.newSession = s, !.newJwt = JwtFor(reqs[r])]]
  BY DEF Issue, Fresh
<1> DEFINE q == [Kept(r) EXCEPT !.pc = "reply", !.status = "ok",
                                !.newSession = s, !.newJwt = JwtFor(reqs[r])]
<1>3. held' = held /\ s \notin held
  BY <1>2 DEF Issue, SessionInv, TablesOK
<1>4. rows'[s] = row /\ row # NoRow /\ RowsKept
  BY <1>2 DEF SessionInv, TypeOK, RowsKept, NoRow
<1>5. JwtFor(reqs[r]) \in Jwt /\ JwtFor(reqs[r]).user = reqs[r].email
  BY <1>1 DEF JwtFor, Jwt, Request, SessionInv, TypeOK
<1>6. Kept(r) \in Request /\ Kept(r).session = NoSession
  BY <1>1, KeptTyped
<1>7. Kept(r).op = reqs[r].op
  BY DEF Kept, Blank
<1>8. /\ q \in Request /\ q.pc = "reply" /\ q.status = "ok" /\ q.op = reqs[r].op
      /\ q.session = NoSession /\ q.newSession = s /\ q.newJwt.user = reqs[r].email
  BY <1>5, <1>6, <1>7 DEF Request, Status
<1>9. s # NoSession
  OBVIOUS
<1>10. reqs[r].pc = "issue"
  BY DEF Issue
<1>11. ShapeOK(q, rows', held')
  BY <1>1, <1>3, <1>4, <1>8, <1>9, <1>10 DEF ShapeOK
<1>12. Lineage'
  <2> SUFFICES ASSUME NEW t \in Session, rows'[t] # NoRow, rows'[t].from # NoSession
               PROVE  rows'[t].from \in held
    BY <1>3 DEF Lineage
  <2>1. CASE t = s
    BY <1>1, <1>4, <1>10, <2>1 DEF ShapeOK
  <2>2. CASE t # s
    BY <1>2, <2>2 DEF SessionInv, TypeOK, ShapeInv, Lineage
  <2> QED BY <2>1, <2>2
<1>13. \A p \in Req \ {r} : reqs[p] # Idle /\ reqs[p].newSession # NoSession =>
         reqs[p].newSession \notin held' /\ reqs[p].newSession # q.newSession
  BY <1>2, <1>3, <1>8 DEF ShapeInv, ShapeOK
<1>14. reqs' = [reqs EXCEPT ![r] = q]
  BY <1>2
<1>15. q \in Request \cup {Idle} /\ RowsKept /\ held \subseteq held'
  BY <1>3, <1>4, <1>8
<1> HIDE DEF q, row
<1> QED BY <1>11, <1>12, <1>13, <1>14, <1>15, ShapeStep
LEMMA ShapeRegisterLogin ==
  ASSUME SessionInv, ShapeInv, NEW r \in Req,
         RegisterRefuse(r) \/ RegisterPass(r) \/ LoginRefuse(r) \/ LoginPass(r)
  PROVE  ShapeInv'
<1>1. reqs[r] \in Request /\ reqs[r] # Idle
  BY Serves DEF RegisterRefuse, RegisterPass, LoginRefuse, LoginPass, Serving
<1>2. {"bad_request", "internal", "conflict", "unauthorized"} \subseteq Status
  BY DEF Status
<1>3. CASE RegisterRefuse(r)
  <2>1. PICK status \in {"bad_request", "internal", "conflict"} : Answer(r, status)
    BY <1>3 DEF RegisterRefuse
  <2>2. UNCHANGED <<rows, held>>
    BY <1>3 DEF RegisterRefuse, ReqOnly
  <2> QED BY <1>1, <1>2, <2>1, <2>2, ShapeAnswer
<1>4. CASE RegisterPass(r)
  <2>1. /\ Proceed(r, "issue", reqs[r].email, FALSE) /\ UNCHANGED <<rows, held>>
        /\ reqs[r].pc = "insert"
    BY <1>4 DEF RegisterPass
  <2>2. reqs[r].email \in Email
    BY <1>1 DEF Request
  <2> QED BY <1>1, <2>1, <2>2, ShapeProceed
<1>5. CASE LoginRefuse(r)
  BY <1>1, <1>2, <1>5, ShapeAnswer DEF LoginRefuse, ReqOnly
<1>6. CASE LoginPass(r)
  <2>1. /\ Proceed(r, "issue", reqs[r].email, users[reqs[r].email].admin)
        /\ UNCHANGED <<rows, held>> /\ reqs[r].pc = "lookup"
    BY <1>6 DEF LoginPass, ReqOnly
  <2>2. reqs[r].email \in Email
    BY <1>1 DEF Request
  <2>3. users[reqs[r].email].admin \in BOOLEAN
    BY <2>2, RoleTyped
  <2> QED BY <1>1, <2>1, <2>2, <2>3, ShapeProceed
<1> QED BY <1>3, <1>4, <1>5, <1>6

LEMMA ShapeLookup ==
  ASSUME SessionInv, ShapeInv, NEW r \in Req, RefreshRefuse(r) \/ RefreshPass(r)
  PROVE  ShapeInv'
<1>1. reqs[r] \in Request /\ reqs[r] # Idle
  BY Serves DEF RefreshRefuse, RefreshPass, Serving
<1>2. CASE RefreshRefuse(r)
  BY <1>1, <1>2, ShapeAnswer DEF RefreshRefuse, ReqOnly, Status
<1>3. CASE RefreshPass(r)
  <2> DEFINE e == rows[reqs[r].session].user
  <2>1. /\ Proceed(r, "revoke", e, users[e].admin)
        /\ UNCHANGED <<rows, held>> /\ reqs[r].pc = "find"
    BY <1>3 DEF RefreshPass, ReqOnly
  <2>2. RequestOK(reqs[r], users, rows, held)
    BY <1>1 DEF SessionInv
  <2>3. reqs[r].session \in held
    BY <2>1, <2>2 DEF RequestOK, SessionsExist
  <2>4. e \in Email
    BY <2>3 DEF SessionInv, TypeOK, TablesOK, Row
  <2>5. users[e].admin \in BOOLEAN
    BY <2>4, RoleTyped
  <2> HIDE DEF e
  <2> QED BY <1>1, <2>1, <2>4, <2>5, ShapeProceed
<1> QED BY <1>2, <1>3

LEMMA ShapeAuth ==
  ASSUME SessionInv, ShapeInv, NEW r \in Req,
         AuthRefuse(r) \/ AuthPass(r) \/ Promote(r) \/ DbError(r)
  PROVE  ShapeInv'
<1>1. reqs[r] \in Request /\ reqs[r] # Idle /\ ShapeOK(reqs[r], rows, held)
      /\ reqs[r].pc \in Serving
  BY Serves DEF AuthRefuse, AuthPass, Promote, DbError, Serving, ShapeInv
<1>2. UNCHANGED <<rows, held>>
  BY DEF AuthRefuse, AuthPass, Promote, DbError, ReqOnly
<1>3. CASE AuthRefuse(r)
  <2>1. PICK status \in {"unauthorized", "forbidden"} : Answer(r, status)
    BY <1>3 DEF AuthRefuse
  <2> QED BY <1>1, <1>2, <2>1, ShapeAnswer DEF Status
<1>4. CASE AuthPass(r)
  <2>1. PICK pc \in {"close", "promote"} : Goto(r, pc)
    BY <1>4 DEF AuthPass
  <2> DEFINE q == [reqs[r] EXCEPT !.pc = pc]
  <2>2. /\ q \in Request /\ q.pc = pc /\ q.op = reqs[r].op
        /\ q.session = reqs[r].session /\ q.newSession = reqs[r].newSession
    BY <1>1 DEF Request, Serving
  <2>3. reqs' = [reqs EXCEPT ![r] = q]
    BY <2>1 DEF Goto, SessionInv, TypeOK
  <2>4. reqs[r].op \notin Drawing
    BY <1>1, <1>4 DEF AuthPass, ShapeOK
  <2>5. q.newSession = NoSession /\ ShapeOK(q, rows, held)
    BY <1>1, <2>2, <2>4 DEF ShapeOK
  <2> HIDE DEF q
  <2> QED BY <1>2, <2>2, <2>3, <2>5, ShapeQuiet
<1>5. CASE Promote(r)
  <2>1. PICK status \in {"not_found", "ok"} : Answer(r, status)
    BY <1>5 DEF Promote
  <2>2. reqs[r].op \notin Drawing
    BY <1>1, <1>5 DEF Promote, ShapeOK
  <2> QED BY <1>1, <1>2, <2>1, <2>2, ShapeAnswer DEF Status
<1>6. CASE DbError(r)
  BY <1>1, <1>2, <1>6, ShapeAnswer DEF DbError, Status
<1> QED BY <1>3, <1>4, <1>5, <1>6

LEMMA ShapeServe ==
  ASSUME SessionInv, ShapeInv, NEW r \in Req, Serve(r) \/ DbError(r)
  PROVE  ShapeInv'
BY ShapeRegisterLogin, ShapeLookup, ShapeRevoke, ShapeIssue, ShapeAuth DEF Serve

\* A request that is sent.
LEMMA ShapeSent ==
  ASSUME SessionInv, ShapeInv, NEW r \in Req, NEW q \in Request, Send(r, q),
         ShapeOK(q, rows, held), q.newSession = NoSession
  PROVE  ShapeInv'
<1>1. reqs' = [reqs EXCEPT ![r] = q] /\ UNCHANGED <<held, rows>>
  BY DEF Send, ReqOnly
<1> QED BY <1>1, ShapeQuiet

LEMMA ShapeSend ==
  ASSUME SessionInv, ShapeInv, NEW r \in Req,
         SendRegister(r) \/ SendLogin(r) \/ SendRefresh(r) \/ SendLogout(r)
           \/ SendPromote(r)
  PROVE  ShapeInv'
<1> USE BlankTyped
<1>0. /\ Blank.pc = "auth" /\ Blank.op = "logout" /\ Blank.session = NoSession
      /\ Blank.newSession = NoSession /\ Blank.status = "none"
  BY DEF Blank
<1>1. CASE SendRegister(r)
  <2>1. PICK e \in Email, p \in Password :
          Send(r, [Blank EXCEPT !.pc = "insert", !.op = "register", !.email = e,
                                !.password = p])
    BY <1>1 DEF SendRegister
  <2> DEFINE q == [Blank EXCEPT !.pc = "insert", !.op = "register", !.email = e,
                                !.password = p]
  <2>2. /\ q \in Request /\ q.pc = "insert" /\ q.op = "register"
        /\ q.session = NoSession /\ q.newSession = NoSession
    BY <1>0 DEF Request, Serving
  <2>3. ShapeOK(q, rows, held)
    BY <2>2 DEF ShapeOK
  <2> HIDE DEF q
  <2> QED BY <2>1, <2>2, <2>3, ShapeSent DEF q
<1>2. CASE SendLogin(r)
  <2>1. PICK e \in Email, p \in Password :
          Send(r, [Blank EXCEPT !.pc = "lookup", !.op = "login", !.email = e,
                                !.password = p, !.wasAdmin = users[e].admin])
    BY <1>2 DEF SendLogin
  <2> DEFINE q == [Blank EXCEPT !.pc = "lookup", !.op = "login", !.email = e,
                                !.password = p, !.wasAdmin = users[e].admin]
  <2>2. users[e].admin \in BOOLEAN
    BY RoleTyped
  <2>3. /\ q \in Request /\ q.pc = "lookup" /\ q.op = "login"
        /\ q.session = NoSession /\ q.newSession = NoSession
    BY <1>0, <2>2 DEF Request, Serving
  <2>4. ShapeOK(q, rows, held)
    BY <2>3 DEF ShapeOK
  <2> HIDE DEF q
  <2> QED BY <2>1, <2>3, <2>4, ShapeSent DEF q
<1>3. CASE SendRefresh(r)
  <2>1. PICK s \in Session : PresentRefresh(r, s)
    BY <1>3 DEF SendRefresh
  <2> DEFINE q == [Blank EXCEPT !.pc = "find", !.op = "refresh", !.session = s,
                                !.stale = rows[s].revoked,
                                !.wasAdmin = users[rows[s].user].admin]
  <2>2. s \in held /\ Send(r, q)
    BY <2>1 DEF PresentRefresh
  <2>3. rows[s] \in Row
    BY <2>2 DEF SessionInv, TypeOK, TablesOK
  <2>4. rows[s].revoked \in BOOLEAN /\ users[rows[s].user].admin \in BOOLEAN
    BY <2>3, RoleTyped DEF Row
  <2>5. /\ q \in Request /\ q.pc = "find" /\ q.op = "refresh"
        /\ q.session = s /\ q.newSession = NoSession
    BY <1>0, <2>4 DEF Request, Serving
  <2>6. ShapeOK(q, rows, held)
    BY <2>2, <2>5 DEF ShapeOK
  <2> HIDE DEF q
  <2> QED BY <2>2, <2>5, <2>6, ShapeSent
<1>4. CASE SendLogout(r)
  <2>1. PICK s \in Session, j \in jwts \cup {NoJwt} :
          Send(r, [Blank EXCEPT !.session = s, !.jwt = j])
    BY <1>4 DEF SendLogout, PresentLogout
  <2> DEFINE q == [Blank EXCEPT !.session = s, !.jwt = j]
  <2>2. j \in Jwt
    BY DEF SessionInv, TypeOK
  <2>3. /\ q \in Request /\ q.pc = "auth" /\ q.op = "logout"
        /\ q.newSession = NoSession
    BY <1>0, <2>2 DEF Request
  <2>4. ShapeOK(q, rows, held)
    BY <2>3 DEF ShapeOK, Drawing
  <2> HIDE DEF q
  <2> QED BY <2>1, <2>3, <2>4, ShapeSent DEF q
<1>5. CASE SendPromote(r)
  <2>1. PICK e \in Email, j \in jwts :
          Send(r, [Blank EXCEPT !.op = "promote", !.email = e, !.jwt = j])
    BY <1>5 DEF SendPromote
  <2> DEFINE q == [Blank EXCEPT !.op = "promote", !.email = e, !.jwt = j]
  <2>2. j \in Jwt
    BY DEF SessionInv, TypeOK
  <2>3. /\ q \in Request /\ q.pc = "auth" /\ q.op = "promote"
        /\ q.session = NoSession /\ q.newSession = NoSession
    BY <1>0, <2>2 DEF Request
  <2>4. ShapeOK(q, rows, held)
    BY <2>3 DEF ShapeOK, Drawing
  <2> HIDE DEF q
  <2> QED BY <2>1, <2>3, <2>4, ShapeSent DEF q
<1> QED BY <1>1, <1>2, <1>3, <1>4, <1>5
\* What an answer that is delivered brings.
LEMMA Delivered ==
  ASSUME SessionInv, ShapeInv, NEW r \in Req, Deliver(r)
  PROVE  LET q == reqs[r] IN
         /\ q \in Request /\ q # Idle /\ reqs' = [reqs EXCEPT ![r] = Idle]
         /\ rows' = rows
         /\ IF q.status = "ok" /\ q.op \in Drawing
            THEN /\ q.newSession \in Session \ held /\ rows[q.newSession] # NoRow
                 /\ rows[q.newSession].user = q.newJwt.user
                 /\ q.op # "refresh" => rows[q.newSession].from = NoSession
                 /\ held' = held \cup {q.newSession}
                 /\ jwts' = jwts \cup {q.newJwt} /\ q.newJwt \in Jwt
            ELSE UNCHANGED <<held, jwts>>
<1>1. reqs[r] \in Request /\ reqs[r] # Idle /\ ShapeOK(reqs[r], rows, held)
  BY Serves DEF Deliver, ShapeInv
<1>2. reqs[r].newJwt \in Jwt /\ reqs[r].newSession \in Session \cup {NoSession}
  BY <1>1 DEF Request
<1> QED BY <1>1, <1>2 DEF Deliver, ShapeOK

LEMMA ShapeFreed ==
  ASSUME SessionInv, ShapeInv, NEW r \in Req, Deliver(r) \/ Abandon(r)
  PROVE  ShapeInv'
<1>1. RowsKept /\ held \subseteq held' /\ rows' = rows
      /\ reqs' = [reqs EXCEPT ![r] = Idle]
  BY DEF RowsKept, Deliver, Abandon, ReqOnly
<1>2. Lineage'
  BY <1>1 DEF Lineage, ShapeInv
<1>3. \A p \in Req \ {r} : reqs[p] # Idle /\ reqs[p].newSession # NoSession =>
        reqs[p].newSession \notin held'
  <2>1. CASE Abandon(r)
    BY <2>1 DEF Abandon, ReqOnly, ShapeInv, ShapeOK
  <2>2. CASE Deliver(r)
    <3>1. \/ held' = held
          \/ /\ held' = held \cup {reqs[r].newSession} /\ reqs[r] # Idle
             /\ reqs[r].newSession # NoSession
      BY <2>2, Delivered DEF Deliver
    <3> QED BY <3>1 DEF ShapeInv, ShapeOK, DrawnOnce
  <2> QED BY <2>1, <2>2
<1> QED BY <1>1, <1>2, <1>3, ShapeStep

LEMMA ShapeProcess ==
  ASSUME SessionInv, ShapeInv, Start \/ Stop \/ Tick \/ UNCHANGED vars
  PROVE  ShapeInv'
<1>1. UNCHANGED <<rows, held>> /\ (reqs' = reqs \/ reqs' = [r \in Req |-> Idle])
  BY DEF Start, Stop, Tick, vars
<1>2. Lineage'
  BY <1>1 DEF Lineage, ShapeInv
<1>3. DrawnOnce'
  BY <1>1 DEF DrawnOnce, ShapeInv
<1>4. \A r \in Req : reqs'[r] # Idle => ShapeOK(reqs'[r], rows', held')
  BY <1>1 DEF ShapeInv
<1> QED BY <1>2, <1>3, <1>4 DEF ShapeInv

LEMMA ShapeInit ==
  ASSUME Init
  PROVE  ShapeInv
BY DEF Init, ShapeInv, Lineage, DrawnOnce

LEMMA ShapeNext ==
  ASSUME SessionInv, ShapeInv, [Next]_vars
  PROVE  ShapeInv'
<1>1. ASSUME NEW r \in Req,
             \/ Serve(r) \/ DbError(r) \/ Abandon(r) \/ Deliver(r)
             \/ SendRegister(r) \/ SendLogin(r) \/ SendRefresh(r)
             \/ SendLogout(r) \/ SendPromote(r)
      PROVE  ShapeInv'
  BY <1>1, ShapeServe, ShapeFreed, ShapeSend
<1> QED BY <1>1, ShapeProcess DEF Next

(***************************************************************************)
(* The inductive invariant of the WebUI.                                   *)
(***************************************************************************)

PairOK(p, rs, hs, js) ==
  p = NoSignals \/ (p.refresh \in hs /\ p.jwt \in js /\ p.jwt.user = rs[p.refresh].user)
PairOf(t) == [jwt |-> tabs[t].jwt, refresh |-> tabs[t].refresh]

\* While no two tabs used localStorage at once, one task at most is half done.
\* It has the access token where it belongs; what the second key is to be
\* taken from, the signals or localStorage, is a pair.
PairsTogether ==
  ~torn =>
    /\ \A t, u \in Tab : Busy(t) /\ Busy(u) => t = u
    /\ PairOK(storage, rows, held, jwts) \/ \E t \in Tab : tabs[t].task = "store"
    /\ \A t \in Tab :
         /\ tabs[t].task # "load" => PairOK(PairOf(t), rows, held, jwts)
         /\ Busy(t) => storage.jwt = tabs[t].jwt

\* A form waits for a registration or login of its own.
FormsWait ==
  \A t \in Tab : \A r \in tabs[t].form :
    /\ reqs[r] # Idle /\ reqs[r].op \in {"register", "login"}
    /\ \A u \in Tab : r \in tabs[u].form => u = t

\* The calls of a tab that wait do so for one refresh, and no other tab's.
CallsWait ==
  \A c \in Call : calls[c].pc = "waiting" =>
    /\ \E r \in Req : calls[c].req = {r} /\ reqs[r] # Idle /\ reqs[r].op = "refresh"
    /\ \A d \in Call : calls[d].pc = "waiting" =>
         (calls[d].tab = calls[c].tab <=> calls[d].req = calls[c].req)

\* A refresh token a tab has, or was given, or localStorage has, has reached
\* the browser.
GotHeld ==
  /\ \A s \in Session : got[s] # NoTab => s \in held
  /\ storage.refresh \in held \cup {NoSession}
  /\ \A t \in Tab : tabs[t].refresh \in held \cup {NoSession}

\* A tab's refresh token has no successor that the tab was given.
TabsHoldNewest ==
  \A t \in Tab, s \in Session :
    got[s] = t /\ rows[s].from # NoSession => rows[s].from # tabs[t].refresh

\* Refresh token x may yet be exchanged: a request presents it, or a tab could.
Presented(x) ==
  \E p \in Req : reqs[p] # Idle /\ reqs[p].op \in Drawing /\ reqs[p].session = x
Asked(x) == Presented(x) \/ \E u \in Tab : ~Busy(u) /\ tabs[u].refresh = x
Exchanged(x) == \E s \in Session : rows[s] # NoRow /\ rows[s].from = x

\* The refresh token a tab is about to store is known to that tab only.
Unshared ==
  \A u \in Tab, x \in Session : tabs[u].task = "store" /\ tabs[u].refresh = x =>
    /\ got[x] = u /\ storage.refresh # x
    /\ \A t \in Tab \ {u} : tabs[t].refresh # x
    /\ ~Presented(x) /\ ~Exchanged(x)

TokensOK ==
  PairsTogether /\ StorageHoldsNewest /\ TabsHoldNewest /\ GotHeld /\ Unshared
WaitsOK == FormsWait /\ CallsWait /\ NeverPresentsSpent
WebInv == SessionInv /\ ShapeInv /\ WebTypeOK /\ TokensOK /\ WaitsOK

WebTyped ==
  /\ storage \in Signals
  /\ tabs \in [Tab -> TabState]
  /\ calls \in [Call -> CallState \cup {NoCall}]
  /\ got \in [Session -> Tab \cup {NoTab}]
  /\ torn \in BOOLEAN
  /\ logins \in Nat
WebPart == WebTyped /\ TokensOK /\ WaitsOK

LEMMA TypedNow ==
  ASSUME WebInv
  PROVE  /\ WebTyped
         /\ \A t \in Tab : /\ tabs[t].form \subseteq Req /\ tabs[t].jwt \in Jwt
                           /\ tabs[t].refresh \in Session \cup {NoSession}
                           /\ tabs[t].task \in {"none", "store", "load"}
BY DEF WebInv, WebTypeOK, WebTyped, TabState

(***************************************************************************)
(* The pairs.                                                              *)
(***************************************************************************)

LEMMA PairsAreMatched ==
  ASSUME WebInv
  PROVE  PairsMatch
<1> SUFFICES ASSUME ~torn, \A t \in Tab : ~Busy(t)
             PROVE  \A p \in {storage} \cup {PairOf(t) : t \in Tab} :
                      PairOK(p, rows, held, jwts)
  BY DEF PairsMatch, PairOK, PairOf
<1>1. PairOK(storage, rows, held, jwts)
  BY DEF Busy, WebInv, TokensOK, PairsTogether
<1>2. \A t \in Tab : PairOK(PairOf(t), rows, held, jwts)
  BY DEF Busy, WebInv, TokensOK, PairsTogether
<1> QED BY <1>1, <1>2

LEMMA PairKept ==
  ASSUME SessionInv, RowsKept, held \subseteq held', jwts \subseteq jwts',
         NEW p, PairOK(p, rows, held, jwts)
  PROVE  PairOK(p, rows', held', jwts')
BY DEF PairOK, RowsKept, SessionInv, TypeOK, TablesOK

\* What a tab keeps stays.
Stays(t) ==
  /\ tabs'[t].jwt = tabs[t].jwt /\ tabs'[t].refresh = tabs[t].refresh
  /\ tabs'[t].task = tabs[t].task

LEMMA PairsStay ==
  ASSUME WebInv, RowsKept, held \subseteq held', jwts \subseteq jwts',
         UNCHANGED <<storage, torn>>, \A t \in Tab : Stays(t)
  PROVE  PairsTogether'
<1> SUFFICES ASSUME ~torn
             PROVE  PairsTogether'
  BY DEF PairsTogether
<1>1. PairOK(storage, rows, held, jwts) => PairOK(storage', rows', held', jwts')
  BY PairKept DEF WebInv
<1>2. \A t \in Tab : /\ PairOf(t)' = PairOf(t) /\ (Busy(t)' <=> Busy(t))
                     /\ tabs'[t].task = tabs[t].task /\ tabs'[t].jwt = tabs[t].jwt
  BY DEF Stays, PairOf, Busy
<1>3. \A t \in Tab : PairOK(PairOf(t), rows, held, jwts) =>
                       PairOK(PairOf(t), rows', held', jwts')
  BY PairKept DEF WebInv
<1>4. \A t \in Tab :
        /\ tabs'[t].task # "load" => PairOK(PairOf(t)', rows', held', jwts')
        /\ Busy(t)' => storage'.jwt = tabs'[t].jwt
  BY <1>2, <1>3 DEF WebInv, TokensOK, PairsTogether
<1>5. PairOK(storage', rows', held', jwts') \/ \E t \in Tab : tabs'[t].task = "store"
  BY <1>1, <1>2 DEF WebInv, TokensOK, PairsTogether
<1>6. \A t, u \in Tab : Busy(t)' /\ Busy(u)' => t = u
  BY <1>2 DEF WebInv, TokensOK, PairsTogether
<1> QED BY <1>4, <1>5, <1>6 DEF PairsTogether

LEMMA PairsStored ==
  ASSUME WebInv, RowsKept, held \subseteq held', jwts \subseteq jwts',
         NEW t \in Tab, ~Busy(t), NEW j, NEW s, NEW form, BeginStore(t, j, s, form),
         PairOK([jwt |-> j, refresh |-> s], rows', held', jwts')
  PROVE  PairsTogether'
<1> SUFFICES ASSUME ~torn'
             PROVE  PairsTogether'
  BY DEF PairsTogether
<1>1. ~torn /\ \A u \in Tab : ~Busy(u)
  BY DEF BeginStore, Overlaps
<1>2. /\ storage'.jwt = j
      /\ tabs'[t] = [jwt |-> j, refresh |-> s, form |-> form, task |-> "store"]
      /\ \A u \in Tab \ {t} : tabs'[u] = tabs[u]
  BY TypedNow DEF BeginStore, WebTyped, Signals
<1>3. \A u \in Tab : Busy(u)' <=> u = t
  BY <1>1, <1>2 DEF Busy
<1>4. PairOf(t)' = [jwt |-> j, refresh |-> s] /\ \A u \in Tab \ {t} : PairOf(u)' = PairOf(u)
  BY <1>2 DEF PairOf
<1>5. \A u \in Tab \ {t} : PairOK(PairOf(u), rows', held', jwts')
  BY <1>1, PairKept DEF WebInv, TokensOK, PairsTogether, Busy
<1>6. \A u \in Tab : PairOK(PairOf(u)', rows', held', jwts')
  BY <1>4, <1>5
<1>7. tabs'[t].task = "store" /\ tabs'[t].jwt = j
  BY <1>2
<1> QED BY <1>2, <1>3, <1>6, <1>7 DEF PairsTogether

LEMMA PairsLoad ==
  ASSUME WebInv, UNCHANGED vars, NEW t \in Tab, ~Busy(t), BeginLoad(t)
  PROVE  PairsTogether'
<1> SUFFICES ASSUME ~torn'
             PROVE  PairsTogether'
  BY DEF PairsTogether
<1>1. ~torn /\ \A u \in Tab : ~Busy(u)
  BY DEF BeginLoad, Overlaps
<1>2. /\ storage' = storage /\ UNCHANGED <<rows, held, jwts>>
      /\ tabs'[t] = [jwt |-> storage.jwt, refresh |-> NoSession, form |-> {},
                     task |-> "load"]
      /\ \A u \in Tab \ {t} : tabs'[u] = tabs[u]
  BY TypedNow DEF BeginLoad, WebTyped, vars
<1>3. \A u \in Tab : Busy(u)' <=> u = t
  BY <1>1, <1>2 DEF Busy
<1>4. \A u \in Tab \ {t} : PairOf(u)' = PairOf(u) /\ PairOK(PairOf(u), rows, held, jwts)
  BY <1>1, <1>2 DEF PairOf, WebInv, TokensOK, PairsTogether, Busy
<1>5. PairOK(storage, rows, held, jwts)
  BY <1>1 DEF WebInv, TokensOK, PairsTogether, Busy
<1>6. tabs'[t].task = "load" /\ tabs'[t].jwt = storage.jwt
  BY <1>2
<1>7. \A u \in Tab : tabs'[u].task # "load" => PairOK(PairOf(u)', rows', held', jwts')
  BY <1>2, <1>4, <1>6
<1> QED BY <1>2, <1>3, <1>5, <1>6, <1>7 DEF PairsTogether

LEMMA Finishes ==
  ASSUME WebInv, NEW t \in Tab, FinishTask(t)
  PROVE  /\ UNCHANGED vars /\ UNCHANGED <<calls, got, torn, logins>> /\ WebTyped'
         /\ Busy(t) /\ tabs'[t].task = "none" /\ tabs'[t].jwt = tabs[t].jwt
         /\ \A u \in Tab \ {t} : tabs'[u] = tabs[u]
         /\ \A u \in Tab : tabs'[u].form = tabs[u].form
         /\ storage'.jwt = storage.jwt /\ tabs'[t].refresh = storage'.refresh
         /\ storage'.refresh = IF tabs[t].task = "store" THEN tabs[t].refresh
                                                         ELSE storage.refresh
<1>1. UNCHANGED vars /\ UNCHANGED <<calls, got, torn, logins>>
  BY DEF FinishTask
<1>2. /\ storage \in Signals /\ tabs \in [Tab -> TabState]
      /\ tabs[t] \in TabState /\ tabs[t].refresh \in Session \cup {NoSession}
      /\ storage.refresh \in Session \cup {NoSession}
  BY TypedNow DEF WebTyped, Signals
<1>3. CASE tabs[t].task = "store"
  <2>1. /\ storage' = [storage EXCEPT !.refresh = tabs[t].refresh]
        /\ tabs' = [tabs EXCEPT ![t].task = "none"]
    BY <1>3 DEF FinishTask
  <2>2. storage' \in Signals /\ tabs' \in [Tab -> TabState]
    BY <1>2, <2>1 DEF Signals, TabState
  <2>3. WebTyped'
    BY <1>1, <2>2, TypedNow DEF WebTyped
  <2> QED BY <1>1, <1>2, <1>3, <2>1, <2>3 DEF Busy, Signals, TabState
<1>4. CASE tabs[t].task = "load"
  <2>1. /\ storage' = storage
        /\ tabs' = [tabs EXCEPT ![t].task = "none", ![t].refresh = storage.refresh]
    BY <1>4 DEF FinishTask
  <2>2. tabs' \in [Tab -> TabState]
    BY <1>2, <2>1 DEF TabState
  <2>3. WebTyped'
    BY <1>1, <2>1, <2>2, TypedNow DEF WebTyped
  <2> QED BY <1>1, <1>2, <1>4, <2>1, <2>3 DEF Busy, TabState
<1> QED BY <1>3, <1>4 DEF FinishTask

LEMMA PairsFinish ==
  ASSUME WebInv, NEW t \in Tab, FinishTask(t)
  PROVE  PairsTogether'
<1> SUFFICES ASSUME ~torn
             PROVE  PairsTogether'
  BY Finishes DEF PairsTogether
<1>1. /\ UNCHANGED <<rows, held, jwts>> /\ Busy(t) /\ tabs'[t].task = "none"
      /\ \A u \in Tab \ {t} : tabs'[u] = tabs[u]
  BY Finishes DEF vars
<1>2. \A u \in Tab : (Busy(u) <=> u = t) /\ ~Busy(u)'
  BY <1>1 DEF Busy, WebInv, TokensOK, PairsTogether
<1>3. storage.jwt = tabs[t].jwt
  BY <1>1 DEF WebInv, TokensOK, PairsTogether
<1>4. PairOf(t)' = storage'
  <2>1. storage' \in Signals
    BY Finishes DEF WebTyped
  <2> QED BY <1>3, <2>1, Finishes DEF PairOf, Signals
<1>5. PairOK(storage', rows, held, jwts)
  <2>1. CASE tabs[t].task = "store"
    <3>1. storage' = PairOf(t)
      BY <1>3, <2>1, Finishes DEF PairOf, WebTyped, Signals
    <3> QED BY <2>1, <3>1 DEF WebInv, TokensOK, PairsTogether
  <2>2. CASE tabs[t].task # "store"
    <3>1. storage' = storage
      BY <2>2, Finishes, TypedNow DEF WebTyped, Signals
    <3>2. \A u \in Tab : tabs[u].task # "store"
      BY <1>2, <2>2 DEF Busy
    <3> QED BY <3>1, <3>2 DEF WebInv, TokensOK, PairsTogether
  <2> QED BY <2>1, <2>2
<1>6. \A u \in Tab \ {t} : PairOf(u)' = PairOf(u) /\ PairOK(PairOf(u), rows, held, jwts)
  BY <1>1, <1>2 DEF PairOf, Busy, WebInv, TokensOK, PairsTogether
<1>7. \A u \in Tab : PairOK(PairOf(u)', rows', held', jwts')
  BY <1>1, <1>4, <1>5, <1>6
<1> QED BY <1>1, <1>2, <1>5, <1>7 DEF PairsTogether

(***************************************************************************)
(* The tokens.                                                             *)
(***************************************************************************)

\* A step exchanges no refresh token, and has none presented, but those that
\* may be.
AsksKnown ==
  /\ \A x \in Session : Presented(x)' => Asked(x)
  /\ \A x \in Session : Exchanged(x)' => Exchanged(x) \/ Asked(x)

\* No token is delivered or stored: an idle tab may drop its own.
LEMMA TokensKept ==
  ASSUME WebInv, RowsKept, UNCHANGED <<held, jwts, got>>, AsksKnown, PairsTogether',
         storage'.refresh = storage.refresh,
         \A t \in Tab : Stays(t) \/ (~Busy(t) /\ tabs'[t].refresh = NoSession)
  PROVE  TokensOK'
<1>1. \A s \in held : s \in Session /\ rows[s] # NoRow /\ rows'[s].from = rows[s].from
  BY DEF WebInv, SessionInv, TypeOK, TablesOK, RowsKept
<1>2. StorageHoldsNewest'
  <2> SUFFICES ASSUME NEW s \in held, rows[s].from # NoSession,
                      rows[s].from = storage.refresh
               PROVE  \E t \in Tab : tabs'[t].task = "store" /\ tabs'[t].refresh = s
    BY <1>1 DEF StorageHoldsNewest
  <2>1. PICK t \in Tab : tabs[t].task = "store" /\ tabs[t].refresh = s
    BY DEF WebInv, TokensOK, StorageHoldsNewest
  <2> QED BY <2>1 DEF Stays, Busy
<1>3. GotHeld'
  BY DEF WebInv, TokensOK, GotHeld, Stays
<1>4. TabsHoldNewest'
  <2> SUFFICES ASSUME NEW t \in Tab, NEW s \in Session,
                      got[s] = t, rows'[s].from # NoSession
               PROVE  rows'[s].from # tabs'[t].refresh
    BY DEF TabsHoldNewest
  <2>1. s \in held
    BY DEF WebInv, TokensOK, GotHeld
  <2>2. rows'[s].from # tabs[t].refresh
    BY <1>1, <2>1 DEF WebInv, TokensOK, TabsHoldNewest
  <2> QED BY <2>2 DEF Stays
<1>5. Unshared'
  <2> SUFFICES ASSUME NEW u \in Tab, NEW x \in Session,
                      tabs'[u].task = "store", tabs'[u].refresh = x
               PROVE  /\ got[x] = u /\ storage.refresh # x
                      /\ \A t \in Tab \ {u} : tabs'[t].refresh # x
                      /\ ~Presented(x)' /\ ~Exchanged(x)'
    BY DEF Unshared
  <2>1. tabs[u].task = "store" /\ tabs[u].refresh = x
    BY DEF Stays
  <2>2. /\ got[x] = u /\ storage.refresh # x
        /\ \A t \in Tab \ {u} : tabs[t].refresh # x
        /\ ~Presented(x) /\ ~Exchanged(x)
    BY <2>1 DEF WebInv, TokensOK, Unshared
  <2>3. ~Asked(x)
    BY <2>1, <2>2 DEF Asked, Busy
  <2>4. \A t \in Tab \ {u} : tabs'[t].refresh # x
    BY <2>2 DEF Stays
  <2> QED BY <2>2, <2>3, <2>4 DEF AsksKnown
<1> QED BY <1>2, <1>3, <1>4, <1>5 DEF TokensOK

\* The second half of a task.
LEMMA TokensFinish ==
  ASSUME WebInv, NEW t \in Tab, FinishTask(t)
  PROVE  TokensOK'
<1>1. UNCHANGED <<rows, reqs, held, jwts, got>> /\ \A u \in Tab \ {t} : tabs'[u] = tabs[u]
  BY Finishes DEF vars
<1>2. tabs[t].task \in {"store", "load"} /\ tabs'[t].task = "none"
  BY Finishes, TypedNow DEF Busy
<1>3. StorageHoldsNewest'
  <2> SUFFICES ASSUME NEW s \in held, rows[s].from # NoSession,
                      rows[s].from = storage'.refresh
               PROVE  \E u \in Tab : tabs'[u].task = "store" /\ tabs'[u].refresh = s
    BY <1>1 DEF StorageHoldsNewest
  <2>1. s \in Session /\ rows[s] # NoRow
    BY DEF WebInv, SessionInv, TypeOK, TablesOK
  <2>2. tabs[t].task = "load" /\ storage'.refresh = storage.refresh
    <3>1. tabs[t].task = "store" => tabs[t].refresh = rows[s].from
                                      /\ ~Exchanged(tabs[t].refresh)
      BY Finishes, TypedNow DEF WebInv, TokensOK, Unshared
    <3> QED BY <1>2, <2>1, <3>1, Finishes DEF Exchanged
  <2>3. PICK u \in Tab : tabs[u].task = "store" /\ tabs[u].refresh = s
    BY <2>2 DEF WebInv, TokensOK, StorageHoldsNewest
  <2> QED BY <1>1, <2>2, <2>3
<1>4. GotHeld'
  BY <1>1, Finishes DEF WebInv, TokensOK, GotHeld
<1>5. TabsHoldNewest'
  <2> SUFFICES ASSUME NEW u \in Tab, NEW s \in Session,
                      got[s] = u, rows[s].from # NoSession,
                      rows[s].from = tabs'[u].refresh
               PROVE  FALSE
    BY <1>1 DEF TabsHoldNewest
  <2>1. rows[s].from # tabs[u].refresh /\ s \in held
    BY DEF WebInv, TokensOK, TabsHoldNewest, GotHeld
  <2>2. u = t /\ tabs[t].task = "load" /\ rows[s].from = storage.refresh
    BY <1>1, <1>2, <2>1, Finishes
  <2>3. PICK v \in Tab : tabs[v].task = "store" /\ tabs[v].refresh = s
    BY <2>1, <2>2 DEF WebInv, TokensOK, StorageHoldsNewest
  <2>4. got[s] = v
    BY <2>3 DEF WebInv, TokensOK, Unshared
  <2> QED BY <2>2, <2>3, <2>4
<1>6. Unshared'
  <2> SUFFICES ASSUME NEW u \in Tab, NEW x \in Session,
                      tabs'[u].task = "store", tabs'[u].refresh = x
               PROVE  /\ got[x] = u /\ storage'.refresh # x
                      /\ \A v \in Tab \ {u} : tabs'[v].refresh # x
                      /\ ~Presented(x)' /\ ~Exchanged(x)'
    BY <1>1 DEF Unshared
  <2>1. u # t /\ tabs[u].refresh = x /\ tabs[u].task = "store"
    BY <1>1, <1>2
  <2>2. /\ got[x] = u /\ storage.refresh # x
        /\ \A v \in Tab \ {u} : tabs[v].refresh # x
        /\ ~Presented(x) /\ ~Exchanged(x)
    BY <2>1 DEF WebInv, TokensOK, Unshared
  <2>3. storage'.refresh # x /\ tabs'[t].refresh # x
    BY <2>1, <2>2, Finishes
  <2>4. \A v \in Tab \ {u} : tabs'[v].refresh # x
    BY <1>1, <2>2, <2>3
  <2> QED BY <1>1, <2>2, <2>3, <2>4 DEF Presented, Exchanged
<1> QED BY <1>3, <1>4, <1>5, <1>6, PairsFinish DEF TokensOK

\* The answer of a registration, a login or a refresh begins to be saved.
LEMMA TokensSaved ==
  ASSUME WebInv, NEW r \in Req, NEW t \in Tab, NEW form, ~Busy(t), Deliver(r),
         reqs[r].status = "ok", reqs[r].op \in Drawing, SaveSession(t, reqs[r], form)
  PROVE  TokensOK'
<1> DEFINE q == reqs[r]
           n == q.newSession
<1>1. /\ n \in Session \ held /\ rows[n] # NoRow /\ rows[n].user = q.newJwt.user
      /\ held' = held \cup {n} /\ jwts' = jwts \cup {q.newJwt} /\ rows' = rows
      /\ reqs' = [reqs EXCEPT ![r] = Idle]
  BY Delivered DEF WebInv
<1>2. /\ BeginStore(t, q.newJwt, n, form) /\ got' = [got EXCEPT ![n] = t]
  BY DEF SaveSession
<1>3. \A s \in held : s \in Session /\ rows[s] # NoRow
  BY DEF WebInv, SessionInv, TypeOK, TablesOK
<1>4. \A s \in Session : rows[s] # NoRow /\ rows[s].from # NoSession => rows[s].from # n
  BY <1>1 DEF WebInv, ShapeInv, Lineage
<1>5. \A p \in Req : reqs[p] # Idle /\ reqs[p].op \in Drawing => reqs[p].session # n
  BY <1>1 DEF WebInv, ShapeInv, ShapeOK
<1> HIDE DEF q, n
<1>6. RowsKept
  BY <1>1 DEF RowsKept
<1>7. /\ storage'.refresh = storage.refresh
      /\ tabs'[t] = [jwt |-> q.newJwt, refresh |-> n, form |-> form, task |-> "store"]
      /\ \A u \in Tab \ {t} : tabs'[u] = tabs[u]
      /\ got'[n] = t /\ \A s \in Session \ {n} : got'[s] = got[s]
  BY <1>1, <1>2, TypedNow DEF BeginStore, WebTyped, Signals
<1>8. PairsTogether'
  <2>1. PairOK([jwt |-> q.newJwt, refresh |-> n], rows', held', jwts')
    BY <1>1 DEF PairOK
  <2> QED BY <1>1, <1>2, <1>6, <2>1, PairsStored
<1>9. tabs'[t].task = "store" /\ tabs'[t].refresh = n
  BY <1>7
<1>10. StorageHoldsNewest'
  <2> SUFFICES ASSUME NEW s \in held', rows[s].from # NoSession,
                      rows[s].from = storage.refresh
               PROVE  \E u \in Tab : tabs'[u].task = "store" /\ tabs'[u].refresh = s
    BY <1>1, <1>7 DEF StorageHoldsNewest
  <2>1. CASE s = n
    BY <1>9, <2>1
  <2>2. CASE s # n
    <3>1. s \in held
      BY <1>1, <2>2
    <3>2. PICK u \in Tab : tabs[u].task = "store" /\ tabs[u].refresh = s
      BY <3>1 DEF WebInv, TokensOK, StorageHoldsNewest
    <3>3. u # t
      BY <3>2 DEF Busy
    <3> QED BY <1>7, <3>2, <3>3
  <2> QED BY <2>1, <2>2
<1>11. GotHeld'
  <2>1. \A s \in Session : got'[s] # NoTab => s \in held'
    BY <1>1, <1>7 DEF WebInv, TokensOK, GotHeld
  <2>2. storage'.refresh \in held' \cup {NoSession}
    BY <1>1, <1>7 DEF WebInv, TokensOK, GotHeld
  <2>3. \A u \in Tab : tabs'[u].refresh \in held' \cup {NoSession}
    BY <1>1, <1>7, <1>9 DEF WebInv, TokensOK, GotHeld
  <2> QED BY <2>1, <2>2, <2>3 DEF GotHeld
<1>12. TabsHoldNewest'
  <2> SUFFICES ASSUME NEW u \in Tab, NEW s \in Session,
                      got'[s] = u, rows[s].from # NoSession
               PROVE  rows[s].from # tabs'[u].refresh
    BY <1>1 DEF TabsHoldNewest
  <2>1. s \in held'
    BY <1>11 DEF GotHeld
  <2>2. rows[s] # NoRow
    BY <1>1, <1>3, <2>1
  <2>3. CASE u = t
    BY <1>4, <1>9, <2>2, <2>3
  <2>4. CASE u # t
    <3>1. got[s] = u /\ tabs'[u] = tabs[u]
      BY <1>7, <2>4
    <3> QED BY <3>1 DEF WebInv, TokensOK, TabsHoldNewest
  <2> QED BY <2>3, <2>4
<1>13. \A x \in Session : Presented(x)' => Presented(x)
  BY <1>1 DEF Presented, WebInv, SessionInv, TypeOK
<1>14. \A x \in Session : Exchanged(x)' <=> Exchanged(x)
  BY <1>1 DEF Exchanged
<1>15. Unshared'
  <2> SUFFICES ASSUME NEW u \in Tab, NEW x \in Session,
                      tabs'[u].task = "store", tabs'[u].refresh = x
               PROVE  /\ got'[x] = u /\ storage.refresh # x
                      /\ \A v \in Tab \ {u} : tabs'[v].refresh # x
                      /\ ~Presented(x) /\ ~Exchanged(x)
    BY <1>7, <1>13, <1>14 DEF Unshared
  <2>0. n \in Session /\ n # NoSession /\ n \notin held
    BY <1>1
  <2>1. CASE u = t
    <3>1. x = n
      BY <1>9, <2>1
    <3>2. storage.refresh # n /\ \A v \in Tab : tabs[v].refresh # n
      BY <2>0 DEF WebInv, TokensOK, GotHeld
    <3>3. ~Presented(n) /\ ~Exchanged(n)
      BY <1>4, <1>5, <2>0 DEF Presented, Exchanged
    <3> QED BY <1>7, <2>1, <3>1, <3>2, <3>3
  <2>2. CASE u # t
    <3>1. tabs[u].task = "store" /\ tabs[u].refresh = x
      BY <1>7, <2>2
    <3>2. x # n
      BY <2>0, <3>1 DEF WebInv, TokensOK, GotHeld
    <3>3. /\ got[x] = u /\ storage.refresh # x
          /\ \A v \in Tab \ {u} : tabs[v].refresh # x
          /\ ~Presented(x) /\ ~Exchanged(x)
      BY <3>1 DEF WebInv, TokensOK, Unshared
    <3> QED BY <1>7, <1>9, <3>2, <3>3
  <2> QED BY <2>1, <2>2
<1> QED BY <1>8, <1>10, <1>11, <1>12, <1>15 DEF TokensOK

\* Request r goes on, or is one that nobody waits for.
GoesOn(r) ==
  reqs[r] # Idle =>
    /\ reqs'[r] # Idle /\ reqs'[r].op = reqs[r].op
    /\ reqs'[r].session \in {reqs[r].session, NoSession}

\* No form begins to wait, and what one waits for goes on.
LEMMA FormsKept ==
  ASSUME WebInv,
         \A t \in Tab : tabs'[t].form \subseteq tabs[t].form,
         \A t \in Tab : \A r \in tabs'[t].form : GoesOn(r)
  PROVE  FormsWait'
BY DEF WebInv, WaitsOK, FormsWait, GoesOn

\* No call begins to wait, and what one waits for goes on.  A tab is given a
\* successor of a refresh token only if none of its calls waits any more.
LEMMA CallsKept ==
  ASSUME WebInv,
         \A s \in held : rows'[s].from = rows[s].from,
         \A c \in Call : calls'[c].pc = "waiting" =>
           /\ calls'[c] = calls[c]
           /\ \A r \in calls[c].req : GoesOn(r),
         \A s \in Session : got'[s] # got[s] =>
           \A c \in Call : calls'[c].pc = "waiting" /\ calls'[c].tab = got'[s] =>
             rows'[s].from = NoSession
  PROVE  CallsWait' /\ NeverPresentsSpent'
<1>1. CallsWait'
  BY DEF WebInv, WaitsOK, CallsWait, GoesOn
<1>2. NeverPresentsSpent'
  <2> SUFFICES ASSUME NEW t \in Tab, NEW r \in RefreshInFlight(t)',
                      reqs'[r].session # NoSession,
                      NEW s \in Session, got'[s] = t
               PROVE  rows'[s].from # reqs'[r].session
    BY DEF NeverPresentsSpent
  <2>1. PICK c \in Call : calls'[c].pc = "waiting" /\ calls'[c].tab = t /\ r \in calls'[c].req
    BY DEF RefreshInFlight, CallsAt
  <2>2. calls[c].pc = "waiting" /\ calls[c].tab = t /\ r \in calls[c].req
    BY <2>1
  <2>3. r \in RefreshInFlight(t)
    BY <2>2 DEF RefreshInFlight, CallsAt
  <2>4. reqs[r] # Idle
    BY <2>2 DEF WebInv, WaitsOK, CallsWait
  <2>5. reqs'[r].session = reqs[r].session
    BY <2>1, <2>2, <2>4 DEF GoesOn
  <2>6. CASE got'[s] = got[s]
    <3>1. s \in held
      BY <2>6 DEF WebInv, TokensOK, GotHeld
    <3>2. rows[s].from # reqs[r].session
      BY <2>3, <2>5, <2>6 DEF WebInv, WaitsOK, NeverPresentsSpent
    <3> QED BY <2>5, <3>1, <3>2
  <2>7. CASE got'[s] # got[s]
    BY <2>1, <2>7
  <2> QED BY <2>6, <2>7
<1> QED BY <1>1, <1>2

\* The server's steps.
LEMMA ServerSteps ==
  ASSUME SessionInv, NEW r \in Req, Serve(r) \/ DbError(r)
  PROVE  /\ RowsKept /\ UNCHANGED <<held, jwts>>
         /\ \A p \in Req : GoesOn(p)
<1>0. reqs[r] \in Request /\ reqs[r] # Idle /\ reqs[r].pc \in Serving
  BY Serves DEF Serve, DbError, RegisterRefuse, RegisterPass, LoginRefuse, LoginPass,
                RefreshRefuse, RefreshPass, RefreshRevoke, Issue, AuthRefuse, AuthPass,
                Close, Promote, Serving
<1>1. RowsKept
  <2>1. CASE Issue(r)
    BY <2>1 DEF Issue, Fresh, RowsKept, SessionInv, TypeOK
  <2>2. CASE RefreshRevoke(r) \/ Close(r)
    BY <2>2 DEF RefreshRevoke, Close, RevokeRow, RowsKept, SessionInv, TypeOK, NoRow, Row
  <2>3. CASE UNCHANGED rows
    BY <2>3 DEF RowsKept
  <2>4. Issue(r) \/ RefreshRevoke(r) \/ Close(r) \/ UNCHANGED rows
    BY DEF Serve, DbError, RegisterRefuse, RegisterPass, LoginRefuse, LoginPass,
           RefreshRefuse, RefreshPass, AuthRefuse, AuthPass, Promote, ReqOnly
  <2> QED BY <2>1, <2>2, <2>3, <2>4
<1>2. UNCHANGED <<held, jwts>>
  BY DEF Serve, DbError, RegisterRefuse, RegisterPass, LoginRefuse, LoginPass,
         RefreshRefuse, RefreshPass, RefreshRevoke, Issue, AuthRefuse, AuthPass,
         Close, Promote, ReqOnly
<1>3. /\ Kept(r).op = reqs[r].op /\ Kept(r).session = NoSession
      /\ Kept(r) \in Request
  BY <1>0, KeptTyped DEF Kept, Blank
<1>4. ASSUME NEW status, Answer(r, status)
      PROVE  \A p \in Req : GoesOn(p)
  BY <1>0, <1>3, <1>4 DEF Answer, GoesOn, SessionInv, TypeOK, Idle, Request
<1>5. ASSUME NEW pc, Goto(r, pc), pc # "idle"
      PROVE  \A p \in Req : GoesOn(p)
  BY <1>0, <1>5 DEF Goto, GoesOn, SessionInv, TypeOK, Idle, Request
<1>6. ASSUME NEW pc, NEW e, NEW a, Proceed(r, pc, e, a), pc # "idle"
      PROVE  \A p \in Req : GoesOn(p)
  BY <1>0, <1>3, <1>6 DEF Proceed, GoesOn, SessionInv, TypeOK, Idle, Request
<1>7. \A p \in Req : GoesOn(p)
  <2>1. CASE Issue(r)
    <3>1. PICK s \in Session :
            reqs' = [reqs EXCEPT ![r] =
              [Kept(r) EXCEPT !.pc = "reply", !.status = "ok",
                              !.newSession = s, !.newJwt = JwtFor(reqs[r])]]
      BY <2>1 DEF Issue, Fresh
    <3> DEFINE q == [Kept(r) EXCEPT !.pc = "reply", !.status = "ok",
                                    !.newSession = s, !.newJwt = JwtFor(reqs[r])]
    <3>2. q.pc = "reply" /\ q.op = reqs[r].op /\ q.session = NoSession
      BY <1>3 DEF Request
    <3>3. reqs' = [reqs EXCEPT ![r] = q]
      BY <3>1
    <3> HIDE DEF q
    <3>4. q # Idle
      BY <3>2 DEF Idle
    <3> QED BY <3>2, <3>3, <3>4 DEF GoesOn, SessionInv, TypeOK
  <2>2. CASE RefreshRevoke(r) \/ AuthPass(r)
    BY <1>5, <2>2 DEF RefreshRevoke, AuthPass
  <2>3. CASE RegisterPass(r) \/ LoginPass(r) \/ RefreshPass(r)
    BY <1>6, <2>3 DEF RegisterPass, LoginPass, RefreshPass
  <2>4. CASE \/ RegisterRefuse(r) \/ LoginRefuse(r) \/ RefreshRefuse(r)
             \/ AuthRefuse(r) \/ Close(r) \/ Promote(r) \/ DbError(r)
    BY <1>4, <2>4 DEF RegisterRefuse, LoginRefuse, RefreshRefuse, AuthRefuse, Close,
                      Promote, DbError
  <2> QED BY <2>1, <2>2, <2>3, <2>4 DEF Serve
<1> QED BY <1>1, <1>2, <1>7
\* The server exchanges what requests present, and presents nothing itself.
LEMMA ServerAsks ==
  ASSUME WebInv, NEW r \in Req, Serve(r) \/ DbError(r)
  PROVE  AsksKnown
<1>0. reqs[r] \in Request /\ reqs[r] # Idle /\ ShapeOK(reqs[r], rows, held)
  BY Serves DEF Serve, DbError, RegisterRefuse, RegisterPass, LoginRefuse, LoginPass,
                RefreshRefuse, RefreshPass, RefreshRevoke, Issue, AuthRefuse, AuthPass,
                Close, Promote, Serving, WebInv, ShapeInv
<1>1. \A p \in Req : GoesOn(p) /\ (reqs[p] = Idle => reqs'[p] = Idle)
  <2>1. \A p \in Req \ {r} : reqs'[p] = reqs[p]
    BY DEF Serve, DbError, RegisterRefuse, RegisterPass, LoginRefuse, LoginPass,
           RefreshRefuse, RefreshPass, RefreshRevoke, Issue, AuthRefuse, AuthPass,
           Close, Promote, Answer, Goto, Proceed, WebInv, SessionInv, TypeOK
  <2> QED BY <1>0, <2>1, ServerSteps DEF WebInv
<1>2. \A x \in Session : Presented(x)' => Presented(x)
  BY <1>1 DEF Presented, GoesOn
<1>3. \A x \in Session : Exchanged(x)' => Exchanged(x) \/ Presented(x)
  <2>1. CASE Issue(r)
    <3>1. PICK s \in Session :
            rows' = [rows EXCEPT ![s] =
              [user |-> reqs[r].email, expires |-> clock + RefreshTTL,
               revoked |-> FALSE, from |-> reqs[r].session]]
      BY <2>1 DEF Issue, Fresh
    <3>2. reqs[r].op \in Drawing
      BY <1>0, <2>1 DEF Issue, ShapeOK
    <3>3. ASSUME NEW x \in Session, NEW z \in Session, rows'[z] # NoRow,
                 rows'[z].from = x
          PROVE  Exchanged(x) \/ Presented(x)
      <4>1. CASE z = s
        <5>1. reqs[r].session = x
          BY <3>1, <3>3, <4>1 DEF WebInv, SessionInv, TypeOK
        <5> QED BY <1>0, <3>2, <5>1 DEF Presented
      <4>2. CASE z # s
        <5>1. rows'[z] = rows[z]
          BY <3>1, <4>2 DEF WebInv, SessionInv, TypeOK
        <5> QED BY <3>3, <5>1 DEF Exchanged
      <4> QED BY <4>1, <4>2
    <3> QED BY <3>3 DEF Exchanged
  <2>2. CASE RefreshRevoke(r) \/ Close(r)
    <3>1. RevokeRow(reqs[r].session)
      BY <2>2 DEF RefreshRevoke, Close
    <3>2. \A z \in Session : rows[z] = NoRow => rows'[z] = NoRow
      BY <3>1 DEF RevokeRow, WebInv, SessionInv, TypeOK
    <3>3. \A z \in Session : rows[z] # NoRow => rows'[z].from = rows[z].from
      BY ServerSteps DEF RowsKept, WebInv
    <3> QED BY <3>2, <3>3 DEF Exchanged
  <2>3. CASE UNCHANGED rows
    BY <2>3 DEF Exchanged
  <2>4. Issue(r) \/ RefreshRevoke(r) \/ Close(r) \/ UNCHANGED rows
    BY DEF Serve, DbError, RegisterRefuse, RegisterPass, LoginRefuse, LoginPass,
           RefreshRefuse, RefreshPass, AuthRefuse, AuthPass, Promote, ReqOnly
  <2> QED BY <2>1, <2>2, <2>3, <2>4
<1> QED BY <1>2, <1>3 DEF AsksKnown, Asked

\* A step of Sessions that gives nobody a token, or none, and what a tab does
\* with it.
LEMMA QuietKeeps ==
  ASSUME WebInv, RowsKept, UNCHANGED <<held, jwts, got>>, AsksKnown, WebTyped',
         PairsTogether', storage'.refresh = storage.refresh,
         \A t \in Tab : Stays(t) \/ (~Busy(t) /\ tabs'[t].refresh = NoSession),
         \A t \in Tab : tabs'[t].form \subseteq tabs[t].form,
         \A c \in Call : calls'[c].pc = "waiting" => calls'[c] = calls[c],
         \A r \in Req : GoesOn(r) \/ r \notin Awaited
  PROVE  WebPart'
<1>1. \A s \in held : rows'[s].from = rows[s].from
  BY DEF WebInv, SessionInv, TypeOK, TablesOK, RowsKept
<1>2. \A t \in Tab : \A r \in tabs'[t].form : GoesOn(r)
  BY DEF Awaited, WebInv, WebTypeOK, TabState
<1>3. ASSUME NEW c \in Call, calls'[c].pc = "waiting"
      PROVE  calls'[c] = calls[c] /\ \A r \in calls[c].req : GoesOn(r)
  <2>1. calls'[c] = calls[c] /\ calls[c].pc = "waiting"
    BY <1>3
  <2>2. calls[c] \in CallState
    BY <2>1 DEF WebInv, WebTypeOK, NoCall
  <2>3. calls[c].tab \in Tab /\ calls[c].req \subseteq Req
    BY <2>2 DEF CallState
  <2>4. calls[c].req \subseteq Awaited
    BY <2>1, <2>3 DEF Awaited, RefreshInFlight, CallsAt
  <2> QED BY <2>1, <2>3, <2>4
<1>4. TokensOK'
  BY TokensKept
<1>5. FormsWait'
  BY <1>2, FormsKept
<1>6. CallsWait' /\ NeverPresentsSpent'
  BY <1>1, <1>3, CallsKept
<1> QED BY <1>4, <1>5, <1>6 DEF WebPart, WaitsOK

LEMMA VarsStay ==
  ASSUME UNCHANGED vars
  PROVE  /\ RowsKept /\ AsksKnown /\ UNCHANGED <<held, jwts, reqs>>
         /\ \A r \in Req : GoesOn(r)
BY DEF vars, RowsKept, GoesOn, AsksKnown, Asked, Presented, Exchanged

LEMMA Moves ==
  ASSUME WebInv, NEW cs \in SUBSET Call, NEW pc \in {"resent", "refused"}, Move(cs, pc),
         \A c \in cs : calls[c].pc # "idle"
  PROVE  /\ calls' \in [Call -> CallState \cup {NoCall}]
         /\ \A c \in Call : calls'[c].pc = "waiting" => c \notin cs /\ calls'[c] = calls[c]
<1>1. ASSUME NEW c \in Call
      PROVE  /\ calls'[c] \in CallState \cup {NoCall}
             /\ calls'[c].pc = "waiting" => c \notin cs /\ calls'[c] = calls[c]
  <2>1. calls'[c] = IF c \in cs THEN [calls[c] EXCEPT !.pc = pc, !.req = {}] ELSE calls[c]
    BY DEF Move
  <2>2. CASE c \notin cs
    BY <2>1, <2>2 DEF WebInv, WebTypeOK
  <2>3. CASE c \in cs
    <3>1. calls[c] \in CallState
      BY <2>3 DEF WebInv, WebTypeOK, NoCall
    <3>2. calls'[c] \in CallState /\ calls'[c].pc = pc
      BY <2>1, <2>3, <3>1 DEF CallState
    <3> QED BY <3>2
  <2> QED BY <2>2, <2>3
<1> QED BY <1>1 DEF Move

LEMMA Ends ==
  ASSUME WebInv, NEW cs, End(cs)
  PROVE  /\ calls' \in [Call -> CallState \cup {NoCall}]
         /\ \A c \in Call : calls'[c].pc = "waiting" => calls'[c] = calls[c]
BY DEF WebInv, WebTypeOK, End, NoCall

LEMMA CallStarts ==
  ASSUME WebInv, NEW t \in Tab, NEW c \in Call, StartCall(t, c)
  PROVE  /\ calls' \in [Call -> CallState \cup {NoCall}]
         /\ \A d \in Call : calls'[d].pc = "waiting" => calls'[d] = calls[d]
<1> DEFINE q == [pc |-> "sent", tab |-> t, header |-> tabs[t].jwt, req |-> {}]
<1>1. q \in CallState /\ q.pc = "sent"
  BY DEF CallState, WebInv, WebTypeOK, TabState
<1>2. calls' = [calls EXCEPT ![c] = q]
  BY DEF StartCall
<1> HIDE DEF q
<1> QED BY <1>1, <1>2 DEF WebInv, WebTypeOK

LEMMA Clears ==
  ASSUME WebInv, NEW t \in Tab, ~Busy(t), ClearLocalSession(t),
         RowsKept, UNCHANGED <<held, jwts>>
  PROVE  /\ storage' \in Signals /\ storage'.refresh = storage.refresh
         /\ tabs' \in [Tab -> TabState] /\ torn' \in BOOLEAN /\ PairsTogether'
         /\ \A u \in Tab : /\ Stays(u) \/ (~Busy(u) /\ tabs'[u].refresh = NoSession)
                           /\ tabs'[u].form = tabs[u].form
<1>1. BeginStore(t, NoJwt, NoSession, tabs[t].form)
  BY DEF ClearLocalSession
<1>2. NoJwt \in Jwt
  BY BlankTyped
<1>3. /\ storage' = [storage EXCEPT !.jwt = NoJwt]
      /\ tabs' = [tabs EXCEPT ![t] = [jwt |-> NoJwt, refresh |-> NoSession,
                                     form |-> tabs[t].form, task |-> "store"]]
      /\ torn' \in BOOLEAN
  BY <1>1, TypedNow DEF BeginStore, Overlaps, WebTyped
<1>4. PairsTogether'
  <2>1. PairOK([jwt |-> NoJwt, refresh |-> NoSession], rows', held', jwts')
    BY DEF PairOK, NoSignals
  <2> QED BY <1>1, <2>1, PairsStored
<1>5. storage' \in Signals /\ storage'.refresh = storage.refresh
  BY <1>2, <1>3, TypedNow DEF WebTyped, Signals
<1>6. [jwt |-> NoJwt, refresh |-> NoSession, form |-> tabs[t].form, task |-> "store"]
        \in TabState
  BY <1>2, TypedNow DEF TabState
<1>7. /\ tabs' \in [Tab -> TabState]
      /\ tabs'[t] = [jwt |-> NoJwt, refresh |-> NoSession, form |-> tabs[t].form,
                     task |-> "store"]
      /\ \A u \in Tab \ {t} : tabs'[u] = tabs[u]
  BY <1>3, <1>6, TypedNow DEF WebTyped
<1> QED BY <1>3, <1>4, <1>5, <1>7 DEF Stays
(***************************************************************************)
(* Every step of the WebUI keeps its part of the invariant.                *)
(***************************************************************************)

LEMMA ServerKeeps ==
  ASSUME WebInv, NEW r \in Req, Serve(r) \/ DbError(r), UNCHANGED tabVars
  PROVE  WebPart'
<1>1. RowsKept /\ UNCHANGED <<held, jwts>> /\ \A p \in Req : GoesOn(p)
  BY ServerSteps DEF WebInv
<1>2. WebTyped' /\ got' = got /\ storage' = storage /\ tabs' = tabs /\ calls' = calls
  BY TypedNow DEF WebTyped, tabVars
<1>3. \A t \in Tab : Stays(t)
  BY <1>2 DEF Stays
<1>4. PairsTogether'
  BY <1>1, <1>2, <1>3, PairsStay DEF tabVars
<1> QED BY <1>1, <1>2, <1>3, <1>4, ServerAsks, QuietKeeps

LEMMA OthersKeep ==
  ASSUME WebInv,
         \/ \E r \in Req : Discard(r)
         \/ (Start \/ Tick) /\ UNCHANGED tabVars
         \/ UNCHANGED webVars
  PROVE  WebPart'
<1>1. UNCHANGED tabVars /\ UNCHANGED <<rows, held, jwts>>
  BY DEF Discard, Abandon, ReqOnly, Start, Tick, webVars, vars
<1>2. WebTyped' /\ got' = got /\ storage' = storage /\ tabs' = tabs /\ calls' = calls
  BY <1>1, TypedNow DEF WebTyped, tabVars
<1>3. \A t \in Tab : Stays(t)
  BY <1>2 DEF Stays
<1>4. RowsKept
  BY <1>1 DEF RowsKept
<1>5. \A r \in Req : GoesOn(r) \/ r \notin Awaited
  BY DEF Discard, Abandon, Start, Tick, webVars, vars, GoesOn, WebInv, SessionInv, TypeOK
<1>6. AsksKnown
  <2>1. \A p \in Req : reqs'[p] # Idle => reqs'[p] = reqs[p]
    BY DEF Discard, Abandon, Start, Tick, webVars, vars, WebInv, SessionInv, TypeOK
  <2> QED BY <1>1, <2>1 DEF AsksKnown, Asked, Presented, Exchanged
<1>7. PairsTogether'
  BY <1>1, <1>2, <1>3, <1>4, PairsStay DEF tabVars
<1> QED BY <1>1, <1>2, <1>3, <1>4, <1>5, <1>6, <1>7, QuietKeeps

\* The second half of a task.
LEMMA FinishKeeps ==
  ASSUME WebInv, NEW t \in Tab, FinishTask(t)
  PROVE  WebPart'
<1>1. /\ UNCHANGED <<vars, calls, got>> /\ WebTyped'
      /\ \A u \in Tab : tabs'[u].form = tabs[u].form
  BY Finishes
<1>2. UNCHANGED <<rows, held, jwts, reqs>> /\ \A r \in Req : GoesOn(r)
  BY <1>1, VarsStay DEF vars
<1>3. TokensOK'
  BY TokensFinish
<1>4. FormsWait'
  BY <1>1, <1>2, FormsKept, TypedNow
<1>5. CallsWait' /\ NeverPresentsSpent'
  <2>1. \A c \in Call : calls[c].pc = "waiting" => calls[c].req \subseteq Req
    BY TypedNow DEF WebTyped, CallState, NoCall
  <2> QED BY <1>1, <1>2, <2>1, CallsKept
<1> QED BY <1>1, <1>3, <1>4, <1>5 DEF WebPart, WaitsOK

\* The steps of a tab that give it no token and send no request.
LEMMA TabKeeps ==
  ASSUME WebInv, NEW t \in Tab, ~Busy(t),
         FormFails(t) \/ Act(t) \/ OpenExpired(t) \/ RefreshFails(t) \/ Relogin(t)
           \/ Reload(t)
  PROVE  WebPart'
<1>1. UNCHANGED <<vars, got, logins>>
  BY DEF FormFails, Act, OpenExpired, RefreshFails, Relogin, Reload
<1>2. RowsKept /\ AsksKnown /\ UNCHANGED <<held, jwts>> /\ \A r \in Req : GoesOn(r)
  BY <1>1, VarsStay
<1>3. /\ calls' \in [Call -> CallState \cup {NoCall}]
      /\ \A c \in Call : calls'[c].pc = "waiting" => calls'[c] = calls[c]
  <2>1. CASE Act(t) \/ OpenExpired(t)
    <3>1. UNCHANGED calls \/ \E c \in Call : StartCall(t, c)
      BY <2>1 DEF Act, OpenExpired
    <3> QED BY <3>1, CallStarts, TypedNow DEF WebTyped
  <2>2. CASE RefreshFails(t)
    <3>1. PICK r : Move(WaitingFor(r), "refused")
      BY <2>2 DEF RefreshFails
    <3>2. WaitingFor(r) \in SUBSET Call /\ \A c \in WaitingFor(r) : calls[c].pc # "idle"
      BY DEF WaitingFor
    <3> HIDE DEF WaitingFor
    <3> QED BY <3>1, <3>2, Moves
  <2>3. CASE Relogin(t) \/ Reload(t)
    BY <2>3, Ends DEF Relogin, Reload
  <2>4. CASE FormFails(t)
    BY <2>4, TypedNow DEF FormFails, WebTyped
  <2> QED BY <2>1, <2>2, <2>3, <2>4
<1>4. /\ storage' \in Signals /\ storage'.refresh = storage.refresh
      /\ tabs' \in [Tab -> TabState] /\ torn' \in BOOLEAN /\ PairsTogether'
      /\ \A u \in Tab : /\ Stays(u) \/ (~Busy(u) /\ tabs'[u].refresh = NoSession)
                        /\ tabs'[u].form \subseteq tabs[u].form
  <2>1. CASE OpenExpired(t) \/ Relogin(t)
    BY <1>2, <2>1, Clears DEF OpenExpired, Relogin
  <2>2. CASE Act(t) \/ RefreshFails(t)
    <3>1. UNCHANGED <<storage, tabs, torn>>
      BY <2>2 DEF Act, RefreshFails
    <3>2. \A u \in Tab : Stays(u)
      BY <3>1 DEF Stays
    <3> QED BY <1>2, <3>1, <3>2, TypedNow, PairsStay DEF WebTyped
  <2>3. CASE FormFails(t)
    <3>1. UNCHANGED <<storage, torn>> /\ tabs' = [tabs EXCEPT ![t].form = {}]
      BY <2>3 DEF FormFails
    <3>2. tabs' \in [Tab -> TabState] /\ \A u \in Tab : Stays(u)
      BY <3>1, TypedNow DEF WebTyped, TabState, Stays
    <3>3. \A u \in Tab : tabs'[u].form \subseteq tabs[u].form
      BY <3>1, TypedNow DEF WebTyped, TabState
    <3> QED BY <1>2, <3>1, <3>2, <3>3, TypedNow, PairsStay DEF WebTyped
  <2>4. CASE Reload(t)
    <3>1. BeginLoad(t)
      BY <2>4 DEF Reload
    <3>2. [jwt |-> storage.jwt, refresh |-> NoSession, form |-> {}, task |-> "load"]
            \in TabState
      BY TypedNow DEF WebTyped, Signals, TabState
    <3>3. /\ storage' = storage /\ torn' \in BOOLEAN /\ tabs' \in [Tab -> TabState]
          /\ tabs'[t] = [jwt |-> storage.jwt, refresh |-> NoSession, form |-> {},
                         task |-> "load"]
          /\ \A u \in Tab \ {t} : tabs'[u] = tabs[u]
      BY <3>1, <3>2, TypedNow DEF BeginLoad, Overlaps, WebTyped
    <3>4. PairsTogether'
      BY <1>1, <3>1, PairsLoad
    <3> QED BY <3>3, <3>4, TypedNow DEF WebTyped, Stays
  <2> QED BY <2>1, <2>2, <2>3, <2>4
<1>5. WebTyped'
  BY <1>1, <1>3, <1>4, TypedNow DEF WebTyped
<1> QED BY <1>1, <1>2, <1>3, <1>4, <1>5, QuietKeeps

\* The steps of a call but those that begin to wait.
LEMMA CallKeeps ==
  ASSUME WebInv, NEW c \in Call,
         CallPasses(c) \/ CallFails(c) \/ CallRefused(c) \/ RetryRefused(c) \/ Dismiss(c)
  PROVE  WebPart'
<1>1. UNCHANGED <<vars, storage, tabs, got, torn, logins>>
  BY DEF CallPasses, CallFails, CallRefused, RetryRefused, Dismiss
<1>2. RowsKept /\ AsksKnown /\ UNCHANGED <<held, jwts>> /\ \A r \in Req : GoesOn(r)
  BY <1>1, VarsStay
<1>3. /\ calls' \in [Call -> CallState \cup {NoCall}]
      /\ \A d \in Call : calls'[d].pc = "waiting" => calls'[d] = calls[d]
  BY Moves, Ends DEF CallPasses, CallFails, CallRefused, RetryRefused, Dismiss
<1>4. WebTyped'
  BY <1>1, <1>3, TypedNow DEF WebTyped
<1>5. \A t \in Tab : Stays(t)
  BY <1>1 DEF Stays
<1>6. PairsTogether'
  BY <1>1, <1>2, <1>5, PairsStay
<1> QED BY <1>1, <1>2, <1>3, <1>4, <1>5, <1>6, QuietKeeps

\* A request is sent in a slot nobody waits for.  A refresh presents a token
\* of an idle tab.
LEMMA SendsFresh ==
  ASSUME WebInv, NEW r \in Req, NEW q, Send(r, q),
         q.op \in Drawing /\ q.session # NoSession =>
           \E u \in Tab : ~Busy(u) /\ tabs[u].refresh = q.session
  PROVE  /\ RowsKept /\ AsksKnown /\ UNCHANGED <<rows, held, jwts>>
         /\ reqs[r] = Idle /\ reqs' = [reqs EXCEPT ![r] = q]
         /\ \A p \in Req : GoesOn(p)
         /\ \A t \in Tab : r \notin tabs[t].form
         /\ \A c \in Call : calls[c].pc = "waiting" => r \notin calls[c].req
<1>1. /\ UNCHANGED <<rows, held, jwts>> /\ reqs[r] = Idle
      /\ reqs' = [reqs EXCEPT ![r] = q]
  BY DEF Send, ReqOnly
<1>2. RowsKept
  BY <1>1 DEF RowsKept
<1>3. \A p \in Req : GoesOn(p)
  BY <1>1 DEF GoesOn, WebInv, SessionInv, TypeOK
<1>4. \A t \in Tab : r \notin tabs[t].form
  BY <1>1 DEF WebInv, WaitsOK, FormsWait
<1>5. \A c \in Call : calls[c].pc = "waiting" => r \notin calls[c].req
  BY <1>1 DEF WebInv, WaitsOK, CallsWait
<1>6. AsksKnown
  <2>1. \A p \in Req \ {r} : reqs'[p] = reqs[p]
    BY <1>1 DEF WebInv, SessionInv, TypeOK
  <2>2. reqs'[r] = q
    BY <1>1 DEF WebInv, SessionInv, TypeOK
  <2>3. \A x \in Session : Presented(x)' => Asked(x)
    BY <2>1, <2>2 DEF Presented, Asked
  <2> QED BY <1>1, <2>3 DEF AsksKnown, Exchanged
<1> QED BY <1>1, <1>2, <1>3, <1>4, <1>5, <1>6

LEMMA LogoutKeeps ==
  ASSUME WebInv, NEW t \in Tab, ~Busy(t), Logout(t)
  PROVE  WebPart'
<1>1. RowsKept /\ AsksKnown /\ UNCHANGED <<held, jwts>> /\ \A r \in Req : GoesOn(r)
  <2>1. CASE UNCHANGED vars
    BY <2>1, VarsStay
  <2>2. CASE \E r \in Req : PresentLogout(r, tabs[t].refresh, NoJwt)
    <3>1. PICK r \in Req :
            Send(r, [Blank EXCEPT !.session = tabs[t].refresh, !.jwt = NoJwt])
      BY <2>2 DEF PresentLogout
    <3> DEFINE q == [Blank EXCEPT !.session = tabs[t].refresh, !.jwt = NoJwt]
    <3>2. q.op \notin Drawing /\ Send(r, q)
      BY <3>1 DEF Blank, Drawing
    <3> HIDE DEF q
    <3> QED BY <3>2, SendsFresh
  <2> QED BY <2>1, <2>2 DEF Logout
<1>2. UNCHANGED <<calls, got, logins>> /\ ClearLocalSession(t)
  BY DEF Logout
<1>3. WebTyped'
  BY <1>1, <1>2, Clears, TypedNow DEF WebTyped
<1>4. /\ storage'.refresh = storage.refresh /\ PairsTogether'
      /\ \A u \in Tab : /\ Stays(u) \/ (~Busy(u) /\ tabs'[u].refresh = NoSession)
                        /\ tabs'[u].form = tabs[u].form
  BY <1>1, <1>2, Clears
<1> QED BY <1>1, <1>2, <1>3, <1>4, QuietKeeps

LEMMA SubmitKeeps ==
  ASSUME WebInv, NEW t \in Tab, Submit(t)
  PROVE  WebPart'
<1>1. PICK r \in Req : /\ SendRegister(r) \/ SendLogin(r)
                       /\ tabs' = [tabs EXCEPT ![t].form = {r}]
  BY DEF Submit
<1>2. PICK q \in Request : /\ Send(r, q) /\ q.op \in {"register", "login"}
                           /\ q.session = NoSession
  <2>1. CASE SendRegister(r)
    <3>1. PICK e \in Email, p \in Password :
            Send(r, [Blank EXCEPT !.pc = "insert", !.op = "register", !.email = e,
                                  !.password = p])
      BY <2>1 DEF SendRegister
    <3> DEFINE q == [Blank EXCEPT !.pc = "insert", !.op = "register", !.email = e,
                                  !.password = p]
    <3>2. q \in Request /\ q.op = "register" /\ q.session = NoSession /\ Send(r, q)
      BY <3>1, BlankTyped DEF Request, Serving, Blank
    <3> HIDE DEF q
    <3> QED BY <3>2
  <2>2. CASE SendLogin(r)
    <3>1. PICK e \in Email, p \in Password :
            Send(r, [Blank EXCEPT !.pc = "lookup", !.op = "login", !.email = e,
                                  !.password = p, !.wasAdmin = users[e].admin])
      BY <2>2 DEF SendLogin
    <3> DEFINE q == [Blank EXCEPT !.pc = "lookup", !.op = "login", !.email = e,
                                  !.password = p, !.wasAdmin = users[e].admin]
    <3>2. users[e].admin \in BOOLEAN
      BY RoleTyped DEF WebInv
    <3>3. q \in Request /\ q.op = "login" /\ q.session = NoSession /\ Send(r, q)
      BY <3>1, <3>2, BlankTyped DEF Request, Serving, Blank
    <3> HIDE DEF q
    <3> QED BY <3>3
  <2> QED BY <1>1, <2>1, <2>2
<1>3. /\ RowsKept /\ AsksKnown /\ UNCHANGED <<rows, held, jwts, storage, torn, calls, got>>
      /\ reqs' = [reqs EXCEPT ![r] = q] /\ \A p \in Req : GoesOn(p)
      /\ \A u \in Tab : r \notin tabs[u].form
  BY <1>2, SendsFresh DEF Submit
<1>4. /\ tabs' \in [Tab -> TabState]
      /\ \A u \in Tab : Stays(u)
      /\ \A u \in Tab : tabs'[u].form = IF u = t THEN {r} ELSE tabs[u].form
  BY <1>1, TypedNow DEF WebTyped, TabState, Stays
<1>5. WebTyped'
  BY <1>3, <1>4, TypedNow DEF WebTyped, Submit
<1>6. TokensOK'
  BY <1>3, <1>4, PairsStay, TokensKept
<1>7. reqs'[r] = q /\ q # Idle
  BY <1>2, <1>3 DEF WebInv, SessionInv, TypeOK, Request, Idle, Serving
<1>8. FormsWait'
  <2> SUFFICES ASSUME NEW u \in Tab, NEW p \in tabs'[u].form
               PROVE  /\ reqs'[p] # Idle /\ reqs'[p].op \in {"register", "login"}
                      /\ \A v \in Tab : p \in tabs'[v].form => v = u
    BY DEF FormsWait
  <2>1. CASE u = t
    BY <1>2, <1>3, <1>4, <1>7, <2>1
  <2>2. CASE u # t
    <3>1. p \in tabs[u].form /\ p \in Req /\ p # r
      BY <1>3, <1>4, <2>2, TypedNow
    <3>2. /\ reqs[p] # Idle /\ reqs[p].op \in {"register", "login"}
          /\ \A v \in Tab : p \in tabs[v].form => v = u
      BY <3>1 DEF WebInv, WaitsOK, FormsWait
    <3> QED BY <1>3, <1>4, <3>1, <3>2 DEF GoesOn
  <2> QED BY <2>1, <2>2
<1>9. \A c \in Call : calls'[c].pc = "waiting" =>
        calls'[c] = calls[c] /\ \A p \in calls[c].req : GoesOn(p)
  BY <1>3, TypedNow DEF WebTyped, CallState, NoCall
<1>10. CallsWait' /\ NeverPresentsSpent'
  BY <1>3, <1>9, CallsKept
<1> QED BY <1>5, <1>6, <1>8, <1>10 DEF WebPart, WaitsOK

\* A call begins to wait for request r, which presents the tab's refresh
\* token or one the tab's other calls wait for.
LEMMA CallWaits ==
  ASSUME WebInv, NEW c \in Call, NEW r \in Req,
         calls[c].pc = "sent",
         calls' = [calls EXCEPT ![c].pc = "waiting", ![c].req = {r}],
         UNCHANGED <<rows, held, jwts, storage, tabs, got, torn, logins>>,
         AsksKnown, \A p \in Req : GoesOn(p),
         reqs'[r] # Idle, reqs'[r].op = "refresh",
         \A d \in Call : calls[d].pc = "waiting" =>
           (calls[d].tab = calls[c].tab <=> calls[d].req = {r}),
         \/ \E d \in Call : calls[d].pc = "waiting" /\ calls[d].req = {r}
         \/ reqs'[r].session \in {tabs[calls[c].tab].refresh, NoSession}
  PROVE  WebPart'
<1>1. calls[c] \in CallState
  BY DEF WebInv, WebTypeOK, NoCall
<1>2. /\ calls'[c] = [calls[c] EXCEPT !.pc = "waiting", !.req = {r}]
      /\ calls'[c] \in CallState /\ calls'[c].pc = "waiting"
      /\ calls'[c].tab = calls[c].tab /\ calls'[c].req = {r}
  BY <1>1 DEF WebInv, WebTypeOK, CallState
<1>3. \A d \in Call \ {c} : calls'[d] = calls[d]
  BY DEF WebInv, WebTypeOK
<1>4. calls' \in [Call -> CallState \cup {NoCall}]
  BY <1>1, <1>2, <1>3, TypedNow DEF WebTyped
<1>5. WebTyped' /\ RowsKept /\ \A t \in Tab : Stays(t)
  BY <1>4, TypedNow DEF WebTyped, RowsKept, Stays
<1>6. TokensOK'
  BY <1>5, PairsStay, TokensKept
<1>7. FormsWait'
  BY FormsKept, TypedNow
<1>8. CallsWait'
  <2>1. \A d \in Call : calls'[d].pc = "waiting" =>
          \/ d = c
          \/ d # c /\ calls'[d] = calls[d] /\ calls[d].pc = "waiting"
    BY <1>3
  <2>2. ASSUME NEW b \in Call, calls'[b].pc = "waiting"
        PROVE  \E p \in Req : calls'[b].req = {p} /\ reqs'[p] # Idle /\ reqs'[p].op = "refresh"
    <3>1. CASE b = c
      BY <1>2, <3>1
    <3>2. CASE b # c
      <4>1. calls'[b] = calls[b] /\ calls[b].pc = "waiting"
        BY <2>1, <2>2, <3>2
      <4>2. PICK p \in Req : calls[b].req = {p} /\ reqs[p] # Idle /\ reqs[p].op = "refresh"
        BY <4>1 DEF WebInv, WaitsOK, CallsWait
      <4>3. reqs'[p] # Idle /\ reqs'[p].op = "refresh"
        BY <4>2 DEF GoesOn
      <4> QED BY <4>1, <4>2, <4>3
    <3> QED BY <3>1, <3>2
  <2>3. ASSUME NEW b \in Call, NEW d \in Call,
               calls'[b].pc = "waiting", calls'[d].pc = "waiting"
        PROVE  calls'[d].tab = calls'[b].tab <=> calls'[d].req = calls'[b].req
    <3>1. CASE b = c /\ d = c
      BY <3>1
    <3>2. CASE b = c /\ d # c
      <4>1. calls'[d] = calls[d] /\ calls[d].pc = "waiting"
        BY <2>1, <2>3, <3>2
      <4>2. (calls[d].tab = calls[c].tab) <=> (calls[d].req = {r})
        BY <4>1
      <4> QED BY <1>2, <3>2, <4>1, <4>2
    <3>3. CASE b # c /\ d = c
      <4>1. calls'[b] = calls[b] /\ calls[b].pc = "waiting"
        BY <2>1, <2>3, <3>3
      <4>2. (calls[b].tab = calls[c].tab) <=> (calls[b].req = {r})
        BY <4>1
      <4> QED BY <1>2, <3>3, <4>1, <4>2
    <3>4. CASE b # c /\ d # c
      <4>1. calls'[b] = calls[b] /\ calls[b].pc = "waiting"
        BY <2>1, <2>3, <3>4
      <4>2. calls'[d] = calls[d] /\ calls[d].pc = "waiting"
        BY <2>1, <2>3, <3>4
      <4>3. (calls[d].tab = calls[b].tab) <=> (calls[d].req = calls[b].req)
        BY <4>1, <4>2 DEF WebInv, WaitsOK, CallsWait
      <4> QED BY <4>1, <4>2, <4>3
    <3> QED BY <3>1, <3>2, <3>3, <3>4
  <2> QED BY <2>2, <2>3 DEF CallsWait
<1>9. NeverPresentsSpent'
  <2> SUFFICES ASSUME NEW t \in Tab, NEW p \in RefreshInFlight(t)',
                      reqs'[p].session # NoSession, NEW s \in Session, got[s] = t
               PROVE  rows[s].from # reqs'[p].session
    BY DEF NeverPresentsSpent
  <2>1. PICK b \in Call : calls'[b].pc = "waiting" /\ calls'[b].tab = t /\ p \in calls'[b].req
    BY DEF RefreshInFlight, CallsAt
  <2>2. ASSUME NEW d \in Call, calls[d].pc = "waiting", calls[d].tab = t, calls[d].req = {p}
        PROVE  rows[s].from # reqs'[p].session
    <3>1. p \in RefreshInFlight(t) /\ reqs[p] # Idle /\ p \in Req
      BY <2>2 DEF RefreshInFlight, CallsAt, WebInv, WaitsOK, CallsWait
    <3>2. reqs[p].session # NoSession /\ reqs'[p].session = reqs[p].session
      BY <3>1 DEF GoesOn
    <3> QED BY <3>1, <3>2 DEF WebInv, WaitsOK, NeverPresentsSpent
  <2>3. CASE b # c
    <3>1. calls[b].pc = "waiting" /\ calls[b].tab = t /\ calls[b].req = {p}
      BY <1>3, <2>1, <2>3 DEF WebInv, WaitsOK, CallsWait
    <3> QED BY <2>2, <3>1
  <2>4. CASE b = c
    <3>1. p = r /\ t = calls[c].tab
      BY <1>2, <2>1, <2>4
    <3>2. CASE \E d \in Call : calls[d].pc = "waiting" /\ calls[d].req = {r}
      BY <2>2, <3>1, <3>2
    <3>3. CASE reqs'[r].session \in {tabs[calls[c].tab].refresh, NoSession}
      BY <3>1, <3>3 DEF WebInv, TokensOK, TabsHoldNewest
    <3> QED BY <3>2, <3>3
  <2> QED BY <2>3, <2>4
<1> QED BY <1>5, <1>6, <1>7, <1>8, <1>9 DEF WebPart, WaitsOK

LEMMA JoinKeeps ==
  ASSUME WebInv, NEW c \in Call, JoinRefresh(c)
  PROVE  WebPart'
<1> DEFINE t == calls[c].tab
<1>1. PICK d \in Call : calls[d].pc = "waiting" /\ calls[d].tab = t
  BY DEF JoinRefresh, RefreshInFlight, CallsAt
<1>2. PICK r \in Req : calls[d].req = {r} /\ reqs[r] # Idle /\ reqs[r].op = "refresh"
  BY <1>1 DEF WebInv, WaitsOK, CallsWait
<1>3. \A b \in Call : calls[b].pc = "waiting" => (calls[b].tab = t <=> calls[b].req = {r})
  BY <1>1, <1>2 DEF WebInv, WaitsOK, CallsWait
<1>4. RefreshInFlight(t) = {r}
  BY <1>1, <1>2, <1>3 DEF RefreshInFlight, CallsAt
<1>5. /\ calls[c].pc = "sent"
      /\ calls' = [calls EXCEPT ![c].pc = "waiting", ![c].req = {r}]
      /\ UNCHANGED <<vars, storage, tabs, got, torn, logins>>
  BY <1>4 DEF JoinRefresh
<1>6. UNCHANGED <<rows, held, jwts, reqs>> /\ AsksKnown /\ \A p \in Req : GoesOn(p)
  BY <1>5, VarsStay DEF vars
<1> QED BY <1>1, <1>2, <1>3, <1>5, <1>6, CallWaits

LEMMA StartRefreshKeeps ==
  ASSUME WebInv, NEW c \in Call, ~Busy(calls[c].tab), StartRefresh(c)
  PROVE  WebPart'
<1> DEFINE t == calls[c].tab
<1>1. PICK r \in Req : /\ PresentRefresh(r, tabs[t].refresh)
                       /\ calls' = [calls EXCEPT ![c].pc = "waiting", ![c].req = {r}]
  BY DEF StartRefresh
<1>2. calls[c].pc = "sent" /\ UNCHANGED <<storage, tabs, got, torn, logins>>
  BY DEF StartRefresh
<1> DEFINE s == tabs[t].refresh
           q == [Blank EXCEPT !.pc = "find", !.op = "refresh", !.session = s,
                              !.stale = rows[s].revoked,
                              !.wasAdmin = users[rows[s].user].admin]
<1>3. Send(r, q)
  BY <1>1 DEF PresentRefresh
<1>4. q.pc = "find" /\ q.op = "refresh" /\ q.session = s
  BY BlankTyped DEF Request
<1> HIDE DEF q
<1>5. /\ UNCHANGED <<rows, held, jwts>> /\ reqs' = [reqs EXCEPT ![r] = q]
      /\ AsksKnown /\ \A p \in Req : GoesOn(p)
      /\ \A d \in Call : calls[d].pc = "waiting" => r \notin calls[d].req
  <2>1. calls[c] \in CallState
    BY <1>2 DEF WebInv, WebTypeOK, NoCall
  <2>2. t \in Tab /\ ~Busy(t)
    BY <2>1 DEF CallState
  <2> QED BY <1>3, <1>4, <2>2, SendsFresh
<1>6. reqs'[r] = q /\ q # Idle
  BY <1>4, <1>5 DEF WebInv, SessionInv, TypeOK, Idle
<1>7. \A d \in Call : calls[d].pc = "waiting" =>
        (calls[d].tab = t <=> calls[d].req = {r})
  <2> SUFFICES ASSUME NEW d \in Call, calls[d].pc = "waiting"
               PROVE  calls[d].tab # t /\ calls[d].req # {r}
    OBVIOUS
  <2>1. calls[d].req # {r}
    BY <1>5
  <2>2. calls[d].tab # t
    <3> SUFFICES ASSUME calls[d].tab = t
                 PROVE  FALSE
      OBVIOUS
    <3>1. calls[d].req \subseteq RefreshInFlight(t) /\ calls[d].req # {}
      BY DEF RefreshInFlight, CallsAt, WebInv, WaitsOK, CallsWait
    <3> QED BY <3>1 DEF StartRefresh
  <2> QED BY <2>1, <2>2
<1> QED BY <1>1, <1>2, <1>4, <1>5, <1>6, <1>7, CallWaits
LEMMA FreedAsks ==
  ASSUME WebInv, NEW r \in Req, reqs' = [reqs EXCEPT ![r] = Idle], rows' = rows
  PROVE  AsksKnown
<1>1. \A p \in Req : reqs'[p] # Idle => reqs'[p] = reqs[p]
  BY DEF WebInv, SessionInv, TypeOK
<1> QED BY <1>1 DEF AsksKnown, Asked, Presented, Exchanged

\* The tab waits no more for request r, whose slot is freed.
LEMMA FormAnsweredKeeps ==
  ASSUME WebInv, NEW t \in Tab, ~Busy(t), FormAnswered(t)
  PROVE  WebPart'
<1>1. PICK r \in tabs[t].form :
        /\ Deliver(r)
        /\ IF reqs[r].status = "ok"
           THEN SaveSession(t, reqs[r], {})
           ELSE tabs' = [tabs EXCEPT ![t].form = {}] /\ UNCHANGED <<storage, got, torn>>
  BY DEF FormAnswered
<1>2. r \in Req /\ reqs[r].op \in {"register", "login"}
      /\ \A u \in Tab : r \in tabs[u].form => u = t
  BY TypedNow DEF WebInv, WaitsOK, FormsWait
<1> DEFINE q == reqs[r]
<1>3. /\ q \in Request /\ reqs' = [reqs EXCEPT ![r] = Idle] /\ rows' = rows
      /\ IF q.status = "ok"
         THEN /\ q.newSession \in Session \ held /\ q.newJwt \in Jwt
              /\ rows[q.newSession].from = NoSession
         ELSE UNCHANGED <<held, jwts>>
  BY <1>1, <1>2, Delivered DEF WebInv, Drawing
<1>4. calls' = calls /\ logins' = logins
  BY DEF FormAnswered
<1>5. \A p \in Req \ {r} : GoesOn(p)
  BY <1>3 DEF GoesOn, WebInv, SessionInv, TypeOK
<1>6. \A c \in Call : calls'[c].pc = "waiting" =>
        calls'[c] = calls[c] /\ \A p \in calls[c].req : GoesOn(p)
  BY <1>2, <1>4, <1>5 DEF WebInv, WaitsOK, CallsWait
<1>7. CASE q.status = "ok"
  <2>1. SaveSession(t, q, {})
    BY <1>1, <1>7
  <2>2. TokensOK'
    BY <1>1, <1>2, <1>7, <2>1, TokensSaved DEF Drawing
  <2>3. /\ storage' = [storage EXCEPT !.jwt = q.newJwt] /\ torn' \in BOOLEAN
        /\ tabs' = [tabs EXCEPT ![t] =
              [jwt |-> q.newJwt, refresh |-> q.newSession, form |-> {},
               task |-> "store"]]
        /\ got' = [got EXCEPT ![q.newSession] = t]
    BY <2>1, TypedNow DEF SaveSession, BeginStore, Overlaps, WebTyped
  <2> HIDE DEF q
  <2>4. WebTyped'
    BY <1>3, <1>4, <1>7, <2>3, TypedNow DEF WebTyped, Signals, TabState
  <2>5. \A u \in Tab : tabs'[u].form = IF u = t THEN {} ELSE tabs[u].form
    BY <2>3, TypedNow DEF WebTyped
  <2>6. FormsWait'
    BY <1>2, <1>5, <2>5, FormsKept, TypedNow
  <2>7. \A s \in Session : got'[s] # got[s] => rows'[s].from = NoSession
    BY <1>3, <1>7, <2>3, TypedNow DEF WebTyped
  <2>8. CallsWait' /\ NeverPresentsSpent'
    BY <1>3, <1>6, <2>7, CallsKept
  <2> QED BY <2>2, <2>4, <2>6, <2>8 DEF WebPart, WaitsOK
<1>8. CASE q.status # "ok"
  <2>1. /\ tabs' = [tabs EXCEPT ![t].form = {}]
        /\ UNCHANGED <<storage, got, torn, held, jwts>>
    BY <1>1, <1>3, <1>8
  <2>2. /\ tabs' \in [Tab -> TabState]
        /\ \A u \in Tab : Stays(u)
        /\ \A u \in Tab : tabs'[u].form = IF u = t THEN {} ELSE tabs[u].form
    BY <2>1, TypedNow DEF WebTyped, TabState, Stays
  <2>3. WebTyped'
    BY <1>4, <2>1, <2>2, TypedNow DEF WebTyped
  <2>4. RowsKept /\ AsksKnown
    BY <1>2, <1>3, FreedAsks DEF RowsKept
  <2>5. TokensOK'
    BY <2>1, <2>2, <2>4, PairsStay, TokensKept
  <2>6. FormsWait'
    BY <1>2, <1>5, <2>2, FormsKept, TypedNow
  <2>7. CallsWait' /\ NeverPresentsSpent'
    BY <1>3, <1>6, <2>1, CallsKept
  <2> QED BY <2>3, <2>5, <2>6, <2>7 DEF WebPart, WaitsOK
<1> QED BY <1>7, <1>8

LEMMA RefreshAnsweredKeeps ==
  ASSUME WebInv, NEW t \in Tab, ~Busy(t), RefreshAnswered(t)
  PROVE  WebPart'
<1>1. PICK r \in RefreshInFlight(t) :
        /\ Deliver(r)
        /\ IF reqs[r].status = "ok"
           THEN SaveSession(t, reqs[r], tabs[t].form) /\ Move(WaitingFor(r), "resent")
           ELSE Move(WaitingFor(r), "refused") /\ UNCHANGED <<storage, tabs, got, torn>>
  BY DEF RefreshAnswered
<1>2. PICK d \in Call : calls[d].pc = "waiting" /\ calls[d].tab = t /\ r \in calls[d].req
  BY <1>1 DEF RefreshInFlight, CallsAt
<1>3. /\ calls[d].req = {r} /\ r \in Req /\ reqs[r].op = "refresh"
      /\ \A c \in Call : calls[c].pc = "waiting" =>
           (calls[c].tab = t <=> calls[c].req = {r})
  <2>1. PICK p \in Req : calls[d].req = {p} /\ reqs[p].op = "refresh"
    BY <1>2 DEF WebInv, WaitsOK, CallsWait
  <2>2. p = r
    BY <1>2, <2>1
  <2>3. ASSUME NEW c \in Call, calls[c].pc = "waiting"
        PROVE  (calls[c].tab = calls[d].tab) <=> (calls[c].req = calls[d].req)
    BY <1>2, <2>3 DEF WebInv, WaitsOK, CallsWait
  <2> QED BY <1>2, <2>1, <2>2, <2>3
<1> DEFINE q == reqs[r]
<1>4. /\ q \in Request /\ reqs' = [reqs EXCEPT ![r] = Idle] /\ rows' = rows
      /\ IF q.status = "ok"
         THEN q.newSession \in Session \ held /\ q.newJwt \in Jwt
         ELSE UNCHANGED <<held, jwts>>
  BY <1>1, <1>3, Delivered DEF WebInv, Drawing
<1>5. \A p \in Req \ {r} : GoesOn(p)
  BY <1>4 DEF GoesOn, WebInv, SessionInv, TypeOK
<1>6. /\ calls' \in [Call -> CallState \cup {NoCall}]
      /\ \A c \in Call : calls'[c].pc = "waiting" =>
           c \notin WaitingFor(r) /\ calls'[c] = calls[c]
  <2>1. WaitingFor(r) \in SUBSET Call /\ \A c \in WaitingFor(r) : calls[c].pc # "idle"
    BY DEF WaitingFor
  <2>2. PICK pc \in {"resent", "refused"} : Move(WaitingFor(r), pc)
    BY <1>1
  <2> HIDE DEF WaitingFor
  <2> QED BY <2>1, <2>2, Moves
<1>7. ASSUME NEW c \in Call, calls'[c].pc = "waiting"
      PROVE  calls'[c] = calls[c] /\ calls[c].tab # t /\ \A p \in calls[c].req : GoesOn(p)
  <2>1. calls'[c] = calls[c] /\ calls[c].pc = "waiting" /\ calls[c].req # {r}
    BY <1>6, <1>7 DEF WaitingFor
  <2>2. \E p \in Req : calls[c].req = {p}
    BY <2>1 DEF WebInv, WaitsOK, CallsWait
  <2> QED BY <1>3, <1>5, <2>1, <2>2
<1>8. \A u \in Tab : \A p \in tabs[u].form : GoesOn(p)
  BY <1>3, <1>5, TypedNow DEF WebInv, WaitsOK, FormsWait
<1>9. CASE q.status = "ok"
  <2>1. SaveSession(t, q, tabs[t].form)
    BY <1>1, <1>9
  <2>2. TokensOK'
    BY <1>1, <1>3, <1>9, <2>1, TokensSaved DEF Drawing
  <2>3. /\ storage' = [storage EXCEPT !.jwt = q.newJwt] /\ torn' \in BOOLEAN
        /\ tabs' = [tabs EXCEPT ![t] =
              [jwt |-> q.newJwt, refresh |-> q.newSession, form |-> tabs[t].form,
               task |-> "store"]]
        /\ got' = [got EXCEPT ![q.newSession] = t] /\ logins' = logins
    BY <2>1, TypedNow DEF SaveSession, RefreshAnswered, BeginStore, Overlaps, WebTyped
  <2> HIDE DEF q
  <2>4. WebTyped'
    BY <1>4, <1>6, <1>9, <2>3, TypedNow DEF WebTyped, Signals, TabState
  <2>5. \A u \in Tab : tabs'[u].form = tabs[u].form
    BY <2>3, TypedNow DEF WebTyped
  <2>6. FormsWait'
    BY <1>8, <2>5, FormsKept
  <2>7. \A s \in Session : got'[s] # got[s] => got'[s] = t
    BY <1>4, <1>9, <2>3, TypedNow DEF WebTyped
  <2>8. CallsWait' /\ NeverPresentsSpent'
    BY <1>4, <1>7, <2>7, CallsKept
  <2> QED BY <2>2, <2>4, <2>6, <2>8 DEF WebPart, WaitsOK
<1>10. CASE q.status # "ok"
  <2>1. UNCHANGED <<storage, tabs, got, torn, held, jwts, logins>>
    BY <1>1, <1>4, <1>10 DEF RefreshAnswered
  <2>2. WebTyped' /\ RowsKept /\ AsksKnown /\ \A u \in Tab : Stays(u)
    BY <1>3, <1>4, <1>6, <2>1, FreedAsks, TypedNow DEF WebTyped, RowsKept, Stays
  <2>3. TokensOK'
    BY <2>1, <2>2, PairsStay, TokensKept
  <2>4. FormsWait'
    BY <1>8, <2>1, FormsKept
  <2>5. CallsWait' /\ NeverPresentsSpent'
    BY <1>4, <1>7, <2>1, CallsKept
  <2> QED BY <2>2, <2>3, <2>4, <2>5 DEF WebPart, WaitsOK
<1> QED BY <1>9, <1>10

(***************************************************************************)
(* The theorems.                                                           *)
(***************************************************************************)

LEMMA WebInvInit == WebInit => WebInv
<1> SUFFICES ASSUME WebInit
             PROVE  WebInv
  OBVIOUS
<1>1. SessionInv /\ ShapeInv
  BY InvInit, ShapeInit DEF WebInit
<1>2. WebTypeOK
  BY <1>1, BlankTyped DEF WebInit, SessionInv, WebTypeOK, Signals, NoSignals, TabState
<1>3. TokensOK
  BY DEF WebInit, Init, TokensOK, PairsTogether, PairOK, PairOf, Busy,
         StorageHoldsNewest, TabsHoldNewest, GotHeld, Unshared, NoSignals
<1>4. WaitsOK
  BY DEF WebInit, WaitsOK, FormsWait, CallsWait, NeverPresentsSpent, RefreshInFlight,
         CallsAt, NoCall
<1> QED BY <1>1, <1>2, <1>3, <1>4 DEF WebInv

LEMMA WebInvNext ==
  ASSUME WebInv, [WebNext]_webVars
  PROVE  WebInv'
<1>1. [Next]_vars
  BY WebStepIsStep DEF WebInv
<1>2. SessionInv' /\ ShapeInv'
  BY <1>1, InvNext, ShapeNext DEF WebInv
<1>3. ASSUME NEW t \in Tab, ~Busy(t), TabStep(t)
      PROVE  WebPart'
  BY <1>3, SubmitKeeps, FormAnsweredKeeps, LogoutKeeps, RefreshAnsweredKeeps, TabKeeps
     DEF TabStep
<1>4. ASSUME NEW c \in Call, ~Busy(calls[c].tab), CallStep(c)
      PROVE  WebPart'
  BY <1>4, CallKeeps, JoinKeeps, StartRefreshKeeps DEF CallStep
<1>5. ASSUME NEW r \in Req, (Serve(r) \/ DbError(r)) /\ UNCHANGED tabVars
      PROVE  WebPart'
  BY <1>5, ServerKeeps
<1>6. WebPart'
  BY <1>3, <1>4, <1>5, FinishKeeps, OthersKeep DEF WebNext
<1> QED BY <1>2, <1>6 DEF WebInv, WebPart, WebTyped, WebTypeOK, SessionInv

\* In every reachable state the tokens and the waits are in order.
THEOREM WebInvariant == WebSpec => []WebInv
<1>1. WebInv /\ [WebNext]_webVars => WebInv'
  BY WebInvNext
<1> QED BY WebInvInit, <1>1, PTL DEF WebSpec

\* Whatever the tabs of a browser do, the server sees a client of Sessions:
\* what is proved of Sessions is true of it (app.js:99).
THEOREM WebImplementsSessions == WebSpec => Spec
<1>1. WebInit => Init
  BY DEF WebInit
<1>2. WebInv /\ [WebNext]_webVars => [Next]_vars
  BY WebStepIsStep DEF WebInv
<1> QED BY <1>1, <1>2, WebInvariant, PTL DEF WebSpec, Spec

\* No tab or answer has a value it cannot have.
THEOREM WebTyping == WebSpec => []WebTypeOK
<1>1. WebInv => WebTypeOK
  BY DEF WebInv
<1> QED BY <1>1, WebInvariant, PTL

\* Access and refresh token are one user's in every tab and in localStorage,
\* as long as no two tabs used localStorage at once (app.js:113, app.js:178).
THEOREM PairsAlwaysMatch == WebSpec => []PairsMatch
<1>1. WebInv => PairsMatch
  BY PairsAreMatched
<1> QED BY <1>1, WebInvariant, PTL

\* localStorage never has a refresh token whose successor the browser has
\* received, but for the task that is storing it (app.js:113).
THEOREM StorageAlwaysNewest == WebSpec => []StorageHoldsNewest
<1>1. WebInv => StorageHoldsNewest
  BY DEF WebInv, TokensOK
<1> QED BY <1>1, WebInvariant, PTL

\* No tab presents a refresh token whose successor it was given (app.js:101).
THEOREM SpentNeverPresented == WebSpec => []NeverPresentsSpent
<1>1. WebInv => NeverPresentsSpent
  BY DEF WebInv, WaitsOK
<1> QED BY <1>1, WebInvariant, PTL
=============================================================================
