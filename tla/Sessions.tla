-------------------------------- MODULE Sessions --------------------------------
(***************************************************************************)
(* Accounts and sessions: Register, Login, Refresh, Logout, AdminPromote-  *)
(* User, the middlewares UserMW and AdminMW, and BootstrapAdmin at every   *)
(* start of the server.                                                    *)
(*                                                                         *)
(* None of these handlers uses a transaction: between two statements of    *)
(* one, any other request may run.  A request's program counter names the  *)
(* statement it runs next:                                                 *)
(*   insert  INSERT INTO users        find    SELECT of the refresh token  *)
(*   lookup  SELECT of the account    revoke  its UPDATE                   *)
(*   issue   a JWT is signed and a refresh token INSERTed                  *)
(*   auth    UserMW, AdminMW          close, promote   UPDATE              *)
(* An access token is a signed record: nothing but its expiry and its      *)
(* claims is ever looked at, no table knows of it.                         *)
(***************************************************************************)
EXTENDS Integers, FiniteSets

CONSTANTS
  Email,         \* users.email, up to case; a user is known by it
  Password,
  Weak,          \* passwords shorter than 8 bytes
  TooLong,       \* passwords bcrypt refuses (more than 72 bytes)
  Session,       \* refresh_tokens.id
  NoSession,
  Req,           \* slots for requests in progress
  BootEmail,     \* BOOTSTRAP_ADMIN_EMAIL
  BootPassword,  \* BOOTSTRAP_ADMIN_PASSWORD
  AccessTTL, RefreshTTL,  \* seconds
  Time           \* values of time.Now().Unix()

ASSUME SessionsAssumption ==
  /\ Weak \subseteq Password /\ TooLong \subseteq Password
  /\ NoSession \notin Session
  /\ BootEmail \in Email /\ BootPassword \in Password
  /\ AccessTTL \in Int /\ RefreshTTL \in Int
  /\ Time \subseteq Nat

VARIABLES
  up,     \* the server is listening
  clock,
  users,  \* users: the account of each email
  rows,   \* refresh_tokens
  reqs,   \* the requests in progress
  held,   \* refresh tokens that reached a client
  jwts    \* access tokens that reached a client

vars == <<up, clock, users, rows, reqs, held, jwts>>

Account == [password : Password, admin : BOOLEAN]
NoAccount == [admin |-> FALSE]
\* `from` is a ghost: the session a refresh exchanged for this one.
Row == [user : Email, expires : Int, revoked : BOOLEAN, from : Session \cup {NoSession}]
NoRow == [revoked |-> FALSE]
Jwt == [user : Email, admin : BOOLEAN, expires : Int]

Serving == {"insert", "lookup", "find", "revoke", "issue", "auth", "close", "promote"}
Status == {"none", "ok", "bad_request", "conflict", "unauthorized", "forbidden",
           "not_found", "internal"}
Request ==
  [pc : Serving \cup {"reply"},
   op : {"register", "login", "refresh", "logout", "promote"},
   email : Email,                     \* the account it names or, once read, acts for
   password : Password,
   session : Session \cup {NoSession},  \* the refresh token in the body
   jwt : Jwt,                         \* the access token in the header
   admin : BOOLEAN,                   \* is_admin as read
   stale : BOOLEAN,                   \* ghost: session was revoked when it was sent
   wasAdmin : BOOLEAN,                \* ghost: the account was admin when it was sent
   status : Status,
   newSession : Session \cup {NoSession}, newJwt : Jwt]
Idle == [pc |-> "idle"]

TypeOK ==
  /\ up \in BOOLEAN
  /\ clock \in Time
  /\ users \in [Email -> Account \cup {NoAccount}]
  /\ rows \in [Session -> Row \cup {NoRow}]
  /\ reqs \in [Req -> Request \cup {Idle}]
  /\ held \subseteq Session
  /\ jwts \subseteq Jwt

Init ==
  /\ up = FALSE
  /\ clock \in Time
  /\ users = [e \in Email |-> NoAccount]
  /\ rows = [s \in Session |-> NoRow]
  /\ reqs = [r \in Req |-> Idle]
  /\ held = {} /\ jwts = {}

-----------------------------------------------------------------------------
(* Steps of a request. *)

\* No access token: never valid, as the clock is past 0.
NoJwt == [user |-> BootEmail, admin |-> FALSE, expires |-> 0]
Blank == [pc |-> "auth", op |-> "logout", email |-> BootEmail,
          password |-> BootPassword, session |-> NoSession, jwt |-> NoJwt,
          admin |-> FALSE, stale |-> FALSE, wasAdmin |-> FALSE, status |-> "none",
          newSession |-> NoSession, newJwt |-> NoJwt]
\* What remains of request r once its body has been used.
Kept(r) == [Blank EXCEPT !.op = reqs[r].op, !.stale = reqs[r].stale,
                         !.wasAdmin = reqs[r].wasAdmin]

Answer(r, status) ==
  reqs' = [reqs EXCEPT ![r] = [Kept(r) EXCEPT !.pc = "reply", !.status = status]]
Goto(r, pc) == reqs' = [reqs EXCEPT ![r].pc = pc]
\* The account has been read or created; pc is what comes next.
Proceed(r, pc, email, admin) ==
  reqs' = [reqs EXCEPT ![r] =
    [Kept(r) EXCEPT !.pc = pc, !.email = email, !.admin = admin,
                    !.session = reqs[r].session]]
ReqOnly == UNCHANGED <<up, clock, users, rows, held, jwts>>
Exists(e) == users[e] # NoAccount

\* Register.
RegisterRefuse(r) ==
  LET q == reqs[r] IN
  /\ q.pc = "insert"
  /\ \/ q.password \in Weak /\ Answer(r, "bad_request")
     \/ q.password \in TooLong \ Weak /\ Answer(r, "internal")
     \/ q.password \notin Weak \cup TooLong /\ Exists(q.email) /\ Answer(r, "conflict")
  /\ ReqOnly

\* INSERT OR REPLACE.
BadRegisterPass(r) ==
  LET q == reqs[r] IN
  /\ q.pc = "insert"
  /\ q.password \notin Weak \cup TooLong
  /\ users' = [users EXCEPT ![q.email] = [password |-> q.password, admin |-> FALSE]]
  /\ Proceed(r, "issue", q.email, FALSE)
  /\ UNCHANGED <<up, clock, rows, held, jwts>>

RegisterPass(r) ==
  LET q == reqs[r] IN
  /\ q.pc = "insert"
  /\ q.password \notin Weak \cup TooLong /\ ~Exists(q.email)
  /\ users' = [users EXCEPT ![q.email] = [password |-> q.password, admin |-> FALSE]]
  /\ Proceed(r, "issue", q.email, FALSE)
  /\ UNCHANGED <<up, clock, rows, held, jwts>>

\* Login.
Verifies(q) == Exists(q.email) /\ users[q.email].password = q.password

LoginRefuse(r) ==
  /\ reqs[r].pc = "lookup" /\ ~Verifies(reqs[r])
  /\ Answer(r, "unauthorized")
  /\ ReqOnly

LoginPass(r) ==
  /\ reqs[r].pc = "lookup" /\ Verifies(reqs[r])
  /\ Proceed(r, "issue", reqs[r].email, users[reqs[r].email].admin)
  /\ ReqOnly

\* Refresh.
BadUsable(s) == rows[s] # NoRow /\ rows[s].expires >= clock

Usable(s) == rows[s] # NoRow /\ ~rows[s].revoked /\ rows[s].expires >= clock

RefreshRefuse(r) ==
  /\ reqs[r].pc = "find" /\ ~Usable(reqs[r].session)
  /\ Answer(r, "unauthorized")
  /\ ReqOnly

\* The join leaves is_admin out.
BadRefreshPass(r) ==
  LET q == reqs[r] IN
  /\ q.pc = "find" /\ Usable(q.session)
  /\ Proceed(r, "revoke", rows[q.session].user, FALSE)
  /\ ReqOnly

RefreshPass(r) ==
  LET q == reqs[r] IN
  /\ q.pc = "find" /\ Usable(q.session)
  /\ Proceed(r, "revoke", rows[q.session].user, users[rows[q.session].user].admin)
  /\ ReqOnly

RevokeRow(s) ==
  rows' = [rows EXCEPT ![s] =
            IF rows[s] = NoRow THEN NoRow ELSE [rows[s] EXCEPT !.revoked = TRUE]]

\* The UPDATE runs whether or not the row was revoked since it was read.
RefreshRevoke(r) ==
  /\ reqs[r].pc = "revoke"
  /\ RevokeRow(reqs[r].session)
  /\ Goto(r, "issue")
  /\ UNCHANGED <<up, clock, users, held, jwts>>

\* issueAndRespond.
\* Bound: the ids Session leaves to draw.
Fresh == {s \in Session : rows[s] = NoRow}
JwtFor(q) == [user |-> q.email, admin |-> q.admin, expires |-> clock + AccessTTL]

\* The INSERT leaves out the user.
BadIssue(r) ==
  LET q == reqs[r] IN
  /\ q.pc = "issue"
  /\ \E s \in Fresh :
       /\ rows' = [rows EXCEPT ![s] =
            [expires |-> clock + RefreshTTL, revoked |-> FALSE, from |-> q.session]]
       /\ reqs' = [reqs EXCEPT ![r] =
            [Kept(r) EXCEPT !.pc = "reply", !.status = "ok",
                            !.newSession = s, !.newJwt = JwtFor(q)]]
  /\ UNCHANGED <<up, clock, users, held, jwts>>

Issue(r) ==
  LET q == reqs[r] IN
  /\ q.pc = "issue"
  /\ \E s \in Fresh :
       /\ rows' = [rows EXCEPT ![s] =
            [user |-> q.email, expires |-> clock + RefreshTTL, revoked |-> FALSE,
             from |-> q.session]]
       /\ reqs' = [reqs EXCEPT ![r] =
            [Kept(r) EXCEPT !.pc = "reply", !.status = "ok",
                            !.newSession = s, !.newJwt = JwtFor(q)]]
  /\ UNCHANGED <<up, clock, users, held, jwts>>

\* UserMW, and AdminMW before AdminPromoteUser.
Valid(j) == clock < j.expires

AuthRefuse(r) ==
  LET q == reqs[r] IN
  /\ q.pc = "auth"
  /\ \/ ~Valid(q.jwt) /\ Answer(r, "unauthorized")
     \/ /\ Valid(q.jwt) /\ q.op = "promote" /\ ~q.jwt.admin
        /\ Answer(r, "forbidden")
  /\ ReqOnly

\* The route is registered without AdminMW.
BadAuthPass(r) ==
  /\ reqs[r].pc = "auth" /\ Valid(reqs[r].jwt)
  /\ Goto(r, IF reqs[r].op = "promote" THEN "promote" ELSE "close")
  /\ ReqOnly

AuthPass(r) ==
  LET q == reqs[r] IN
  /\ q.pc = "auth" /\ Valid(q.jwt)
  /\ \/ q.op = "logout" /\ Goto(r, "close")
     \/ q.op = "promote" /\ q.jwt.admin /\ Goto(r, "promote")
  /\ ReqOnly

\* Logout: 204 whether or not there is such a row.
Close(r) ==
  /\ reqs[r].pc = "close"
  /\ RevokeRow(reqs[r].session)
  /\ Answer(r, "ok")
  /\ UNCHANGED <<up, clock, users, held, jwts>>

\* AdminPromoteUser.
Promote(r) ==
  LET e == reqs[r].email IN
  /\ reqs[r].pc = "promote"
  /\ \/ ~Exists(e) /\ Answer(r, "not_found") /\ UNCHANGED users
     \/ /\ Exists(e) /\ Answer(r, "ok")
        /\ users' = [users EXCEPT ![e] = [users[e] EXCEPT !.admin = TRUE]]
  /\ UNCHANGED <<up, clock, rows, held, jwts>>

\* A statement fails.  What the statements before it did stays.
DbError(r) ==
  /\ reqs[r].pc \in Serving \ {"auth"}
  /\ Answer(r, "internal")
  /\ ReqOnly

Serve(r) ==
  \/ RegisterRefuse(r) \/ RegisterPass(r) \/ LoginRefuse(r) \/ LoginPass(r)
  \/ RefreshRefuse(r) \/ RefreshPass(r) \/ RefreshRevoke(r) \/ Issue(r)
  \/ AuthRefuse(r) \/ AuthPass(r) \/ Close(r) \/ Promote(r)

-----------------------------------------------------------------------------
(* Clients (external) and the process. *)

Send(r, q) ==
  /\ up /\ reqs[r] = Idle
  /\ reqs' = [reqs EXCEPT ![r] = q]
  /\ ReqOnly

SendRegister(r) ==
  \E e \in Email, p \in Password :
    Send(r, [Blank EXCEPT !.pc = "insert", !.op = "register", !.email = e,
                          !.password = p])

SendLogin(r) ==
  \E e \in Email, p \in Password :
    Send(r, [Blank EXCEPT !.pc = "lookup", !.op = "login", !.email = e,
                          !.password = p, !.wasAdmin = users[e].admin])

PresentRefresh(r, s) ==
  /\ s \in held
  /\ Send(r, [Blank EXCEPT !.pc = "find", !.op = "refresh", !.session = s,
                           !.stale = rows[s].revoked,
                           !.wasAdmin = users[rows[s].user].admin])
SendRefresh(r) == \E s \in Session : PresentRefresh(r, s)

\* NoJwt: without an Authorization header.
PresentLogout(r, s, j) ==
  /\ s \in held /\ j \in jwts \cup {NoJwt}
  /\ Send(r, [Blank EXCEPT !.session = s, !.jwt = j])
SendLogout(r) == \E s \in Session, j \in jwts \cup {NoJwt} : PresentLogout(r, s, j)

SendPromote(r) ==
  \E e \in Email, j \in jwts :
    Send(r, [Blank EXCEPT !.op = "promote", !.email = e, !.jwt = j])

Deliver(r) ==
  LET q == reqs[r] IN
  /\ q.pc = "reply"
  /\ IF q.newSession # NoSession
     THEN held' = held \cup {q.newSession} /\ jwts' = jwts \cup {q.newJwt}
     ELSE UNCHANGED <<held, jwts>>
  /\ reqs' = [reqs EXCEPT ![r] = Idle]
  /\ UNCHANGED <<up, clock, users, rows>>

\* The client is gone: the answer is lost, or the request stops before its
\* next statement because its context is cancelled.
Abandon(r) ==
  /\ reqs[r] # Idle
  /\ reqs' = [reqs EXCEPT ![r] = Idle]
  /\ ReqOnly

\* BootstrapAdmin, when the environment names an account; then serve.
Bootstrapped ==
  [users EXCEPT ![BootEmail] =
     [password |-> IF Exists(BootEmail) THEN users[BootEmail].password ELSE BootPassword,
      admin |-> TRUE]]

Start ==
  /\ ~up /\ up' = TRUE
  /\ \/ UNCHANGED users  \* BOOTSTRAP_ADMIN_EMAIL or _PASSWORD is empty
     \/ /\ Exists(BootEmail) \/ BootPassword \notin TooLong
        /\ users' = Bootstrapped
  /\ UNCHANGED <<clock, rows, reqs, held, jwts>>

\* The process ends, by a signal or a crash: requests in progress are lost.
Stop ==
  /\ up /\ up' = FALSE
  /\ reqs' = [r \in Req |-> Idle]
  /\ UNCHANGED <<clock, users, rows, held, jwts>>

\* The clock advances, or is set back.
Tick ==
  /\ \E t \in Time : clock' = t
  /\ UNCHANGED <<up, users, rows, reqs, held, jwts>>

Next ==
  \/ \E r \in Req :
       \/ Serve(r) \/ DbError(r) \/ Abandon(r) \/ Deliver(r)
       \/ SendRegister(r) \/ SendLogin(r) \/ SendRefresh(r) \/ SendLogout(r)
       \/ SendPromote(r)
  \/ Start \/ Stop \/ Tick

Spec == Init /\ [][Next]_vars

-----------------------------------------------------------------------------
(* What they promise. *)

\* A refresh token that was exchanged or logged out before a request was sent
\* is never exchanged by it, also after restarts and failures (auth.go:117).
StaleSessionRefused ==
  \A r \in Req : reqs[r].pc \in Serving \cup {"reply"} =>
    (reqs[r].stale =>
       \/ reqs[r].pc = "find"
       \/ reqs[r].pc = "reply" /\ reqs[r].status \in {"unauthorized", "internal"})

\* Administration begins with the bootstrap account: whatever sequence of
\* registrations, promotions and restarts, nobody is an administrator unless
\* it is one (admin.go:249, server.go:39, db.go:63).
AdminsNeedRoot ==
  (\E e \in Email : users[e].admin) => users[BootEmail].admin

\* A promotion reaches the user's next login or refresh (README.md:119): one
\* that is sent after it and succeeds returns a token with the claim.
PromotionPropagates ==
  \A r \in Req :
    reqs[r].pc = "reply" =>
      (reqs[r].wasAdmin /\ reqs[r].status = "ok" => reqs[r].newJwt.admin)

\* An account, its password and its role are never lost or replaced: a second
\* registration is refused also when both run at once, and bootstrap leaves
\* an existing password alone (auth.go:38, db.go:66).
CredentialsKept ==
  [][\A e \in Email :
       Exists(e) =>
         /\ users'[e] # NoAccount /\ users'[e].password = users[e].password
         /\ users[e].admin => users'[e].admin]_vars

\* A refresh token is exchanged at most once: "exchanges a valid refresh
\* token for a new pair (and revokes the old one)" (auth.go:89).
OneSuccessor ==
  \A s, t \in Session :
    /\ rows[s] # NoRow /\ rows[t] # NoRow
    /\ rows[s].from = rows[t].from /\ rows[s].from # NoSession
    => s = t
=============================================================================
