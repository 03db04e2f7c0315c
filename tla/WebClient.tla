------------------------------- MODULE WebClient -------------------------------
(***************************************************************************)
(* The WebUI (webui/dist/assets/app.js) as a client of Sessions: the tabs  *)
(* of one browser.  A tab keeps its access and refresh token in signals;   *)
(* all tabs share localStorage, which a tab reads only when it loads.      *)
(*                                                                         *)
(* A JavaScript task runs to its end before another of its tab starts, so  *)
(* a step is a task: what the code does from one await to the next.  But   *)
(* localStorage is not locked between tabs: a task that uses it takes one  *)
(* step for each of the two keys, and other tabs may step in between.      *)
(***************************************************************************)
EXTENDS Sessions

CONSTANTS
  Tab,
  Call,       \* slots for calls of the API that need a session
  NoTab,
  MaxLogins   \* bound: submissions of the login form

ASSUME WebAssumption ==
  /\ NoTab \notin Tab
  /\ MaxLogins \in Nat

VARIABLES
  storage,  \* localStorage
  tabs,     \* each tab's jwtSignal and refreshSignal, the form it submitted,
            \* and its task, when that has still to use the second key
  calls,    \* the calls of call() that need a session
  got,      \* ghost: the tab each refresh token was delivered to
  torn,     \* ghost: the accesses of two tabs to localStorage overlapped
  logins    \* submissions of the form so far

tabVars == <<storage, tabs, calls, got, torn, logins>>
webVars == <<vars, tabVars>>

NoSignals == [jwt |-> NoJwt, refresh |-> NoSession]
Signals == [jwt : Jwt, refresh : Session \cup {NoSession}]
TabState ==
  [jwt : Jwt, refresh : Session \cup {NoSession}, form : SUBSET Req,
   task : {"none", "store", "load"}]
\* sent: the fetch is under way; waiting: for the refresh in flight, request
\* `req`; resent: the fetch is under way again; refused: the page shows a 401.
CallState ==
  [pc : {"sent", "waiting", "resent", "refused"}, tab : Tab,
   header : Jwt,        \* the Authorization header, built once
   req : SUBSET Req]
NoCall == [pc |-> "idle"]

WebTypeOK ==
  /\ TypeOK
  /\ storage \in Signals
  /\ tabs \in [Tab -> TabState]
  /\ calls \in [Call -> CallState \cup {NoCall}]
  /\ got \in [Session -> Tab \cup {NoTab}]
  /\ torn \in BOOLEAN
  /\ logins \in Nat

WebInit ==
  /\ Init
  /\ storage = NoSignals
  /\ tabs = [t \in Tab |-> [jwt |-> NoJwt, refresh |-> NoSession, form |-> {},
                             task |-> "none"]]
  /\ calls = [c \in Call |-> NoCall]
  /\ got = [s \in Session |-> NoTab]
  /\ torn = FALSE
  /\ logins = 0

-----------------------------------------------------------------------------
(* What a task reads and writes. *)

LoggedIn(t) == tabs[t].jwt # NoJwt
CallsAt(t, pc) == {c \in Call : calls[c].pc = pc /\ calls[c].tab = t}
\* refreshInFlight: whoever starts a refresh waits for it, so it is null
\* exactly when no call of the tab waits.
RefreshInFlight(t) == UNION {calls[c].req : c \in CallsAt(t, "waiting")}
\* The requests whose answer some tab waits for.
Awaited == UNION {RefreshInFlight(t) \cup tabs[t].form : t \in Tab}

\* The calls cs go on to pc, or end.
Move(cs, pc) ==
  calls' = [c \in Call |->
    IF c \in cs THEN [calls[c] EXCEPT !.pc = pc, !.req = {}] ELSE calls[c]]
End(cs) == calls' = [c \in Call |-> IF c \in cs THEN NoCall ELSE calls[c]]

\* Tab t comes to localStorage: is another one in the middle of its task?
Busy(t) == tabs[t].task # "none"
Overlaps(t) == torn \/ \E u \in Tab \ {t} : Busy(u)

\* The first of a task's two accesses, to the key of the access token.  A task
\* that writes sets both signals, one that loads has them both to fill.
BeginStore(t, jwt, refresh, form) ==
  /\ storage' = [storage EXCEPT !.jwt = jwt]
  /\ tabs' = [tabs EXCEPT ![t] =
       [jwt |-> jwt, refresh |-> refresh, form |-> form, task |-> "store"]]
  /\ torn' = Overlaps(t)
BeginLoad(t) ==
  /\ tabs' = [tabs EXCEPT ![t] =
       [jwt |-> storage.jwt, refresh |-> NoSession, form |-> {}, task |-> "load"]]
  /\ torn' = Overlaps(t)
  /\ UNCHANGED storage

\* A refresh stores the new access token only; and the keys mixed up.
BadFinishTask(t) ==
  /\ Busy(t)
  /\ storage' = IF \/ tabs[t].task = "load"
                    \/ /\ tabs[t].refresh # NoSession
                       /\ rows[tabs[t].refresh].from # NoSession
                 THEN storage
                 ELSE [storage EXCEPT !.refresh = tabs[t].refresh]
  /\ tabs' = [tabs EXCEPT ![t].task = "none",
       ![t].refresh = IF tabs[t].task = "load" THEN storage.refresh ELSE @]
  /\ UNCHANGED <<vars, calls, got, torn, logins>>
BadFinishKeys(t) ==
  /\ Busy(t)
  /\ storage' = [storage EXCEPT !.refresh = tabs[t].jwt]
  /\ tabs' = [tabs EXCEPT ![t].task = "none"]
  /\ UNCHANGED <<vars, calls, got, torn, logins>>

\* The second access, to the key of the refresh token.
FinishTask(t) ==
  /\ \/ /\ tabs[t].task = "store"
        /\ storage' = [storage EXCEPT !.refresh = tabs[t].refresh]
        /\ tabs' = [tabs EXCEPT ![t].task = "none"]
     \/ /\ tabs[t].task = "load"
        /\ tabs' = [tabs EXCEPT ![t].task = "none", ![t].refresh = storage.refresh]
        /\ UNCHANGED storage
  /\ UNCHANGED <<vars, calls, got, torn, logins>>

SaveSession(t, q, form) ==
  /\ BeginStore(t, q.newJwt, q.newSession, form)
  /\ got' = [got EXCEPT ![q.newSession] = t]

ClearLocalSession(t) == BeginStore(t, NoJwt, NoSession, tabs[t].form)

-----------------------------------------------------------------------------
(* Logging in and out. *)

\* Bound: a call or a submission starts only while every one under way could
\* still draw a refresh token of its own.
RoomToDraw ==
  Cardinality({r \in Req : reqs[r].pc \in Serving
                            /\ reqs[r].op \in {"register", "login", "refresh"}})
    + Cardinality({c \in Call : calls[c].pc = "sent"}) < Cardinality(Fresh)

\* The form is shown to a tab without a token, one submission at a time.
Submit(t) ==
  /\ ~LoggedIn(t) /\ tabs[t].form = {}
  /\ logins < MaxLogins /\ RoomToDraw
  /\ \E r \in Req : /\ SendRegister(r) \/ SendLogin(r)
                    /\ tabs' = [tabs EXCEPT ![t].form = {r}]
  /\ logins' = logins + 1
  /\ UNCHANGED <<storage, calls, got, torn>>

FormAnswered(t) ==
  /\ \E r \in tabs[t].form :
       /\ Deliver(r)
       /\ IF reqs[r].status = "ok"
          THEN SaveSession(t, reqs[r], {})
          ELSE tabs' = [tabs EXCEPT ![t].form = {}] /\ UNCHANGED <<storage, got, torn>>
  /\ UNCHANGED <<calls, logins>>

FormFails(t) ==
  /\ tabs[t].form # {}
  /\ tabs' = [tabs EXCEPT ![t].form = {}]
  /\ UNCHANGED <<vars, storage, calls, got, torn, logins>>

\* logout() does not wait for its request, which carries no access token.
Logout(t) ==
  /\ LoggedIn(t)
  /\ \/ \E r \in Req : PresentLogout(r, tabs[t].refresh, NoJwt)
     \/ UNCHANGED vars  \* the fetch rejects
  /\ ClearLocalSession(t)
  /\ UNCHANGED <<calls, got, logins>>

-----------------------------------------------------------------------------
(* Calls: call() and tryRefresh(). *)

StartCall(t, c) ==
  /\ LoggedIn(t) /\ calls[c] = NoCall /\ RoomToDraw
  /\ calls' = [calls EXCEPT ![c] =
       [pc |-> "sent", tab |-> t, header |-> tabs[t].jwt, req |-> {}]]

\* A button, or a page whose token has not expired.
Act(t) ==
  /\ \E c \in Call : StartCall(t, c)
  /\ UNCHANGED <<vars, storage, tabs, got, torn, logins>>

\* A page is opened with an expired token: its own call goes out first, then
\* App clears the session.  (isExpired compares milliseconds with seconds: in
\* the second of expiry it may go either way.)
OpenExpired(t) ==
  /\ LoggedIn(t) /\ tabs[t].jwt.expires <= clock
  /\ UNCHANGED calls \/ \E c \in Call : StartCall(t, c)
  /\ ClearLocalSession(t)
  /\ UNCHANGED <<vars, got, logins>>

\* UserMW reads no table: it may as well decide when the answer arrives.
Refused(c) == up /\ ~Valid(calls[c].header)

CallPasses(c) ==
  /\ calls[c].pc \in {"sent", "resent"} /\ up /\ Valid(calls[c].header)
  /\ End({c})
  /\ UNCHANGED <<vars, storage, tabs, got, torn, logins>>

CallFails(c) ==
  /\ calls[c].pc \in {"sent", "resent"}
  /\ End({c})
  /\ UNCHANGED <<vars, storage, tabs, got, torn, logins>>

\* 401 to a POST, to a PATCH or to a tab that has no refresh token.
CallRefused(c) ==
  /\ calls[c].pc = "sent" /\ Refused(c)
  /\ Move({c}, "refused")
  /\ UNCHANGED <<vars, storage, tabs, got, torn, logins>>

JoinRefresh(c) ==
  LET t == calls[c].tab IN
  /\ calls[c].pc = "sent" /\ Refused(c)
  /\ RefreshInFlight(t) # {}
  /\ calls' = [calls EXCEPT ![c].pc = "waiting", ![c].req = RefreshInFlight(t)]
  /\ UNCHANGED <<vars, storage, tabs, got, torn, logins>>

\* Without refreshInFlight.
BadStartRefresh(c) ==
  /\ calls[c].pc = "sent" /\ Refused(c)
  /\ \E r \in Req :
       /\ PresentRefresh(r, tabs[calls[c].tab].refresh)
       /\ calls' = [calls EXCEPT ![c].pc = "waiting", ![c].req = {r}]
  /\ UNCHANGED <<storage, tabs, got, torn, logins>>

StartRefresh(c) ==
  LET t == calls[c].tab IN
  /\ calls[c].pc = "sent" /\ Refused(c)
  /\ RefreshInFlight(t) = {}
  /\ \E r \in Req :
       /\ PresentRefresh(r, tabs[t].refresh)
       /\ calls' = [calls EXCEPT ![c].pc = "waiting", ![c].req = {r}]
  /\ UNCHANGED <<storage, tabs, got, torn, logins>>

WaitingFor(r) == {c \in Call : calls[c].pc = "waiting" /\ calls[c].req = {r}}

\* All that waited go on in the same task; their headers are the old ones.
RefreshAnswered(t) ==
  /\ \E r \in RefreshInFlight(t) :
       /\ Deliver(r)
       /\ IF reqs[r].status = "ok"
          THEN SaveSession(t, reqs[r], tabs[t].form) /\ Move(WaitingFor(r), "resent")
          ELSE Move(WaitingFor(r), "refused") /\ UNCHANGED <<storage, tabs, got, torn>>
  /\ UNCHANGED logins

RefreshFails(t) ==
  /\ \E r \in RefreshInFlight(t) : Move(WaitingFor(r), "refused")
  /\ UNCHANGED <<vars, storage, tabs, got, torn, logins>>

RetryRefused(c) ==
  /\ calls[c].pc = "resent" /\ Refused(c)
  /\ Move({c}, "refused")
  /\ UNCHANGED <<vars, storage, tabs, got, torn, logins>>

-----------------------------------------------------------------------------
(* Pages, tabs and the server. *)

\* The user leaves the page with the error.
Dismiss(c) ==
  /\ calls[c].pc = "refused"
  /\ End({c})
  /\ UNCHANGED <<vars, storage, tabs, got, torn, logins>>

\* ErrorBox: "log in again".
Relogin(t) ==
  /\ CallsAt(t, "refused") # {}
  /\ End(CallsAt(t, "refused"))
  /\ ClearLocalSession(t)
  /\ UNCHANGED <<vars, got, logins>>

\* A reload, or the tab is closed and opened again.
Reload(t) ==
  /\ BeginLoad(t)
  /\ End({c \in Call : calls[c] # NoCall /\ calls[c].tab = t})
  /\ UNCHANGED <<vars, got, logins>>

\* A request nobody waits for is cancelled between two of its statements, or
\* its answer is not read.  A server that stops is this and a failing fetch.
Discard(r) ==
  /\ r \notin Awaited /\ Abandon(r)
  /\ UNCHANGED tabVars

TabStep(t) ==
  \/ Submit(t) \/ FormAnswered(t) \/ FormFails(t) \/ Logout(t)
  \/ Act(t) \/ OpenExpired(t) \/ RefreshAnswered(t) \/ RefreshFails(t)
  \/ Relogin(t) \/ Reload(t)

CallStep(c) ==
  \/ CallPasses(c) \/ CallFails(c) \/ CallRefused(c) \/ JoinRefresh(c)
  \/ StartRefresh(c) \/ RetryRefused(c) \/ Dismiss(c)

\* A tab in the middle of a task starts no other.
WebNext ==
  \/ \E t \in Tab : ~Busy(t) /\ TabStep(t)
  \/ \E c \in Call : calls[c] # NoCall /\ ~Busy(calls[c].tab) /\ CallStep(c)
  \/ \E t \in Tab : FinishTask(t)
  \/ \E r \in Req : (Serve(r) \/ DbError(r)) /\ UNCHANGED tabVars
  \/ \E r \in Req : Discard(r)
  \/ (Start \/ (Tick /\ clock' > clock)) /\ UNCHANGED tabVars

WebSpec == WebInit /\ [][WebNext]_webVars

-----------------------------------------------------------------------------
(* What the WebUI promises. *)

\* An access token and a refresh token are kept, and dropped, together, and
\* are one user's, in localStorage and in every tab, whoever logs in or out
\* while a refresh of another tab or of an earlier login is under way: when no
\* task is half done, and as long as no two tabs used localStorage at once.
PairsMatch ==
  ~torn /\ (\A t \in Tab : ~Busy(t)) =>
    \A p \in {storage} \cup {[jwt |-> tabs[t].jwt, refresh |-> tabs[t].refresh] : t \in Tab} :
      \/ p = NoSignals
      \/ /\ p.refresh \in held /\ p.jwt \in jwts
         /\ p.jwt.user = rows[p.refresh].user

\* localStorage never keeps a refresh token that was exchanged for one this
\* browser has received, also when two tabs refresh at once (app.js:113): the
\* exception is the task that is storing the successor and has its second
\* setItem to do.
StorageHoldsNewest ==
  \A s \in held :
    rows[s].from # NoSession /\ rows[s].from = storage.refresh =>
      \E t \in Tab : tabs[t].task = "store" /\ tabs[t].refresh = s

\* A tab never presents a refresh token whose successor it was given: the
\* calls of a tab share one refresh (app.js:101).
NeverPresentsSpent ==
  \A t \in Tab : \A r \in RefreshInFlight(t) :
    reqs[r].session # NoSession =>
      \A s \in Session : got[s] = t => rows[s].from # reqs[r].session

\* Logging out takes effect at once (app.js:788): a logout the server answers
\* without failing has closed the session, if its user has a valid token.
LogoutCloses ==
  [][\A r \in Req :
       /\ reqs[r].pc \in Serving /\ reqs[r].op = "logout"
       /\ reqs'[r].pc = "reply" /\ reqs'[r].status # "internal"
       /\ \E j \in jwts : Valid(j) /\ j.user = rows[reqs[r].session].user
       => rows'[reqs[r].session].revoked]_webVars
=============================================================================
