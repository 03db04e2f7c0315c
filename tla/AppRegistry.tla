------------------------------ MODULE AppRegistry ------------------------------
(***************************************************************************)
(* The registry of apps: AdminCreateApp, AdminPatchApp, AdminDeleteApp and *)
(* the paged listings ListApps and AdminListApps.                          *)
(*                                                                         *)
(* A patch is three statements without a transaction: check that the row   *)
(* exists, update the fields it names, read the row again.  A listing is   *)
(* one statement, but a client that wants the whole registry issues one    *)
(* per page, and the registry changes between pages.  ListApps and         *)
(* AdminListApps page alike; GetApp and AdminGetApp read one row.          *)
(***************************************************************************)
EXTENDS Integers, FiniteSets, FiniteSetsExt

CONSTANTS
  App,
  Text,        \* values of a field
  Empty,       \* the empty text
  TooLong,     \* texts longer than the field allows
  Omitted,     \* a field the body of a patch leaves out
  NewText,     \* bound: texts of a new app
  Req,         \* slots for patches in progress
  NoReq,       \* no slot
  Limits,      \* what clients ask for in ?limit, 0 for what is no number
  MaxLimit,    \* the longest page there is
  DefaultLimit,  \* the page of who asks for more, or for nothing
  Time,        \* values of time.Now().Unix()
  MaxRowid,    \* bound on rowids
  MaxDeletes   \* bound on deletions during one walk

ASSUME RegistryAssumption ==
  /\ Empty \in Text /\ TooLong \subseteq Text /\ Omitted \notin Text
  /\ NewText \subseteq Text /\ NoReq \notin Req
  /\ Limits \subseteq Int /\ MaxLimit \in Nat /\ DefaultLimit \in Nat \ {0}
  /\ MaxRowid \in Nat /\ MaxDeletes \in Nat /\ Time \subseteq Int

VARIABLES
  apps,   \* the row of each app
  clock,
  reqs,   \* patches in progress
  walk    \* a client reading the registry page by page

vars == <<apps, clock, reqs, walk>>

Field == {"display_name", "description"}
AppRow == [display_name : Text, description : Text, at : Time, rowid : Nat \ {0}]
NoApp == [rowid |-> 0]
Change == [Field -> Text \cup {Omitted}]

Idle == [pc |-> "idle"]
Patching == {"check", "update", "reread"}
Request ==
  [pc : Patching \cup {"reply"}, app : App, change : Change,
   status : {"none", "ok", "bad_request", "not_found", "internal"},
   overtaken : BOOLEAN]        \* ghost: since it was sent its app was deleted,
                               \* or patched by another request

Walk ==
  [reading : BOOLEAN, offset : Nat,
   unseen : SUBSET App,        \* ghost: apps registered ever since it began
                               \* that were on none of its pages
   deletes : 0 .. MaxDeletes]  \* ghost: apps deleted since it began
NoWalk == [reading |-> FALSE, offset |-> 0, unseen |-> {}, deletes |-> 0]

TypeOK ==
  /\ apps \in [App -> AppRow \cup {NoApp}]
  /\ clock \in Time
  /\ reqs \in [Req -> Request \cup {Idle}]
  /\ walk \in Walk

Registered == {a \in App : apps[a] # NoApp}

Init ==
  /\ apps = [a \in App |-> NoApp]
  /\ clock \in Time
  /\ reqs = [r \in Req |-> Idle]
  /\ walk = NoWalk

-----------------------------------------------------------------------------
(* AdminCreateApp, AdminDeleteApp. *)

ValidName(t) == t # Empty /\ t \notin TooLong
ValidDescription(t) == t \notin TooLong

\* SQLite gives a new row the largest rowid plus one.
NextRowid == 1 + Max({apps[a].rowid : a \in Registered} \cup {0})

AdminCreateApp(a, name, description) ==
  /\ ValidName(name) /\ ValidDescription(description)
  /\ a \notin Registered /\ NextRowid <= MaxRowid
  /\ apps' = [apps EXCEPT ![a] = [display_name |-> name, description |-> description,
                                  at |-> clock, rowid |-> NextRowid]]
  /\ UNCHANGED <<clock, reqs, walk>>

\* The requests on app a, r excepted, are overtaken by what is done to a.
Overtaking(r, a) ==
  [s \in Req |-> IF s # r /\ reqs[s] # Idle /\ reqs[s].app = a
                 THEN [reqs[s] EXCEPT !.overtaken = TRUE] ELSE reqs[s]]

AdminDeleteApp(a) ==
  /\ a \in Registered
  /\ walk.reading => walk.deletes < MaxDeletes
  /\ apps' = [apps EXCEPT ![a] = NoApp]
  /\ walk' = IF walk.reading
             THEN [walk EXCEPT !.unseen = @ \ {a}, !.deletes = @ + 1] ELSE walk
  /\ reqs' = Overtaking(NoReq, a)
  /\ UNCHANGED clock

-----------------------------------------------------------------------------
(* AdminPatchApp. *)

Named(change) == {f \in Field : change[f] # Omitted}
ValidChange(change) ==
  /\ Named(change) # {}
  /\ "display_name" \in Named(change) => ValidName(change["display_name"])
  /\ "description" \in Named(change) => ValidDescription(change["description"])

NoChange == [f \in Field |-> Omitted]
\* An error forgets what was asked.
AnswerError(r, status) ==
  /\ reqs' = [reqs EXCEPT ![r].pc = "reply", ![r].status = status,
                          ![r].change = NoChange]
  /\ UNCHANGED <<apps, clock, walk>>

PatchRefuse(r) ==
  /\ reqs[r].pc = "check"
  /\ \/ ~ValidChange(reqs[r].change) /\ AnswerError(r, "bad_request")
     \/ /\ ValidChange(reqs[r].change) /\ reqs[r].app \notin Registered
        /\ AnswerError(r, "not_found")

\* The existence check is left out.
BadPatchCheck(r) ==
  /\ reqs[r].pc = "check" /\ ValidChange(reqs[r].change)
  /\ reqs' = [reqs EXCEPT ![r].pc = "update"]
  /\ UNCHANGED <<apps, clock, walk>>

PatchCheck(r) ==
  /\ reqs[r].pc = "check"
  /\ ValidChange(reqs[r].change) /\ reqs[r].app \in Registered
  /\ reqs' = [reqs EXCEPT ![r].pc = "update"]
  /\ UNCHANGED <<apps, clock, walk>>

\* SET names both columns, whatever the body omits.
BadPatched(row, change) ==
  [row EXCEPT !.display_name = change["display_name"],
              !.description = change["description"]]

Patched(row, change) ==
  [row EXCEPT
     !.display_name = IF change["display_name"] = Omitted THEN @
                      ELSE change["display_name"],
     !.description = IF change["description"] = Omitted THEN @
                     ELSE change["description"]]

\* UPDATE: no error if there is no such row.
PatchUpdate(r) ==
  LET q == reqs[r] IN
  /\ q.pc = "update"
  /\ IF q.app \in Registered
     THEN /\ apps' = [apps EXCEPT ![q.app] = Patched(@, q.change)]
          /\ reqs' = [Overtaking(r, q.app) EXCEPT ![r].pc = "reread"]
     ELSE /\ UNCHANGED apps
          /\ reqs' = [reqs EXCEPT ![r].pc = "reread"]
  /\ UNCHANGED <<clock, walk>>

PatchReread(r) ==
  /\ reqs[r].pc = "reread"
  /\ IF reqs[r].app \in Registered
     THEN /\ reqs' = [reqs EXCEPT ![r].pc = "reply", ![r].status = "ok"]
          /\ UNCHANGED <<apps, clock, walk>>
     ELSE AnswerError(r, "internal")

\* A statement fails; an update before it stays.
DbError(r) == reqs[r].pc \in Patching /\ AnswerError(r, "internal")

SendPatch(r) ==
  /\ reqs[r] = Idle
  /\ \E a \in App, change \in Change :
       reqs' = [reqs EXCEPT ![r] =
         [pc |-> "check", app |-> a, change |-> change,
          status |-> "none", overtaken |-> FALSE]]
  /\ UNCHANGED <<apps, clock, walk>>

\* The answer is delivered, or the client goes away and the request stops.
Finish(r) ==
  /\ reqs[r] # Idle
  /\ reqs' = [reqs EXCEPT ![r] = Idle]
  /\ UNCHANGED <<apps, clock, walk>>

-----------------------------------------------------------------------------
(* ListApps, AdminListApps and a client that pages through them. *)

\* ORDER BY created_at DESC: an index scan, backwards by created_at, rowid.
Before(a, b) ==
  \/ apps[a].at > apps[b].at
  \/ apps[a].at = apps[b].at /\ apps[a].rowid > apps[b].rowid
Position(b) == Cardinality({a \in Registered : Before(a, b)})

\* The limit in force, which the answer reports.
PageSize(limit) == IF limit <= 0 \/ limit > MaxLimit THEN DefaultLimit ELSE limit

\* OFFSET counts from one.
BadPage(offset, size) == {a \in Registered : Position(a) \in offset + 1 .. offset + size}

\* LIMIT ? OFFSET ?
Page(offset, size) == {a \in Registered : Position(a) \in offset .. offset + size - 1}

StartWalk ==
  /\ ~walk.reading
  /\ walk' = [NoWalk EXCEPT !.reading = TRUE, !.unseen = Registered]
  /\ UNCHANGED <<apps, clock, reqs>>

\* The next page, under any limit.  By the limit the answer reports, a page that
\* is not full is the last.
ReadPage ==
  /\ walk.reading
  /\ \E limit \in Limits :
       LET size == PageSize(limit)
           page == Page(walk.offset, size)
       IN walk' = IF Cardinality(page) = size
                  THEN [walk EXCEPT !.unseen = @ \ page, !.offset = @ + size]
                  ELSE [walk EXCEPT !.unseen = @ \ page, !.offset = 0, !.reading = FALSE]
  /\ UNCHANGED <<apps, clock, reqs>>

Tick ==
  /\ \E t \in Time : clock' = t
  /\ UNCHANGED <<apps, reqs, walk>>

Next ==
  \/ \E a \in App : AdminDeleteApp(a)
  \/ \E a \in App, name, description \in NewText : AdminCreateApp(a, name, description)
  \/ \E r \in Req :
       \/ SendPatch(r) \/ PatchRefuse(r) \/ PatchCheck(r) \/ PatchUpdate(r)
       \/ PatchReread(r) \/ DbError(r) \/ Finish(r)
  \/ StartWalk \/ ReadPage \/ Tick

Spec == Init /\ [][Next]_vars

-----------------------------------------------------------------------------
(* What they promise. *)

\* Paging by offset over a registry that changes: of the apps registered all
\* the time a finished walk misses at most one per app deleted meanwhile,
\* whatever is created, patched or timed in any way, and whatever limit it asks
\* for, if it goes by the limit the answer reports (apps.go:16-19, 49).
WalkMissesFew ==
  ~walk.reading => Cardinality(walk.unseen) <= walk.deletes

\* A patch acknowledged with 200 is in the row it named, field by field, if
\* nobody deleted the app or patched it in the meantime: the check before the
\* UPDATE leaves no other way to affect no row (admin.go:192 "surface 404
\* cleanly rather than 0-rows-affected silence").
AcknowledgedPatchShows ==
  \A r \in Req :
    LET q == reqs[r] IN
    q # Idle /\ q.pc = "reply" /\ q.status = "ok" /\ ~q.overtaken
    => q.app \in Registered
       /\ \A f \in Named(q.change) : apps[q.app][f] = q.change[f]
=============================================================================
