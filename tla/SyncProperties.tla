---------------------------- MODULE SyncProperties ----------------------------
(***************************************************************************)
(* What the sync service promises, over the state of SyncServer.           *)
(***************************************************************************)
EXTENDS SyncServer

\* Foreign keys: no token, configuration or history row outlives the
\* registration of its app, however requests that authenticated before the
\* app was deleted interleave with AdminDeleteApp (schema.sql ON DELETE
\* CASCADE, admin.go:224 "wipes all per-user data for this app atomically").
CascadeIntegrity ==
  /\ \A t \in tokens : t.pair[2] \in apps
  /\ \A p \in Pair : configs[p] # Absent => p[2] \in apps
  /\ \A h \in history : h.pair[2] \in apps

\* A user has at most one token per app and no more tokens than the limit,
\* whatever CreateAppToken requests of theirs run at once (me.go:56 "so the
\* quota check is race-free").
TokensBounded ==
  /\ \A s, t \in tokens : s.pair = t.pair => s = t
  /\ \A u \in User : TokensOf(u) = {} \/ Cardinality(TokensOf(u)) <= UserAppTokenLimit

\* The tokens that authenticate are exactly those granted and not revoked
\* since, each for the pair it was granted for.
LiveTokensHaveRows ==
  /\ {t.hash : t \in tokens} = {h \in Token : fate[h].state = "live"}
  /\ \A t \in tokens : t.pair = fate[t.hash].pair

\* A request sent with a token that was already replaced, revoked or wiped
\* never reaches a handler: it is answered 401 (500 if the lookup fails).
RevokedTokenRefused ==
  \A r \in Req :
    reqs[r].pc \in Serving \cup {"reply"} =>
      (reqs[r].revoked =>
         \/ reqs[r].pc = "auth"
         \/ reqs[r].pc = "reply" /\ reqs[r].status \in {"unauthorized", "internal"})

\* The bytes a user stores stay within the limit (sync.go:97 "total user
\* bytes after this write must stay under limit").
StoredBytes(u) ==
  SumFunctionOnSet([a \in App |-> Bytes[configs[<<u, a>>].payload]], RowsOf(u))
StorageWithinLimit ==
  \A u \in User : StoredBytes(u) = 0 \/ StoredBytes(u) <= UserStorageLimit

\* The history of a pair is its newest HISTORY_PER_APP accepted writes, one
\* row each with no gap, and its newest row is the current configuration
\* (sync.go:155 "keep the most recent HISTORY_PER_APP entries").
OldestKept(p) ==
  IF HistoryPerApp > 0 /\ configs[p].version > HistoryPerApp
  THEN configs[p].version - HistoryPerApp + 1 ELSE 1
HistoryIsNewest ==
  \A p \in Pair :
    /\ {h.version : h \in HistoryOf(p)} = OldestKept(p) .. configs[p].version
    /\ \A g, h \in HistoryOf(p) : g.version = h.version => g = h
    /\ \A h \in HistoryOf(p) :
         h.version = configs[p].version => h.payload = configs[p].payload

\* Every snapshot of a pair anywhere in the system: the current row, its
\* history, what devices hold, what requests carry and what answers bring.
SnapshotsOf(p) ==
  {Current(p)}
  \cup {[version |-> h.version, payload |-> h.payload, life |-> life[p]] :
          h \in HistoryOf(p)}
  \cup {base[d] : d \in {e \in Device : Owner[e] = p}}
  \cup UNION {{reqs[r].sent, reqs[r].answer} :
                r \in {s \in Req : reqs[s] # Idle /\ reqs[s].pair = p}}

\* Within one life of a row, a version number names one payload: no two
\* parties ever hold the same version with different contents.
SnapshotAgreement ==
  \A p \in Pair : \A s, t \in SnapshotsOf(p) :
    s.life = t.life /\ s.version = t.version => s.payload = t.payload

\* Of the writes that race on one version of one life at most one wins: no
\* two answers acknowledge the same new version, a device's retry included.
Acknowledges(r) ==
  reqs[r].pc = "reply" /\ reqs[r].op = "put" /\ reqs[r].status = "ok"
OneWinner ==
  \A r, s \in Req :
    /\ r # s /\ Acknowledges(r) /\ Acknowledges(s)
    /\ reqs[r].pair = reqs[s].pair /\ reqs[r].answer.life = reqs[s].answer.life
    => reqs[r].answer.version # reqs[s].answer.version

\* The step in which request r's PUT is accepted.
Accepted(r) ==
  /\ reqs[r].pc = "handle" /\ reqs[r].op = "put"
  /\ reqs'[r].pc = "reply" /\ reqs'[r].status = "ok"
SawWhatItReplaces(q) == q.sent.payload = configs[q.pair].payload

\* Optimistic locking: a write that is not forced replaces exactly the
\* payload its device had read, if the row was not deleted in between.
NoLostUpdate ==
  [][\A r \in Req :
       Accepted(r) /\ ~reqs[r].force /\ reqs[r].sent.life = life[reqs[r].pair]
       => SawWhatItReplaces(reqs[r])]_vars

\* A device never receives a snapshot older than the one it holds.
DeviceNeverGoesBack ==
  [][\A d \in Device :
       \/ base'[d].life > base[d].life
       \/ base'[d].life = base[d].life /\ base'[d].version >= base[d].version]_vars

\* A step that is not the deletion of an app changes the configuration or
\* the history of at most one pair: users and apps are isolated.
DataOf(p) == <<configs[p], HistoryOf(p)>>
Isolation ==
  [][\A p, q \in Pair :
       DataOf(p)' # DataOf(p) /\ DataOf(q)' # DataOf(q) => p = q \/ apps' # apps]_vars

\* Every request is answered, or dropped because nobody waits for it.
EveryRequestAnswered ==
  \A r \in Req : reqs[r].pc \in Serving ~> reqs[r].pc \notin Serving
=============================================================================
