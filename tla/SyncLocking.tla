------------------------------ MODULE SyncLocking ------------------------------
(***************************************************************************)
(* Optimistic locking, proved from the inductive invariant of              *)
(* SyncInvariant.  The argument: whatever snapshot of a pair exists        *)
(* anywhere in the system is not ahead of the row, so the version a write  *)
(* creates is new, names one payload and is acknowledged once.             *)
(***************************************************************************)
EXTENDS SyncProofs

(***************************************************************************)
(* What a step does to one pair.                                           *)
(***************************************************************************)

\* The row stays, moves to the next version, or begins another life.
RowStep(p) ==
  \/ configs'[p] = configs[p] /\ life'[p] = life[p]
  \/ life'[p] = life[p] /\ configs'[p].version = configs[p].version + 1
  \/ life'[p] = life[p] + 1 /\ configs'[p] = Absent

\* A row of the history was there in this life, or records the write.
HistoryStep(p) ==
  \A h \in HistoryOf(p)' :
    \/ h \in HistoryOf(p) /\ life'[p] = life[p]
    \/ /\ h.version = configs'[p].version /\ h.payload = configs'[p].payload
       /\ configs'[p].version = configs[p].version + 1

LEMMA PairUnchanged ==
  ASSUME NEW p \in Pair, UNCHANGED <<configs, history, life>>
  PROVE  RowStep(p) /\ HistoryStep(p)
BY DEF RowStep, HistoryStep, HistoryOf

LEMMA PairDeleted ==
  ASSUME TypeOK, NEW p \in Pair, NEW ps \in SUBSET Pair, DeleteRows(ps)
  PROVE  RowStep(p) /\ HistoryStep(p)
<1>1. CASE p \in ps
  <2>1. configs'[p] = Absent /\ HistoryOf(p)' = {}
    BY <1>1 DEF DeleteRows, HistoryOf
  <2>2. life'[p] = IF configs[p] # Absent THEN life[p] + 1 ELSE life[p]
    BY <1>1 DEF DeleteRows
  <2> QED BY <2>1, <2>2 DEF RowStep, HistoryStep
<1>2. CASE p \notin ps
  <2>1. configs'[p] = configs[p] /\ life'[p] = life[p] /\ HistoryOf(p)' = HistoryOf(p)
    BY <1>2 DEF DeleteRows, HistoryOf
  <2> QED BY <2>1 DEF RowStep, HistoryStep
<1> QED BY <1>1, <1>2

\* What the transaction of an accepted PUT does to its own pair.
LEMMA WriteEffect ==
  ASSUME TypeOK, NEW r \in Req, Writes(r)
  PROVE  /\ reqs[r].pair \in Pair
         /\ configs'[reqs[r].pair] = [version |-> configs[reqs[r].pair].version + 1,
                                      payload |-> reqs[r].payload]
         /\ \A p \in Pair : p # reqs[r].pair =>
              configs'[p] = configs[p] /\ HistoryOf(p)' = HistoryOf(p)
         /\ life' = life
         /\ reqs'[r].answer = Current(reqs[r].pair)'
         /\ reqs'[r].pair = reqs[r].pair
<1> DEFINE p == reqs[r].pair
           v == configs[p].version + 1
           row == [id |-> nextId, pair |-> p, version |-> v,
                   payload |-> reqs[r].payload, at |-> clock]
<1>1. p \in Pair /\ life' = life
  BY DEF Writes, PutCommit, WriteConfig
<1>2. configs' = [configs EXCEPT ![p] = [version |-> v, payload |-> reqs[r].payload]]
  BY DEF Writes, PutCommit, WriteConfig
<1>3. /\ reqs'[r].answer = [version |-> v, payload |-> reqs[r].payload, life |-> life[p]]
      /\ reqs'[r].pair = p
  BY DEF Writes, PutCommit, AnswerWith, TypeOK, Request
<1>4. history' = (history \ HistoryOf(p)) \cup Trimmed(HistoryOf(p) \cup {row})
  BY DEF Writes, PutCommit, WriteConfig
<1>5. Trimmed(HistoryOf(p) \cup {row}) \subseteq HistoryOf(p) \cup {row}
  BY DEF Trimmed, MostRecent
<1>6. ASSUME NEW q \in Pair, q # p PROVE HistoryOf(q)' = HistoryOf(q)
  BY <1>4, <1>5, <1>6 DEF HistoryOf
<1>7. configs \in [Pair -> ConfigRow]
  BY DEF TypeOK, StoreTypeOK
<1> QED BY <1>1, <1>2, <1>3, <1>6, <1>7 DEF Current

LEMMA WriteHistory ==
  ASSUME TypeOK, NEW r \in Req, Writes(r), NEW p \in Pair, p = reqs[r].pair
  PROVE  RowStep(p) /\ HistoryStep(p)
<1> DEFINE row == [id |-> nextId, pair |-> p, version |-> configs[p].version + 1,
                   payload |-> reqs[r].payload, at |-> clock]
<1>1. history' = (history \ HistoryOf(p)) \cup Trimmed(HistoryOf(p) \cup {row})
  BY DEF Writes, PutCommit, WriteConfig
<1>2. Trimmed(HistoryOf(p) \cup {row}) \subseteq HistoryOf(p) \cup {row}
  BY DEF Trimmed, MostRecent
<1>3. \A h \in HistoryOf(p)' : h \in HistoryOf(p) \/ h = row
  BY <1>1, <1>2 DEF HistoryOf
<1>a. /\ configs'[p] = [version |-> configs[p].version + 1, payload |-> reqs[r].payload]
      /\ life' = life
  BY WriteEffect
<1>4. /\ configs'[p].version = configs[p].version + 1
      /\ configs'[p].payload = reqs[r].payload /\ life'[p] = life[p]
  BY <1>a
<1> QED BY <1>3, <1>4 DEF RowStep, HistoryStep

LEMMA PairStep ==
  ASSUME TypeOK, NEW p \in Pair, [Next]_vars
  PROVE  RowStep(p) /\ HistoryStep(p)
<1>1. CASE UNCHANGED <<configs, history, life>>
  BY <1>1, PairUnchanged
<1>2. ASSUME NEW r \in Req, Writes(r) PROVE RowStep(p) /\ HistoryStep(p)
  <2>1. CASE p = reqs[r].pair
    BY <1>2, <2>1, WriteHistory
  <2>2. CASE p # reqs[r].pair
    BY <1>2, <2>2, WriteEffect DEF RowStep, HistoryStep
  <2> QED BY <2>1, <2>2
<1>3. ASSUME NEW u \in User, NEW prefix, DeleteAppToken(u, prefix)
      PROVE  UNCHANGED <<configs, history, life>>
  BY <1>3 DEF DeleteAppToken, DeleteTokens
<1>4. ASSUME NEW q \in Pair, DeleteAppData(q) PROVE RowStep(p) /\ HistoryStep(p)
  BY <1>4, PairDeleted DEF DeleteAppData, WipePair
<1>5. ASSUME NEW a \in App, AdminDeleteApp(a) PROVE RowStep(p) /\ HistoryStep(p)
  <2>1. User \X {a} \in SUBSET Pair
    BY DEF Pair
  <2> QED BY <1>5, <2>1, PairDeleted DEF AdminDeleteApp, DeleteApp
<1>6. ASSUME NEW a \in App, AdminCreateApp(a) PROVE UNCHANGED <<configs, history, life>>
  BY <1>6 DEF AdminCreateApp, InsertApp
<1>7. ASSUME NEW r \in Req, Touch(r) \/ TokenCommit(r)
      PROVE  UNCHANGED <<configs, history, life>>
  BY <1>7 DEF Touch, TouchToken, TokenCommit, ReplaceToken
<1>8. UNCHANGED <<storeVars, fate>> => UNCHANGED <<configs, history, life>>
  BY DEF storeVars
<1> QED BY <1>1, <1>2, <1>3, <1>4, <1>5, <1>6, <1>7, <1>8, StoreCases DEF AdminNext

(***************************************************************************)
(* Where the snapshots of a pair come from.                                *)
(***************************************************************************)

LEMMA WaitingStep ==
  ASSUME TypeOK, RowsAreLive, RequestsCarryTokens, WaitingForOwn, [Next]_vars
  PROVE  WaitingForOwn'
<1> SUFFICES ASSUME NEW d \in Device, waiting'[d] # NoReq
             PROVE  /\ reqs'[waiting'[d]] # Idle /\ reqs'[waiting'[d]].op # "token"
                    /\ reqs'[waiting'[d]].pair = Owner[d]
  BY DEF WaitingForOwn
<1>0. /\ NoReq \notin Req /\ waiting \in [Device -> Req \cup {NoReq}]
      /\ reqs \in [Req -> Request \cup {Idle}]
  BY ServerAssumption DEF TypeOK
<1>1. ASSUME waiting'[d] = waiting[d], reqs'[waiting[d]] = reqs[waiting[d]]
      PROVE  /\ reqs'[waiting'[d]] # Idle /\ reqs'[waiting'[d]].op # "token"
             /\ reqs'[waiting'[d]].pair = Owner[d]
  BY <1>1 DEF WaitingForOwn
<1>2. CASE UNCHANGED <<reqs, waiting>>
  BY <1>1, <1>2
<1>3. ASSUME NEW r \in Req, Serve(r) \/ DbError(r)
      PROVE  /\ reqs'[waiting'[d]] # Idle /\ reqs'[waiting'[d]].op # "token"
             /\ reqs'[waiting'[d]].pair = Owner[d]
  <2>1. waiting' = waiting
    BY <1>3 DEF Serve, DbError, AuthReject, AuthForbid, AuthPass, Touch, HandleGet,
       PutRejectBody, PutOverQuota, PutConflict, PutForeignKey, PutCommit,
       TokenCheckApp, TokenRefuse, TokenCommit, ReqOnly
  <2>2. /\ Moves(r) /\ reqs'[r].pair = reqs[r].pair
    BY <1>3, ServeMoves
  <2>3. CASE waiting[d] = r
    <3>1. reqs'[r] # Idle
      BY <2>2 DEF Moves, Request, Idle, Serving
    <3> QED BY <2>1, <2>2, <2>3, <3>1 DEF Moves, WaitingForOwn
  <2>4. CASE waiting[d] # r
    BY <1>0, <1>1, <2>1, <2>2, <2>4 DEF Moves
  <2> QED BY <2>3, <2>4
<1>4. ASSUME NEW r \in Req, NEW e \in Device, NEW op \in {"get", "put"}, NEW h,
             NEW payload, NEW force, Send(r, e, op, h, payload, force)
      PROVE  /\ reqs'[waiting'[d]] # Idle /\ reqs'[waiting'[d]].op # "token"
             /\ reqs'[waiting'[d]].pair = Owner[d]
  <2>1. CASE d = e
    BY <1>0, <1>4, <2>1 DEF Send, Idle
  <2>2. CASE d # e
    <3>1. waiting'[d] = waiting[d] /\ waiting[d] # r
      BY <1>0, <1>4, <2>2 DEF Send, WaitingForOwn
    <3> QED BY <1>0, <1>1, <1>4, <3>1 DEF Send
  <2> QED BY <2>1, <2>2
<1>5. ASSUME NEW r \in Req, NEW p \in Pair, SendCreateToken(r, p)
      PROVE  /\ reqs'[waiting'[d]] # Idle /\ reqs'[waiting'[d]].op # "token"
             /\ reqs'[waiting'[d]].pair = Owner[d]
  <2>1. waiting'[d] = waiting[d] /\ waiting[d] # r
    BY <1>5 DEF SendCreateToken, WaitingForOwn
  <2> QED BY <1>0, <1>1, <1>5, <2>1 DEF SendCreateToken
<1>6. ASSUME NEW r \in Req, Cancel(r) \/ Deliver(r)
      PROVE  /\ reqs'[waiting'[d]] # Idle /\ reqs'[waiting'[d]].op # "token"
             /\ reqs'[waiting'[d]].pair = Owner[d]
  <2>1. waiting'[d] = waiting[d] /\ waiting[d] # r
    BY <1>0, <1>6 DEF Cancel, Deliver
  <2>2. \A s \in Req : s # r => reqs'[s] = reqs[s]
    BY <1>0, <1>6 DEF Cancel, Deliver
  <2> QED BY <1>0, <1>1, <2>1, <2>2
<1>7. ASSUME NEW e \in Device, GiveUp(e)
      PROVE  /\ reqs'[waiting'[d]] # Idle /\ reqs'[waiting'[d]].op # "token"
             /\ reqs'[waiting'[d]].pair = Owner[d]
  BY <1>0, <1>1, <1>7 DEF GiveUp
<1>8. ~Crash
  BY <1>0 DEF Crash
<1>9. Tick => UNCHANGED <<reqs, waiting>>
  BY DEF Tick
<1>10. AdminNext => UNCHANGED <<reqs, waiting>>
  BY DEF AdminNext, DeleteAppToken, DeleteAppData, AdminDeleteApp, AdminCreateApp,
     Deletion, serverVars
<1>11. UNCHANGED vars => UNCHANGED <<reqs, waiting>>
  BY DEF vars, serverVars
<1>12. ASSUME NEW r \in Req, NEW e \in Device, SendGet(r, e) \/ SendPut(r, e)
       PROVE  /\ reqs'[waiting'[d]] # Idle /\ reqs'[waiting'[d]].op # "token"
              /\ reqs'[waiting'[d]].pair = Owner[d]
  BY <1>4, <1>12 DEF SendGet, SendPut
<1> QED BY <1>2, <1>3, <1>5, <1>6, <1>7, <1>8, <1>9, <1>10, <1>11, <1>12, NextCases
        DEF EnvNext

LEMMA HistoryOfRowStep ==
  ASSUME TypeOK, HistoryOfRow, [Next]_vars
  PROVE  HistoryOfRow'
<1> SUFFICES ASSUME NEW p \in Pair, NEW h \in HistoryOf(p)'
             PROVE  h.version \in 1 .. configs'[p].version
  BY DEF HistoryOfRow
<1>1. RowStep(p) /\ HistoryStep(p)
  BY PairStep
<1>2. configs[p].version \in Nat /\ life[p] \in Nat
  BY DEF TypeOK, StoreTypeOK, ConfigRow
<1>3. CASE h \in HistoryOf(p) /\ life'[p] = life[p]
  BY <1>1, <1>2, <1>3 DEF HistoryOfRow, RowStep
<1>4. CASE /\ h.version = configs'[p].version
           /\ configs'[p].version = configs[p].version + 1
  BY <1>2, <1>4
<1> QED BY <1>1, <1>3, <1>4 DEF HistoryStep

\* A device's snapshot is one it held or the answer to a request of its pair.
LEMMA BaseStep ==
  ASSUME TypeOK, WaitingForOwn, NEW d \in Device, [Next]_vars
  PROVE  \/ base'[d] = base[d]
         \/ \E r \in Req : /\ reqs[r] # Idle /\ reqs[r].pair = Owner[d]
                          /\ waiting[d] = r /\ reqs[r].pc = "reply"
                          /\ reqs[r].status \in {"ok", "conflict"}
                          /\ base'[d] = reqs[r].answer
<1>1. ASSUME NEW r \in Req, Deliver(r)
      PROVE  \/ base'[d] = base[d]
             \/ /\ reqs[r] # Idle /\ reqs[r].pair = Owner[d]
                /\ waiting[d] = r /\ reqs[r].pc = "reply"
                /\ reqs[r].status \in {"ok", "conflict"}
                /\ base'[d] = reqs[r].answer
  <2>1. CASE waiting[d] = r /\ reqs[r].status \in {"ok", "conflict"}
    BY <1>1, <2>1, ServerAssumption DEF Deliver, Receive, WaitingForOwn
  <2>2. CASE ~(waiting[d] = r /\ reqs[r].status \in {"ok", "conflict"})
    BY <1>1, <2>2 DEF Deliver, Receive
  <2> QED BY <2>1, <2>2
<1>2. ASSUME NEW r \in Req, Serve(r) \/ DbError(r) \/ Cancel(r)
      PROVE  base' = base
  BY <1>2 DEF Serve, DbError, AuthReject, AuthForbid, AuthPass, Touch, HandleGet,
     PutRejectBody, PutOverQuota, PutConflict, PutForeignKey, PutCommit,
     TokenCheckApp, TokenRefuse, TokenCommit, ReqOnly, Cancel
<1>3. ASSUME NEW r \in Req, Sends(r) PROVE base' = base
  BY <1>3 DEF Sends, Send, SendCreateToken
<1>4. AdminNext => base' = base
  BY DEF AdminNext, DeleteAppToken, DeleteAppData, AdminDeleteApp, AdminCreateApp,
     Deletion, serverVars
<1>5. (\E e \in Device : GiveUp(e)) \/ Crash \/ Tick \/ UNCHANGED vars => base' = base
  BY DEF GiveUp, Crash, Tick, vars, serverVars
<1>6. ASSUME NEW r \in Req, NEW e \in Device, SendGet(r, e) \/ SendPut(r, e)
      PROVE  base' = base
  BY <1>6 DEF SendGet, SendPut, Send
<1>7. ASSUME NEW r \in Req, NEW p \in Pair, SendCreateToken(r, p) PROVE base' = base
  BY <1>7 DEF SendCreateToken
<1> QED BY <1>1, <1>2, <1>4, <1>5, <1>6, <1>7, NextCases DEF EnvNext

\* What a request carries after a step it carried before, or it is what its
\* device holds, what its pair's row holds now, or nothing.
LEMMA RequestStep ==
  ASSUME TypeOK, RowsAreLive, RequestsCarryTokens, [Next]_vars,
         NEW r \in Req, reqs'[r] # Idle
  PROVE  \/ /\ reqs[r] # Idle /\ reqs'[r].pair = reqs[r].pair
            /\ reqs'[r].sent = reqs[r].sent
            /\ reqs'[r].answer \in {reqs[r].answer, NoSnapshot,
                                    Current(reqs[r].pair), Current(reqs[r].pair)'}
         \/ /\ reqs'[r].answer = NoSnapshot
            /\ \/ reqs'[r].sent = NoSnapshot
               \/ \E d \in Device : Owner[d] = reqs'[r].pair /\ reqs'[r].sent = base[d]
<1>1. ASSUME NEW s \in Req, Serve(s) \/ DbError(s)
      PROVE  /\ reqs[r] # Idle /\ reqs'[r].pair = reqs[r].pair
             /\ reqs'[r].sent = reqs[r].sent
             /\ reqs'[r].answer \in {reqs[r].answer, NoSnapshot,
                                     Current(reqs[r].pair), Current(reqs[r].pair)'}
  <2>1. /\ Moves(s) /\ reqs'[s].pair = reqs[s].pair
        /\ \/ reqs'[s].answer \in {reqs[s].answer, NoSnapshot, Current(reqs[s].pair)}
           \/ PutCommit(s)
    BY <1>1, ServeMoves
  <2>2. reqs[s] # Idle
    BY <1>1, BusyIsRequest DEF Serve, DbError, AuthReject, AuthForbid, AuthPass, Touch,
       HandleGet, At, PutRejectBody, PutOverQuota, PutConflict, PutForeignKey,
       PutCommit, TokenCheckApp, TokenRefuse, TokenCommit, Serving, Idle
  <2>3. PutCommit(s) => reqs'[s].answer = Current(reqs[s].pair)'
    <3> SUFFICES ASSUME PutCommit(s) PROVE reqs'[s].answer = Current(reqs[s].pair)'
      OBVIOUS
    <3>1. Writes(s)
      BY BusyIsRequest, <2>1 DEF Writes, PutCommit, At, Request, TypeOK, Idle, Moves
    <3> QED BY <3>1, WriteEffect
  <2>4. CASE r = s
    BY <2>1, <2>2, <2>3, <2>4 DEF Moves
  <2>5. CASE r # s
    BY <2>1, <2>5 DEF Moves
  <2> QED BY <2>4, <2>5
<1>2. ASSUME NEW s \in Req, Sends(s), r # s
      PROVE  reqs'[r] = reqs[r]
  BY <1>2 DEF Sends, Send, SendCreateToken, TypeOK
<1>3. ASSUME Sends(r)
      PROVE  /\ reqs'[r].answer = NoSnapshot
             /\ \/ reqs'[r].sent = NoSnapshot
                \/ \E d \in Device : Owner[d] = reqs'[r].pair /\ reqs'[r].sent = base[d]
  <2>1. ASSUME NEW d \in Device, NEW op, NEW h, NEW payload, NEW force,
               Send(r, d, op, h, payload, force)
        PROVE  /\ reqs'[r].answer = NoSnapshot /\ reqs'[r].sent = base[d]
               /\ reqs'[r].pair = Owner[d]
    BY <2>1 DEF Send, TypeOK
  <2>2. ASSUME NEW p \in Pair, SendCreateToken(r, p)
        PROVE  reqs'[r].answer = NoSnapshot /\ reqs'[r].sent = NoSnapshot
    BY <2>2 DEF SendCreateToken, TypeOK
  <2> QED BY <1>3, <2>1, <2>2 DEF Sends
<1> QED BY <1>1, <1>2, <1>3, RequestCases

(***************************************************************************)
(* Snapshots.                                                              *)
(***************************************************************************)

\* SnapshotsOf, one source at a time.
OfHistory(p, s) ==
  \E h \in HistoryOf(p) :
    s = [version |-> h.version, payload |-> h.payload, life |-> life[p]]
OfDevice(p, s) == \E d \in Device : Owner[d] = p /\ s = base[d]
OfRequest(p, s) ==
  \E r \in Req : /\ reqs[r] # Idle /\ reqs[r].pair = p
               /\ s \in {reqs[r].sent, reqs[r].answer}

LEMMA SnapshotSources ==
  \A p \in Pair : \A s :
    s \in SnapshotsOf(p) <=>
      s = Current(p) \/ OfHistory(p, s) \/ OfDevice(p, s) \/ OfRequest(p, s)
BY DEF SnapshotsOf, OfHistory, OfDevice, OfRequest

\* The only new snapshot of a step is that of the row after it.
LEMMA NewSnapshots ==
  ASSUME TypeOK, RowsAreLive, RequestsCarryTokens, WaitingForOwn, [Next]_vars,
         NEW p \in Pair, NEW s \in SnapshotsOf(p)'
  PROVE  s \in SnapshotsOf(p) \cup {NoSnapshot, Current(p)'}
<1>0. s = Current(p)' \/ OfHistory(p, s)' \/ OfDevice(p, s)' \/ OfRequest(p, s)'
  BY DEF SnapshotsOf, OfHistory, OfDevice, OfRequest
<1>1. CASE OfHistory(p, s)'
  <2>1. PICK h \in HistoryOf(p)' :
          s = [version |-> h.version, payload |-> h.payload, life |-> life'[p]]
    BY <1>1 DEF OfHistory
  <2>2. CASE h \in HistoryOf(p) /\ life'[p] = life[p]
    BY <2>1, <2>2, SnapshotSources DEF OfHistory
  <2>3. CASE h.version = configs'[p].version /\ h.payload = configs'[p].payload
    BY <2>1, <2>3 DEF Current
  <2> QED BY <2>2, <2>3, PairStep DEF HistoryStep
<1>2. CASE OfDevice(p, s)'
  <2>1. PICK d \in Device : Owner[d] = p /\ s = base'[d]
    BY <1>2 DEF OfDevice
  <2>2. OfDevice(p, s) \/ OfRequest(p, s)
    BY <2>1, BaseStep DEF OfDevice, OfRequest
  <2> QED BY <2>2, SnapshotSources
<1>3. CASE OfRequest(p, s)'
  <2>1. PICK r \in Req : /\ reqs'[r] # Idle /\ reqs'[r].pair = p
                        /\ s \in {reqs'[r].sent, reqs'[r].answer}
    BY <1>3 DEF OfRequest
  <2>2. CASE /\ reqs[r] # Idle /\ reqs'[r].pair = reqs[r].pair
             /\ reqs'[r].sent = reqs[r].sent
             /\ reqs'[r].answer \in {reqs[r].answer, NoSnapshot,
                                     Current(reqs[r].pair), Current(reqs[r].pair)'}
    <3>1. reqs[r].pair = p /\ Current(reqs[r].pair)' = Current(p)'
      BY <2>1, <2>2 DEF Current
    <3> QED BY <2>1, <2>2, <3>1, SnapshotSources DEF OfRequest
  <2>3. CASE /\ reqs'[r].answer = NoSnapshot
             /\ \/ reqs'[r].sent = NoSnapshot
                \/ \E d \in Device : Owner[d] = reqs'[r].pair /\ reqs'[r].sent = base[d]
    BY <2>1, <2>3, SnapshotSources DEF OfDevice
  <2> QED BY <2>1, <2>2, <2>3, RequestStep
<1> QED BY <1>0, <1>1, <1>2, <1>3

Known(p, s) == NotAhead(p, s) /\ (s.version = 0 => s.payload = NoPayload)
Agree(s, t) == s.life = t.life /\ s.version = t.version => s.payload = t.payload

LEMMA SnapshotFields ==
  ASSUME TypeOK, NEW p \in Pair
  PROVE  /\ configs[p].version \in Nat /\ life[p] \in Nat
         /\ Current(p).version = configs[p].version
         /\ Current(p).payload = configs[p].payload /\ Current(p).life = life[p]
         /\ Current(p) \in SnapshotsOf(p)
         /\ NoSnapshot.version = 0 /\ NoSnapshot.payload = NoPayload
         /\ NoSnapshot.life = 0
         /\ Absent.version = 0 /\ Absent.payload = NoPayload
BY DEF TypeOK, StoreTypeOK, ConfigRow, Current, SnapshotsOf, NoSnapshot, Absent

LEMMA SnapshotsTyped ==
  ASSUME TypeOK, NEW p \in Pair, NEW s \in SnapshotsOf(p)
  PROVE  s.version \in Nat /\ s.life \in Nat
<1>1. s \in Snapshot
  <2>1. CASE s = Current(p)
    BY <2>1, CurrentTyped
  <2>2. CASE OfHistory(p, s)
    BY <2>2 DEF OfHistory, HistoryOf, TypeOK, StoreTypeOK, HistoryRow, Snapshot
  <2>3. CASE OfDevice(p, s)
    BY <2>3 DEF OfDevice, TypeOK
  <2>4. CASE OfRequest(p, s)
    BY <2>4 DEF OfRequest, TypeOK, Request
  <2> QED BY <2>1, <2>2, <2>3, <2>4, SnapshotSources
<1> QED BY <1>1 DEF Snapshot

\* NotAhead and agreement are kept: the next version is ahead of every
\* snapshot there is, and another life is ahead of all of this one.
LEMMA SnapshotStep ==
  ASSUME TypeOK, TypeOK', RowsAreLive, RequestsCarryTokens, WaitingForOwn,
         SnapshotsNotAhead, SnapshotAgreement, [Next]_vars
  PROVE  SnapshotsNotAhead' /\ SnapshotAgreement'
<1> SUFFICES ASSUME NEW p \in Pair, NEW s \in SnapshotsOf(p)', NEW t \in SnapshotsOf(p)'
             PROVE  Known(p, s)' /\ Agree(s, t)
  BY DEF SnapshotsNotAhead, SnapshotAgreement, Known, Agree
<1>1. /\ s \in SnapshotsOf(p) \cup {NoSnapshot, Current(p)'}
      /\ t \in SnapshotsOf(p) \cup {NoSnapshot, Current(p)'}
  BY NewSnapshots
<1>2. RowStep(p)
  BY PairStep
<1>3. /\ configs[p].version \in Nat /\ life[p] \in Nat
      /\ Current(p).version = configs[p].version
      /\ Current(p).payload = configs[p].payload /\ Current(p).life = life[p]
      /\ Current(p) \in SnapshotsOf(p)
      /\ NoSnapshot.version = 0 /\ NoSnapshot.payload = NoPayload
      /\ NoSnapshot.life = 0
      /\ Absent.version = 0 /\ Absent.payload = NoPayload
  BY SnapshotFields
<1>4. /\ Current(p)'.version = configs'[p].version
      /\ Current(p)'.payload = configs'[p].payload /\ Current(p)'.life = life'[p]
      /\ configs'[p].version \in Nat /\ life'[p] \in Nat
  BY DEF Current, TypeOK, StoreTypeOK, ConfigRow
<1>5. \A u \in SnapshotsOf(p) : Known(p, u) /\ u.version \in Nat /\ u.life \in Nat
  BY SnapshotsTyped DEF SnapshotsNotAhead, Known
<1>6. \A u, v \in SnapshotsOf(p) : Agree(u, v)
  BY DEF SnapshotAgreement, Agree
<1>7. ASSUME NEW u \in SnapshotsOf(p) \cup {NoSnapshot}
      PROVE  /\ Known(p, u) /\ u.version \in Nat /\ u.life \in Nat
             /\ \A v \in SnapshotsOf(p) \cup {NoSnapshot} : Agree(u, v)
  BY <1>3, <1>5, <1>6 DEF Known, NotAhead, Agree
<1>8. CASE configs'[p] = configs[p] /\ life'[p] = life[p]
  <2>1. Current(p)' = Current(p)
    BY <1>8 DEF Current
  <2>2. s \in SnapshotsOf(p) \cup {NoSnapshot} /\ t \in SnapshotsOf(p) \cup {NoSnapshot}
    BY <1>1, <1>3, <2>1
  <2> QED BY <1>7, <1>8, <2>2 DEF Known, NotAhead
<1>9. CASE life'[p] = life[p] /\ configs'[p].version = configs[p].version + 1
  BY <1>1, <1>3, <1>4, <1>7, <1>9 DEF Known, NotAhead, Agree
<1>10. CASE life'[p] = life[p] + 1 /\ configs'[p] = Absent
  BY <1>1, <1>3, <1>4, <1>7, <1>10 DEF Known, NotAhead, Agree
<1> QED BY <1>2, <1>8, <1>9, <1>10 DEF RowStep

(***************************************************************************)
(* The inductive invariant holds.                                          *)
(***************************************************************************)
LEMMA InitInvariant == Init => IInv
<1> SUFFICES ASSUME Init PROVE IInv
  OBVIOUS
<1>1. TypeOK
  BY InitTyped
<1>2. CascadeIntegrity /\ LiveTokensHaveRows /\ RequestsCarryTokens /\ HistoryOfRow
  BY DEF Init, StoreInit, CascadeIntegrity, LiveTokensHaveRows, RequestsCarryTokens,
         HistoryOfRow, HistoryOf
<1>3. WaitingForOwn
  BY DEF Init, WaitingForOwn
<1>4. \A p \in Pair : \A s \in SnapshotsOf(p) : s = NoSnapshot
  BY DEF Init, StoreInit, SnapshotsOf, HistoryOf, Current, NoSnapshot, Absent
<1>5. \A p \in Pair : NotAhead(p, NoSnapshot)
  BY DEF Init, StoreInit, NotAhead, NoSnapshot, Absent
<1>6. NoSnapshot.payload = NoPayload
  BY DEF NoSnapshot
<1>7. SnapshotsNotAhead /\ SnapshotAgreement
  BY <1>4, <1>5, <1>6 DEF SnapshotsNotAhead, SnapshotAgreement
<1> QED BY <1>1, <1>2, <1>3, <1>7 DEF IInv

LEMMA NextInvariant == IInv /\ [Next]_vars => IInv'
<1> SUFFICES ASSUME IInv, [Next]_vars PROVE IInv'
  OBVIOUS
<1>1. TypeOK'
  BY NextTyped DEF IInv
<1>2. RowsAreLive
  BY RowsAreLiveEquiv DEF IInv, TypeOK
<1>3. LiveTokensHaveRows'
  <2>1. StoreTypeOK' => (LiveTokensHaveRows' <=> RowsAreLive')
    BY RowsAreLiveEquiv, PTL
  <2> QED BY <1>1, <1>2, <2>1, LiveTokensStep DEF IInv, TypeOK
<1> QED BY <1>1, <1>2, <1>3, CascadeStep, CarriesStep, WaitingStep, HistoryOfRowStep,
           SnapshotStep DEF IInv

\* The strengthening that carries the properties below.
THEOREM InvariantHolds == Spec => []IInv
BY InitInvariant, NextInvariant, PTL DEF Spec

\* Within one life of a row a version names one payload, in the table, its
\* history, every request and every device, for any number of them.
THEOREM SnapshotsAgree == Spec => []SnapshotAgreement
<1>1. IInv => SnapshotAgreement
  BY DEF IInv
<1> QED BY <1>1, InvariantHolds, PTL

(***************************************************************************)
(* Accepted writes.                                                        *)
(***************************************************************************)
LEMMA AcceptedIsCommit ==
  ASSUME IInv, [Next]_vars, NEW r \in Req, Accepted(r)
  PROVE  PutCommit(r)
<1>1. /\ TypeOK /\ RowsAreLive /\ RequestsCarryTokens
      /\ reqs \in [Req -> Request \cup {Idle}]
  BY RowsAreLiveEquiv DEF IInv, TypeOK
<1>2. /\ reqs[r].pc = "handle" /\ reqs[r].op = "put"
      /\ reqs'[r].pc = "reply" /\ reqs'[r].status = "ok"
  BY DEF Accepted
<1>3. ~(reqs'[r] \in {reqs[r], Idle})
  BY <1>2 DEF Idle
<1>4. ASSUME NEW s \in Req, Sends(s) PROVE FALSE
  <2>0. reqs[s] = Idle
    BY <1>4 DEF Sends, Send, SendCreateToken
  <2>1. CASE s = r
    BY <1>2, <2>0, <2>1 DEF Idle
  <2>2. CASE s # r
    BY <1>1, <1>3, <1>4, <2>2 DEF Sends, Send, SendCreateToken
  <2> QED BY <2>1, <2>2
<1>5. ASSUME NEW s \in Req, Serve(s) \/ DbError(s) PROVE s = r
  BY <1>1, <1>3, <1>5, ServeMoves DEF Moves
<1>6. \A status : Answer(r, status) => reqs'[r].status = status
  BY <1>1, <1>2 DEF Answer, AnswerWith, Idle, Request
<1>7. Serve(r) \/ DbError(r)
  BY <1>1, <1>3, <1>4, <1>5, RequestCases
<1>8. ~DbError(r)
  BY <1>2, <1>6 DEF DbError, Goto
<1>9. \A s : AnswerWith(r, "conflict", s) => reqs'[r].status = "conflict"
  BY <1>1, <1>2 DEF AnswerWith, Idle, Request
<1> QED BY <1>2, <1>6, <1>7, <1>8, <1>9
        DEF Serve, AuthReject, AuthForbid, AuthPass, Touch, HandleGet, At,
            PutRejectBody, PutOverQuota, PutConflict, PutForeignKey,
            TokenCheckApp, TokenRefuse, TokenCommit

\* A write that is not forced replaces exactly what its device had read,
\* unless the row was deleted in between.
THEOREM NoUpdateLost == Spec => NoLostUpdate
<1>1. ASSUME IInv, [Next]_vars, NEW r \in Req, Accepted(r), ~reqs[r].force,
             reqs[r].sent.life = life[reqs[r].pair]
      PROVE  SawWhatItReplaces(reqs[r])
  <2> DEFINE p == reqs[r].pair
  <2>1. PutCommit(r) /\ TypeOK
    BY <1>1, AcceptedIsCommit DEF IInv
  <2>2. reqs[r] \in Request /\ reqs[r] # Idle
    BY <2>1, BusyIsRequest DEF PutCommit, At, Serving, Idle
  <2>3. p \in Pair /\ reqs[r].sent.version = configs[p].version
    BY <1>1, <2>1, <2>2 DEF PutCommit, VersionMatches, Request
  <2>4. reqs[r].sent \in SnapshotsOf(p)
    BY <2>2, <2>3, SnapshotSources DEF OfRequest
  <2> QED BY <1>1, <2>1, <2>3, <2>4, SnapshotFields
          DEF IInv, SnapshotAgreement, SawWhatItReplaces
<1>2. IInv /\ [Next]_vars =>
        [\A r \in Req :
           Accepted(r) /\ ~reqs[r].force /\ reqs[r].sent.life = life[reqs[r].pair]
           => SawWhatItReplaces(reqs[r])]_vars
  BY <1>1
<1> QED BY <1>2, InvariantHolds, PTL DEF Spec, NoLostUpdate

\* A request that acknowledges after a step did before, or its PUT commits.
LEMMA AcknowledgeStep ==
  ASSUME IInv, [Next]_vars, NEW r \in Req, Acknowledges(r)'
  PROVE  \/ Acknowledges(r) /\ reqs'[r] = reqs[r]
         \/ Writes(r)
<1>1. /\ TypeOK /\ RowsAreLive /\ RequestsCarryTokens
      /\ reqs \in [Req -> Request \cup {Idle}]
  BY RowsAreLiveEquiv DEF IInv, TypeOK
<1>2. reqs'[r].pc = "reply" /\ reqs'[r].op = "put" /\ reqs'[r].status = "ok"
  BY DEF Acknowledges
<1>3. CASE reqs'[r] = reqs[r]
  BY <1>2, <1>3 DEF Acknowledges
<1>4. CASE reqs'[r] = Idle
  BY <1>2, <1>4 DEF Idle
<1>5. ASSUME NEW s \in Req, Sends(s), reqs'[r] # reqs[r] PROVE FALSE
  <2>1. s = r
    BY <1>1, <1>5 DEF Sends, Send, SendCreateToken
  <2>2. ASSUME NEW d, NEW op, NEW h, NEW payload, NEW force,
               Send(r, d, op, h, payload, force)
        PROVE  reqs'[r].pc = "auth"
    BY <1>1, <2>2 DEF Send
  <2>3. ASSUME NEW p, SendCreateToken(r, p) PROVE reqs'[r].pc = "check"
    BY <1>1, <2>3 DEF SendCreateToken
  <2> QED BY <1>2, <1>5, <2>1, <2>2, <2>3 DEF Sends
<1>6. ASSUME NEW s \in Req, Serve(s) \/ DbError(s), reqs'[r] # reqs[r]
      PROVE  Writes(r)
  <2>1. s = r /\ Moves(r)
    BY <1>1, <1>6, ServeMoves DEF Moves
  <2>2. reqs[r].op = "put" /\ reqs[r] \in Request /\ reqs[r].pc \in {"auth", "handle"}
    BY <1>1, <1>2, <1>6, <2>1, ServeMoves DEF Moves, RequestsCarryTokens, Idle
  <2>3. \A status, t : AnswerWith(r, status, t) => reqs'[r].status = status
    BY <1>1, <2>2 DEF AnswerWith, Request
  <2>4. \A status : Answer(r, status) => reqs'[r].status = status
    BY <2>3 DEF Answer
  <2>5. PutCommit(r)
    <3>1. ~AuthPass(r) /\ ~AuthReject(r) /\ ~AuthForbid(r)
      BY <1>1, <1>2, <2>2, <2>4 DEF AuthPass, AuthReject, AuthForbid, Request
    <3>2. ~DbError(r) /\ ~Touch(r) /\ ~TokenCheckApp(r) /\ ~TokenRefuse(r) /\ ~TokenCommit(r)
      BY <1>2, <2>2, <2>4 DEF DbError, Touch, TokenCheckApp, TokenRefuse, TokenCommit
    <3>3. ~PutRejectBody(r) /\ ~PutOverQuota(r) /\ ~PutForeignKey(r) /\ ~PutConflict(r)
      BY <1>2, <2>3, <2>4 DEF PutRejectBody, PutOverQuota, PutForeignKey, PutConflict
    <3>4. ~HandleGet(r)
      BY <2>2 DEF HandleGet, At
    <3> QED BY <1>6, <2>1, <3>1, <3>2, <3>3, <3>4 DEF Serve
  <2>6. reqs[r].pair \in Pair /\ reqs[r].payload \in Payload
    BY <1>1, <2>2 DEF Request, TypeOK, Idle
  <2> QED BY <2>2, <2>5, <2>6 DEF Writes
<1> QED BY <1>1, <1>3, <1>4, <1>5, <1>6, RequestCases

\* Of the writes that race on one version at most one is acknowledged.
THEOREM AtMostOneWinner == Spec => []OneWinner
<1>1. Init => OneWinner
  BY DEF Init, OneWinner, Acknowledges, Idle
<1>2. ASSUME IInv, OneWinner, [Next]_vars PROVE OneWinner'
  <2> SUFFICES ASSUME NEW r \in Req, NEW s \in Req, r # s,
                      Acknowledges(r)', Acknowledges(s)',
                      reqs'[r].pair = reqs'[s].pair,
                      reqs'[r].answer.life = reqs'[s].answer.life
               PROVE  reqs'[r].answer.version # reqs'[s].answer.version
    BY DEF OneWinner
  <2>1. TypeOK
    BY <1>2 DEF IInv
  \* The answer that commits now is newer than one that was there before.
  <2>2. ASSUME NEW x \in Req, NEW y \in Req, Writes(x), Acknowledges(y),
               reqs'[y] = reqs[y], reqs'[x].pair = reqs'[y].pair,
               reqs'[x].answer.life = reqs'[y].answer.life
        PROVE  reqs'[x].answer.version # reqs'[y].answer.version
    <3> DEFINE p == reqs[x].pair
               a == reqs[y].answer
    <3>1. /\ p \in Pair /\ reqs'[x].pair = p /\ life' = life
          /\ configs'[p] = [version |-> configs[p].version + 1,
                            payload |-> reqs[x].payload]
          /\ reqs'[x].answer = Current(reqs[x].pair)'
      BY <2>1, <2>2, WriteEffect
    <3>2. /\ reqs'[x].answer.version = configs[p].version + 1
          /\ reqs'[x].answer.life = life[p]
      BY <3>1 DEF Current
    <3>3. reqs[y] # Idle /\ reqs[y].pair = p
      BY <2>2, <3>1 DEF Acknowledges, Idle
    <3>4. a \in SnapshotsOf(p)
      BY <3>1, <3>3, SnapshotSources DEF OfRequest
    <3>5. NotAhead(p, a) /\ a.life = life[p]
      BY <1>2, <2>2, <3>1, <3>2, <3>4 DEF IInv, SnapshotsNotAhead
    <3>6. a.version \in Nat /\ a.life \in Nat /\ configs[p].version \in Nat
      BY <2>1, <3>1, <3>4, SnapshotsTyped, SnapshotFields
    <3> QED BY <2>2, <3>2, <3>5, <3>6 DEF NotAhead
  <2>3. ~(Writes(r) /\ Writes(s))
    <3>1. Writes(s) => reqs'[r] = reqs[r]
      BY <2>1 DEF Writes, PutCommit, AnswerWith, TypeOK
    <3>2. Writes(r) => reqs[r].pc = "handle"
      BY DEF Writes, PutCommit, At
    <3> QED BY <3>1, <3>2 DEF Acknowledges
  <2>4. CASE Writes(r)
    BY <1>2, <2>2, <2>3, <2>4, AcknowledgeStep
  <2>5. CASE Writes(s)
    BY <1>2, <2>2, <2>3, <2>5, AcknowledgeStep
  <2>6. CASE ~Writes(r) /\ ~Writes(s)
    BY <1>2, <2>6, AcknowledgeStep DEF OneWinner
  <2> QED BY <2>4, <2>5, <2>6
<1>3. IInv /\ OneWinner /\ [Next]_vars => OneWinner'
  BY <1>2
<1> QED BY <1>1, <1>3, InvariantHolds, PTL DEF Spec

(***************************************************************************)
(* Devices.                                                                *)
(***************************************************************************)
LEMMA InformingAnswer ==
  ASSUME IInv, NEW r \in Req, Serve(r) \/ DbError(r), reqs[r].op # "token",
         Informs(reqs'[r])
  PROVE  reqs'[r].answer = Current(reqs[r].pair) \/ Writes(r)
<1>1. /\ TypeOK /\ RowsAreLive /\ RequestsCarryTokens
      /\ reqs \in [Req -> Request \cup {Idle}]
  BY RowsAreLiveEquiv DEF IInv, TypeOK
<1>2. Moves(r) /\ reqs[r] \in Request /\ reqs[r] # Idle
  <2>1. Moves(r)
    BY <1>1, ServeMoves
  <2>2. reqs[r] \in Request /\ reqs[r].pc \in Serving
    BY <1>1, BusyIsRequest
       DEF Serve, DbError, AuthReject, AuthForbid, AuthPass, Touch, HandleGet, At,
           PutRejectBody, PutOverQuota, PutConflict, PutForeignKey, PutCommit,
           TokenCheckApp, TokenRefuse, TokenCommit, Serving
  <2> QED BY <2>1, <2>2 DEF Idle, Serving
<1>3. reqs[r].pc \in {"auth", "touch", "handle", "reply"}
  BY <1>1, <1>2 DEF RequestsCarryTokens
<1>4. \A status, t : AnswerWith(r, status, t) =>
         reqs'[r].status = status /\ reqs'[r].answer = t
  BY <1>1, <1>2 DEF AnswerWith, Request
<1>5. \A status : Answer(r, status) => status \in {"ok", "conflict"}
  BY <1>4 DEF Answer, Informs
<1>6. ~AuthPass(r) /\ ~Touch(r)
  BY <1>1, <1>2 DEF AuthPass, Touch, Goto, Informs, Request
<1>7. ~AuthReject(r) /\ ~AuthForbid(r) /\ ~PutRejectBody(r) /\ ~PutOverQuota(r)
      /\ ~PutForeignKey(r)
  BY <1>5 DEF AuthReject, AuthForbid, PutRejectBody, PutOverQuota, PutForeignKey
<1>8. ~TokenCheckApp(r) /\ ~TokenRefuse(r) /\ ~TokenCommit(r)
  BY <1>3 DEF TokenCheckApp, TokenRefuse, TokenCommit
<1>9. ~DbError(r)
  BY <1>1, <1>2, <1>5 DEF DbError, Goto, Informs, Request
<1>10. HandleGet(r) => reqs'[r].answer = Current(reqs[r].pair)
  BY <1>4 DEF HandleGet
<1>11. PutConflict(r) => reqs'[r].answer = Current(reqs[r].pair)
  BY <1>4, <1>5 DEF PutConflict
<1>12. PutCommit(r) => Writes(r)
  BY <1>1, <1>2 DEF Writes, PutCommit, At, TypeOK, Request
<1> QED BY <1>6, <1>7, <1>8, <1>9, <1>10, <1>11, <1>12 DEF Serve

LEMMA AnswersNotOlderStep ==
  ASSUME IInv, AnswersNotOlder, [Next]_vars
  PROVE  AnswersNotOlder'
<1> SUFFICES ASSUME NEW d \in Device, NEW r \in Req,
                    waiting'[d] = r, Informs(reqs'[r])
             PROVE  NotOlder(base'[d], reqs'[r].answer)
  BY DEF AnswersNotOlder, Informs
<1>1. /\ TypeOK /\ RowsAreLive /\ RequestsCarryTokens /\ WaitingForOwn
      /\ reqs \in [Req -> Request \cup {Idle}]
      /\ NoReq \notin Req /\ waiting \in [Device -> Req \cup {NoReq}]
  BY RowsAreLiveEquiv, ServerAssumption DEF IInv, TypeOK
<1>2. ASSUME NEW s \in Req, Sends(s) PROVE reqs'[r] = reqs[r]
  <2>1. ASSUME NEW x, NEW op, NEW h, NEW payload, NEW force,
               Send(s, x, op, h, payload, force), s = r
        PROVE  reqs'[r].pc = "auth"
    BY <1>1, <2>1 DEF Send
  <2>2. ASSUME NEW p, SendCreateToken(s, p), s = r PROVE reqs'[r].pc = "check"
    BY <1>1, <2>2 DEF SendCreateToken
  <2>3. s # r
    BY <1>2, <2>1, <2>2 DEF Sends, Informs
  <2> QED BY <1>1, <1>2, <2>3 DEF Sends, Send, SendCreateToken
<1>3. reqs'[r] # Idle
  BY DEF Informs, Idle
\* The device was waiting for r already: who starts to wait waits for a
\* request that is not answered.
<1>4. waiting[d] = r
  <2>1. ASSUME NEW s \in Req, NEW x \in Device, SendGet(s, x) \/ SendPut(s, x)
        PROVE  waiting'[d] = waiting[d] \/ reqs'[r].pc = "auth"
    BY <1>1, <2>1 DEF SendGet, SendPut, Send
  <2>2. ASSUME NEW s \in Req, Serve(s) \/ DbError(s) \/ Cancel(s)
        PROVE  waiting' = waiting
    BY <2>2 DEF Serve, DbError, AuthReject, AuthForbid, AuthPass, Touch, HandleGet,
       PutRejectBody, PutOverQuota, PutConflict, PutForeignKey, PutCommit,
       TokenCheckApp, TokenRefuse, TokenCommit, ReqOnly, Cancel
  <2>3. ASSUME NEW s \in Req, Deliver(s) PROVE waiting'[d] \in {waiting[d], NoReq}
    BY <2>3 DEF Deliver
  <2>4. ASSUME NEW x \in Device, GiveUp(x) PROVE waiting'[d] \in {waiting[d], NoReq}
    BY <1>1, <2>4 DEF GiveUp
  <2>5. Crash => waiting'[d] = NoReq
    BY DEF Crash
  <2>6. Tick \/ UNCHANGED vars \/ AdminNext \/ (\E s \in Req, p \in Pair : SendCreateToken(s, p))
        => waiting' = waiting
    BY DEF Tick, vars, serverVars, AdminNext, DeleteAppToken, DeleteAppData,
       AdminDeleteApp, AdminCreateApp, Deletion, SendCreateToken
  <2> QED BY <1>1, <2>1, <2>2, <2>3, <2>4, <2>5, <2>6, NextCases DEF EnvNext, Informs
<1>5. reqs[r] # Idle /\ reqs[r].op # "token" /\ reqs[r].pair = Owner[d]
  BY <1>1, <1>4 DEF WaitingForOwn
<1>6. base'[d] = base[d]
  <2>1. ASSUME NEW s \in Req, Deliver(s) PROVE base'[d] = base[d]
    <3>1. waiting[d] # s
      BY <1>1, <2>1 DEF Deliver
    <3> QED BY <2>1, <3>1 DEF Deliver, Receive
  <2>2. ASSUME NEW s \in Req, Serve(s) \/ DbError(s) \/ Cancel(s) PROVE base' = base
    BY <2>2 DEF Serve, DbError, AuthReject, AuthForbid, AuthPass, Touch, HandleGet,
       PutRejectBody, PutOverQuota, PutConflict, PutForeignKey, PutCommit,
       TokenCheckApp, TokenRefuse, TokenCommit, ReqOnly, Cancel
  <2>3. ASSUME NEW s \in Req, NEW x \in Device, SendGet(s, x) \/ SendPut(s, x)
        PROVE  base' = base
    BY <2>3 DEF SendGet, SendPut, Send
  <2>4. \/ (\E x \in Device : GiveUp(x)) \/ Crash \/ Tick \/ UNCHANGED vars \/ AdminNext
        \/ (\E s \in Req, p \in Pair : SendCreateToken(s, p))
        => base' = base
    BY DEF GiveUp, Crash, Tick, vars, serverVars, AdminNext, DeleteAppToken,
       DeleteAppData, AdminDeleteApp, AdminCreateApp, Deletion, SendCreateToken
  <2> QED BY <2>1, <2>2, <2>3, <2>4, NextCases DEF EnvNext
<1>7. CASE reqs'[r] = reqs[r]
  BY <1>4, <1>6, <1>7 DEF AnswersNotOlder
<1>8. ASSUME NEW s \in Req, Serve(s) \/ DbError(s), reqs'[r] # reqs[r]
      PROVE  NotOlder(base'[d], reqs'[r].answer)
  <2> DEFINE p == Owner[d]
  <2>1. s = r
    BY <1>1, <1>8, ServeMoves DEF Moves
  <2>2. p \in Pair /\ base[d] \in SnapshotsOf(p)
    BY ServerAssumption, SnapshotSources DEF OfDevice
  <2>3. /\ NotAhead(p, base[d])
        /\ base[d].version \in Nat /\ base[d].life \in Nat
        /\ configs[p].version \in Nat /\ life[p] \in Nat
        /\ Current(p).version = configs[p].version /\ Current(p).life = life[p]
    BY <1>1, <2>2, SnapshotsTyped, SnapshotFields DEF IInv, SnapshotsNotAhead
  <2>4. CASE reqs'[r].answer = Current(p)
    BY <1>6, <2>3, <2>4 DEF NotOlder, NotAhead
  <2>5. CASE Writes(r)
    <3>1. /\ reqs'[r].pair = p /\ reqs'[r].answer = Current(reqs[r].pair)'
          /\ life' = life
          /\ configs'[p] = [version |-> configs[p].version + 1,
                            payload |-> reqs[r].payload]
      BY <1>1, <1>5, <2>5, WriteEffect
    <3>2. /\ reqs'[r].answer.version = configs[p].version + 1
          /\ reqs'[r].answer.life = life[p]
      BY <1>5, <3>1 DEF Current
    <3> QED BY <1>6, <2>3, <3>2 DEF NotOlder, NotAhead
  <2> QED BY <1>5, <1>8, <2>1, <2>4, <2>5, InformingAnswer
<1> QED BY <1>1, <1>2, <1>3, <1>7, <1>8, RequestCases

\* A device never receives a snapshot older than the one it holds, however
\* late an answer arrives and whoever wrote or wiped in between.
THEOREM DeviceOnlyForward == Spec => DeviceNeverGoesBack
<1>1. Init => AnswersNotOlder
  BY DEF Init, AnswersNotOlder, Informs, Idle
<1>2. IInv /\ AnswersNotOlder /\ [Next]_vars => AnswersNotOlder'
  BY AnswersNotOlderStep
<1>3. ASSUME IInv, AnswersNotOlder, [Next]_vars, NEW d \in Device
      PROVE  NotOlder(base[d], base'[d])
  <2>1. CASE base'[d] = base[d]
    BY <1>3, <2>1 DEF NotOlder, IInv, TypeOK, Snapshot
  <2>2. CASE base'[d] # base[d]
    BY <1>3, <2>2, BaseStep DEF IInv, AnswersNotOlder, Informs
  <2> QED BY <2>1, <2>2
<1>4. IInv /\ AnswersNotOlder /\ [Next]_vars =>
        [\A d \in Device :
           \/ base'[d].life > base[d].life
           \/ base'[d].life = base[d].life /\ base'[d].version >= base[d].version]_vars
  BY <1>3 DEF NotOlder
<1> QED BY <1>1, <1>2, <1>4, InvariantHolds, PTL DEF Spec, DeviceNeverGoesBack

(***************************************************************************)
(* Isolation.                                                              *)
(***************************************************************************)
LEMMA IsolationStep ==
  ASSUME TypeOK, [Next]_vars, NEW p \in Pair, NEW q \in Pair,
         DataOf(p)' # DataOf(p), DataOf(q)' # DataOf(q)
  PROVE  p = q \/ apps' # apps
<1>1. UNCHANGED <<configs, history>> => DataOf(p)' = DataOf(p)
  BY DEF DataOf, HistoryOf
<1>2. CASE UNCHANGED <<storeVars, fate>>
  BY <1>1, <1>2 DEF storeVars
<1>3. ASSUME NEW r \in Req, Writes(r) PROVE p = q
  <2>1. \A x \in Pair : x # reqs[r].pair => DataOf(x)' = DataOf(x)
    BY <1>3, WriteEffect DEF DataOf
  <2> QED BY <2>1
<1>4. ASSUME NEW r \in Req, Touch(r) \/ TokenCommit(r) PROVE FALSE
  BY <1>1, <1>4 DEF Touch, TouchToken, TokenCommit, ReplaceToken
<1>5. ASSUME NEW u \in User, NEW prefix, DeleteAppToken(u, prefix) PROVE FALSE
  BY <1>1, <1>5 DEF DeleteAppToken, DeleteTokens
<1>6. ASSUME NEW w \in Pair, DeleteAppData(w) PROVE p = q
  <2>1. ASSUME NEW x \in Pair, x # w PROVE DataOf(x)' = DataOf(x)
    BY <1>6, <2>1 DEF DeleteAppData, WipePair, DeleteRows, DataOf, HistoryOf
  <2> QED BY <2>1
<1>7. ASSUME NEW a \in App, AdminDeleteApp(a) PROVE apps' # apps
  BY <1>7 DEF AdminDeleteApp, DeleteApp
<1>8. ASSUME NEW a \in App, AdminCreateApp(a) PROVE apps' # apps
  BY <1>8 DEF AdminCreateApp, InsertApp
<1> QED BY <1>2, <1>3, <1>4, <1>5, <1>6, <1>7, <1>8, StoreCases DEF AdminNext

\* A step that is not about the registration of an app changes the data of at
\* most one (user, app), for any number of users and apps.
THEOREM PairsIsolated == Spec => Isolation
<1>1. TypeOK /\ [Next]_vars =>
        [\A p, q \in Pair :
           DataOf(p)' # DataOf(p) /\ DataOf(q)' # DataOf(q) => p = q \/ apps' # apps]_vars
  BY IsolationStep
<1> QED BY <1>1, TypeCorrect, PTL DEF Spec, Isolation
=============================================================================
