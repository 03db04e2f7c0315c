---------------------------- MODULE SyncInvariant ----------------------------
(***************************************************************************)
(* The inductive invariant from which the safety properties follow.        *)
(***************************************************************************)
EXTENDS SyncProperties

\* An app-token request carries a token granted to the user it acts for, and
\* one that was revoked when it was sent stays revoked; the middleware lets
\* no such request pass.
TokenCarried(q) ==
  /\ q.hash \in Token
  /\ fate[q.hash].state # "unissued"
  /\ fate[q.hash].pair[1] = q.pair[1]
  /\ q.revoked => /\ fate[q.hash].state = "revoked"
                  /\ \/ q.pc = "auth"
                     \/ q.pc = "reply" /\ q.status \in {"unauthorized", "internal"}
RequestsCarryTokens ==
  \A r \in Req : reqs[r] # Idle =>
    IF reqs[r].op = "token"
    THEN reqs[r].pc \in {"check", "mint", "reply"} /\ ~reqs[r].revoked
    ELSE reqs[r].pc \in {"auth", "touch", "handle", "reply"} /\ TokenCarried(reqs[r])

\* A device waits for a request about its own pair.
WaitingForOwn ==
  \A d \in Device : waiting[d] # NoReq =>
    /\ reqs[waiting[d]] # Idle
    /\ reqs[waiting[d]].op # "token"
    /\ reqs[waiting[d]].pair = Owner[d]

\* No snapshot is ahead of the row: it is of this life, and at most as new,
\* or of an earlier one.  Version 0 is the absence of contents.
NotAhead(p, s) ==
  \/ s.life < life[p]
  \/ s.life = life[p] /\ s.version <= configs[p].version
SnapshotsNotAhead ==
  \A p \in Pair : \A s \in SnapshotsOf(p) :
    NotAhead(p, s) /\ (s.version = 0 => s.payload = NoPayload)

\* A pair without a row has no history; history rows have versions from 1.
HistoryOfRow ==
  \A p \in Pair : \A h \in HistoryOf(p) : h.version \in 1 .. configs[p].version

IInv ==
  /\ TypeOK
  /\ CascadeIntegrity
  /\ LiveTokensHaveRows
  /\ RequestsCarryTokens
  /\ WaitingForOwn
  /\ HistoryOfRow
  /\ SnapshotsNotAhead
  /\ SnapshotAgreement

\* While the clock is not set back, a newer history row has a later time and
\* a larger id, so that the trim keeps the newest versions.  Inductive with
\* HistoryIsNewest and the types.
HistoryInOrder ==
  /\ \A h \in history : h.id < nextId /\ h.at <= clock
  /\ \A p \in Pair : \A g, h \in HistoryOf(p) :
       g.version < h.version => g.id < h.id /\ g.at <= h.at

\* The answer a device waits for is not older than the snapshot it holds.
\* Follows from IInv step by step; not needed to keep IInv itself.
NotOlder(s, t) == t.life > s.life \/ (t.life = s.life /\ t.version >= s.version)
Informs(q) == q.pc = "reply" /\ q.status \in {"ok", "conflict"}
AnswersNotOlder ==
  \A d \in Device : \A r \in Req :
    waiting[d] = r /\ Informs(reqs[r]) => NotOlder(base[d], reqs[r].answer)
=============================================================================
