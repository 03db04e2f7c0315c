---------------------------- MODULE SyncRefinement ----------------------------
(***************************************************************************)
(* The sync service implements the versioned register of ConfigRegister.   *)
(*                                                                         *)
(* A request that authenticates, is touched and waits for its transaction  *)
(* is one invoked call; whatever else it may be refused for (401, 403,     *)
(* 413, 500) is a refusal without effect.  CreateAppToken requests are no  *)
(* calls.  An app's registers form a unit: they are emptied together.      *)
(***************************************************************************)
EXTENDS SyncProperties

AsValue(row) == [version |-> row.version, value |-> row.payload]

OutcomeOf(q) ==
  IF q.pc # "reply" THEN "pending"
  ELSE IF q.status = "ok" THEN "done"
  ELSE IF q.status = "conflict" THEN "conflict"
  ELSE "refused"

CallOf(q) ==
  IF q = Idle \/ q.op = "token" THEN [state |-> "none"]
  ELSE [state |-> IF q.pc = "reply" THEN "answered" ELSE "invoked",
        op |-> IF q.op = "get" THEN "read" ELSE "write",
        key |-> q.pair, expect |-> q.sent.version, force |-> q.force,
        value |-> q.payload, outcome |-> OutcomeOf(q), seen |-> AsValue(q.answer)]

Register == INSTANCE ConfigRegister WITH
  Key <- Pair,
  Unit <- {{p} : p \in Pair} \cup {User \X {a} : a \in App},
  Call <- Req,
  Value <- Payload, NoValue <- NoPayload,
  Window <- HistoryPerApp,
  reg <- [p \in Pair |-> AsValue(configs[p])],
  kept <- [p \in Pair |-> {AsValue(h) : h \in HistoryOf(p)}],
  calls <- [r \in Req |-> CallOf(reqs[r])]

\* Every behaviour of the service is one of the versioned register: requests
\* are linearizable, and the history is the newest accepted writes.
ImplementsRegister == Register!RegisterSpec
=============================================================================
