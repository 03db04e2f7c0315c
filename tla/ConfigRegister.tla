---------------------------- MODULE ConfigRegister ----------------------------
(***************************************************************************)
(* What a client of the sync API may rely on, without tokens, quotas,      *)
(* statements or tables: a versioned register per (user, app).             *)
(*                                                                         *)
(* A call takes effect at one instant between its invocation and its       *)
(* answer, or not at all.  A write that is not forced succeeds only on the *)
(* version it names, and raises it by one.  The register remembers its     *)
(* newest Window writes.  Keys are emptied together by the unit.           *)
(***************************************************************************)
EXTENDS Integers

CONSTANTS
  Key,      \* registers
  Unit,     \* sets of keys that are emptied in one step
  Call,     \* slots for calls in progress
  Value, NoValue,
  Window    \* writes remembered; 0 or less means all

VARIABLES reg, kept, calls
registerVars == <<reg, kept, calls>>

Empty == [version |-> 0, value |-> NoValue]
NoCall == [state |-> "none"]
Outcome == {"pending", "done", "conflict", "refused"}
CallRecord ==
  [state : {"invoked", "answered"}, op : {"read", "write"}, key : Key,
   expect : Nat, force : BOOLEAN, value : Value \cup {NoValue},
   outcome : Outcome, seen : [version : Nat, value : Value \cup {NoValue}]]

RegisterInit ==
  /\ reg = [k \in Key |-> Empty]
  /\ kept = [k \in Key |-> {}]
  /\ calls = [c \in Call |-> NoCall]

Invoke(c) ==
  /\ calls[c] = NoCall
  /\ calls'[c] \in CallRecord
  /\ calls'[c].state = "invoked"
  /\ calls'[c].outcome = "pending" /\ calls'[c].seen = Empty
  /\ calls' = [calls EXCEPT ![c] = calls'[c]]
  /\ UNCHANGED <<reg, kept>>

\* The instant at which call c is decided.
Decide(c, outcome, seen) ==
  /\ calls[c].state = "invoked"
  /\ calls' = [calls EXCEPT ![c].state = "answered", ![c].outcome = outcome,
                            ![c].seen = seen]

Read(c) ==
  /\ Decide(c, "done", reg[calls[c].key])
  /\ calls[c].op = "read"
  /\ UNCHANGED <<reg, kept>>

Newest(writes, version) ==
  IF Window > 0 THEN {w \in writes : w.version > version - Window} ELSE writes

Write(c) ==
  LET k == calls[c].key
      new == [version |-> reg[k].version + 1, value |-> calls[c].value]
  IN  /\ Decide(c, "done", new)
      /\ calls[c].op = "write"
      /\ calls[c].force \/ calls[c].expect = reg[k].version
      /\ reg' = [reg EXCEPT ![k] = new]
      /\ kept' = [kept EXCEPT ![k] = Newest(@ \cup {new}, new.version)]

Conflict(c) ==
  /\ Decide(c, "conflict", reg[calls[c].key])
  /\ calls[c].op = "write"
  /\ ~calls[c].force /\ calls[c].expect # reg[calls[c].key].version
  /\ UNCHANGED <<reg, kept>>

Refuse(c) == Decide(c, "refused", Empty) /\ UNCHANGED <<reg, kept>>

\* The answer arrives, or the caller is gone, or the server restarts.
Return(cs) ==
  /\ calls' = [c \in Call |-> IF c \in cs THEN NoCall ELSE calls[c]]
  /\ UNCHANGED <<reg, kept>>

EmptyUnit(ks) ==
  /\ reg' = [k \in Key |-> IF k \in ks THEN Empty ELSE reg[k]]
  /\ kept' = [k \in Key |-> IF k \in ks THEN {} ELSE kept[k]]
  /\ UNCHANGED calls

RegisterNext ==
  \/ \E cs \in SUBSET Call : Return(cs)
  \/ \E c \in Call : \/ Invoke(c) \/ Read(c) \/ Write(c) \/ Conflict(c)
                     \/ Refuse(c)
  \/ \E ks \in Unit : EmptyUnit(ks)

RegisterSpec == RegisterInit /\ [][RegisterNext]_registerVars
=============================================================================
