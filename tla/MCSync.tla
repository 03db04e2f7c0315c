-------------------------------- MODULE MCSync --------------------------------
(***************************************************************************)
(* SyncServer instantiated for TLC.                                        *)
(***************************************************************************)
EXTENDS SyncRefinement, TLC

CONSTANTS u1, a1, a2, d1, d2, p1, p2, p4, p5

\* Both devices synchronise the same pair.
SamePair == [d \in Device |-> <<u1, a1>>]
\* Two apps of one user.
TwoApps == d1 :> <<u1, a1>> @@ d2 :> <<u1, a2>>

Payloads == Payload \cup {NoPayload}
\* ASCII payloads: one byte per character, the body is the payload.
OneByteEach == [p \in Payloads |-> IF p = NoPayload THEN 0 ELSE 1]
\* Payloads of different sizes.
SmallAndLarge == [p \in Payloads |-> CASE p = p1 -> 1 [] p = p2 -> 2 [] OTHER -> 0]
\* One payload per reason to refuse a PUT's body, with MAX_PAYLOAD_BYTES = 2 and
\* a slack of 1: p1 is accepted, p2's body is malformed, p4 is over the payload
\* limit and p5's body over the body limit.
OneOfEach == [p \in Payloads |-> CASE p \in {p1, p2} -> 1 [] p = p4 -> 3
                                   [] p = p5 -> 4 [] OTHER -> 0]
BodyAsLong == [p \in Payload |-> Bytes[p]]
OwnPrefix == [h \in Token |-> h]

\* Sound where Owner, Bytes, Chars and BodySize are constant functions and
\* PrefixOf is the identity.
Symmetry == Permutations(Payload) \cup Permutations(Req)
              \cup Permutations(Device) \cup Permutations(Token)
\* Sound for any Bytes and Chars, where Owner is TwoApps: the two apps change
\* places together with their devices.
SwapApps == d1 :> d2 @@ d2 :> d1 @@ a1 :> a2 @@ a2 :> a1
SymmetryTables == Permutations(Req) \cup Permutations(Token) \cup {SwapApps}
=============================================================================
