-------------------------------- MODULE MCPool --------------------------------
(***************************************************************************)
(* SqlPool instantiated for TLC.                                           *)
(***************************************************************************)
EXTENDS SqlPool, TLC

CONSTANT p1

\* Every payload has one byte.
OneByte == [p \in Payload \cup {NoPayload} |-> IF p = NoPayload THEN 0 ELSE 1]
OwnPrefix == [t \in Token |-> t]
=============================================================================
