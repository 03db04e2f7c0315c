------------------------------ MODULE MCSessions ------------------------------
(***************************************************************************)
(* Sessions instantiated for TLC.                                          *)
(***************************************************************************)
EXTENDS Sessions, TLC

\* Sessions and requests are interchangeable.
Symmetry == Permutations(Session) \cup Permutations(Req)
=============================================================================
