------------------------------ MODULE MCRegistry ------------------------------
(***************************************************************************)
(* AppRegistry instantiated for TLC.                                       *)
(***************************************************************************)
EXTENDS AppRegistry, TLC

Symmetry == Permutations(App) \cup Permutations(Req)
=============================================================================
