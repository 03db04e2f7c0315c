--------------------------------- MODULE MCWeb ---------------------------------
(***************************************************************************)
(* WebClient instantiated for TLC.                                         *)
(***************************************************************************)
EXTENDS WebClient, TLC

\* Refresh tokens, requests, tabs and calls are interchangeable.
Symmetry ==
  Permutations(Session) \cup Permutations(Req) \cup Permutations(Tab)
    \cup Permutations(Call)

\* PairsMatch says nothing once two tabs used localStorage at once: `users` goes
\* no further there.
NotTorn == ~torn

\* Nothing else depends on that: `web` does not tell such states apart.
WithoutTorn == <<vars, storage, tabs, calls, got, logins>>
=============================================================================
