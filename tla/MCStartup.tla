------------------------------- MODULE MCStartup -------------------------------
(***************************************************************************)
(* Startup instantiated for TLC.                                           *)
(***************************************************************************)
EXTENDS Startup

CONSTANTS s1, s2, sEnv, sCut, admin, boss, adm, pw1, pw2, pwEnv, pwCut

\* Two first runs draw different secrets and passwords.
TwoDraws == {<<s1, pw1>>, <<s2, pw2>>}
\* A torn write may leave "KEY=" or part of the value; part of a secret may be
\* long enough (sCut) or not (Short).
CutOf ==
  [v \in Value |-> CASE v \in {s1, s2} -> Short \cup {sCut, Empty}
                     [] v = admin -> {adm, Empty}
                     [] v \in {pw1, pw2} -> {pwCut, Empty}
                     [] OTHER -> {}]

Nothing == [k \in Key |-> Unset]
SecretOnly == [Nothing EXCEPT !["JWT_SECRET"] = sEnv]
\* Nothing; deploy/install.sh; a full environment; bootstrap switched off.
FourEnvs ==
  {Nothing, SecretOnly,
   [SecretOnly EXCEPT !["BOOTSTRAP_ADMIN_EMAIL"] = boss,
                      !["BOOTSTRAP_ADMIN_PASSWORD"] = pwEnv],
   [Nothing EXCEPT !["BOOTSTRAP_ADMIN_EMAIL"] = Empty]}
\* An edited file: another secret and account.
OneEdit == {<<[key |-> "JWT_SECRET", value |-> sEnv],
              [key |-> "BOOTSTRAP_ADMIN_EMAIL", value |-> boss],
              [key |-> "BOOTSTRAP_ADMIN_PASSWORD", value |-> pw1]>>}
=============================================================================
