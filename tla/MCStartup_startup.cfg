SPECIFICATION Spec
CONSTANTS
  s1 = s1
  s2 = s2
  sEnv = sEnv
  sCut = sCut
  admin = admin
  boss = boss
  adm = adm
  pw1 = pw1
  pw2 = pw2
  pwEnv = pwEnv
  pwCut = pwCut
  Secret = {s1, s2, sEnv, sCut, short}
  Email = {admin, boss, adm}
  Password = {pw1, pw2, pwEnv, pwCut}
  Short = {short}
  Unset = unset
  Empty = empty
  NoFile = nofile
  NoAccount = none
  AdminEmail = admin
  Draws <- TwoDraws
  Cut <- CutOf
  Files <- OneEdit
  Envs <- FourEnvs
INVARIANTS TypeOK LoggedPasswordOpens AdminEnsured
PROPERTY SecretKept
