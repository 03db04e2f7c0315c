-------------------------------- MODULE Startup --------------------------------
(***************************************************************************)
(* A start of the server: main, config.Load, LoadDotEnv, GenerateDefault-  *)
(* Config, db.Migrate and BootstrapAdmin, one step after another, and what *)
(* outlives it: cfgsync.env, the database, the operator's environment.     *)
(* One server runs at a time.  It may die at any step; the operator edits  *)
(* or deletes what outlives it, and starts it again.                       *)
(*                                                                         *)
(* Only the settings that decide who can get in are here: the signing      *)
(* secret and the bootstrap account.  (The others have defaults.)          *)
(***************************************************************************)
EXTENDS Naturals, Sequences, FiniteSets

CONSTANTS
  Secret, Email, Password,
  Short,         \* values of JWT_SECRET of less than 32 bytes
  Unset, Empty,  \* a variable that is not in the environment, or is ""
  NoFile, NoAccount,
  AdminEmail,    \* admin@example.com
  Draws,         \* <<secret, password>>: what crypto/rand yields, once each
  Cut,           \* what a value becomes when the write stops within it
  Files, Envs    \* what an operator puts into cfgsync.env, or the environment

Key == {"JWT_SECRET", "BOOTSTRAP_ADMIN_EMAIL", "BOOTSTRAP_ADMIN_PASSWORD"}
Value == Secret \cup Email \cup Password \cup {Empty}
Of(key) ==
  CASE key = "JWT_SECRET" -> Secret \cup {Empty}
    [] key = "BOOTSTRAP_ADMIN_EMAIL" -> Email \cup {Empty}
    [] OTHER -> Password \cup {Empty}
Line == {l \in [key : Key, value : Value] : l.value \in Of(l.key)}
Env == {e \in [Key -> Value \cup {Unset}] : \A k \in Key : e[k] \in Of(k) \cup {Unset}}
Settings == {c \in [Key -> Value] : \A k \in Key : c[k] \in Of(k)}
Account == [password : Value, admin : BOOLEAN]

ASSUME StartupAssumption ==
  /\ Unset \notin Value /\ Empty \notin Secret \cup Email \cup Password
  /\ Short \subseteq Secret /\ AdminEmail \in Email
  /\ Draws \subseteq (Secret \ Short) \X Password
  /\ Cut \in [Value -> SUBSET Value]
  /\ \A k \in Key : \A v \in Of(k) : Cut[v] \subseteq Of(k)
  /\ Files \subseteq Seq(Line) /\ NoFile \notin Seq(Line)
  /\ Envs \subseteq Env /\ NoAccount \notin Account

VARIABLES
  pc,        \* what main does next; "down" when there is no process
  file,      \* cfgsync.env: its KEY=VALUE lines, or NoFile
  writable,  \* whether the working directory can be written to
  env,       \* the environment the server is started with
  accounts,  \* users: the account of each email
  drawn,     \* the secret and the password of a first run
  cfg,       \* the settings in use
  used,      \* ghost: what has been drawn so far
  signed,    \* ghost: the secret in use since the operator's last change
  logged     \* ghost: the password logged, while it should open AdminEmail

vars == <<pc, file, writable, env, accounts, drawn, cfg, used, signed, logged>>

NoCfg == [k \in Key |-> Empty]

TypeOK ==
  /\ pc \in {"down", "stat", "create", "write", "log", "load", "migrate",
             "lookup", "insert", "listen", "serve"}
  /\ file \in Seq(Line) \cup {NoFile}
  /\ writable \in BOOLEAN /\ env \in Env
  /\ accounts \in [Email -> Account \cup {NoAccount}]
  /\ drawn \in Draws \cup {<<>>} /\ used \subseteq Draws
  /\ cfg \in Settings
  /\ signed \in Secret \cup {Unset} /\ logged \in Password \cup {Unset}

Init ==
  /\ pc = "down" /\ file = NoFile /\ writable \in BOOLEAN /\ env \in Envs
  /\ accounts = [e \in Email |-> NoAccount]
  /\ drawn = <<>> /\ cfg = NoCfg /\ used = {}
  /\ signed = Unset /\ logged = Unset

-----------------------------------------------------------------------------
(* The first run. *)

Goto(next) == pc' = next
Disk == <<file, writable, env, accounts>>
Ghosts == <<used, signed, logged>>

Launch ==
  /\ pc = "down" /\ Goto("stat")
  /\ cfg' = NoCfg /\ drawn' = <<>>
  /\ UNCHANGED <<Disk, Ghosts>>

\* The file is generated whether or not there is one.
BadStat ==
  /\ pc = "stat"
  /\ \E d \in Draws \ used : drawn' = d /\ used' = used \cup {d}
  /\ Goto("create")
  /\ UNCHANGED <<Disk, cfg, signed, logged>>

\* Bound: at most Cardinality(Draws) first runs.
Stat ==
  /\ pc = "stat"
  /\ \/ file # NoFile /\ Goto("load") /\ UNCHANGED <<drawn, used>>
     \/ /\ file = NoFile /\ Goto("create")
        /\ \E d \in Draws \ used : drawn' = d /\ used' = used \cup {d}
  /\ UNCHANGED <<Disk, cfg, signed, logged>>

\* The account is among the settings left as comments.
BadBody(d) == <<[key |-> "JWT_SECRET", value |-> d[1]]>>

Body(d) ==
  <<[key |-> "JWT_SECRET", value |-> d[1]],
    [key |-> "BOOTSTRAP_ADMIN_EMAIL", value |-> AdminEmail],
    [key |-> "BOOTSTRAP_ADMIN_PASSWORD", value |-> d[2]]>>

\* What may be there of a file whose writing was cut short.
Torn(lines) ==
  {SubSeq(lines, 1, n) : n \in 0..Len(lines)} \cup
  UNION {{[SubSeq(lines, 1, n) EXCEPT ![n].value = v] : v \in Cut[lines[n].value]}
         : n \in DOMAIN lines}

\* os.WriteFile opens, then writes: neither a temporary file nor a rename.
CreateFails ==
  /\ pc = "create" /\ ~writable
  /\ Goto("down")
  /\ UNCHANGED <<Disk, drawn, cfg, Ghosts>>

Create ==
  /\ pc = "create" /\ writable
  /\ file' = <<>> /\ Goto("write")
  /\ UNCHANGED <<writable, env, accounts, drawn, cfg, Ghosts>>

Write ==
  /\ pc = "write"
  /\ file' = Body(drawn) /\ Goto("log")
  /\ UNCHANGED <<writable, env, accounts, drawn, cfg, Ghosts>>

\* The disk is full, or the machine stops.
WriteFails ==
  /\ pc = "write"
  /\ file' \in Torn(Body(drawn)) /\ Goto("down")
  /\ UNCHANGED <<writable, env, accounts, drawn, cfg, Ghosts>>

\* The password is logged as AdminEmail's: so it is to be, unless that account
\* exists or the environment names another account or password.
Log ==
  /\ pc = "log" /\ Goto("load")
  /\ logged' =
       IF /\ accounts[AdminEmail] = NoAccount
          /\ env["BOOTSTRAP_ADMIN_EMAIL"] = Unset
          /\ env["BOOTSTRAP_ADMIN_PASSWORD"] = Unset
       THEN drawn[2] ELSE logged
  /\ UNCHANGED <<Disk, drawn, cfg, used, signed>>

-----------------------------------------------------------------------------
(* Every run. *)

\* The value of key k in the lines; of several, the first that is set stays.
InFile(k) ==
  LET at == {i \in DOMAIN file : file[i].key = k} IN
  IF file = NoFile \/ at = {} THEN Unset
  ELSE file[CHOOSE i \in at : \A j \in at : i <= j].value

LoadDotEnv == [k \in Key |-> IF env[k] # Unset THEN env[k] ELSE InFile(k)]

\* os.Getenv
Loaded == [k \in Key |-> IF LoadDotEnv[k] = Unset THEN Empty ELSE LoadDotEnv[k]]
LongEnough(secret) == secret \in Secret \ Short

\* An unset variable is not "".
BadLoad ==
  /\ pc = "load" /\ LongEnough(Loaded["JWT_SECRET"])
  /\ cfg' = LoadDotEnv /\ Goto("migrate")
  /\ UNCHANGED <<Disk, drawn, Ghosts>>

Load ==
  /\ pc = "load" /\ LongEnough(Loaded["JWT_SECRET"])
  /\ cfg' = Loaded /\ Goto("migrate")
  /\ UNCHANGED <<Disk, drawn, Ghosts>>

LoadFails ==
  /\ pc = "load" /\ ~LongEnough(Loaded["JWT_SECRET"])
  /\ Goto("down")
  /\ UNCHANGED <<Disk, drawn, cfg, Ghosts>>

\* CREATE TABLE IF NOT EXISTS, INSERT OR IGNORE: what is there stays.
Migrate ==
  /\ pc = "migrate"
  /\ Goto(IF Empty \in {cfg["BOOTSTRAP_ADMIN_EMAIL"], cfg["BOOTSTRAP_ADMIN_PASSWORD"]}
          THEN "listen" ELSE "lookup")
  /\ UNCHANGED <<Disk, drawn, cfg, Ghosts>>

\* An account that exists is left alone altogether.
BadLookup ==
  /\ pc = "lookup"
  /\ Goto(IF accounts[cfg["BOOTSTRAP_ADMIN_EMAIL"]] = NoAccount THEN "insert" ELSE "listen")
  /\ UNCHANGED <<Disk, drawn, cfg, Ghosts>>

Lookup ==
  LET e == cfg["BOOTSTRAP_ADMIN_EMAIL"] IN
  /\ pc = "lookup"
  /\ \/ /\ accounts[e] = NoAccount /\ Goto("insert")
        /\ UNCHANGED accounts
     \/ /\ accounts[e] # NoAccount /\ Goto("listen")
        /\ accounts' = [accounts EXCEPT ![e].admin = TRUE]
  /\ UNCHANGED <<file, writable, env, drawn, cfg, Ghosts>>

Insert ==
  /\ pc = "insert" /\ Goto("listen")
  /\ accounts' = [accounts EXCEPT ![cfg["BOOTSTRAP_ADMIN_EMAIL"]] =
                    [password |-> cfg["BOOTSTRAP_ADMIN_PASSWORD"], admin |-> TRUE]]
  /\ UNCHANGED <<file, writable, env, drawn, cfg, Ghosts>>

\* From now on access tokens are signed with the secret.
Listen ==
  /\ pc = "listen" /\ Goto("serve")
  /\ signed' = cfg["JWT_SECRET"]
  /\ UNCHANGED <<Disk, drawn, cfg, used, logged>>

\* Register, of any email (external: Sessions has the handler).
Register ==
  /\ pc = "serve"
  /\ \E e \in Email, p \in Password :
       /\ accounts[e] = NoAccount
       /\ accounts' = [accounts EXCEPT ![e] = [password |-> p, admin |-> FALSE]]
  /\ UNCHANGED <<pc, file, writable, env, drawn, cfg, Ghosts>>

\* A signal, a crash, or a log.Fatalf for a reason outside this model.
Die ==
  /\ pc # "down" /\ Goto("down")
  /\ UNCHANGED <<Disk, drawn, cfg, Ghosts>>

-----------------------------------------------------------------------------
(* The operator (external). *)

ChangeFile ==
  /\ file' \in Files \cup {NoFile}
  /\ pc \in {"down", "serve"}
  /\ signed' = Unset /\ logged' = Unset
  /\ UNCHANGED <<pc, writable, env, accounts, drawn, cfg, used>>

ChangeEnv ==
  /\ pc = "down"
  /\ env' \in Envs /\ writable' \in BOOLEAN
  /\ signed' = Unset /\ logged' = Unset
  /\ UNCHANGED <<pc, file, accounts, drawn, cfg, used>>

\* "deleting the DB" (main.go:37); cfgsync.env may stay.
DeleteDb ==
  /\ pc = "down"
  /\ accounts' = [e \in Email |-> NoAccount] /\ logged' = Unset
  /\ UNCHANGED <<pc, file, writable, env, drawn, cfg, used, signed>>

Next ==
  \/ Launch \/ Stat \/ CreateFails \/ Create \/ Write \/ WriteFails \/ Log
  \/ Load \/ LoadFails \/ Migrate \/ Lookup \/ Insert \/ Listen
  \/ Register \/ Die \/ ChangeFile \/ ChangeEnv \/ DeleteDb

Spec == Init /\ [][Next]_vars

-----------------------------------------------------------------------------
(* What a start promises. *)

\* The secret is "regenerated only when this file is deleted" (file.go:79):
\* unless the operator changes the file or the environment, every later
\* start signs with it, whatever start died at whatever step.
SecretKept ==
  [][pc # "serve" /\ pc' = "serve" /\ signed # Unset =>
       cfg'["JWT_SECRET"] = signed]_vars

IsAdmin(e) == accounts[e] # NoAccount /\ accounts[e].admin

\* The password the first run logs (main.go:36) opens the administrator's
\* account once a server listens, also when the start that logged it died
\* before the account was there; where there was no such account and the
\* environment has none.
LoggedPasswordOpens ==
  pc = "serve" /\ logged # Unset =>
    IsAdmin(AdminEmail) /\ accounts[AdminEmail].password = logged

\* A server that listens and was given an account has that administrator,
\* also when somebody registered the email before (db.go:66).
AdminEnsured ==
  pc = "serve" /\ Empty \notin {cfg["BOOTSTRAP_ADMIN_EMAIL"], cfg["BOOTSTRAP_ADMIN_PASSWORD"]}
    => IsAdmin(cfg["BOOTSTRAP_ADMIN_EMAIL"])

\* "Deployments that already use systemd EnvironmentFile ... keep working"
\* (file.go:15): a server whose environment has the secret does not give up
\* because it cannot write cfgsync.env.
CompleteEnvStarts ==
  [][CreateFails => ~LongEnough(env["JWT_SECRET"])]_vars
=============================================================================
