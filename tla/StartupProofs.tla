---------------------------- MODULE StartupProofs ----------------------------
(***************************************************************************)
(* What a start of the server promises, whichever starts before it died at *)
(* whatever step, for any environment and any file an operator leaves.     *)
(***************************************************************************)
EXTENDS Startup, SequenceTheorems, WellFoundedInduction, TLAPS

USE StartupAssumption

-----------------------------------------------------------------------------
(* The inductive invariant. *)

\* pc within a start, past the first run or past config.Load.
Loading == {"load", "migrate", "lookup", "insert", "listen"}
Configured == {"migrate", "lookup", "insert", "listen"}

\* Where main is, and what it has drawn, written and loaded by then.
Progress ==
  /\ pc = "create" => file = NoFile
  /\ pc = "write" => file = <<>>
  /\ pc = "log" => file = Body(drawn)
  /\ pc \in {"create", "write", "log"} => drawn \in Draws
  /\ pc \in Loading => file # NoFile
  /\ pc \in Configured => cfg = Loaded /\ LongEnough(cfg["JWT_SECRET"])

\* The secret servers have signed with is the one the next will load.
Signed ==
  /\ file = NoFile \/ pc \in {"create", "write", "log"} => signed = Unset
  /\ signed # Unset => Loaded["JWT_SECRET"] = signed

Opens == IsAdmin(AdminEmail) /\ accounts[AdminEmail].password = logged

\* A logged password is in the file and nothing overrides it; the account has
\* it, or is not there and will have it before a server listens.
Logged ==
  /\ file = NoFile \/ pc \in {"create", "write", "log"} => logged = Unset
  /\ logged # Unset =>
       /\ env["BOOTSTRAP_ADMIN_EMAIL"] = Unset /\ env["BOOTSTRAP_ADMIN_PASSWORD"] = Unset
       /\ InFile("BOOTSTRAP_ADMIN_EMAIL") = AdminEmail
       /\ InFile("BOOTSTRAP_ADMIN_PASSWORD") = logged
       /\ \/ Opens
          \/ accounts[AdminEmail] = NoAccount /\ pc \notin {"listen", "serve"}

NoBootstrap == Empty \in {cfg["BOOTSTRAP_ADMIN_EMAIL"], cfg["BOOTSTRAP_ADMIN_PASSWORD"]}

\* A configured account is an administrator once it has been looked up.
Bootstrapped ==
  /\ pc \in {"lookup", "insert"} => ~NoBootstrap
  /\ pc \in {"listen", "serve"} /\ ~NoBootstrap =>
       IsAdmin(cfg["BOOTSTRAP_ADMIN_EMAIL"])

StartInv == TypeOK /\ Progress /\ Signed /\ Logged /\ Bootstrapped

-----------------------------------------------------------------------------
(* Lines of a file. *)

LEMMA LeastIndex ==
  ASSUME NEW S \in SUBSET Nat, S # {}
  PROVE  \E i \in S : \A j \in S : i <= j
<1> DEFINE Below == {p \in Nat \X Nat : p[1] < p[2]}
<1>1. IsWellFoundedOn(Below, Nat)
  BY NatLessThanWellFounded DEF OpToRel
<1>2. \A i, j \in Nat : <<j, i>> \in Below <=> j < i
  OBVIOUS
<1> HIDE DEF Below
<1>3. PICK i \in S : \A j \in S : ~(<<j, i>> \in Below)
  BY <1>1, WFMin
<1>4. ASSUME NEW j \in S
      PROVE  i <= j
  <2>1. ~(j < i)
    BY <1>2, <1>3
  <2> QED BY <2>1
<1> QED BY <1>4

\* A key's value in a file is one of its line's, and of the key's kind.
LEMMA InFileTyped ==
  ASSUME file \in Seq(Line) \cup {NoFile}, NEW k \in Key
  PROVE  InFile(k) \in Of(k) \cup {Unset}
<1> DEFINE at == {i \in DOMAIN file : file[i].key = k}
<1>1. CASE file = NoFile \/ at = {}
  BY <1>1 DEF InFile
<1>2. CASE file # NoFile /\ at # {}
  <2>1. file \in Seq(Line) /\ at \in SUBSET Nat
    BY <1>2
  <2>2. \E i \in at : \A j \in at : i <= j
    BY <1>2, <2>1, LeastIndex
  <2>3. PICK i \in at : InFile(k) = file[i].value
    BY <1>2, <2>2 DEF InFile
  <2>4. file[i] \in Line
    BY <2>1, <2>3
  <2> QED BY <2>3, <2>4 DEF Line
<1> QED BY <1>1, <1>2

LEMMA LoadedTyped ==
  ASSUME file \in Seq(Line) \cup {NoFile}, env \in Env
  PROVE  Loaded \in Settings
<1>1. ASSUME NEW k \in Key
      PROVE  Loaded[k] \in Of(k)
  <2>1. InFile(k) \in Of(k) \cup {Unset} /\ env[k] \in Of(k) \cup {Unset}
    BY InFileTyped DEF Env
  <2>2. Empty \in Of(k)
    BY DEF Of
  <2> QED BY <2>1, <2>2 DEF Loaded, LoadDotEnv
<1>2. \A k \in Key : Of(k) \subseteq Value
  BY DEF Of, Value
<1> QED BY <1>1, <1>2 DEF Loaded, Settings

LEMMA BodyTyped ==
  ASSUME NEW d \in Draws
  PROVE  Body(d) \in Seq(Line) /\ Len(Body(d)) = 3
<1>1. d[1] \in Secret \ Short /\ d[2] \in Password
  OBVIOUS
<1>2. /\ [key |-> "JWT_SECRET", value |-> d[1]] \in Line
      /\ [key |-> "BOOTSTRAP_ADMIN_EMAIL", value |-> AdminEmail] \in Line
      /\ [key |-> "BOOTSTRAP_ADMIN_PASSWORD", value |-> d[2]] \in Line
  BY <1>1 DEF Line, Of, Key, Value
<1> QED BY <1>2 DEF Body

LEMMA TornTyped ==
  ASSUME NEW lines \in Seq(Line)
  PROVE  Torn(lines) \subseteq Seq(Line)
<1>1. \A n \in 0..Len(lines) : SubSeq(lines, 1, n) \in Seq(Line)
  OBVIOUS
<1>2. ASSUME NEW n \in DOMAIN lines, NEW v \in Cut[lines[n].value]
      PROVE  [SubSeq(lines, 1, n) EXCEPT ![n].value = v] \in Seq(Line)
  <2> DEFINE s == SubSeq(lines, 1, n)
  <2>1. s \in Seq(Line) /\ n \in DOMAIN s /\ s[n] = lines[n]
    OBVIOUS
  <2>2. lines[n] \in Line /\ v \in Of(lines[n].key)
    BY DEF Line
  <2>3. [lines[n] EXCEPT !.value = v] \in Line
    BY <2>2 DEF Line, Of, Value
  <2>4. [s EXCEPT ![n].value = v] = [s EXCEPT ![n] = [lines[n] EXCEPT !.value = v]]
    BY <2>1
  <2>5. n \in 1..Len(s)
    BY <2>1
  <2> HIDE DEF s
  <2>6. [s EXCEPT ![n] = [lines[n] EXCEPT !.value = v]] \in Seq(Line)
    BY <2>1, <2>3, <2>5, ExceptSeq
  <2> QED BY <2>4, <2>6 DEF s
<1> DEFINE whole == {SubSeq(lines, 1, n) : n \in 0..Len(lines)}
           cut(n) == {[SubSeq(lines, 1, n) EXCEPT ![n].value = v] : v \in Cut[lines[n].value]}
<1>3. whole \subseteq Seq(Line)
  BY <1>1
<1>4. \A n \in DOMAIN lines : cut(n) \subseteq Seq(Line)
  BY <1>2
<1>5. Torn(lines) = whole \cup UNION {cut(n) : n \in DOMAIN lines}
  BY DEF Torn
<1> HIDE DEF whole, cut
<1> QED BY <1>3, <1>4, <1>5

\* What a first run writes is what it drew.
LEMMA BodyInFile ==
  ASSUME NEW d \in Draws, file = Body(d)
  PROVE  /\ InFile("BOOTSTRAP_ADMIN_EMAIL") = AdminEmail
         /\ InFile("BOOTSTRAP_ADMIN_PASSWORD") = d[2]
<1>1. file # NoFile
  BY BodyTyped
<1>2. /\ DOMAIN file = 1..3 /\ file[1].key = "JWT_SECRET"
      /\ file[2].key = "BOOTSTRAP_ADMIN_EMAIL" /\ file[2].value = AdminEmail
      /\ file[3].key = "BOOTSTRAP_ADMIN_PASSWORD" /\ file[3].value = d[2]
  BY DEF Body
<1>3. \A i \in DOMAIN file : /\ file[i].key = "BOOTSTRAP_ADMIN_EMAIL" <=> i = 2
                            /\ file[i].key = "BOOTSTRAP_ADMIN_PASSWORD" <=> i = 3
  BY <1>2
<1>4. /\ {i \in DOMAIN file : file[i].key = "BOOTSTRAP_ADMIN_EMAIL"} = {2}
      /\ {i \in DOMAIN file : file[i].key = "BOOTSTRAP_ADMIN_PASSWORD"} = {3}
  BY <1>2, <1>3
<1>5. \A n \in Nat : (CHOOSE i \in {n} : \A j \in {n} : i <= j) = n
  OBVIOUS
<1> QED BY <1>1, <1>2, <1>4, <1>5 DEF InFile

\* The settings to load change only with the file or the environment.
LEMMA SameSources ==
  ASSUME UNCHANGED <<file, env>>
  PROVE  Loaded' = Loaded /\ \A k : InFile(k)' = InFile(k)
BY DEF Loaded, LoadDotEnv, InFile

-----------------------------------------------------------------------------
(* The invariant at the start, and kept by every step. *)

LEMMA StartInit ==
  ASSUME Init
  PROVE  StartInv
<1>1. TypeOK
  BY DEF Init, TypeOK, NoCfg, Settings, Of, Value
<1> QED BY <1>1 DEF Init, StartInv, Progress, Signed, Logged, Bootstrapped, Loading, Configured

LEMMA TypeNext ==
  ASSUME StartInv, Next
  PROVE  TypeOK'
<1> USE DEF TypeOK, Disk, Ghosts, Goto
<1>1. TypeOK
  BY DEF StartInv
<1>2. CASE Launch \/ LoadFails \/ Migrate \/ CreateFails \/ Die
  <2>1. NoCfg \in Settings
    BY DEF NoCfg, Settings, Of, Value
  <2> QED BY <1>1, <1>2, <2>1 DEF Launch, LoadFails, Migrate, CreateFails, Die
<1>3. CASE Stat
  BY <1>1, <1>3 DEF Stat
<1>4. CASE Create
  BY <1>1, <1>4 DEF Create
<1>5. CASE Write \/ WriteFails
  <2>1. drawn \in Draws
    BY <1>5 DEF StartInv, Progress, Write, WriteFails
  <2>2. Body(drawn) \in Seq(Line)
    BY <2>1, BodyTyped
  <2>3. Torn(Body(drawn)) \subseteq Seq(Line)
    BY <2>2, TornTyped
  <2> QED BY <1>1, <1>5, <2>2, <2>3 DEF Write, WriteFails
<1>6. CASE Log
  <2>1. drawn \in Draws
    BY <1>6 DEF StartInv, Progress, Log
  <2> QED BY <1>1, <1>6, <2>1 DEF Log
<1>7. CASE Load
  BY <1>1, <1>7, LoadedTyped DEF Load
<1>8. CASE Lookup
  <2> DEFINE e == cfg["BOOTSTRAP_ADMIN_EMAIL"]
  <2>1. CASE accounts' = [accounts EXCEPT ![e].admin = TRUE] /\ accounts[e] # NoAccount
    <3>1. e \in Email => [accounts[e] EXCEPT !.admin = TRUE] \in Account
      BY <1>1, <2>1 DEF Account
    <3>2. accounts' \in [Email -> Account \cup {NoAccount}]
      BY <1>1, <2>1, <3>1
    <3> QED BY <1>1, <1>8, <3>2 DEF Lookup
  <2>2. CASE accounts' = accounts
    BY <1>1, <1>8, <2>2 DEF Lookup
  <2> QED BY <1>8, <2>1, <2>2 DEF Lookup
<1>9. CASE Insert
  <2>1. cfg["BOOTSTRAP_ADMIN_PASSWORD"] \in Value
    BY <1>1 DEF Settings, Key
  <2>2. accounts' \in [Email -> Account \cup {NoAccount}]
    BY <1>1, <1>9, <2>1 DEF Insert, Account
  <2> QED BY <1>1, <1>9, <2>2 DEF Insert
<1>10. CASE Listen
  <2>1. cfg["JWT_SECRET"] \in Secret
    BY <1>10 DEF Listen, StartInv, Progress, Configured, LongEnough
  <2> QED BY <1>1, <1>10, <2>1 DEF Listen
<1>11. CASE Register
  BY <1>1, <1>11 DEF Register, Account, Value
<1>12. CASE ChangeFile
  BY <1>1, <1>12 DEF ChangeFile
<1>13. CASE ChangeEnv
  BY <1>1, <1>13 DEF ChangeEnv
<1>14. CASE DeleteDb
  BY <1>1, <1>14 DEF DeleteDb
<1> QED BY <1>2, <1>3, <1>4, <1>5, <1>6, <1>7, <1>8, <1>9, <1>10, <1>11, <1>12, <1>13, <1>14
        DEF Next

LEMMA ProgressNext ==
  ASSUME StartInv, Next
  PROVE  Progress'
<1> USE DEF Progress, Loading, Configured, Disk, Ghosts, Goto
<1>1. Progress /\ TypeOK
  BY DEF StartInv
<1>2. CASE Launch \/ LoadFails \/ CreateFails \/ Die \/ WriteFails \/ ChangeEnv \/ DeleteDb
  BY <1>2 DEF Launch, LoadFails, CreateFails, Die, WriteFails, ChangeEnv, DeleteDb
<1>3. CASE Stat
  BY <1>1, <1>3 DEF Stat
<1>4. CASE Create
  BY <1>1, <1>4 DEF Create
<1>5. CASE Write
  BY <1>1, <1>5 DEF Write
<1>6. CASE Log
  <2>1. Body(drawn) # NoFile
    BY <1>1, <1>6, BodyTyped DEF Log
  <2> QED BY <1>1, <1>6, <2>1 DEF Log
<1>7. CASE Load \/ Migrate \/ Lookup \/ Insert \/ Listen
  <2>1. Loaded' = Loaded
    BY <1>7, SameSources DEF Load, Migrate, Lookup, Insert, Listen
  <2>2. CASE Load
    BY <1>1, <2>1, <2>2 DEF Load
  <2>3. CASE Migrate
    BY <1>1, <2>1, <2>3 DEF Migrate
  <2>4. CASE Lookup
    BY <1>1, <2>1, <2>4 DEF Lookup
  <2>5. CASE Insert \/ Listen
    BY <1>1, <2>1, <2>5 DEF Insert, Listen
  <2> QED BY <1>7, <2>2, <2>3, <2>4, <2>5
<1>8. CASE Register
  BY <1>8 DEF Register
<1>9. CASE ChangeFile
  BY <1>9 DEF ChangeFile
<1> QED BY <1>2, <1>3, <1>4, <1>5, <1>6, <1>7, <1>8, <1>9 DEF Next

LEMMA SignedNext ==
  ASSUME StartInv, Next
  PROVE  Signed'
<1> USE DEF Signed, Disk, Ghosts, Goto
<1>1. Signed /\ Progress /\ TypeOK
  BY DEF StartInv
<1>2. CASE ChangeFile \/ ChangeEnv
  BY <1>2 DEF ChangeFile, ChangeEnv
<1>3. CASE Create \/ Write \/ WriteFails
  BY <1>1, <1>3 DEF Create, Write, WriteFails
<1>4. CASE Stat
  BY <1>1, <1>4, SameSources DEF Stat
<1>5. CASE Listen
  BY <1>1, <1>5, SameSources DEF Listen, Progress, Loading, Configured
<1>6. CASE Launch \/ CreateFails \/ Load \/ LoadFails \/ Migrate \/ Insert \/ Die
           \/ Register \/ DeleteDb \/ Log
  BY <1>1, <1>6, SameSources
     DEF Launch, CreateFails, Load, LoadFails, Migrate, Insert, Die, Register, DeleteDb, Log
<1>7. CASE Lookup
  BY <1>1, <1>7, SameSources DEF Lookup
<1> QED BY <1>2, <1>3, <1>4, <1>5, <1>6, <1>7 DEF Next

\* While a password is logged, what a start has loaded names its account.
LEMMA LoggedLoads ==
  ASSUME StartInv, logged # Unset, pc \in Configured
  PROVE  /\ cfg["BOOTSTRAP_ADMIN_EMAIL"] = AdminEmail
         /\ cfg["BOOTSTRAP_ADMIN_PASSWORD"] = logged
         /\ ~NoBootstrap
<1>1. AdminEmail # Unset /\ AdminEmail # Empty /\ logged # Empty
  BY DEF StartInv, TypeOK, Value
<1>2. cfg = Loaded
  BY DEF StartInv, Progress
<1>3. /\ Loaded["BOOTSTRAP_ADMIN_EMAIL"] = AdminEmail
      /\ Loaded["BOOTSTRAP_ADMIN_PASSWORD"] = logged
  BY <1>1 DEF StartInv, Logged, Loaded, LoadDotEnv, Key
<1> QED BY <1>1, <1>2, <1>3 DEF NoBootstrap

LEMMA LoggedNext ==
  ASSUME StartInv, Next
  PROVE  Logged'
<1> USE DEF Logged, Opens, IsAdmin, Disk, Ghosts, Goto
<1>1. Logged /\ Progress /\ TypeOK
  BY DEF StartInv
<1>2. CASE ChangeFile \/ ChangeEnv \/ DeleteDb
  BY <1>1, <1>2 DEF ChangeFile, ChangeEnv, DeleteDb
<1>3. CASE Create \/ Write \/ WriteFails
  BY <1>1, <1>3 DEF Create, Write, WriteFails
<1>4. CASE Stat \/ Launch \/ CreateFails \/ Load \/ LoadFails \/ Die \/ Listen
  BY <1>1, <1>4, SameSources DEF Stat, Launch, CreateFails, Load, LoadFails, Die, Listen
<1>5. CASE Log
  <2>1. file = Body(drawn) /\ drawn \in Draws
    BY <1>1, <1>5 DEF Log, Progress
  <2>2. /\ InFile("BOOTSTRAP_ADMIN_EMAIL") = AdminEmail
        /\ InFile("BOOTSTRAP_ADMIN_PASSWORD") = drawn[2]
    BY <2>1, BodyInFile
  <2>3. file # NoFile
    BY <2>1, BodyTyped
  <2> QED BY <1>1, <1>5, <2>2, <2>3, SameSources DEF Log
<1>6. CASE Migrate
  BY <1>1, <1>6, SameSources, LoggedLoads DEF Migrate, Configured, NoBootstrap
<1>7. CASE Lookup
  <2> DEFINE e == cfg["BOOTSTRAP_ADMIN_EMAIL"]
  <2>1. UNCHANGED <<file, env, logged>> /\ pc = "lookup"
    BY <1>7 DEF Lookup
  <2>2. logged # Unset => e = AdminEmail
    BY <2>1, LoggedLoads DEF Configured
  <2>3. CASE accounts[e] = NoAccount /\ pc' = "insert" /\ accounts' = accounts
    BY <1>1, <2>1, <2>3, SameSources DEF Progress
  <2>4. CASE /\ accounts[e] # NoAccount /\ pc' = "listen"
             /\ accounts' = [accounts EXCEPT ![e].admin = TRUE]
    <3>1. e \in Email /\ accounts[e] \in Account
      <4>1. e \in Email \cup {Empty}
        BY <1>1 DEF TypeOK, Settings, Of, Key
      <4>2. e # Empty
        BY <2>1 DEF StartInv, Bootstrapped, NoBootstrap
      <4> QED BY <1>1, <2>4, <4>1, <4>2 DEF TypeOK
    <3>2. accounts'[e] = [accounts[e] EXCEPT !.admin = TRUE]
      BY <1>1, <2>4, <3>1 DEF TypeOK
    <3>3. /\ accounts'[e] \in Account /\ accounts'[e].admin
          /\ accounts'[e].password = accounts[e].password
      BY <3>1, <3>2 DEF Account
    <3>4. logged # Unset => Opens'
      BY <1>1, <2>1, <2>2, <2>4, <3>3
    <3> QED BY <1>1, <2>1, <2>4, <3>4, SameSources DEF Progress
  <2> QED BY <1>7, <2>3, <2>4 DEF Lookup
<1>8. CASE Insert
  <2>1. UNCHANGED <<file, env, logged>> /\ pc = "insert" /\ pc' = "listen"
    BY <1>8 DEF Insert
  <2>2. logged # Unset =>
          accounts'[AdminEmail] = [password |-> logged, admin |-> TRUE]
    BY <1>1, <1>8, <2>1, LoggedLoads DEF Insert, Configured, TypeOK
  <2>3. logged # Unset => accounts'[AdminEmail] \in Account
    <3>1. logged # Unset => logged \in Value
      BY <1>1 DEF TypeOK, Value
    <3>2. logged # Unset => [password |-> logged, admin |-> TRUE] \in Account
      BY <3>1 DEF Account
    <3> QED BY <2>2, <3>2
  <2>4. logged # Unset => Opens'
    BY <2>1, <2>2, <2>3
  <2> QED BY <1>1, <2>1, <2>4, SameSources
<1>9. CASE Register
  <2>1. UNCHANGED <<pc, file, env, logged>> /\ pc = "serve"
    BY <1>9 DEF Register
  <2>2. logged # Unset => Opens
    BY <1>1, <2>1
  <2>3. logged # Unset => Opens'
    BY <1>1, <1>9, <2>1, <2>2 DEF Register, TypeOK
  <2> QED BY <1>1, <2>1, <2>3, SameSources
<1> QED BY <1>2, <1>3, <1>4, <1>5, <1>6, <1>7, <1>8, <1>9 DEF Next

LEMMA BootstrappedNext ==
  ASSUME StartInv, Next
  PROVE  Bootstrapped'
<1> USE DEF Bootstrapped, NoBootstrap, IsAdmin, Disk, Ghosts, Goto
<1>1. Bootstrapped /\ Progress /\ TypeOK
  BY DEF StartInv
<1>2. CASE Launch \/ Stat \/ CreateFails \/ Create \/ Write \/ WriteFails \/ Log
           \/ LoadFails \/ Die \/ ChangeEnv \/ DeleteDb
  BY <1>2 DEF Launch, Stat, CreateFails, Create, Write, WriteFails, Log, LoadFails, Die,
     ChangeEnv, DeleteDb
<1>3. CASE Load \/ Migrate
  BY <1>1, <1>3 DEF Load, Migrate
<1>4. CASE Listen \/ ChangeFile
  BY <1>1, <1>4 DEF Listen, ChangeFile
<1> DEFINE e == cfg["BOOTSTRAP_ADMIN_EMAIL"]
<1>5. pc \in {"lookup", "insert"} => e \in Email
  BY <1>1 DEF TypeOK, Settings, Of, Key
<1>6. CASE Lookup
  <2>1. CASE pc' = "insert"
    BY <1>1, <1>6, <2>1 DEF Lookup
  <2>2. CASE /\ accounts[e] # NoAccount /\ pc' = "listen"
             /\ accounts' = [accounts EXCEPT ![e].admin = TRUE]
    <3>1. e \in Email /\ accounts[e] \in Account
      BY <1>1, <1>5, <1>6, <2>2 DEF Lookup, TypeOK
    <3>2. accounts'[e] = [accounts[e] EXCEPT !.admin = TRUE]
      BY <1>1, <2>2, <3>1 DEF TypeOK
    <3>3. accounts'[e] \in Account /\ accounts'[e].admin
      BY <3>1, <3>2 DEF Account
    <3> QED BY <1>6, <2>2, <3>3 DEF Lookup
  <2> QED BY <1>6, <2>1, <2>2 DEF Lookup
<1>7. CASE Insert
  <2>1. accounts'[e] = [password |-> cfg["BOOTSTRAP_ADMIN_PASSWORD"], admin |-> TRUE]
    BY <1>1, <1>5, <1>7 DEF Insert, TypeOK
  <2>2. accounts'[e] \in Account /\ accounts'[e].admin
    BY <1>1, <2>1 DEF Account, TypeOK, Settings, Key
  <2> QED BY <1>7, <2>2 DEF Insert
<1>8. CASE Register
  <2>1. pc = "serve" /\ pc' = "serve" /\ cfg' = cfg
    BY <1>8 DEF Register
  <2>2. ~NoBootstrap => accounts'[e] = accounts[e]
    BY <1>1, <1>8, <2>1 DEF Register, TypeOK
  <2> QED BY <1>1, <2>1, <2>2
<1> QED BY <1>2, <1>3, <1>4, <1>6, <1>7, <1>8 DEF Next

LEMMA StartNext ==
  ASSUME StartInv, [Next]_vars
  PROVE  StartInv'
<1>1. CASE Next
  BY <1>1, TypeNext, ProgressNext, SignedNext, LoggedNext, BootstrappedNext DEF StartInv
<1>2. CASE UNCHANGED vars
  <2>1. Loaded' = Loaded /\ \A k : InFile(k)' = InFile(k)
    BY <1>2, SameSources DEF vars
  <2> QED BY <1>2, <2>1 DEF vars, StartInv, TypeOK, Progress, Signed, Logged, Opens,
             IsAdmin, Bootstrapped, NoBootstrap
<1> QED BY <1>1, <1>2

-----------------------------------------------------------------------------
(* The theorems. *)

\* In every reachable state the file, the accounts and the settings agree as
\* far as the start has come.
THEOREM StartInvariant == Spec => []StartInv
<1>1. Init => StartInv
  BY StartInit
<1>2. StartInv /\ [Next]_vars => StartInv'
  BY StartNext
<1> QED BY <1>1, <1>2, PTL DEF Spec

\* The state of a start is well typed.
THEOREM StartTyping == Spec => []TypeOK
<1>1. StartInv => TypeOK
  BY DEF StartInv
<1> QED BY <1>1, StartInvariant, PTL

\* The password the first run logs opens the administrator's account.
THEOREM LoggedOpens == Spec => []LoggedPasswordOpens
<1>1. StartInv => LoggedPasswordOpens
  BY DEF StartInv, Logged, Opens, LoggedPasswordOpens
<1> QED BY <1>1, StartInvariant, PTL

\* A server that was given an account has that administrator.
THEOREM AdminIsThere == Spec => []AdminEnsured
<1>1. StartInv => AdminEnsured
  BY DEF StartInv, Bootstrapped, NoBootstrap, AdminEnsured
<1> QED BY <1>1, StartInvariant, PTL

\* Every start signs with the secret of the starts before it.
THEOREM SecretStays == Spec => SecretKept
<1>1. StartInv /\ [Next]_vars =>
        [pc # "serve" /\ pc' = "serve" /\ signed # Unset => cfg'["JWT_SECRET"] = signed]_vars
  <2> SUFFICES ASSUME StartInv, Next, pc # "serve", pc' = "serve", signed # Unset
               PROVE  cfg'["JWT_SECRET"] = signed
    BY DEF vars
  <2>1. Listen
    BY DEF Next, Launch, Stat, CreateFails, Create, Write, WriteFails, Log, Load, LoadFails,
       Migrate, Lookup, Insert, Register, Die, ChangeFile, ChangeEnv, DeleteDb, Goto
  <2> QED BY <2>1 DEF Listen, StartInv, Progress, Configured, Signed
<1> QED BY <1>1, StartInvariant, PTL DEF Spec, SecretKept
=============================================================================
