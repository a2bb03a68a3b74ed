-------------------------- MODULE DeploymentProofs --------------------------
(***************************************************************************)
(* What the scripts guarantee for any number of accounts, services and     *)
(* commands: types, one service per account, and what the exit status of   *)
(* push_env.py says.                                                       *)
(***************************************************************************)
EXTENDS Deployment, TLAPS

\* An account holds what was pushed, and runs on it or will.
Settled(a) == env[a] = local /\ (pending[a] \/ live[a] = local)

\* Where a script may be, and that its service is still there.
ShellOK ==
    /\ shell.cmd = "none" => shell = Idle
    /\ shell.cmd \in Deploying => shell.step \in {"put", "trigger"}
    /\ shell.cmd = "push" => shell.step \in {"put", "check", "trigger"}
    /\ shell.cmd = "register" => shell.step \in {"preflight", "set", "info"}
    /\ shell.step \in {"check", "trigger"} => services[shell.at] # {}
    /\ shell.cmd \in Deploying \union {"push"} => procedure = "none"

\* While push_env.py has met no error, the accounts behind it are settled.
PushOK ==
    shell.cmd = "push" =>
        /\ shell.step \in {"check", "trigger"} => Landed(env[shell.at])
        /\ shell.ok => \A a \in keyed \ doubtful : a < shell.at => Settled(a)
        /\ shell.ok /\ shell.step = "trigger" /\ shell.at \notin doubtful =>
              env[shell.at] = local

\* The inductive invariant.
Inv == TypeOK /\ OneServicePerAccount /\ ShellOK /\ PushOK /\ PushReports

-----------------------------------------------------------------------------
LEMMA EnvsFacts ==
    /\ Unset \in Envs
    /\ Down \notin Envs
  BY ConstantsAssumption DEF Unset, Envs, Down, Keys, Versions

\* Exit and To leave the shell well typed.
LEMMA ShellTypes ==
    ASSUME TypeOK
    PROVE  /\ Idle \in Shells
           /\ shell.at \in Accounts /\ shell.ok \in BOOLEAN
           /\ shell.cmd \in Commands /\ shell.step \in Steps
  BY ConstantsAssumption DEF TypeOK, Idle, Shells, Commands, Deploying, Steps, Accounts

\* The .env file holds versions, and an edited one is a .env file.
LEMMA LocalFacts ==
    ASSUME TypeOK
    PROVE  /\ local["token"] \in Versions /\ local["secret"] \in Versions
           /\ 0 \in Versions /\ 1 \in Versions
           /\ \A v \in Versions : [local EXCEPT !["token"] = v] \in Envs
           /\ \A v \in Versions : [local EXCEPT !["secret"] = v] \in Envs
<1>1. local \in Envs
  BY DEF TypeOK
<1> QED BY <1>1, ConstantsAssumption DEF Envs, Keys, Versions

LEMMA InitInv == Init => Inv
<1> SUFFICES ASSUME Init PROVE Inv
  OBVIOUS
<1>1. Idle \in Shells
  BY ConstantsAssumption DEF Idle, Shells, Commands, Deploying, Steps, Accounts
<1>2. created \in [Accounts -> 0..MaxServices]
  BY ConstantsAssumption DEF Init
<1>3. TypeOK
  <2>1. local \in Envs /\ 0 \in Versions
    BY ConstantsAssumption DEF Init, Envs, Versions
  <2>2. services \in [Accounts -> SUBSET (1..MaxServices)]
    BY ConstantsAssumption DEF Init, Pinned
  <2>3. \A a \in Accounts :
           services[a] = {} => env[a] = Unset /\ live[a] = Down /\ ~ pending[a]
    BY DEF Init
  <2>4. webhook \in [to : {0} \union Accounts, secret : Versions]
    BY <2>1 DEF Init
  <2>5. live \in [Accounts -> Envs \union {Down}]
    BY EnvsFacts DEF Init
  <2>6. waiting \in BOOLEAN
    BY DEF Init
  <2>7. /\ env \in [Accounts -> Envs]
        /\ pending \in [Accounts -> BOOLEAN]
        /\ suspended \in [Accounts -> BOOLEAN]
    BY EnvsFacts DEF Init
  <2>8. acts \in 0..MaxActs
    BY ConstantsAssumption DEF Init
  <2> QED
    BY <1>1, <1>2, <2>1, <2>2, <2>3, <2>4, <2>5, <2>6, <2>7, <2>8 DEF Init, TypeOK
<1>4. OneServicePerAccount
  BY DEF Init, OneServicePerAccount
<1> QED
  BY <1>3, <1>4 DEF Init, Inv, ShellOK, PushOK, PushReports, Idle, Deploying

-----------------------------------------------------------------------------
\* A command begins: nothing counts any more, and no script runs yet.
LEMMA OperatorTypes ==
    ASSUME Inv, Operator
    PROVE  TypeOK'
<1> USE EnvsFacts, ShellTypes, ConstantsAssumption DEF Inv, TypeOK, Shells, host, telegram
<1>1. CASE Edit
  <2>1. CASE local' = [local EXCEPT !["token"] = IF @ = 0 THEN 1 ELSE 0]
    <3>1. local' \in Envs
      BY <2>1, LocalFacts
    <3> QED BY <3>1, <1>1 DEF Edit, Act
  <2>2. CASE /\ local["secret"] < MaxVersion
             /\ local' = [local EXCEPT !["secret"] = @ + 1]
    <3>1. local["secret"] + 1 \in Versions
      BY <2>2, LocalFacts DEF Versions
    <3>2. local' \in Envs
      BY <2>2, <3>1, LocalFacts
    <3> QED BY <3>2, <1>1 DEF Edit, Act
  <2> QED BY <1>1, <2>1, <2>2 DEF Edit
<1>2. CASE StartDeploy
  <2>1. PICK cmd \in Deploying, a \in keyed : shell' = [cmd |-> cmd, at |-> a, step |-> "put", ok |-> TRUE]
    BY <1>2 DEF StartDeploy, Begin, First, Deploying
  <2>2. shell' \in Shells
    BY <2>1 DEF Shells, Commands, Steps
  <2> QED BY <1>2, <2>2 DEF StartDeploy, Act
<1>3. CASE StartPush
  BY <1>3 DEF StartPush, Act, Begin, First, Commands, Deploying, Steps
<1>4. CASE DeleteWebhook
  BY <1>4, LocalFacts DEF DeleteWebhook, Act
<1>5. ASSUME NEW a \in Accounts, Suspend(a) PROVE TypeOK'
  BY <1>5 DEF Suspend, Act
<1>6. ASSUME NEW a \in Accounts, Delete(a) PROVE TypeOK'
  BY <1>6 DEF Delete, Act
<1>7. ASSUME NEW a \in Accounts, WebhookCommand(a) PROVE TypeOK'
  <2>1. webhook' \in [to : {0} \union Accounts, secret : Versions]
    BY <1>7, LocalFacts DEF WebhookCommand
  <2>2. waiting' \in BOOLEAN
    BY <1>7 DEF WebhookCommand
  <2> QED BY <1>7, <2>1, <2>2 DEF WebhookCommand, Act
<1>8. ASSUME NEW a \in Accounts, NEW force \in BOOLEAN, StartRegister(a, force) PROVE TypeOK'
  BY <1>8 DEF StartRegister, Act, Begin, Commands, Steps
<1> QED BY <1>1, <1>2, <1>3, <1>4, <1>5, <1>6, <1>7, <1>8 DEF Operator

LEMMA OperatorInv ==
    ASSUME Inv, Operator
    PROVE  Inv'
<1>1. TypeOK'
  BY OperatorTypes
<1>2. shell = Idle
  BY DEF Operator, Edit, StartDeploy, StartPush, DeleteWebhook, Suspend, Delete,
         WebhookCommand, StartRegister, Act
<1>3. CASE Edit \/ DeleteWebhook \/ (\E a \in Accounts : Suspend(a) \/ WebhookCommand(a))
  <2>1. shell' = Idle /\ procedure' = "none" /\ services' = services
    BY <1>2, <1>3 DEF Edit, DeleteWebhook, Suspend, WebhookCommand, Act, host
  <2> QED
    BY <1>1, <2>1 DEF Inv, OneServicePerAccount, ShellOK, PushOK, PushReports, Idle, Deploying
<1>4. ASSUME NEW a \in Accounts, Delete(a) PROVE Inv'
  <2>1. shell' = Idle /\ procedure' = "none"
    BY <1>2, <1>4 DEF Delete, Act
  <2>2. OneServicePerAccount'
    BY <1>4 DEF Inv, TypeOK, OneServicePerAccount, Delete
  <2> QED
    BY <1>1, <2>1, <2>2 DEF Inv, ShellOK, PushOK, PushReports, Idle, Deploying
<1>5. CASE StartDeploy
  <2>1. shell'.cmd \in Deploying /\ shell'.step = "put" /\ procedure' = "none"
    BY <1>5 DEF StartDeploy, Begin, Act, Deploying
  <2>2. services' = services
    BY <1>5 DEF StartDeploy, host
  <2> QED
    BY <1>1, <2>1, <2>2 DEF Inv, OneServicePerAccount, ShellOK, PushOK, PushReports, Deploying
<1>6. CASE StartPush
  <2>1. PICK a \in First(keyed) : shell' = [cmd |-> "push", at |-> a, step |-> "put", ok |-> TRUE]
    BY <1>6 DEF StartPush, Begin
  <2>2. procedure' = "none" /\ services' = services /\ keyed' = keyed
    BY <1>6 DEF StartPush, Act, host
  <2>3. \A b \in keyed : ~ (b < a)
    BY <2>1 DEF First, Inv, TypeOK, Accounts
  <2>4. PushOK'
    BY <2>1, <2>2, <2>3 DEF PushOK
  <2> QED
    BY <1>1, <2>1, <2>2, <2>4 DEF Inv, OneServicePerAccount, ShellOK, PushReports, Deploying
<1>7. ASSUME NEW a \in Accounts, NEW force \in BOOLEAN, StartRegister(a, force) PROVE Inv'
  <2>1. shell'.cmd = "register" /\ shell'.step \in {"set", "preflight"}
    BY <1>7 DEF StartRegister, Begin
  <2>2. procedure = "none" => procedure' = "none"
    BY <1>7 DEF StartRegister, Act
  <2>3. UNCHANGED <<keyed, local, services, env, live, pending, doubtful>>
    BY <1>7 DEF StartRegister, host
  <2> QED
    BY <1>1, <2>1, <2>2, <2>3
    DEF Inv, OneServicePerAccount, ShellOK, PushOK, PushReports, Deploying
<1> QED BY <1>3, <1>4, <1>5, <1>6, <1>7 DEF Operator

-----------------------------------------------------------------------------
\* Where a step of a script may leave the shell.
LEMMA ShellMoves ==
    ASSUME TypeOK
    PROVE  /\ \A step \in Steps :
                 To(step) => shell' \in Shells
           /\ Exit => shell' \in Shells
           /\ NextAccount => shell' \in Shells
           /\ \A ok \in BOOLEAN :
                 PushNext(ok) =>
                    /\ shell' \in Shells
                    /\ procedure' \in {"none", "pushed", "registered"}
<1> USE ShellTypes DEF TypeOK, Shells
<1>1. "put" \in Steps
  BY DEF Steps
<1>2. ASSUME NEW a \in Ahead PROVE a \in Accounts
  BY DEF Ahead
<1>3. ASSUME NEW step \in Steps, To(step)
      PROVE  shell' \in Shells
  BY <1>3 DEF To
<1>4. ASSUME Exit
      PROVE  shell' \in Shells
  BY <1>4 DEF Exit
<1>5. ASSUME NextAccount
      PROVE  shell' \in Shells
  BY <1>1, <1>2, <1>4, <1>5 DEF NextAccount, First
<1>6. ASSUME NEW ok \in BOOLEAN, PushNext(ok)
      PROVE  /\ shell' \in Shells
             /\ procedure' \in {"none", "pushed", "registered"}
  BY <1>1, <1>2, <1>4, <1>6 DEF PushNext, First
<1> QED BY <1>3, <1>4, <1>5, <1>6

\* A change to the host of one account keeps the types.
LEMMA DeployTypes ==
    ASSUME Inv, DeployCreates \/ DeployUpdates \/ DeployTriggers
    PROVE  TypeOK'
<1> USE ShellTypes DEF Inv
<1>1. CASE DeployCreates
  <2>1. created[shell.at] + 1 \in 1..MaxServices
    BY <1>1, ConstantsAssumption DEF DeployCreates, Create, TypeOK
  <2>2. shell' \in Shells
    BY <1>1, ShellMoves DEF DeployCreates
  <2>3. env' \in [Accounts -> Envs]
    BY <1>1, EnvsFacts DEF DeployCreates, Create, TypeOK
  <2>4. /\ services' \in [Accounts -> SUBSET (1..MaxServices)]
        /\ created' \in [Accounts -> 0..MaxServices]
        /\ pending' \in [Accounts -> BOOLEAN]
    BY <1>1, <2>1, ConstantsAssumption DEF DeployCreates, Create, TypeOK
  <2>5. \A a \in Accounts :
           services'[a] = {} => env'[a] = Unset /\ live'[a] = Down /\ ~ pending'[a]
    BY <1>1 DEF DeployCreates, Create, TypeOK
  <2> QED
    BY <1>1, <2>2, <2>3, <2>4, <2>5 DEF DeployCreates, Create, TypeOK, telegram
<1>2. CASE DeployUpdates
  <2>1. PICK e \in Replacing(shell.cmd) : env' = [env EXCEPT ![shell.at] = e]
    BY <1>2 DEF DeployUpdates
  <2>2. e \in Envs
    <3>1. local \in [Keys -> Versions] /\ 0 \in Versions
      BY ConstantsAssumption DEF TypeOK, Envs, Versions
    <3> QED BY <2>1, <3>1, EnvsFacts DEF Replacing, Envs
  <2>3. env' \in [Accounts -> Envs]
    BY <2>1, <2>2 DEF TypeOK
  <2>4. shell' \in Shells
    BY <1>2, ShellMoves DEF DeployUpdates, Steps
  <2>5. \A a \in Accounts :
           services'[a] = {} => env'[a] = Unset /\ live'[a] = Down /\ ~ pending'[a]
    BY <1>2, <2>1 DEF DeployUpdates, TypeOK
  <2> QED BY <1>2, <2>3, <2>4, <2>5 DEF DeployUpdates, TypeOK, telegram
<1>3. CASE DeployTriggers
  <2>1. services[shell.at] # {}
    BY <1>3 DEF DeployTriggers, ShellOK
  <2>2. shell' \in Shells
    BY <1>3, ShellMoves DEF DeployTriggers
  <2>3. pending' \in [Accounts -> BOOLEAN]
    BY <1>3 DEF DeployTriggers, TypeOK
  <2>4. \A a \in Accounts :
           services'[a] = {} => env'[a] = Unset /\ live'[a] = Down /\ ~ pending'[a]
    BY <1>3, <2>1 DEF DeployTriggers, TypeOK
  <2> QED BY <1>3, <2>2, <2>3, <2>4 DEF DeployTriggers, TypeOK, telegram
<1> QED BY <1>1, <1>2, <1>3

\* deploy_render.py changes no account that counts as pushed.
LEMMA DeployInv ==
    ASSUME Inv, DeployCreates \/ DeployUpdates \/ DeployTriggers
    PROVE  Inv'
<1> USE ShellTypes DEF Inv
<1>1. TypeOK'
  BY DeployTypes
<1>2. shell.cmd \in Deploying /\ procedure' = "none"
  BY DEF DeployCreates, DeployUpdates, DeployTriggers, ShellOK, Deploying
<1>3. OneServicePerAccount'
  BY DEF DeployCreates, Create, DeployUpdates, DeployTriggers, OneServicePerAccount, TypeOK
<1>4. \/ shell' = Idle
      \/ shell'.cmd = shell.cmd /\ shell'.step = "put"
      \/ To("trigger") /\ services' = services /\ services[shell.at] # {}
  BY DEF DeployCreates, DeployUpdates, DeployTriggers, NextAccount, Exit, TypeOK, Shells
<1>5. ShellOK' /\ PushOK'
  BY <1>2, <1>4 DEF ShellOK, PushOK, To, Idle, Deploying, TypeOK, Shells
<1> QED BY <1>1, <1>2, <1>3, <1>5 DEF PushReports

-----------------------------------------------------------------------------
\* push_env.py keeps the types.
LEMMA PushTypes ==
    ASSUME Inv,
           \/ PushPuts \/ PushRefused \/ PushChecks \/ PushUnread \/ PushTriggers
           \/ PushUntriggered
    PROVE  TypeOK'
<1> USE ShellTypes DEF Inv
<1>1. CASE PushPuts
  <2>1. PICK e \in Envs : env' = [env EXCEPT ![shell.at] = e]
    BY <1>1 DEF PushPuts
  <2>2. shell' \in Shells
    BY <1>1, ShellMoves DEF PushPuts, Steps
  <2>3. \A a \in Accounts :
           services'[a] = {} => env'[a] = Unset /\ live'[a] = Down /\ ~ pending'[a]
    BY <1>1, <2>1 DEF PushPuts, TypeOK
  <2> QED BY <1>1, <2>1, <2>2, <2>3 DEF PushPuts, TypeOK, telegram
<1>2. CASE PushRefused \/ PushUntriggered
  <2>1. shell' \in Shells /\ procedure' \in {"none", "pushed", "registered"}
    BY <1>2, ShellMoves DEF PushRefused, PushUntriggered
  <2> QED BY <1>2, <2>1 DEF PushRefused, PushUntriggered, TypeOK, host, telegram
<1>3. CASE PushChecks
  <2>1. shell' \in Shells
    BY <1>3 DEF PushChecks, TypeOK, Shells, Steps
  <2> QED BY <1>3, <2>1 DEF PushChecks, TypeOK, host, telegram
<1>4. CASE PushUnread
  <2>1. shell' \in Shells
    BY <1>4, ShellMoves DEF PushUnread, Steps
  <2> QED BY <1>4, <2>1 DEF PushUnread, TypeOK, host, telegram
<1>5. CASE PushTriggers
  <2>1. services[shell.at] # {}
    BY <1>5 DEF PushTriggers, ShellOK
  <2>2. shell' \in Shells /\ procedure' \in {"none", "pushed", "registered"}
    BY <1>5, ShellMoves DEF PushTriggers, TypeOK
  <2>3. pending' \in [Accounts -> BOOLEAN]
    BY <1>5 DEF PushTriggers, TypeOK
  <2>4. \A a \in Accounts :
           services'[a] = {} => env'[a] = Unset /\ live'[a] = Down /\ ~ pending'[a]
    BY <1>5, <2>1 DEF PushTriggers, TypeOK
  <2> QED BY <1>5, <2>2, <2>3, <2>4 DEF PushTriggers, TypeOK, telegram
<1> QED BY <1>1, <1>2, <1>3, <1>4, <1>5

(***************************************************************************)
(* push_env.py turns to its next account.  If it goes on to report success *)
(* the account it comes from is settled, and so are those before it.       *)
(***************************************************************************)
LEMMA PushNextInv ==
    ASSUME Inv, shell.cmd = "push", NEW ok \in BOOLEAN, PushNext(ok),
           ok => /\ shell.ok
                 /\ shell.at \in doubtful \/ (env[shell.at] = local /\ pending'[shell.at]),
           UNCHANGED <<keyed, local, services, env, live, doubtful>>,
           \A a \in Accounts : pending[a] => pending'[a]
    PROVE  ShellOK' /\ PushOK' /\ PushReports'
<1> USE ShellTypes DEF Inv
<1>1. procedure = "none"
  BY DEF ShellOK
<1>2. ok => \A a \in keyed \ doubtful : a <= shell.at => Settled(a)'
  <2>1. ASSUME ok, NEW a \in keyed \ doubtful, a < shell.at PROVE Settled(a)'
    <3>1. Settled(a)
      BY <2>1 DEF PushOK
    <3> QED BY <3>1 DEF Settled, TypeOK
  <2>3. ASSUME ok, NEW a \in keyed \ doubtful, a = shell.at PROVE Settled(a)'
    BY <2>3 DEF Settled
  <2>2. \A a \in keyed \ doubtful : a <= shell.at => a < shell.at \/ a = shell.at
    BY DEF TypeOK, Accounts
  <2> QED BY <2>1, <2>2, <2>3
<1>3. CASE Ahead = {}
  <2>1. \A a \in keyed : a <= shell.at
    BY <1>3 DEF Ahead, TypeOK, Accounts
  <2>2. shell' = Idle /\ procedure' = (IF ok THEN "pushed" ELSE "none")
    BY <1>3 DEF PushNext, Exit
  <2>3. PushReports'
    BY <1>2, <2>1, <2>2 DEF PushReports, Settled
  <2> QED BY <2>2, <2>3 DEF ShellOK, PushOK, Idle, Deploying
<1>4. CASE Ahead # {}
  <2>1. PICK a \in First(Ahead) : shell' = [shell EXCEPT !.at = a, !.step = "put", !.ok = ok]
    BY <1>4 DEF PushNext
  <2>2. \A b \in keyed : b < a => b <= shell.at
    BY <2>1 DEF First, Ahead, TypeOK, Accounts
  <2>3. procedure' = "none"
    BY <1>1, <1>4 DEF PushNext
  <2>4. shell'.cmd = "push" /\ shell'.step = "put" /\ shell'.at = a /\ shell'.ok = ok
    BY <2>1 DEF TypeOK, Shells
  <2>5. PushOK'
    BY <1>2, <2>2, <2>4 DEF PushOK
  <2> QED BY <2>3, <2>4, <2>5 DEF ShellOK, PushReports, Deploying
<1> QED BY <1>3, <1>4

LEMMA PushInv ==
    ASSUME Inv,
           \/ PushPuts \/ PushRefused \/ PushChecks \/ PushUnread \/ PushTriggers
           \/ PushUntriggered
    PROVE  Inv'
<1> USE ShellTypes DEF Inv
<1>1. TypeOK'
  BY PushTypes
<1>2. services' = services
  BY DEF PushPuts, PushRefused, PushChecks, PushUnread, PushTriggers, PushUntriggered, host
<1>3. OneServicePerAccount'
  BY <1>2 DEF OneServicePerAccount
<1>4. shell.cmd = "push" /\ procedure = "none"
  BY DEF PushPuts, PushRefused, PushChecks, PushUnread, PushTriggers, PushUntriggered, ShellOK
<1>5. ASSUME Exit, UNCHANGED procedure PROVE ShellOK' /\ PushOK' /\ PushReports'
  BY <1>4, <1>5 DEF Exit, ShellOK, PushOK, PushReports, Idle, Deploying
<1>6. CASE PushPuts
  <2>1. CASE To("check")
    <3>1. PICK e \in Envs : Landed(e) /\ env' = [env EXCEPT ![shell.at] = e]
      BY <1>6 DEF PushPuts
    <3>2. shell' = [shell EXCEPT !.step = "check"] /\ services[shell.at] # {}
      BY <1>6, <2>1 DEF PushPuts, To
    <3>3. shell'.cmd = "push" /\ shell'.step = "check" /\ shell'.at = shell.at
          /\ shell'.ok = shell.ok
      BY <1>4, <3>2 DEF TypeOK, Shells
    <3>4. UNCHANGED <<keyed, local, live, pending, doubtful, procedure>>
      BY <1>6 DEF PushPuts
    <3>5. Landed(env[shell.at])'
      BY <3>1, <3>3, <3>4 DEF Landed, TypeOK
    <3>6. shell.ok => \A a \in keyed \ doubtful : a < shell.at => Settled(a)'
      <4>1. ASSUME NEW a \in keyed, a < shell.at PROVE env'[a] = env[a]
        BY <4>1, <3>1 DEF TypeOK, Accounts
      <4> QED BY <1>4, <3>4, <4>1 DEF PushOK, Settled
    <3>7. PushOK'
      BY <3>3, <3>4, <3>5, <3>6 DEF PushOK
    <3> QED BY <1>1, <1>2, <1>3, <1>4, <3>2, <3>3, <3>4, <3>7
            DEF ShellOK, PushReports, Deploying
  <2> QED BY <1>1, <1>3, <1>5, <1>6, <2>1 DEF PushPuts
<1>7. CASE PushRefused
  <2>1. UNCHANGED <<keyed, local, services, env, live, pending, doubtful>> /\ PushNext(FALSE)
    BY <1>7 DEF PushRefused, host
  <2> QED BY <1>1, <1>3, <1>4, <2>1, PushNextInv
<1>8. CASE PushChecks \/ PushUnread
  <2>1. UNCHANGED <<keyed, local, services, env, live, pending, procedure>>
    BY <1>8 DEF PushChecks, PushUnread, host
  <2>2. shell'.cmd = "push" /\ shell'.step = "trigger" /\ shell'.at = shell.at
        /\ (shell'.ok => shell.ok) /\ shell.step = "check"
    BY <1>8 DEF PushChecks, PushUnread, To, TypeOK, Shells
  <2>3. doubtful \subseteq doubtful'
    BY <1>8 DEF PushChecks, PushUnread
  <2>4. ASSUME shell'.ok, shell.at \notin doubtful' PROVE env[shell.at] = local
    <3>1. Absent = {}
      BY <1>8, <2>4 DEF PushChecks, PushUnread, TypeOK, Shells
    <3>2. env[shell.at] \in [Keys -> Versions] /\ local \in [Keys -> Versions]
      BY DEF TypeOK, Envs
    <3>3. \A k \in Keys : env[shell.at][k] = local[k]
      BY <1>4, <2>2, <3>1, <3>2 DEF PushOK, Landed, Absent
    <3> QED BY <3>2, <3>3
  <2>5. PushOK'
    BY <1>4, <2>1, <2>2, <2>3, <2>4 DEF PushOK, Settled, Landed
  <2>6. ShellOK'
    BY <1>4, <2>1, <2>2 DEF ShellOK, Deploying
  <2> QED BY <1>1, <1>3, <1>4, <2>1, <2>5, <2>6 DEF PushReports
<1>9. CASE PushTriggers
  <2>1. UNCHANGED <<keyed, local, services, env, live, doubtful>>
    BY <1>9 DEF PushTriggers
  <2>2. pending' = [pending EXCEPT ![shell.at] = TRUE] /\ shell.step = "trigger"
    BY <1>9 DEF PushTriggers
  <2>3. pending'[shell.at] /\ \A a \in Accounts : pending[a] => pending'[a]
    BY <2>2 DEF TypeOK
  <2>4. shell.ok => shell.at \in doubtful \/ env[shell.at] = local
    BY <1>4, <2>2 DEF PushOK
  <2>5. CASE PushNext(shell.ok)
    BY <1>1, <1>3, <1>4, <2>1, <2>3, <2>4, <2>5, PushNextInv
  <2> QED BY <1>1, <1>3, <1>5, <1>9, <2>5 DEF PushTriggers
<1>10. CASE PushUntriggered
  <2>1. UNCHANGED <<keyed, local, services, env, live, pending, doubtful>> /\ PushNext(FALSE)
    BY <1>10 DEF PushUntriggered, host
  <2> QED BY <1>1, <1>3, <1>4, <2>1, PushNextInv
<1> QED BY <1>6, <1>7, <1>8, <1>9, <1>10

\* set_webhook.py, and a script that ends early, touch no account.
LEMMA RegisterInv ==
    ASSUME Inv, Preflight \/ SetWebhook \/ ReadInfo \/ Refused
    PROVE  Inv'
<1> USE ShellTypes DEF Inv
<1>1. UNCHANGED <<keyed, local, services, created, env, live, pending, suspended, doubtful, acts>>
  BY DEF Preflight, SetWebhook, ReadInfo, Refused, host
<1>2. procedure' \in {"none", "pushed", "registered"}
      /\ (procedure = "none" => procedure' = "none")
  BY DEF Preflight, SetWebhook, ReadInfo, Refused, TypeOK
<1>3. shell' = Idle \/ (shell.cmd = "register" /\ To("set")) \/ (shell.cmd = "register" /\ To("info"))
  <2>1. shell.step \in {"preflight", "set", "info"} => shell.cmd = "register"
    BY DEF ShellOK, Commands, Deploying, Idle
  <2> QED BY <2>1 DEF Preflight, SetWebhook, ReadInfo, Refused, Exit
<1>4. TypeOK'
  <2>1. shell' \in Shells
    BY <1>3, ShellMoves DEF Steps
  <2>2. waiting' \in BOOLEAN
    BY DEF Preflight, SetWebhook, ReadInfo, Refused, telegram, TypeOK
  <2>3. webhook' \in [to : {0} \union Accounts, secret : Versions]
    <3>1. CASE SetWebhook
      BY <3>1, LocalFacts DEF SetWebhook
    <3>2. CASE webhook' = webhook
      BY <3>2 DEF TypeOK
    <3> QED BY <3>1, <3>2 DEF Preflight, ReadInfo, Refused, telegram
  <2> QED BY <1>1, <1>2, <2>1, <2>2, <2>3 DEF TypeOK
<1>5. ShellOK' /\ PushOK'
  BY <1>1, <1>2, <1>3 DEF ShellOK, PushOK, To, Idle, Deploying, TypeOK, Shells
<1> QED BY <1>1, <1>2, <1>4, <1>5 DEF OneServicePerAccount, PushReports

-----------------------------------------------------------------------------
\* A new instance runs on what its account holds, so a settled one stays so.
LEMMA RenderInv ==
    ASSUME Inv, NEW a \in Accounts, GoLive(a) \/ DeployFails(a) \/ AutoDeploy(a)
    PROVE  Inv'
<1> USE DEF Inv
<1>1. UNCHANGED <<keyed, local, services, created, env, suspended, telegram, shell, procedure>>
  BY DEF GoLive, DeployFails, AutoDeploy
<1>2. doubtful \subseteq doubtful'
  BY DEF GoLive, DeployFails, AutoDeploy
<1>3. TypeOK'
  <2>1. CASE GoLive(a)
    <3>1. live' \in [Accounts -> Envs \union {Down}] /\ pending' \in [Accounts -> BOOLEAN]
      BY <2>1 DEF GoLive, TypeOK
    <3>2. \A b \in Accounts :
             services'[b] = {} => env'[b] = Unset /\ live'[b] = Down /\ ~ pending'[b]
      BY <2>1 DEF GoLive, TypeOK
    <3> QED BY <1>1, <2>1, <3>1, <3>2 DEF GoLive, TypeOK, telegram
  <2>2. CASE DeployFails(a)
    <3>1. pending' \in [Accounts -> BOOLEAN]
      BY <2>2 DEF DeployFails, TypeOK
    <3>2. \A b \in Accounts : pending'[b] => pending[b]
      BY <2>2 DEF DeployFails, TypeOK
    <3> QED BY <1>1, <2>2, <3>1, <3>2 DEF DeployFails, TypeOK, telegram
  <2>3. CASE AutoDeploy(a)
    <3>1. pending' \in [Accounts -> BOOLEAN] /\ acts' \in 0..MaxActs
      BY <2>3, ConstantsAssumption DEF AutoDeploy, TypeOK
    <3>2. \A b \in Accounts : pending'[b] => pending[b] \/ services[b] # {}
      BY <2>3 DEF AutoDeploy, TypeOK
    <3> QED BY <1>1, <2>3, <3>1, <3>2 DEF AutoDeploy, TypeOK, telegram
  <2> QED BY <2>1, <2>2, <2>3
<1>4. ASSUME NEW b \in Accounts, b \notin doubtful', Settled(b) PROVE Settled(b)'
  <2>1. CASE GoLive(a)
    BY <1>1, <1>4, <2>1 DEF Settled, GoLive, TypeOK
  <2>2. CASE DeployFails(a)
    BY <1>1, <1>4, <2>2 DEF Settled, DeployFails, TypeOK
  <2>3. CASE AutoDeploy(a)
    BY <1>1, <1>4, <2>3 DEF Settled, AutoDeploy, TypeOK
  <2> QED BY <2>1, <2>2, <2>3
<1>5. OneServicePerAccount' /\ ShellOK'
  BY <1>1 DEF OneServicePerAccount, ShellOK
<1>6. PushOK'
  BY <1>1, <1>2, <1>4 DEF PushOK, Landed, TypeOK
<1>7. PushReports'
  <2>1. procedure # "none" => \A b \in keyed \ doubtful : Settled(b)
    BY DEF PushReports, Settled
  <2>2. procedure' # "none" => \A b \in keyed' \ doubtful' : Settled(b)'
    BY <1>1, <1>2, <1>4, <2>1 DEF TypeOK
  <2> QED BY <2>2 DEF PushReports, Settled
<1> QED BY <1>3, <1>5, <1>6, <1>7

LEMMA TelegramInv ==
    ASSUME Inv, Send \/ Deliver
    PROVE  Inv'
<1>1. UNCHANGED <<keyed, local, host, webhook, shell, doubtful, procedure, acts>>
      /\ waiting' \in BOOLEAN
  BY DEF Send, Deliver
<1>2. TypeOK'
  BY <1>1 DEF Inv, TypeOK, host
<1> QED
  BY <1>1, <1>2
  DEF Inv, OneServicePerAccount, ShellOK, PushOK, PushReports, Settled, Landed, host

LEMMA NextInv == Inv /\ [Next]_vars => Inv'
<1> SUFFICES ASSUME Inv, [Next]_vars PROVE Inv'
  OBVIOUS
<1>1. CASE Operator
  BY <1>1, OperatorInv
<1>2. CASE Script
  BY <1>2, DeployInv, PushInv, RegisterInv DEF Script
<1>3. CASE \E a \in Accounts : GoLive(a) \/ DeployFails(a) \/ AutoDeploy(a)
  BY <1>3, RenderInv
<1>4. CASE Send \/ Deliver
  BY <1>4, TelegramInv
<1>5. CASE UNCHANGED vars
  BY <1>5
  DEF Inv, TypeOK, OneServicePerAccount, ShellOK, PushOK, PushReports, Settled, Landed,
      vars, host, telegram
<1> QED BY <1>1, <1>2, <1>3, <1>4, <1>5 DEF Next

THEOREM Invariance == Spec => []Inv
  BY InitInv, NextInv, PTL DEF Spec

(***************************************************************************)
(* For any number of accounts: the types, and that only an account with a  *)
(* service has variables, an instance or a deploy.                         *)
(***************************************************************************)
THEOREM DeploymentTypes == Spec => []TypeOK
<1>1. Inv => TypeOK
  BY DEF Inv
<1> QED BY <1>1, Invariance, PTL

(***************************************************************************)
(* deploy and deploy-both never make a second service in an account,       *)
(* whatever answers are lost and in whatever order commands are run.       *)
(***************************************************************************)
THEOREM NoDuplicateService == Spec => []OneServicePerAccount
<1>1. Inv => OneServicePerAccount
  BY DEF Inv
<1> QED BY <1>1, Invariance, PTL

(***************************************************************************)
(* Status 0 of push_env.py means what it says: every account it has a key  *)
(* for, read-back and deploy permitting, holds the whole .env file and     *)
(* runs on it or will.                                                     *)
(***************************************************************************)
THEOREM PushMeansPushed == Spec => []PushReports
<1>1. Inv => PushReports
  BY DEF Inv
<1> QED BY <1>1, Invariance, PTL

-----------------------------------------------------------------------------
\* While set_webhook.py runs, and after it has ended well.
RegisterOK ==
    /\ shell.cmd = "register" => local["token"] # 0 /\ procedure # "registered"
    /\ shell.step = "info" => webhook = [to |-> shell.at, secret |-> local["secret"]]
    /\ procedure = "registered" =>
          /\ webhook.to \in keyed /\ ~ suspended[webhook.to]
          /\ webhook.secret = local["secret"]
          /\ local["token"] # 0

(***************************************************************************)
(* Where the procedure ends: as soon as no deploy is on its way to it, the *)
(* instance that Telegram delivers to can reply, and takes what comes with *)
(* the secret that Telegram was given.                                     *)
(***************************************************************************)
RegisteredWorks ==
    procedure = "registered" /\ webhook.to \notin doubtful /\ ~ pending[webhook.to] =>
        Enabled(webhook.to) /\ Verified(webhook.to)

LEMMA OperatorRegister ==
    ASSUME Inv, RegisterOK, Operator
    PROVE  RegisterOK'
<1>1. procedure' # "registered" /\ shell'.step # "info"
  BY DEF Operator, Edit, StartDeploy, StartPush, DeleteWebhook, Suspend, Delete, WebhookCommand,
         StartRegister, Act, Begin, Idle
<1>2. ASSUME NEW a \in Accounts, NEW force \in BOOLEAN, StartRegister(a, force)
      PROVE  local'["token"] # 0
  BY <1>2 DEF StartRegister
<1>3. (\E a \in Accounts, force \in BOOLEAN : StartRegister(a, force)) \/ shell'.cmd # "register"
  BY DEF Operator, Edit, StartDeploy, StartPush, DeleteWebhook, Suspend, Delete, WebhookCommand,
         Act, Begin, Idle
<1> QED BY <1>1, <1>2, <1>3 DEF RegisterOK

\* The other scripts run while the procedure has not been begun.
LEMMA OtherScripts ==
    ASSUME Inv, RegisterOK, shell.cmd \in Deploying \union {"push"},
           UNCHANGED local,
           \/ shell' = Idle
           \/ shell'.cmd = shell.cmd /\ shell'.step # "info",
           procedure' # "registered"
    PROVE  RegisterOK'
<1>1. shell'.cmd # "register" /\ shell'.step # "info"
  BY DEF Deploying, Idle
<1> QED BY <1>1 DEF RegisterOK

LEMMA ScriptRegister ==
    ASSUME Inv, RegisterOK, Script
    PROVE  RegisterOK'
<1> USE ShellTypes DEF Inv
<1>1. /\ shell \in Shells
      /\ (shell.step \in {"preflight", "set", "info"} => shell.cmd = "register")
      /\ (shell.cmd \in Deploying \union {"push"} => procedure = "none")
  BY DEF ShellOK, Commands, Deploying, Idle, TypeOK
<1>2. CASE DeployCreates \/ DeployUpdates \/ DeployTriggers
  <2>1. shell.cmd \in Deploying /\ UNCHANGED <<local, procedure>>
    BY <1>2 DEF DeployCreates, DeployUpdates, DeployTriggers, Deploying
  <2>2. shell' = Idle \/ (shell'.cmd = shell.cmd /\ shell'.step # "info")
    BY <1>1, <1>2 DEF DeployCreates, DeployUpdates, DeployTriggers, NextAccount, Exit, To, Shells
  <2> QED BY <1>1, <2>1, <2>2, OtherScripts
<1>3. CASE PushPuts \/ PushRefused \/ PushChecks \/ PushUnread \/ PushTriggers \/ PushUntriggered
  <2>1. shell.cmd = "push" /\ UNCHANGED local
    BY <1>3 DEF PushPuts, PushRefused, PushChecks, PushUnread, PushTriggers, PushUntriggered
  <2>2. procedure' # "registered"
    BY <1>1, <1>3, <2>1 DEF PushPuts, PushRefused, PushChecks, PushUnread, PushTriggers,
                            PushUntriggered, PushNext
  <2>3. shell' = Idle \/ (shell'.cmd = shell.cmd /\ shell'.step # "info")
    BY <1>1, <1>3 DEF PushPuts, PushRefused, PushChecks, PushUnread, PushTriggers,
                      PushUntriggered, PushNext, Exit, To, Shells
  <2> QED BY <2>1, <2>2, <2>3, OtherScripts
<1>4. CASE Preflight
  BY <1>1, <1>4 DEF Preflight, RegisterOK, To, Exit, Idle, Shells, host, telegram
<1>5. CASE SetWebhook
  <2>1. /\ UNCHANGED <<keyed, local, suspended, procedure>>
        /\ shell.cmd = "register"
        /\ webhook' = [to |-> shell.at, secret |-> local["secret"]]
        /\ shell' = Idle \/ shell' = [shell EXCEPT !.step = "info"]
    BY <1>1, <1>5 DEF SetWebhook, To, Exit, host
  <2>2. shell'.at = shell.at \/ shell'.step # "info"
    BY <1>1, <2>1 DEF Idle, Shells
  <2> QED BY <2>1, <2>2 DEF RegisterOK
<1>6. CASE ReadInfo
  BY <1>1, <1>6 DEF ReadInfo, RegisterOK, Exit, Idle, host, telegram
<1>7. CASE Refused
  BY <1>7 DEF Refused, RegisterOK, Exit, Idle, host, telegram
<1> QED BY <1>2, <1>3, <1>4, <1>5, <1>6, <1>7 DEF Script

LEMMA NextRegister == Inv /\ RegisterOK /\ [Next]_vars => RegisterOK'
<1> SUFFICES ASSUME Inv, RegisterOK, [Next]_vars PROVE RegisterOK'
  OBVIOUS
<1>1. CASE (\E a \in Accounts : GoLive(a) \/ DeployFails(a) \/ AutoDeploy(a)) \/ Send \/ Deliver
           \/ UNCHANGED vars
  <2>1. UNCHANGED <<keyed, local, suspended, webhook, shell, procedure>>
    BY <1>1 DEF GoLive, DeployFails, AutoDeploy, Send, Deliver, vars, host, telegram
  <2> QED BY <2>1 DEF RegisterOK
<1> QED BY <1>1, OperatorRegister, ScriptRegister DEF Next

(***************************************************************************)
(* What push_env.py and set_webhook.py leave behind when both end well:    *)
(* the instance that Telegram delivers to holds the token, and the secret  *)
(* that Telegram was given, once its deploy is through (push_env.py:174,   *)
(* set_webhook.py:226).                                                     *)
(***************************************************************************)
THEOREM RegisteredInstanceReplies == Spec => []RegisteredWorks
<1>1. Init => RegisterOK
  BY DEF Init, RegisterOK, Idle
<1>2. Inv /\ RegisterOK => RegisteredWorks
  <2> SUFFICES ASSUME Inv, RegisterOK, procedure = "registered", webhook.to \notin doubtful,
                      ~ pending[webhook.to]
               PROVE  Enabled(webhook.to) /\ Verified(webhook.to)
    BY DEF RegisteredWorks
  <2>1. /\ webhook.to \in keyed \ doubtful /\ ~ suspended[webhook.to]
        /\ webhook.secret = local["secret"] /\ local["token"] # 0
    BY DEF RegisterOK
  <2>2. live[webhook.to] = local
    BY <2>1 DEF Inv, PushReports
  <2>3. local # Down
    BY EnvsFacts DEF Inv, TypeOK
  <2> QED BY <2>1, <2>2, <2>3 DEF Enabled, Verified, Serving
<1> QED BY <1>1, <1>2, NextRegister, Invariance, PTL DEF Spec
=============================================================================
