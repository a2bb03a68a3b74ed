----------------------------- MODULE Deployment -----------------------------
(***************************************************************************)
(* How the service gets to its hosts: the scripts an operator runs         *)
(* (src/scripts/deploy_render.py, push_env.py, set_webhook.py), the        *)
(* environment variables that the accounts of Render hold, the instances   *)
(* that come up with them (config.py) and answer Telegram's deliveries     *)
(* (service.py).  Render and Telegram are external.                        *)
(*                                                                         *)
(* There is one shell, so one script at a time; a script is a sequence of  *)
(* requests, each of which may be served, refused, or served with its      *)
(* answer lost.  Variables are versions: 0 is not set, and of the secrets  *)
(* two stand for all, the one whose presence counts ("token") and the one  *)
(* whose value has to be the same in three places ("secret").              *)
(***************************************************************************)
EXTENDS Naturals

CONSTANTS
    LastAccount,    \* the accounts of Render are 1..LastAccount
    MaxServices,    \* bound: services ever created in an account
    MaxVersion,     \* bound: versions of the webhook secret
    MaxActs         \* bound: commands run, edits of the .env file, pushes to the repository

ASSUME ConstantsAssumption ==
    /\ LastAccount \in Nat \ {0} /\ MaxServices \in Nat \ {0}
    /\ MaxVersion \in Nat \ {0} /\ MaxActs \in Nat

VARIABLES
    keyed,      \* the accounts whose RENDER_API_KEY is in the .env file
    local,      \* the secrets in it
    services,   \* per account: ids of its services named SERVICE_NAME
    created,    \* per account: the services ever created
    env,        \* per account: the secrets that Render holds for its service
    live,       \* per account: the environment of its instance, or Down
    pending,    \* per account: a deploy is on its way
    suspended,  \* per account: the service is suspended
    webhook,    \* what Telegram has: the account it delivers to, and the secret
    waiting,    \* updates wait at Telegram
    shell,      \* the script that runs: command, account, step, whether all is well
    doubtful,   \* history: accounts where, since the last push_env began, the
                \*   variables could not be read back or a deploy failed
    procedure,  \* history: how far the documented procedure has got
    acts        \* counter of MaxActs

host == <<services, created, env, live, pending, suspended>>
telegram == <<webhook, waiting>>
vars == <<keyed, local, host, telegram, shell, doubtful, procedure, acts>>

Accounts == 1..LastAccount
Keys == {"token", "secret"}
Versions == 0..MaxVersion
Envs == [Keys -> Versions]
Unset == [k \in Keys |-> 0]
Down == [k \in {} |-> 0]

\* A new service gets the next id; the ids in push_env.SERVICES are the first ones.
Pinned == 1

Idle == [cmd |-> "none", at |-> 1, step |-> "idle", ok |-> TRUE]
Deploying == {"deploy", "deploy_both", "env"}
Commands == Deploying \union {"none", "push", "register"}
Steps == {"idle", "put", "check", "trigger", "preflight", "set", "info"}
Shells == [cmd : Commands, at : Accounts, step : Steps, ok : BOOLEAN]

Init ==
    /\ keyed \in (SUBSET Accounts) \ {{}}
    /\ local = [k \in Keys |-> 1]
    /\ services \in [Accounts -> {{}, {Pinned}}]
    /\ created = [a \in Accounts |-> IF services[a] = {} THEN 0 ELSE 1]
    /\ env = [a \in Accounts |-> Unset]
    /\ live = [a \in Accounts |-> IF services[a] = {} THEN Down ELSE Unset]
    /\ pending = [a \in Accounts |-> FALSE]
    /\ suspended = [a \in Accounts |-> FALSE]
    /\ webhook = [to |-> 0, secret |-> 0]
    /\ waiting = FALSE
    /\ shell = Idle
    /\ doubtful = {}
    /\ procedure = "none"
    /\ acts = 0

-----------------------------------------------------------------------------
\* The operator does something: nothing that was established before counts.
Act(p) ==
    /\ shell = Idle
    /\ acts < MaxActs
    /\ acts' = acts + 1
    /\ procedure' = p

Begin(cmd, a, step) == shell' = [cmd |-> cmd, at |-> a, step |-> step, ok |-> TRUE]
To(step) == shell' = [shell EXCEPT !.step = step]
Exit == shell' = Idle

\* A script begins with the first account of S.
First(S) == {a \in S : \A b \in S : a <= b}

\* In the .env file the token is taken out or put back, or the secret exchanged.
Edit ==
    /\ Act("none")
    /\ \/ local' = [local EXCEPT !["token"] = IF @ = 0 THEN 1 ELSE 0]
       \/ local["secret"] < MaxVersion /\ local' = [local EXCEPT !["secret"] = @ + 1]
    /\ UNCHANGED <<keyed, host, telegram, shell, doubtful>>

-----------------------------------------------------------------------------
(***************************************************************************)
(* deploy_render.py.  cmd_deploy and cmd_deploy_both look for the service  *)
(* by its name, and then replace its environment by PLAIN_ENV or create    *)
(* it; cmd_env replaces it by what is on its command line.  The request    *)
(* that looks for the service changes nothing: if it fails, the script     *)
(* ends as in Refused.                                                     *)
(***************************************************************************)
StartDeploy ==
    /\ Act("none")
    /\ \/ \E a \in First(keyed) : Begin("deploy_both", a, "put")
       \/ \E a \in keyed, cmd \in {"deploy", "env"} : Begin(cmd, a, "put")
    /\ UNCHANGED <<keyed, local, host, telegram, doubtful>>

\* The accounts still to come; one without a key is skipped.
Ahead == {a \in keyed : a > shell.at}

\* The next account, or the end.
NextAccount ==
    IF shell.cmd = "deploy_both" /\ Ahead # {}
    THEN \E a \in First(Ahead) : shell' = [shell EXCEPT !.at = a, !.step = "put"]
    ELSE Exit

\* Mutant: the service is not looked for.
CreateBlind(a) ==
    /\ created[a] < MaxServices
    /\ services' = [services EXCEPT ![a] = @ \union {created[a] + 1}]
    /\ created' = [created EXCEPT ![a] = @ + 1]
    /\ env' \in {[env EXCEPT ![a] = e] : e \in {Unset, local}}
    /\ pending' = [pending EXCEPT ![a] = TRUE]
    /\ UNCHANGED <<live, suspended>>

(***************************************************************************)
(* Render.create_service.  The variables of the payload may not persist    *)
(* (push_env.py:4).  Render deploys a new service by itself.               *)
(***************************************************************************)
Create(a) ==
    /\ services[a] = {}
    /\ created[a] < MaxServices
    /\ services' = [services EXCEPT ![a] = @ \union {created[a] + 1}]
    /\ created' = [created EXCEPT ![a] = @ + 1]
    /\ env' \in {[env EXCEPT ![a] = e] : e \in {Unset, local}}
    /\ pending' = [pending EXCEPT ![a] = TRUE]
    /\ UNCHANGED <<live, suspended>>

DeployCreates ==
    /\ shell.cmd \in {"deploy", "deploy_both"} /\ shell.step = "put"
    /\ Create(shell.at)
    /\ NextAccount \/ Exit
    /\ UNCHANGED <<keyed, local, telegram, doubtful, procedure, acts>>

\* What the PUT of a command leaves: it replaces the whole set.
Replacing(cmd) ==
    IF cmd = "env"
    THEN {[k \in Keys |-> IF k \in set THEN local[k] ELSE 0] : set \in SUBSET Keys}
    ELSE {Unset}

DeployUpdates ==
    /\ shell.cmd \in Deploying /\ shell.step = "put"
    /\ services[shell.at] # {}
    /\ \E e \in Replacing(shell.cmd) : env' = [env EXCEPT ![shell.at] = e]
    /\ To("trigger") \/ Exit
    /\ UNCHANGED <<keyed, local, services, created, live, pending, suspended, telegram, doubtful,
                   procedure, acts>>

DeployTriggers ==
    /\ shell.cmd \in Deploying /\ shell.step = "trigger"
    /\ pending' = [pending EXCEPT ![shell.at] = TRUE]
    /\ NextAccount \/ Exit
    /\ UNCHANGED <<keyed, local, services, created, env, live, suspended, telegram, doubtful,
                   procedure, acts>>

\* Suspending, resuming and deleting the service: one request each.
Suspend(a) ==
    /\ Act("none")
    /\ a \in keyed
    /\ services[a] # {}
    /\ suspended' = [suspended EXCEPT ![a] = ~ @]
    /\ UNCHANGED <<keyed, local, services, created, env, live, pending, telegram, shell, doubtful>>

Delete(a) ==
    /\ Act("none")
    /\ a \in keyed
    /\ services[a] # {}
    /\ \E s \in services[a] : services' = [services EXCEPT ![a] = @ \ {s}]
    /\ env' = [env EXCEPT ![a] = Unset]
    /\ live' = [live EXCEPT ![a] = Down]
    /\ pending' = [pending EXCEPT ![a] = FALSE]
    /\ suspended' = [suspended EXCEPT ![a] = FALSE]
    /\ UNCHANGED <<keyed, local, created, telegram, shell, doubtful>>

\* cmd_webhook registers at once, and discards what is waiting.
WebhookCommand(a) ==
    /\ Act("none")
    /\ local["token"] # 0
    /\ webhook' = [to |-> a, secret |-> local["secret"]]
    /\ waiting' = FALSE
    /\ UNCHANGED <<keyed, local, host, shell, doubtful>>

-----------------------------------------------------------------------------
(***************************************************************************)
(* push_env.py.  All secrets go to the service with the pinned id of each  *)
(* account in turn, whose answer is read back.  An error status is noted   *)
(* and the script goes on; an exception ends it.                           *)
(***************************************************************************)
StartPush ==
    /\ Act("none")
    /\ \E a \in First(keyed) : Begin("push", a, "put")
    /\ doubtful' = {}
    /\ UNCHANGED <<keyed, local, host, telegram>>

\* The exit status is known after the last account.
PushNext(ok) ==
    IF Ahead # {}
    THEN /\ \E a \in First(Ahead) : shell' = [shell EXCEPT !.at = a, !.step = "put", !.ok = ok]
         /\ UNCHANGED procedure
    ELSE /\ Exit
         /\ procedure' = IF ok THEN "pushed" ELSE "none"

\* Every variable that Render accepted is the one that was sent.
Landed(e) == \A k \in Keys : e[k] \in {0, local[k]}

PushPuts ==
    /\ shell.cmd = "push" /\ shell.step = "put"
    /\ Pinned \in services[shell.at]
    /\ \E e \in Envs : Landed(e) /\ env' = [env EXCEPT ![shell.at] = e]
    /\ To("check") \/ Exit
    /\ UNCHANGED <<keyed, local, services, created, live, pending, suspended, telegram, doubtful,
                   procedure, acts>>

PushRefused ==
    /\ shell.cmd = "push" /\ shell.step = "put"
    /\ PushNext(FALSE)
    /\ UNCHANGED <<keyed, local, host, telegram, doubtful, acts>>

\* Mutant: what is missing is only printed.
PushChecksNothing ==
    /\ shell.cmd = "push" /\ shell.step = "check"
    /\ To("trigger")
    /\ UNCHANGED <<keyed, local, host, telegram, doubtful, procedure, acts>>

\* The variables that the read-back should find, and does not.
Absent == {k \in Keys : local[k] # 0 /\ env[shell.at][k] = 0}

\* The names are compared; an answer that cannot be read names none.
PushChecks ==
    /\ shell.cmd = "push" /\ shell.step = "check"
    /\ shell' \in {[shell EXCEPT !.step = "trigger", !.ok = @ /\ Absent = {}],
                   [shell EXCEPT !.step = "trigger", !.ok = FALSE]}
    /\ UNCHANGED <<keyed, local, host, telegram, doubtful, procedure, acts>>

\* A status that refuses the read-back is printed, and does not count.
PushUnread ==
    /\ shell.cmd = "push" /\ shell.step = "check"
    /\ doubtful' = doubtful \union {shell.at}
    /\ To("trigger")
    /\ UNCHANGED <<keyed, local, host, telegram, procedure, acts>>

PushTriggers ==
    /\ shell.cmd = "push" /\ shell.step = "trigger"
    /\ pending' = [pending EXCEPT ![shell.at] = TRUE]
    /\ \/ PushNext(shell.ok)
       \/ Exit /\ UNCHANGED procedure
    /\ UNCHANGED <<keyed, local, services, created, env, live, suspended, telegram, doubtful, acts>>

PushUntriggered ==
    /\ shell.cmd = "push" /\ shell.step = "trigger"
    /\ PushNext(FALSE)
    /\ UNCHANGED <<keyed, local, host, telegram, doubtful, acts>>

\* A request of any script that is not served, or not known to be, ends it.
Refused ==
    /\ shell # Idle
    /\ Exit
    /\ UNCHANGED <<keyed, local, host, telegram, doubtful, procedure, acts>>

-----------------------------------------------------------------------------
(***************************************************************************)
(* The instances, and service.telegram_webhook.                            *)
(***************************************************************************)
Serving(a) == live[a] # Down /\ ~ suspended[a]

\* What /health reports: settings.telegram.enabled.
Enabled(a) == Serving(a) /\ live[a]["token"] # 0

\* verify_webhook_secret; without a secret of its own an instance takes all.
Verified(a) == Serving(a) /\ live[a]["secret"] \in {0, webhook.secret}

(***************************************************************************)
(* set_webhook.py --delete, and with a URL.  Unless it is told otherwise   *)
(* the script asks the service first, and leaves if Telegram is not        *)
(* enabled there; no answer is not a reason to leave.                      *)
(***************************************************************************)
DeleteWebhook ==
    /\ Act("none")
    /\ local["token"] # 0
    /\ webhook' = [to |-> 0, secret |-> 0]
    /\ UNCHANGED <<keyed, local, host, waiting, shell, doubtful>>

StartRegister(a, force) ==
    /\ Act(IF procedure = "none" THEN "none" ELSE "pushed")
    /\ local["token"] # 0
    /\ Begin("register", a, IF force THEN "set" ELSE "preflight")
    /\ UNCHANGED <<keyed, local, host, telegram, doubtful>>

Preflight ==
    /\ shell.step = "preflight"
    /\ \/ Enabled(shell.at) /\ To("set")
       \/ Serving(shell.at) /\ ~ Enabled(shell.at) /\ Exit
       \/ To("set")
    /\ UNCHANGED <<keyed, local, host, telegram, doubtful, procedure, acts>>

\* Mutant: the secret is not sent along.
SetWebhookOpen ==
    /\ shell.step = "set"
    /\ webhook' = [to |-> shell.at, secret |-> 0]
    /\ waiting' \in {waiting, FALSE}
    /\ To("info") \/ Exit
    /\ UNCHANGED <<keyed, local, host, doubtful, procedure, acts>>

\* setWebhook; what waits is discarded only on request (--drop-pending).
SetWebhook ==
    /\ shell.step = "set"
    /\ webhook' = [to |-> shell.at, secret |-> local["secret"]]
    /\ waiting' \in {waiting, FALSE}
    /\ To("info") \/ Exit
    /\ UNCHANGED <<keyed, local, host, doubtful, procedure, acts>>

\* getWebhookInfo: Telegram may still report an error of the past.
ReadInfo ==
    /\ shell.step = "info"
    /\ Exit
    /\ procedure' = IF procedure = "pushed" /\ shell.at \in keyed /\ ~ suspended[shell.at]
                    THEN "registered" ELSE procedure
    /\ UNCHANGED <<keyed, local, host, telegram, doubtful, acts>>

-----------------------------------------------------------------------------
\* Render.  A new instance takes the variables as they are then.
GoLive(a) ==
    /\ pending[a] /\ ~ suspended[a]
    /\ live' = [live EXCEPT ![a] = env[a]]
    /\ pending' = [pending EXCEPT ![a] = FALSE]
    /\ UNCHANGED <<keyed, local, services, created, env, suspended, telegram, shell, doubtful,
                   procedure, acts>>

\* The build fails, or the process ends in preflight: what was live goes on.
DeployFails(a) ==
    /\ pending[a]
    /\ pending' = [pending EXCEPT ![a] = FALSE]
    /\ doubtful' = doubtful \union {a}
    /\ UNCHANGED <<keyed, local, services, created, env, live, suspended, telegram, shell,
                   procedure, acts>>

\* A push to the repository: autoDeploy is on.
AutoDeploy(a) ==
    /\ services[a] # {}
    /\ acts < MaxActs /\ acts' = acts + 1
    /\ pending' = [pending EXCEPT ![a] = TRUE]
    /\ UNCHANGED <<keyed, local, services, created, env, live, suspended, telegram, shell,
                   doubtful, procedure>>

\* Telegram.  An update that is not acknowledged is delivered again.
Send ==
    /\ ~ waiting
    /\ waiting' = TRUE
    /\ UNCHANGED <<keyed, local, host, webhook, shell, doubtful, procedure, acts>>

(***************************************************************************)
(* An update is acknowledged.  main.py gives the service a                 *)
(* TelegramInterface whether or not there is a token, so that only the     *)
(* secret decides; without a token the reply then fails in the background. *)
(***************************************************************************)
Deliver ==
    /\ waiting
    /\ webhook.to # 0
    /\ Verified(webhook.to)
    /\ waiting' = FALSE
    /\ UNCHANGED <<keyed, local, host, webhook, shell, doubtful, procedure, acts>>

-----------------------------------------------------------------------------
Script ==
    \/ DeployCreates \/ DeployUpdates \/ DeployTriggers
    \/ PushPuts \/ PushRefused \/ PushChecks \/ PushUnread \/ PushTriggers \/ PushUntriggered
    \/ Preflight \/ SetWebhook \/ ReadInfo
    \/ Refused

Operator ==
    \/ Edit \/ StartDeploy \/ StartPush \/ DeleteWebhook
    \/ \E a \in Accounts :
          \/ Suspend(a) \/ Delete(a) \/ WebhookCommand(a)
          \/ \E force \in BOOLEAN : StartRegister(a, force)

Next ==
    \/ Operator \/ Script
    \/ \E a \in Accounts : GoLive(a) \/ DeployFails(a) \/ AutoDeploy(a)
    \/ Send \/ Deliver

(***************************************************************************)
(* Requests have time limits, so scripts go on; Render gets to the deploys *)
(* it accepted, Telegram repeats what is not acknowledged.  The operator   *)
(* owes nothing.                                                           *)
(***************************************************************************)
Fairness ==
    /\ WF_vars(Script) /\ WF_vars(Deliver)
    /\ \A a \in Accounts : WF_vars(GoLive(a))

Spec == Init /\ [][Next]_vars /\ Fairness

-----------------------------------------------------------------------------
(***************************************************************************)
(* Every variable holds a value of its type, and only an account with a    *)
(* service has variables, an instance or a deploy.                         *)
(***************************************************************************)
TypeOK ==
    /\ keyed \in (SUBSET Accounts) \ {{}}
    /\ local \in Envs
    /\ services \in [Accounts -> SUBSET (1..MaxServices)]
    /\ created \in [Accounts -> 0..MaxServices]
    /\ env \in [Accounts -> Envs]
    /\ live \in [Accounts -> Envs \union {Down}]
    /\ pending \in [Accounts -> BOOLEAN]
    /\ suspended \in [Accounts -> BOOLEAN]
    /\ webhook \in [to : {0} \union Accounts, secret : Versions]
    /\ waiting \in BOOLEAN
    /\ shell \in Shells
    /\ doubtful \in SUBSET Accounts
    /\ procedure \in {"none", "pushed", "registered"}
    /\ acts \in 0..MaxActs
    /\ \A a \in Accounts :
          services[a] = {} => env[a] = Unset /\ live[a] = Down /\ ~ pending[a]

(***************************************************************************)
(* "it is idempotent: running `deploy` twice updates the existing service  *)
(* instead of creating a duplicate" (deploy_render.py:20), also after      *)
(* answers that were lost and scripts that ended halfway through the       *)
(* accounts, and after services that were deleted.                         *)
(***************************************************************************)
OneServicePerAccount == \A a \in Accounts : \A s, t \in services[a] : s = t

(***************************************************************************)
(* What exit status 0 of push_env.py says, which the operator goes by: the *)
(* accounts it has keys for hold the whole .env file, and run on it or     *)
(* will.  "a silently dropped variable is caught here instead of at        *)
(* runtime" (push_env.py:138), unless the read-back itself was refused.    *)
(***************************************************************************)
PushReports ==
    procedure # "none" =>
        \A a \in keyed \ doubtful :
            env[a] = local /\ (pending[a] \/ live[a] = local)

(***************************************************************************)
(* The documented procedure works: after push_env.py and set_webhook.py    *)
(* with status 0 whatever users send gets to an instance that can reply,   *)
(* though the script may have been sent to an instance about to be         *)
(* replaced, with the old secret.                                          *)
(***************************************************************************)
ProcedureDelivers ==
    []<>(procedure = "registered" /\ webhook.to \notin doubtful
            => ~ waiting /\ Enabled(webhook.to))
=============================================================================
