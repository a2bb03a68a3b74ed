------------------------------ MODULE Startup ------------------------------
(***************************************************************************)
(* How a process comes up: lifespan (src/src/agentcore/main.py) runs       *)
(* preflight (runtime.py), which probes the models and has the GistStore   *)
(* (persistence.py) find or create the gist that holds the state, and then *)
(* starts Telegram.  Several instances may be up at once, for a while,     *)
(* during a deployment; each has a disk of its own, and all of them one    *)
(* GitHub account.  The probe is a chat of ModelRouter; what is then read  *)
(* from the gist is the subject of StateStore.                             *)
(*                                                                         *)
(* A chained store is configured, with an API key.  A gist is a number.    *)
(***************************************************************************)
EXTENDS Naturals, FiniteSets

CONSTANTS
    Instances,  \* the processes that may be up
    MaxGists,   \* bound: gists in the account
    MaxBlind    \* bound: lists that are refused

ASSUME ConstantsAssumption ==
    /\ MaxGists \in Nat \ {0} /\ MaxBlind \in Nat
    /\ IsFiniteSet(Instances) /\ Instances # {}

VARIABLES
    configured, \* GIST_ID, or NoGist
    account,    \* gists in the account that carry the marker
    stage,      \* per instance: where its startup is
    pass,       \* 1: GistStore.healthy resolves the gist, 2: preflight does
    gistId,     \* GistStore.gist_id
    idFile,     \* what its disk has in _id_cache_path
    missed,     \* history: failed requests to GitHub since the instance was started
    blind       \* history: gists created after a list that was refused

vars == <<configured, account, stage, pass, gistId, idFile, missed, blind>>

NoGist == 0
Gists == 1..MaxGists
Up == {"probing", "listing", "creating", "telegram", "serving"}
Stages == Up \union {"down"}

Init ==
    /\ account \in {{}, {1}}
    /\ configured \in account \union {NoGist}
    /\ stage = [i \in Instances |-> "down"]
    /\ pass = [i \in Instances |-> 1]
    /\ gistId = [i \in Instances |-> NoGist]
    /\ idFile = [i \in Instances |-> NoGist]
    /\ missed = [i \in Instances |-> 0]
    /\ blind = 0

To(i, s) == stage' = [stage EXCEPT ![i] = s]

-----------------------------------------------------------------------------
\* build_runtime, with the gist id that is configured.
Boot(i) ==
    /\ stage[i] = "down"
    /\ To(i, "probing")
    /\ pass' = [pass EXCEPT ![i] = 1]
    /\ gistId' = [gistId EXCEPT ![i] = configured]
    /\ UNCHANGED <<configured, account, idFile, missed, blind>>

\* The gist is known, and noted on the disk if that can be written.
Attach(i, g) ==
    /\ gistId' = [gistId EXCEPT ![i] = g]
    /\ \/ idFile' = [idFile EXCEPT ![i] = g]
       \/ UNCHANGED idFile
    /\ To(i, "telegram")

\* Mutant: the account is asked first.
ResolveListing(i) ==
    /\ To(i, "listing")
    /\ UNCHANGED <<gistId, idFile>>

(***************************************************************************)
(* resolve_gist_id up to its first request: a known id, or a cached one,   *)
(* is taken as it is, and with it the second pass has nothing left to do.  *)
(***************************************************************************)
Resolve(i) ==
    \/ /\ gistId[i] # NoGist
       /\ Attach(i, gistId[i])
    \/ /\ gistId[i] = NoGist /\ idFile[i] # NoGist
       /\ gistId' = [gistId EXCEPT ![i] = idFile[i]]
       /\ To(i, "telegram")
       /\ UNCHANGED idFile
    \/ /\ gistId[i] = NoGist /\ idFile[i] = NoGist
       /\ To(i, "listing")
       /\ UNCHANGED <<gistId, idFile>>

\* A model answers the probe, if only with nothing, and the gist is looked for.
Probed(i) ==
    /\ stage[i] = "probing"
    /\ Resolve(i)
    /\ UNCHANGED <<configured, account, pass, missed, blind>>

\* Every model fails.  preflight raises, and the process ends.
ProbeFails(i) ==
    /\ stage[i] = "probing"
    /\ To(i, "down")
    /\ gistId' = [gistId EXCEPT ![i] = NoGist]
    /\ UNCHANGED <<configured, account, pass, idFile, missed, blind>>

\* Mutant: what healthy could not resolve is left alone.
GiveUpAtOnce(i) ==
    /\ missed' = [missed EXCEPT ![i] = @ + 1]
    /\ To(i, "telegram")
    /\ UNCHANGED pass

\* Mutant: preflight resolves until it works.
MissRetrying(i) ==
    /\ missed' = [missed EXCEPT ![i] = 1]
    /\ To(i, "listing")
    /\ pass' = [pass EXCEPT ![i] = 2]

(***************************************************************************)
(* A request fails and resolve_gist_id raises.  healthy reports it, and    *)
(* preflight resolves once more; then it goes into a warning.              *)
(***************************************************************************)
Miss(i) ==
    /\ missed' = [missed EXCEPT ![i] = @ + 1]
    /\ \/ pass[i] = 1 /\ To(i, "listing")
       \/ pass[i] = 2 /\ To(i, "telegram")
    /\ pass' = [pass EXCEPT ![i] = 2]

\* Mutant: the marker is not recognised.
ListUnmarked(i) ==
    /\ stage[i] = "listing"
    /\ To(i, "creating")
    /\ UNCHANGED <<configured, account, pass, gistId, idFile, missed, blind>>

\* The account's gists: one with the marker is taken, any one.
List(i) ==
    /\ stage[i] = "listing"
    /\ \/ \E g \in account : Attach(i, g)
       \/ account = {} /\ To(i, "creating") /\ UNCHANGED <<gistId, idFile>>
    /\ UNCHANGED <<configured, account, pass, missed, blind>>

\* An error status is taken for a list without the marker.
ListRefused(i) ==
    /\ stage[i] = "listing"
    /\ blind < MaxBlind
    /\ To(i, "creating")
    /\ missed' = [missed EXCEPT ![i] = @ + 1]
    /\ blind' = blind + 1
    /\ UNCHANGED <<configured, account, pass, gistId, idFile>>

ListFails(i) ==
    /\ stage[i] = "listing"
    /\ Miss(i)
    /\ UNCHANGED <<configured, account, gistId, idFile, blind>>

\* The next gist of the account.
NewGist == Cardinality(account) + 1

Create(i) ==
    /\ stage[i] = "creating"
    /\ NewGist \in Gists
    /\ account' = account \union {NewGist}
    /\ Attach(i, NewGist)
    /\ UNCHANGED <<configured, pass, missed, blind>>

\* No gist, or one whose id does not come back.
CreateFails(i) ==
    /\ stage[i] = "creating"
    /\ account' \in {account, account \union ({NewGist} \intersect Gists)}
    /\ Miss(i)
    /\ UNCHANGED <<configured, gistId, idFile, blind>>

-----------------------------------------------------------------------------
(***************************************************************************)
(* The bot's identity is asked for, and polling begins if it is the mode.  *)
(* Whether that works or not, the HTTP side comes up.                      *)
(***************************************************************************)
StartTelegram(i) ==
    /\ stage[i] = "telegram"
    /\ To(i, "serving")
    /\ UNCHANGED <<configured, account, pass, gistId, idFile, missed, blind>>

(***************************************************************************)
(* An instance ends, at any point.  The next one gets its disk, or, after  *)
(* a deployment or a spin-down, an empty one.  A request to create a gist  *)
(* that is under way may still be served.                                  *)
(***************************************************************************)
Stop(i) ==
    /\ stage[i] # "down"
    /\ To(i, "down")
    /\ gistId' = [gistId EXCEPT ![i] = NoGist]
    /\ idFile' \in {idFile, [idFile EXCEPT ![i] = NoGist]}
    /\ missed' = [missed EXCEPT ![i] = 0]
    /\ \/ UNCHANGED account
       \/ /\ stage[i] = "creating" /\ NewGist \in Gists
          /\ account' = account \union {NewGist}
    /\ UNCHANGED <<configured, pass, blind>>

Advance(i) ==
    \/ Probed(i) \/ ProbeFails(i)
    \/ List(i) \/ ListRefused(i) \/ ListFails(i)
    \/ Create(i) \/ CreateFails(i)
    \/ StartTelegram(i)

Next == \E i \in Instances : Boot(i) \/ Advance(i) \/ Stop(i)

\* The probe and every request have a time limit.
Fairness == \A i \in Instances : WF_vars(Advance(i))

Spec == Init /\ [][Next]_vars /\ Fairness

-----------------------------------------------------------------------------
(***************************************************************************)
(* Every variable holds a value of its type, and a gist that an instance   *)
(* uses or has noted is one of the account's.                              *)
(***************************************************************************)
TypeOK ==
    /\ account \subseteq Gists
    /\ configured \in account \union {NoGist}
    /\ stage \in [Instances -> Stages]
    /\ pass \in [Instances -> {1, 2}]
    /\ gistId \in [Instances -> account \union {NoGist}]
    /\ idFile \in [Instances -> account \union {NoGist}]
    /\ missed \in [Instances -> 0..4]
    /\ blind \in 0..MaxBlind

(***************************************************************************)
(* "the agent re-attaches to its existing state instead of scattering      *)
(* duplicates" (ARCHITECTURE.md:167): over any number of deployments,      *)
(* lost answers and wiped disks the account gets one gist, but for one     *)
(* more from each other instance that came up at the same time, and one    *)
(* for each list that GitHub refused.                                      *)
(***************************************************************************)
DuplicatesAreExplained == Cardinality(account) <= Cardinality(Instances) + blind

(***************************************************************************)
(* A process without a gist keeps nothing over a deployment, and never     *)
(* looks for one again.  One failed request at startup does not bring that *)
(* about: it takes two.                                                    *)
(***************************************************************************)
OneFailureIsSurvived ==
    \A i \in Instances :
        stage[i] \in {"telegram", "serving"} /\ missed[i] < 2 => gistId[i] # NoGist

(***************************************************************************)
(* Whatever gists there are by then, an instance that is restarted on its  *)
(* disk goes on with the gist it used: the cached id is never exchanged    *)
(* for another.                                                            *)
(***************************************************************************)
KeepsItsGist ==
    [][\A i \in Instances :
          idFile[i] # NoGist /\ idFile'[i] # NoGist => idFile'[i] = idFile[i]]_vars

(***************************************************************************)
(* Whatever fails, every startup ends: the process serves or exits.        *)
(***************************************************************************)
EveryBootEnds ==
    \A i \in Instances : stage[i] # "down" ~> stage[i] \in {"serving", "down"}
=============================================================================
