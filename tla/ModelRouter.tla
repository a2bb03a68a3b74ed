---------------------------- MODULE ModelRouter ----------------------------
(***************************************************************************)
(* The model chain: ModelRouter.chat (src/src/agentcore/llm/router.py)     *)
(* around OllamaCloudProvider.chat (src/src/agentcore/llm/ollama_cloud.py),*)
(* which retries a request that failed in passing.  Chats are sequential:  *)
(* the loop awaits each one, and the startup probe is over before a task   *)
(* is taken.  The provider may answer, fail or reject in any order.        *)
(*                                                                         *)
(* The list of candidates is the set of them, which a chat walks by rank:  *)
(* what worked last leads, then the order of the chain.  A failed chat     *)
(* leaves the router in phase "failed" until the next one.  What the       *)
(* answers say is no concern of the router.                                *)
(***************************************************************************)
EXTENDS Naturals, Sequences

CONSTANTS
    Models,      \* the names of the chain
    Chain,       \* MODEL_PRIMARY, then MODEL_FALLBACKS, in order and each once
    NoModel,     \* no model has answered yet
    MaxRetries,  \* attempts of one model, MODEL_MAX_RETRIES
    Cooldown,    \* COOLDOWN_SECONDS
    MaxClock     \* bound: readings of the clock

ASSUME RouterAssumption ==
    /\ NoModel \notin Models
    /\ Chain \in Seq(Models) /\ Chain # << >>
    /\ \A m \in Models : \E i \in DOMAIN Chain : Chain[i] = m
    /\ \A i, j \in DOMAIN Chain : Chain[i] = Chain[j] => i = j
    /\ MaxRetries \in Nat \ {0} /\ Cooldown \in Nat \ {0} /\ MaxClock \in Nat

VARIABLES
    clock,
    disabledUntil,  \* per model: its cooldown
    preferred,      \* the model that answered last
    phase,          \* "idle", "asking" or "failed"
    candidates,     \* the models that the current chat may ask
    asked,          \* those that it has asked
    model,          \* the last of them
    attempt,        \* the provider's attempt at it
    began           \* when the current chat began

routerVars == <<clock, disabledUntil, preferred, phase, candidates, asked, model, attempt, began>>

RouterInit ==
    /\ clock = 0
    /\ disabledUntil = [m \in Models |-> 0]
    /\ preferred = NoModel
    /\ phase = "idle"
    /\ candidates = {} /\ asked = {} /\ model = NoModel
    /\ attempt = 0 /\ began = 0

-----------------------------------------------------------------------------
Available(m) == disabledUntil[m] <= clock

\* What worked last leads the chain.
Rank(m) == IF m = preferred THEN 0 ELSE CHOOSE i \in DOMAIN Chain : Chain[i] = m

First(S) == {m \in S : \A n \in S : Rank(m) <= Rank(n)}

\* Mutant: cooling models are not left out.
OrderAll == Models

\* All cooling models are tried rather than none.
Order ==
    LET usable == {m \in Models : Available(m)}
    IN  IF usable = {} THEN Models ELSE usable

Chat ==
    /\ phase # "asking"
    /\ phase' = "asking"
    /\ candidates' = Order
    /\ \E m \in First(Order) : model' = m /\ asked' = {m}
    /\ attempt' = 1
    /\ began' = clock
    /\ UNCHANGED <<clock, disabledUntil, preferred>>

Answered ==
    /\ phase = "asking"
    /\ phase' = "idle"
    /\ preferred' = model
    /\ UNCHANGED <<clock, disabledUntil, candidates, asked, model, attempt, began>>

\* Mutant: one fallback is all that is tried.
FallBackOnce ==
    \/ /\ asked = {model}
       /\ \E m \in First(candidates \ asked) : model' = m /\ asked' = asked \union {m}
       /\ attempt' = 1
       /\ UNCHANGED phase
    \/ /\ asked # {model} \/ candidates = asked
       /\ phase' = "failed"
       /\ UNCHANGED <<asked, model, attempt>>

\* On to the next candidate, or none is left.
FallBack ==
    \/ /\ \E m \in First(candidates \ asked) : model' = m /\ asked' = asked \union {m}
       /\ attempt' = 1
       /\ UNCHANGED phase
    \/ /\ candidates = asked
       /\ phase' = "failed"
       /\ UNCHANGED <<asked, model, attempt>>

\* Mutant: the attempts are not counted.
RetryForever ==
    /\ phase = "asking"
    /\ attempt' = IF attempt < MaxRetries THEN attempt + 1 ELSE 1
    /\ UNCHANGED <<clock, disabledUntil, preferred, phase, candidates, asked, model, began>>

\* A timeout, an error status, an error body: again, after a pause.
Retry ==
    /\ phase = "asking" /\ attempt < MaxRetries
    /\ attempt' = attempt + 1
    /\ UNCHANGED <<clock, disabledUntil, preferred, phase, candidates, asked, model, began>>

\* The last attempt failed, or a reply was such that none is made again.
Fails ==
    /\ phase = "asking"
    /\ FallBack
    /\ UNCHANGED <<clock, disabledUntil, preferred, candidates, began>>

\* The model or the credential is rejected for good.
Rejected ==
    /\ phase = "asking"
    /\ disabledUntil' = [disabledUntil EXCEPT ![model] = clock + Cooldown]
    /\ FallBack
    /\ UNCHANGED <<clock, preferred, candidates, began>>

Tick ==
    /\ clock < MaxClock
    /\ clock' = clock + 1
    /\ UNCHANGED <<disabledUntil, preferred, phase, candidates, asked, model, attempt, began>>

RouterNext == Chat \/ Answered \/ Retry \/ Fails \/ Rejected \/ Tick

\* Each request has a time limit, so the provider always comes back.
RouterFairness == WF_routerVars(Answered \/ Retry \/ Fails \/ Rejected)

RouterSpec == RouterInit /\ [][RouterNext]_routerVars /\ RouterFairness

-----------------------------------------------------------------------------
(***************************************************************************)
(* "every model in the chain failed" (router.py:154): a chat that fails    *)
(* has asked every model but those that were cooling down when it began,   *)
(* and some model at any rate.                                             *)
(***************************************************************************)
FailsOnlyWhenExhausted ==
    phase = "failed" =>
        /\ asked # {}
        /\ \A m \in Models : m \in asked \/ disabledUntil[m] > began

(***************************************************************************)
(* "permanently rejected ... with a cooldown, and the next model takes     *)
(* over" (router.py:10-11): no request goes to a model that is cooling     *)
(* down, in whatever order the chain is walked by now, unless all of them  *)
(* were.                                                                   *)
(***************************************************************************)
RejectedRests ==
    phase = "asking" /\ disabledUntil[model] > began =>
        \A m \in Models : disabledUntil[m] > began

(***************************************************************************)
(* Through retries and fallbacks, each chat comes to an end.               *)
(***************************************************************************)
EveryChatEnds == phase = "asking" ~> phase # "asking"
=============================================================================
