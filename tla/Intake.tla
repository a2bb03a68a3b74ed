------------------------------- MODULE Intake -------------------------------
(***************************************************************************)
(* How a message from Telegram gets to Agent.run: the update is delivered  *)
(* to the webhook (src/src/agentcore/service.py) or fetched by             *)
(* poll_forever (src/src/agentcore/interfaces/telegram.py), and the        *)
(* RateLimiter (security.py) is asked by handle_update and again by run(). *)
(*                                                                         *)
(* A job is one delivery of an update: a coroutine, whose stages are the   *)
(* awaits it can be at.  What happens inside the run is the subject of     *)
(* AgentRun.                                                               *)
(***************************************************************************)
EXTENDS Naturals, FiniteSets, SequencesExt, FiniteSetsExt

CONSTANTS
    Updates,      \* update ids, in the order Telegram gives them
    Sender,       \* the principal behind each of them
    Allowed,      \* principals that may run tasks
    Modes,        \* TELEGRAM_MODE: "webhook", "polling"
    Limit,        \* RateLimiter._limit
    MaxSeen,      \* how many update ids are remembered (5000)
    Kept,         \* how many are left when there are more (2000)
    MaxDeliveries,\* bound: deliveries of one update
    MaxRestarts   \* bound: restarts of the process

ASSUME ConstantsAssumption ==
    /\ Updates \subseteq Nat \ {0} /\ IsFiniteSet(Updates)
    /\ Modes \subseteq {"webhook", "polling"}
    /\ Limit \in Nat \ {0}
    /\ MaxSeen \in Nat /\ Kept \in 0..MaxSeen
    /\ MaxDeliveries \in Nat \ {0} /\ MaxRestarts \in Nat

VARIABLES
    mode,      \* TELEGRAM_MODE of this deployment
    poller,    \* the task of poll_forever
    used,      \* RateLimiter._state: each principal's count in its current window
    pending,   \* updates that Telegram has not dropped yet
    offset,    \* poll_forever's offset
    batch,     \* updates of the last getUpdates that are not handled yet
    seen,      \* TelegramInterface._seen_updates
    stage,     \* where each job is
    started,   \* history: how many runs each update has started
    forgotten, \* history: how often each update was taken out of seen
    restarts   \* history: restarts so far

vars == <<mode, poller, used, pending, offset, batch, seen, stage, started, forgotten, restarts>>

Principals == {Sender[u] : u \in Updates}
Jobs == Updates \X (1..MaxDeliveries)
From(j) == Sender[j[1]]

Active == {"replying", "typing", "running"}
Ended == {"over", "refused"}
Stages == Active \union Ended \union {"none", "duplicate", "lost"}

\* The task that a new process starts in polling mode.
NewPoller(m) == IF m = "polling" THEN "starting" ELSE "off"

Init ==
    /\ mode \in Modes
    /\ poller = NewPoller(mode)
    /\ used = [p \in Principals |-> 0]
    /\ pending = Updates
    /\ offset = 0
    /\ batch = <<>>
    /\ seen = {}
    /\ stage = [j \in Jobs |-> "none"]
    /\ started = [u \in Updates |-> 0]
    /\ forgotten = [u \in Updates |-> 0]
    /\ restarts = 0

To(j, s) == stage' = [stage EXCEPT ![j] = s]

-----------------------------------------------------------------------------
\* RateLimiter.check: one more in the current window, if there is room.
WithinRate(p) == used[p] < Limit
Charge(p) == used' = [used EXCEPT ![p] = @ + 1]

\* The principal's window is over; the next check begins another.
WindowEnds(p) ==
    /\ used[p] > 0
    /\ used' = [used EXCEPT ![p] = 0]
    /\ UNCHANGED <<mode, poller, pending, offset, batch, seen, stage, started, forgotten, restarts>>

\* Mutant: nothing is ever taken out of _seen_updates.
RememberedAll(u) == {seen \union {u}}

(***************************************************************************)
(* _seen_updates with one more update.  When it has grown too large it     *)
(* keeps the last 2000 of a list of a set, which may be any.               *)
(***************************************************************************)
Remembered(u) ==
    LET more == seen \union {u}
    IN  IF Cardinality(more) <= MaxSeen THEN {more} ELSE kSubset(Kept, more)

\* Mutant: an update is not noted before its objective is accepted.
ReceiveUnmarked(j) ==
    LET u == j[1]
        p == From(j)
    IN  \/ /\ u \in seen
           /\ To(j, "duplicate")
           /\ UNCHANGED <<used, seen, forgotten>>
        \/ /\ u \notin seen /\ p \in Allowed /\ WithinRate(p)
           /\ To(j, "typing") /\ Charge(p)
           /\ UNCHANGED <<seen, forgotten>>

(***************************************************************************)
(* handle_update up to its first await: what has no text or is a duplicate *)
(* is left alone, a command or a refusal is answered, an objective goes on.*)
(***************************************************************************)
Receive(j) ==
    LET u == j[1]
        p == From(j)
        admitted == p \in Allowed /\ WithinRate(p)
    IN  \/ /\ To(j, "over")
           /\ UNCHANGED <<used, seen, forgotten>>
        \/ /\ u \in seen
           /\ To(j, "duplicate")
           /\ UNCHANGED <<used, seen, forgotten>>
        \/ /\ u \notin seen
           /\ seen' \in Remembered(u)
           /\ forgotten' = [v \in Updates |->
                 IF v \in (seen \union {u}) \ seen' THEN forgotten[v] + 1 ELSE forgotten[v]]
           /\ \/ To(j, "replying") /\ UNCHANGED used
              \/ admitted /\ To(j, "typing") /\ Charge(p)

\* sendMessage, which may fail; that ends the job as well.
Reply(j) ==
    /\ stage[j] = "replying"
    /\ To(j, "over")
    /\ UNCHANGED <<mode, poller, used, pending, offset, batch, seen, started, forgotten, restarts>>

(***************************************************************************)
(* run() begins and asks the limiter again.  It raises if there is nothing *)
(* left, and also if the message was only a mention of the bot, and nobody *)
(* tells the sender.                                                       *)
(***************************************************************************)
Run(j) ==
    /\ stage[j] = "typing"
    /\ \/ /\ WithinRate(From(j))
          /\ Charge(From(j))
          /\ To(j, "running")
          /\ started' = [started EXCEPT ![j[1]] = @ + 1]
       \/ /\ To(j, "refused")
          /\ UNCHANGED <<used, started>>
    /\ UNCHANGED <<mode, poller, pending, offset, batch, seen, forgotten, restarts>>

\* The run returns its result, or raises because its record cannot be saved.
RunEnds(j) ==
    /\ stage[j] = "running"
    /\ To(j, "replying") \/ To(j, "over")
    /\ UNCHANGED <<mode, poller, used, pending, offset, batch, seen, started, forgotten, restarts>>

-----------------------------------------------------------------------------
\* The first delivery of an update that has not been used, if there is one.
NextDelivery(u) ==
    {n \in 1..MaxDeliveries : /\ stage[<<u, n>>] = "none"
                              /\ \A m \in 1..(n - 1) : stage[<<u, m>>] # "none"}

Deliver(u) == \E n \in NextDelivery(u) : Receive(<<u, n>>)

(***************************************************************************)
(* Telegram posts an update to the webhook, which answers at once and      *)
(* handles it in the background.  If the answer is lost it is posted again.*)
(***************************************************************************)
Webhook(u) ==
    /\ mode = "webhook"
    /\ u \in pending
    /\ Deliver(u)
    /\ \/ pending' = pending \ {u}
       \/ UNCHANGED pending
    /\ UNCHANGED <<mode, poller, offset, batch, started, restarts>>

\* The poll loop handles one update after the other.
AtRest == \A j \in Jobs : stage[j] \notin Active

\* getMe, when the process and the task start, and deleteWebhook: tried once.
PollingBegins ==
    /\ poller = "starting"
    /\ poller' \in {"looping", "dead"}
    /\ UNCHANGED <<mode, used, pending, offset, batch, seen, stage, started, forgotten, restarts>>

\* The elements of S in ascending order: the one sequence of this kind.
Ascending(S) ==
    {s \in [1..Cardinality(S) -> S] : \A i, k \in 1..Cardinality(S) : i < k => s[i] < s[k]}

\* Mutant: what has been fetched is not fetched again.
PollConfirming ==
    /\ poller = "looping" /\ batch = <<>> /\ AtRest
    /\ batch' \in Ascending(pending)
    /\ pending' = {}
    /\ UNCHANGED <<mode, poller, used, offset, seen, stage, started, forgotten, restarts>>

\* getUpdates: Telegram drops what lies before the offset and sends the rest.
Poll ==
    /\ poller = "looping" /\ batch = <<>> /\ AtRest
    /\ pending' = {u \in pending : u >= offset}
    /\ batch' \in Ascending(pending')
    /\ UNCHANGED <<mode, poller, used, offset, seen, stage, started, forgotten, restarts>>

\* The answer is lost.  The same offset is sent again five seconds later.
PollFails ==
    /\ poller = "looping" /\ batch = <<>> /\ AtRest
    /\ pending' = {u \in pending : u >= offset}
    /\ UNCHANGED <<mode, poller, used, offset, batch, seen, stage, started, forgotten, restarts>>

\* Mutant: an update that fails takes the rest of its batch with it.
HandleNextOrNone ==
    /\ poller = "looping" /\ batch # <<>> /\ AtRest
    /\ Deliver(Head(batch))
    /\ batch' \in {Tail(batch), <<>>}
    /\ offset' = Last(batch) + 1
    /\ UNCHANGED <<mode, poller, pending, started, restarts>>

HandleNext ==
    /\ poller = "looping" /\ batch # <<>> /\ AtRest
    /\ Deliver(Head(batch))
    /\ batch' = Tail(batch)
    /\ offset' = IF Head(batch) + 1 > offset THEN Head(batch) + 1 ELSE offset
    /\ UNCHANGED <<mode, poller, pending, started, restarts>>

-----------------------------------------------------------------------------
\* The process dies and a new one starts.
Restart ==
    /\ restarts < MaxRestarts
    /\ restarts' = restarts + 1
    /\ used' = [p \in Principals |-> 0]
    /\ offset' = 0
    /\ batch' = <<>>
    /\ seen' = {}
    /\ stage' = [j \in Jobs |-> IF stage[j] \in Active THEN "lost" ELSE stage[j]]
    /\ poller' = NewPoller(mode)
    /\ UNCHANGED <<mode, pending, started, forgotten>>

Advance(j) == Reply(j) \/ Run(j) \/ RunEnds(j)

Next ==
    \/ \E u \in Updates : Webhook(u)
    \/ PollingBegins \/ Poll \/ PollFails \/ HandleNext
    \/ \E j \in Jobs : Advance(j)
    \/ \E p \in Principals : WindowEnds(p)
    \/ Restart

(***************************************************************************)
(* The event loop goes on with every job and with the poll loop; a call to *)
(* getUpdates is answered some time.                                       *)
(***************************************************************************)
Fairness ==
    /\ \A j \in Jobs : WF_vars(Advance(j))
    /\ WF_vars(PollingBegins)
    /\ WF_vars(HandleNext)
    /\ WF_vars(Poll)

Spec == Init /\ [][Next]_vars /\ Fairness

-----------------------------------------------------------------------------
(***************************************************************************)
(* Every variable holds a value of its type; _seen_updates is bounded.     *)
(***************************************************************************)
TypeOK ==
    /\ mode \in Modes /\ poller \in {"off", "starting", "looping", "dead"}
    /\ used \in [Principals -> 0..Limit]
    /\ pending \subseteq Updates
    /\ offset \in Nat
    /\ batch \in Seq(Updates)
    /\ seen \subseteq Updates /\ Cardinality(seen) <= MaxSeen
    /\ stage \in [Jobs -> Stages]
    /\ started \in [Updates -> Nat]
    /\ forgotten \in [Updates -> Nat]
    /\ restarts \in 0..MaxRestarts

(***************************************************************************)
(* However often Telegram delivers an update, and while the first delivery *)
(* is still being handled, it starts one run: one more only for each time  *)
(* the process has forgotten it, by a restart or by the bound on           *)
(* _seen_updates.                                                          *)
(***************************************************************************)
OneRunPerUpdate == \A u \in Updates : started[u] <= 1 + restarts + forgotten[u]

\* Updates whose handling came to an end, with or without an answer.
Handled == {u \in Updates : \E n \in 1..MaxDeliveries : stage[<<u, n>>] \in Ended}

(***************************************************************************)
(* Telegram drops an update only when its handling has come to an end.     *)
(* With the webhook, which answers first, it may also be under way, or     *)
(* lost with the process.                                                  *)
(***************************************************************************)
DroppedMeansHandled ==
    \A u \in Updates \ pending :
        \/ u \in Handled
        \/ mode = "webhook" /\ \E n \in 1..MaxDeliveries :
                stage[<<u, n>>] \in Active \union {"lost"}

(***************************************************************************)
(* Once it is in its loop, poll_forever gets to the end of every update,   *)
(* over failed calls, failed handling and restarts in the middle of a      *)
(* batch.                                                                  *)
(***************************************************************************)
PollingHandlesAll ==
    mode = "polling" => <>(Updates \subseteq Handled \/ poller = "dead")
=============================================================================
