---------------------------- MODULE Conversation ----------------------------
(***************************************************************************)
(* The rolling transcript (Conversation, src/src/agentcore/memory.py) and  *)
(* what _run_loop (src/src/agentcore/loop.py) appends to it, task after    *)
(* task: the one Conversation of the process is never emptied.             *)
(*                                                                         *)
(* A message is its place in the history, its role, its length, and for a  *)
(* tool result the message that asked for it.  "calls" and "answer" are    *)
(* the assistant's messages with and without tool calls.                   *)
(***************************************************************************)
EXTENDS Naturals, Sequences, FiniteSets, SequencesExt, FiniteSetsExt

CONSTANTS
    MaxMessages,  \* Conversation.max_messages
    MaxChars,     \* Conversation.max_chars
    MaxRecap,     \* how many summaries are kept (6)
    MaxSteps,     \* settings.agent.max_steps
    MaxCalls,     \* bound: tool calls in one model turn
    ResultSizes,  \* bound: the lengths of tool results
    PromptSize,   \* bound: the length of the system prompt
    MaxRuns       \* bound: tasks in the life of the process

ASSUME ConstantsAssumption ==
    /\ MaxMessages \in Nat /\ MaxChars \in Nat
    /\ MaxRecap \in Nat \ {0} /\ MaxSteps \in Nat \ {0} /\ MaxCalls \in Nat \ {0}
    /\ ResultSizes \subseteq Nat /\ PromptSize \in Nat
    /\ MaxRuns \in Nat

VARIABLES
    conv,   \* the Conversation: its messages and _dropped_summary
    count,  \* messages ever appended
    pc,     \* where the running task is
    runs,   \* tasks begun
    step,   \* the task's loop index
    turn,   \* the "calls" message whose results are coming in, and how many are left
    cut     \* history: "calls" messages trimmed before all their results were in

vars == <<conv, count, pc, runs, step, turn, cut>>

Kinds == {"system", "user", "calls", "answer", "tool"}
NoTurn == [id |-> 0, left |-> 0]

Message(n, kind, of, size) == [id |-> n, kind |-> kind, of |-> of, size |-> size]

Ids(messages) == {messages[i].id : i \in DOMAIN messages}

Size(messages) == FoldLeft(LAMBDA n, m : n + m.size, 0, messages)

Overfull(messages) ==
    /\ Len(messages) > MaxMessages \/ Size(messages) > MaxChars
    /\ Len(messages) > 2

Assistant(m) == m.kind \in {"calls", "answer"}

\* Mutant: the results stay behind.
OldestWithoutResults(messages) ==
    LET spoken == {i \in 1..(Len(messages) - 2) : Assistant(messages[i])}
    IN  IF spoken = {} THEN Len(messages) - 2 ELSE Min(spoken)

(***************************************************************************)
(* How many messages go at once: up to the first assistant message and the *)
(* tool results behind it, or, without one, all but the last two.          *)
(***************************************************************************)
Oldest(messages) ==
    LET spoken == {i \in 1..(Len(messages) - 2) : Assistant(messages[i])}
        next == {j \in (Min(spoken) + 1)..Len(messages) : messages[j].kind # "tool"}
    IN  IF spoken = {} THEN Len(messages) - 2
        ELSE IF next = {} THEN Len(messages)
        ELSE Min(next) - 1

\* Mutant: every summary is kept.
RecapAll(recap) == recap

\* Mutant: the oldest summaries are kept.
RecapOldest(recap) == SubSeq(recap, 1, IF Len(recap) < MaxRecap THEN Len(recap) ELSE MaxRecap)

\* The latest summaries.
Recap(recap) ==
    IF Len(recap) <= MaxRecap THEN recap
    ELSE SubSeq(recap, Len(recap) - MaxRecap + 1, Len(recap))

DropOldest(c) ==
    LET n == Oldest(c.messages)
    IN  [messages |-> SubSeq(c.messages, n + 1, Len(c.messages)),
         recap |-> Recap(Append(c.recap, Ids(SubSeq(c.messages, 1, n))))]

\* Mutant: the newest goes first.
TrimmedNewest(c) ==
    IF Overfull(c.messages) THEN [c EXCEPT !.messages = SubSeq(@, 1, Len(@) - 1)] ELSE c

\* One turn of the loop.
Round(c) == IF Overfull(c.messages) THEN DropOldest(c) ELSE c

\* Conversation._trim: while there is too much, and each round drops something.
Trimmed(c) ==
    LET round[n \in 0..Len(c.messages)] == IF n = 0 THEN c ELSE Round(round[n - 1])
    IN  round[Len(c.messages)]

\* Conversation.append.
Appended(c, message) == Trimmed([c EXCEPT !.messages = Append(@, message)])

Init ==
    /\ conv = [messages |-> <<>>, recap |-> <<>>]
    /\ count = 0
    /\ pc = "idle"
    /\ runs = 0
    /\ step = 0
    /\ turn = NoTurn
    /\ cut = {}

Add(kind, of, size) ==
    /\ conv' = Appended(conv, Message(count + 1, kind, of, size))
    /\ count' = count + 1

-----------------------------------------------------------------------------
\* A task begins: its system prompt and its objective.
Begin ==
    /\ pc = "idle" /\ runs < MaxRuns
    /\ conv' = Appended(Appended(conv, Message(count + 1, "system", 0, PromptSize)),
                        Message(count + 2, "user", 0, 1))
    /\ count' = count + 2
    /\ pc' = "stepping"
    /\ runs' = runs + 1
    /\ step' = 0
    /\ UNCHANGED <<turn, cut>>

\* The next step puts the scratchpad before the model.
StepContext ==
    /\ pc = "stepping" /\ step < MaxSteps
    /\ Add("user", 0, 1)
    /\ pc' = "model"
    /\ step' = step + 1
    /\ UNCHANGED <<runs, turn, cut>>

\* Out of steps or out of time, or no usable model: nothing is appended.
GiveUp ==
    /\ pc \in {"stepping", "model"}
    /\ pc' = "idle"
    /\ UNCHANGED <<conv, count, runs, step, turn, cut>>

EmptyAnswer ==
    /\ pc = "model"
    /\ pc' = "stepping"
    /\ UNCHANGED <<conv, count, runs, step, turn, cut>>

FinalAnswer ==
    /\ pc = "model"
    /\ Add("answer", 0, 1)
    /\ pc' = "idle"
    /\ UNCHANGED <<runs, step, turn, cut>>

ToolCalls ==
    /\ pc = "model"
    /\ Add("calls", 0, 1)
    /\ \E n \in 1..MaxCalls : turn' = [id |-> count + 1, left |-> n]
    /\ pc' = "tools"
    /\ UNCHANGED <<runs, step, cut>>

(***************************************************************************)
(* A result is appended.  A refused call ends the task there and then; the *)
(* results behind it are not appended.                                     *)
(***************************************************************************)
ToolResult(refused) ==
    /\ pc = "tools"
    /\ \E size \in ResultSizes : Add("tool", turn.id, size)
    /\ turn' = IF refused \/ turn.left = 1 THEN NoTurn ELSE [turn EXCEPT !.left = @ - 1]
    /\ pc' = CASE refused -> "idle"
               [] ~refused /\ turn.left = 1 -> "stepping"
               [] OTHER -> "tools"
    /\ cut' = cut \union ({turn.id} \ Ids(conv'.messages))
    /\ UNCHANGED <<runs, step>>

Next ==
    \/ Begin \/ StepContext \/ GiveUp
    \/ EmptyAnswer \/ FinalAnswer \/ ToolCalls
    \/ \E refused \in BOOLEAN : ToolResult(refused)

Spec == Init /\ [][Next]_vars

-----------------------------------------------------------------------------
(***************************************************************************)
(* Every variable holds a value of its type; the recap is bounded.         *)
(***************************************************************************)
TypeOK ==
    /\ \A i \in DOMAIN conv.messages :
            conv.messages[i] \in [id : 1..count, kind : Kinds, of : 0..count, size : Nat]
    /\ \A i \in DOMAIN conv.recap : conv.recap[i] \subseteq 1..count
    /\ Len(conv.recap) <= MaxRecap
    /\ count \in Nat
    /\ pc \in {"idle", "stepping", "model", "tools"}
    /\ runs \in 0..MaxRuns
    /\ step \in 0..MaxSteps
    /\ turn \in [id : 0..count, left : 0..MaxCalls]
    /\ cut \subseteq 1..count

(***************************************************************************)
(* The model is always asked with the context of the current step in the   *)
(* last place, whatever had to be trimmed to make room for it.             *)
(***************************************************************************)
ModelSeesItsStep ==
    pc = "model" =>
        conv.messages # <<>> /\ Last(conv.messages).id = count
                             /\ Last(conv.messages).kind = "user"

\* A tool result without the assistant message that asked for it.
Orphans == {m \in ToSet(conv.messages) : m.kind = "tool" /\ m.of \notin Ids(conv.messages)}

(***************************************************************************)
(* "drop the oldest complete exchange instead of orphaning a tool result"  *)
(* (memory.py:259): an exchange that was complete goes as a whole, over    *)
(* tasks that end in the middle of a turn and results of any length.       *)
(***************************************************************************)
CompleteExchangesGoWhole == \A m \in Orphans : m.of \in cut

(***************************************************************************)
(* "the oldest turns are summarised [...] rather than dropped"             *)
(* (memory.py:236): between the transcript and the recap no message is     *)
(* missing; only what is older than a full recap is gone.                  *)
(***************************************************************************)
NothingFallsBetween ==
    LET kept == Ids(conv.messages) \union UNION ToSet(conv.recap)
    IN  /\ kept = (count - Cardinality(kept) + 1)..count
        /\ Len(conv.recap) < MaxRecap => Cardinality(kept) = count
=============================================================================
