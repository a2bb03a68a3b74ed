----------------------------- MODULE TaskService -----------------------------
(***************************************************************************)
(* What the agent promises to whoever hands it a task, without saying how: *)
(* one task at a time, in the order they got in line, every one of them    *)
(* brought to an end, and a status on record from the moment the task is   *)
(* accepted, which only the task itself changes.  The service may lose     *)
(* sight of records, and then says nothing of their status until the task  *)
(* is accepted or ends the next time.                                      *)
(***************************************************************************)
EXTENDS Sequences

CONSTANTS Tasks

VARIABLES
    phase,   \* "out", "coming", "accepted", "waiting", "active" or "over"
    line,    \* the waiting tasks, first come first served
    status   \* the recorded status, "none" without a record, "lost" out of sight

vars == <<phase, line, status>>

Words == {"none", "pending", "running", "completed", "failed", "blocked", "lost"}

Init ==
    /\ phase = [t \in Tasks |-> "out"]
    /\ line = <<>>
    /\ status = [t \in Tasks |-> "none"]

\* The status of t is recorded, and that of others may get lost.
Record(t, s) ==
    /\ status' \in [Tasks -> Words]
    /\ \A u \in Tasks : status'[u] \in {"lost", IF u = t THEN s ELSE status[u]}

\* The task is recorded, or the caller gets an error, at once or later.
Submit(t) ==
    /\ phase[t] \in {"out", "over"}
    /\ \/ /\ phase' = [phase EXCEPT ![t] = "coming"]
          /\ UNCHANGED status
       \/ /\ phase' = [phase EXCEPT ![t] = "accepted"]
          /\ Record(t, "running")
       \/ /\ phase' = [phase EXCEPT ![t] = "over"]
          /\ Record(t, status[t])
    /\ UNCHANGED line

Accept(t) ==
    /\ phase[t] = "coming"
    /\ \/ /\ phase' = [phase EXCEPT ![t] = "accepted"]
          /\ Record(t, "running")
       \/ /\ phase' = [phase EXCEPT ![t] = "over"]
          /\ Record(t, status[t])
    /\ UNCHANGED line

GetInLine(t) ==
    /\ phase[t] = "accepted"
    /\ phase' = [phase EXCEPT ![t] = "waiting"]
    /\ line' = Append(line, t)
    /\ UNCHANGED status

Begin(t) ==
    /\ phase[t] = "waiting"
    /\ \A u \in Tasks : phase[u] # "active"
    /\ line # <<>> /\ Head(line) = t
    /\ phase' = [phase EXCEPT ![t] = "active"]
    /\ line' = Tail(line)
    /\ UNCHANGED status

\* The task may change its own status while it is worked on.
Work(t) ==
    /\ phase[t] = "active"
    /\ \E s \in {"pending", "running", "completed", "failed", "blocked", status[t]} : Record(t, s)
    /\ UNCHANGED <<phase, line>>

\* The verdict replaces it ("running" if the budget ran out), if it can be saved.
End(t) ==
    /\ phase[t] = "active"
    /\ phase' = [phase EXCEPT ![t] = "over"]
    /\ \E s \in {"running", "completed", "failed", "blocked", status[t]} : Record(t, s)
    /\ UNCHANGED line

\* Records get lost otherwise.
Mislay ==
    /\ \E t \in Tasks : Record(t, status[t])
    /\ UNCHANGED <<phase, line>>

Restart ==
    /\ phase' = [t \in Tasks |-> IF phase[t] = "out" THEN "out" ELSE "over"]
    /\ line' = <<>>
    /\ \/ UNCHANGED status
       \/ \E t \in Tasks : Record(t, status[t])

Next ==
    \/ \E t \in Tasks :
          Submit(t) \/ Accept(t) \/ GetInLine(t) \/ Begin(t) \/ Work(t) \/ End(t)
    \/ Mislay
    \/ Restart

Fairness ==
    \A t \in Tasks :
        WF_vars(Accept(t)) /\ WF_vars(GetInLine(t)) /\ WF_vars(Begin(t)) /\ WF_vars(End(t))

Spec == Init /\ [][Next]_vars /\ Fairness
=============================================================================
