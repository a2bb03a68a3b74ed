----------------------------- MODULE MCAgentRun -----------------------------
(***************************************************************************)
(* AgentRun on a small instance, and the mapping under which it implements *)
(* TaskService.                                                            *)
(***************************************************************************)
EXTENDS AgentRun, TLC

\* The phase of a task whose run is at stage s.
PhaseOf(s) ==
    CASE s = "idle" -> "out"
      [] s \in Loading -> "coming"
      [] s = "opening" -> "accepted"
      [] s = "queued" -> "waiting"
      [] s \in Inside -> "active"
      [] OTHER -> "over"

Phase == [t \in Tasks |-> PhaseOf(pc[t])]
Status == [t \in Tasks |-> IF t \in mislaid THEN "lost" ELSE Durable[t].status]

\* Tasks that differ in their name only.
Peers == Permutations(Tasks \ (ApiTasks \union ResumedTasks))

Service == INSTANCE TaskService WITH
    phase <- Phase, line <- queue, status <- Status

(***************************************************************************)
(* The runs keep the promise of TaskService.                               *)
(***************************************************************************)
ImplementsTaskService == Service!Spec

\* The part of it that says nothing of fairness.
KeepsTaskService == Service!Init /\ [][Service!Next]_Service!vars
=============================================================================
