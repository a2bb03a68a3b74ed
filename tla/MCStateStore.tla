---------------------------- MODULE MCStateStore ----------------------------
(***************************************************************************)
(* StateStore with the clients of the code: the run that holds the agent's *)
(* lock and a task that is being queued, which both save task records, and *)
(* the long-term memory, which the run loads before any of its tools uses  *)
(* it (its concurrent calls are the subject of LongTermMemory).            *)
(***************************************************************************)
EXTENDS StateStore

CONSTANTS running, queueing, memory, tasks, x, y

DocumentOf == [c \in Clients |-> IF c = memory THEN memory ELSE tasks]

\* The two savers of task records write different ones.
OwnEntries == [c \in Clients |-> IF c = queueing THEN {y} ELSE {x}]
=============================================================================
