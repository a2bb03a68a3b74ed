------------------------------ MODULE ToolExec ------------------------------
(***************************************************************************)
(* A command that the model runs: ToolRegistry.execute                     *)
(* (src/src/agentcore/registry.py) around RunCommandTool or RunPythonTool  *)
(* (src/src/agentcore/tools/exec.py) around Sandbox.run                    *)
(* (src/src/agentcore/sandbox.py), and the processes of its group.  What   *)
(* the commands and the other tools do to files, and the next-state        *)
(* relation, are in Workspace.                                             *)
(*                                                                         *)
(* Three time limits are nested: the registry's around the whole call, the *)
(* sandbox's around the command, and the ten seconds that a killed command *)
(* has to close its output.  A timer that is due fires before the clock    *)
(* goes on; of two that are due together the registry's wins, whose        *)
(* cancellation passes through the sandbox's handler.                      *)
(***************************************************************************)
EXTENDS Naturals

CONSTANTS
    Calls,     \* the calls of the model's turns
    Timeout,   \* settings.sandbox.timeout_seconds, the registry's and the default limit
    Asked,     \* timeout_seconds arguments of the calls
    Grace,     \* what a killed command has to close its output (10 s)
    MaxClock   \* bound: readings of the clock

ASSUME ConstantsAssumption ==
    /\ Timeout \in Nat \ {0} /\ Grace \in Nat \ {0}
    /\ Asked \subseteq Nat \ {0}
    /\ MaxClock \in Nat

VARIABLES
    clock,   \* the event loop's clock
    pc,      \* where each call is
    budget,  \* when the registry's limit is due
    limit,   \* the call's timeout, then when the sandbox's limit is due
    shell,   \* the leader of each call's process group
    child,   \* another process of the command: of the group or not, holding the
             \*   output pipes or not
    outcome  \* what each call reported

vars == <<clock, pc, budget, limit, shell, child, outcome>>

\* The stages of a command, then those of the tools that wait for the network.
Underway == {"spawning", "communicating", "draining", "requesting", "streaming", "recording"}
Outcomes == {"none", "refused", "not_started", "exited", "timed_out", "timeout", "ok", "edited",
             "failed"}

Init ==
    /\ clock = 0
    /\ pc = [c \in Calls |-> "idle"]
    /\ budget = [c \in Calls |-> 0]
    /\ limit = [c \in Calls |-> 0]
    /\ shell = [c \in Calls |-> "none"]
    /\ child = [c \in Calls |-> "none"]
    /\ outcome = [c \in Calls |-> "none"]

\* A child of the shell's process group, and one that has left it (setsid).
InGroup == {"piped", "unpiped"}
LeftGroup == {"apart_piped", "apart"}

Alive(c) == shell[c] = "alive" \/ child[c] \in InGroup \union LeftGroup

\* communicate() reads until the last process that holds the pipes is gone.
Piped(c) == shell[c] = "alive" \/ child[c] \in {"piped", "apart_piped"}

Report(c, o) ==
    /\ pc' = [pc EXCEPT ![c] = "done"]
    /\ outcome' = [outcome EXCEPT ![c] = o]

-----------------------------------------------------------------------------
(***************************************************************************)
(* The call is screened and begins, with the limit that it asks for or     *)
(* with the default.                                                       *)
(***************************************************************************)
Execute(c) ==
    /\ pc[c] = "idle" /\ clock + Timeout <= MaxClock
    /\ budget' = [budget EXCEPT ![c] = clock + Timeout]
    /\ \/ /\ pc' = [pc EXCEPT ![c] = "spawning"]
          /\ \E n \in Asked \union {Timeout} : limit' = [limit EXCEPT ![c] = n]
          /\ UNCHANGED outcome
       \/ /\ Report(c, "refused")
          /\ UNCHANGED limit
    /\ UNCHANGED <<clock, shell, child>>

Spawn(c) ==
    /\ pc[c] = "spawning"
    /\ \/ /\ pc' = [pc EXCEPT ![c] = "communicating"]
          /\ limit' = [limit EXCEPT ![c] = clock + @]
          /\ shell' = [shell EXCEPT ![c] = "alive"]
          /\ UNCHANGED outcome
       \/ /\ Report(c, "not_started")
          /\ UNCHANGED <<limit, shell>>
    /\ UNCHANGED <<clock, budget, child>>

\* The command puts something in the background, with the pipes or without, in
\* its process group or in a session of its own.
Fork(c) ==
    /\ shell[c] = "alive" /\ child[c] = "none"
    /\ \E k \in InGroup \union LeftGroup : child' = [child EXCEPT ![c] = k]
    /\ UNCHANGED <<clock, pc, budget, limit, shell, outcome>>

\* A process ends by itself; the shell is reaped at once.
ProcessEnds(c) ==
    /\ \/ /\ shell[c] = "alive"
          /\ shell' = [shell EXCEPT ![c] = "gone"]
          /\ UNCHANGED child
       \/ /\ child[c] \in InGroup \union LeftGroup
          /\ child' = [child EXCEPT ![c] = "gone"]
          /\ UNCHANGED shell
    /\ UNCHANGED <<clock, pc, budget, limit, outcome>>

\* communicate() returns, with the exit code or after the kill.
Communicated(c) ==
    /\ pc[c] \in {"communicating", "draining"} /\ ~Piped(c)
    /\ Report(c, IF pc[c] = "draining" THEN "timed_out" ELSE "exited")
    /\ UNCHANGED <<clock, budget, limit, shell, child>>

\* Mutant: only the shell is killed.
KilledShell(c) ==
    \/ /\ shell[c] = "alive"
       /\ shell' = [shell EXCEPT ![c] = "killed"]
       /\ UNCHANGED child
    \/ /\ shell[c] # "alive"
       /\ UNCHANGED <<shell, child>>

(***************************************************************************)
(* killpg(getpgid(pid)): the whole group, if its leader is still there, but *)
(* not a child that has left it.  Without the leader getpgid fails, and the *)
(* fallback only tries the leader again.                                   *)
(***************************************************************************)
Killed(c) ==
    \/ /\ shell[c] = "alive"
       /\ shell' = [shell EXCEPT ![c] = "killed"]
       /\ child' = [child EXCEPT ![c] = IF @ \in InGroup THEN "gone" ELSE @]
    \/ /\ shell[c] # "alive"
       /\ UNCHANGED <<shell, child>>

\* Mutant: the call reports before the killed command has drained.
SandboxTimeoutEager(c) ==
    /\ pc[c] = "communicating"
    /\ limit[c] <= clock /\ clock < budget[c]
    /\ Killed(c)
    /\ pc' = [pc EXCEPT ![c] = "draining"]
    /\ outcome' = [outcome EXCEPT ![c] = "timed_out"]
    /\ limit' = [limit EXCEPT ![c] = clock + Grace]
    /\ UNCHANGED <<clock, budget>>

SandboxTimeout(c) ==
    /\ pc[c] = "communicating"
    /\ limit[c] <= clock /\ clock < budget[c]
    /\ Killed(c)
    /\ pc' = [pc EXCEPT ![c] = "draining"]
    /\ limit' = [limit EXCEPT ![c] = clock + Grace]
    /\ UNCHANGED <<clock, budget, outcome>>

DrainTimeout(c) ==
    /\ pc[c] = "draining"
    /\ limit[c] <= clock /\ clock < budget[c]
    /\ Report(c, "timed_out")
    /\ UNCHANGED <<clock, budget, limit, shell, child>>

\* Mutant: the registry has no limit.
RegistryTimeoutNever(c) == FALSE /\ UNCHANGED vars

\* wait_for cancels the tool; nobody tells the processes.
RegistryTimeout(c) ==
    /\ pc[c] \in Underway
    /\ budget[c] <= clock
    /\ Report(c, "timeout")
    /\ UNCHANGED <<clock, budget, limit, shell, child>>

Due(c) ==
    /\ pc[c] \in Underway
    /\ budget[c] <= clock \/ (pc[c] \in {"communicating", "draining"} /\ limit[c] <= clock)

Tick ==
    /\ clock < MaxClock
    /\ \A c \in Calls : ~Due(c)
    /\ clock' = clock + 1
    /\ UNCHANGED <<pc, budget, limit, shell, child, outcome>>

(***************************************************************************)
(* Time passes and timers fire.  Nothing is assumed of the commands, not   *)
(* even that they can be started.                                          *)
(***************************************************************************)
Timer(c) == SandboxTimeout(c) \/ DrainTimeout(c) \/ RegistryTimeout(c)

-----------------------------------------------------------------------------
(***************************************************************************)
(* Every variable holds a value of its type, and a call has an outcome as  *)
(* soon as it is done and no sooner.                                       *)
(***************************************************************************)
ToolExecTypeOK ==
    /\ clock \in 0..MaxClock
    /\ pc \in [Calls -> Underway \union {"idle", "done", "lost"}]
    /\ budget \in [Calls -> Nat]
    /\ limit \in [Calls -> Nat]
    /\ shell \in [Calls -> {"none", "alive", "gone", "killed"}]
    /\ child \in [Calls -> {"none", "gone"} \union InGroup \union LeftGroup]
    /\ outcome \in [Calls -> Outcomes]
    /\ \A c \in Calls : pc[c] = "done" <=> outcome[c] # "none"

(***************************************************************************)
(* A command that outlives the call which started it, and so works on in   *)
(* the workspace of later steps and tasks, was cut off by the registry     *)
(* before the sandbox's limit was due, or has put itself in the background *)
(* and let its shell end, or its shell was killed and it had left the      *)
(* shell's process group before.                                           *)
(***************************************************************************)
StraysAreExplained ==
    \A c \in Calls : pc[c] = "done" /\ Alive(c) =>
        \/ outcome[c] = "timeout" /\ budget[c] <= limit[c]
        \/ shell[c] = "gone"
        \/ shell[c] = "killed" /\ child[c] \in LeftGroup

(***************************************************************************)
(* "the registry caps its own timeout" (loop.py:534): every call of a turn *)
(* reports, however it hangs, unless the process ends.                     *)
(***************************************************************************)
EveryCallReports == \A c \in Calls : []<>(pc[c] \notin Underway)
=============================================================================
