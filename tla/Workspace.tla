----------------------------- MODULE Workspace -----------------------------
(***************************************************************************)
(* The workspace directory: the tools that write to it                     *)
(* (src/src/agentcore/tools/fs.py, DownloadFileTool of tools/web.py,       *)
(* ArtifactWriteTool of tools/state.py), the commands of ToolExec and the  *)
(* processes they leave behind, restarts, and the skills that are read     *)
(* from it when the service starts (skills/loader.py).                     *)
(*                                                                         *)
(* The calls of a turn run concurrently.  A tool on files of its own does  *)
(* not suspend, except where it waits for the network: a download, and     *)
(* write_artifact when the record of the task is mirrored.  "Calls that    *)
(* touch the same file would be ordered by the model in separate turns"    *)
(* (loop.py:535): the model is taken to do so, the processes are not.      *)
(***************************************************************************)
EXTENDS ToolExec

CONSTANTS
    Commands,      \* the calls that run a command, the others work on files
    Deliverables,  \* paths below artifacts/
    SkillFiles,    \* paths of *.md files below skills/
    MaxRestarts    \* bound: restarts of the service

ASSUME WorkspaceAssumption ==
    /\ Commands \subseteq Calls
    /\ Deliverables \intersect SkillFiles = {}
    /\ MaxRestarts \in Nat
    /\ Calls \intersect {"nobody", "process", "restart"} = {}

VARIABLES
    files,     \* what each path holds
    at,        \* the path each call is about
    recorded,  \* artifacts on the durable record of the task
    last,      \* history: who touched each path last
    service,   \* is the service up, about to start, or unable to?
    restarts   \* counter of MaxRestarts

toolVars == vars
fileVars == <<files, recorded, last>>
hostVars == <<service, restarts>>
allVars == <<toolVars, fileVars, at, hostVars>>

Paths == Deliverables \union SkillFiles
FileCalls == Calls \ Commands

(***************************************************************************)
(* Nothing; what a tool writes as text, whole, cut short between two       *)
(* characters, or torn inside one; the body of a download and a piece of   *)
(* one; what was cut short and then edited; what a process wrote.          *)
(***************************************************************************)
Contents == {"none", "text", "partial", "torn", "body", "piece", "cut", "process"}
Whole == {"text", "body"}
Short == {"partial", "torn", "piece", "cut"}

WorkspaceInit ==
    /\ Init
    /\ files = [p \in Paths |-> "none"]
    /\ at \in [FileCalls -> Paths]
    /\ recorded = {}
    /\ last = [p \in Paths |-> "nobody"]
    /\ service = "up"
    /\ restarts = 0

-----------------------------------------------------------------------------
\* Call c begins; no other call is about its path.
Ready(c) ==
    /\ service = "up"
    /\ pc[c] = "idle"
    /\ \A d \in FileCalls : pc[d] \in Underway => at[d] # at[c]
    /\ UNCHANGED <<at, hostVars>>

\* The call writes s to its path.
Puts(c, s) ==
    /\ files' = [files EXCEPT ![at[c]] = s]
    /\ last' = [last EXCEPT ![at[c]] = c]

\* What a call reports; the registry's limit is lifted.
Ends(c, o) ==
    /\ Report(c, o)
    /\ budget' = [budget EXCEPT ![c] = 0]
    /\ UNCHANGED <<clock, limit, shell, child>>

\* An OSError before or after the file was opened, which truncates it; a disk that
\* is full takes any number of the bytes.
WriteFails(c) ==
    /\ Ends(c, "failed")
    /\ \/ UNCHANGED <<files, last>>
       \/ \E s \in {"partial", "torn"} : Puts(c, s)
    /\ UNCHANGED recorded

WriteFile(c) ==
    /\ Ready(c)
    /\ \/ Ends(c, "ok") /\ Puts(c, "text") /\ UNCHANGED recorded
       \/ WriteFails(c)

(***************************************************************************)
(* The file is there and holds the text once; otherwise nothing happens.   *)
(* What was no text becomes text; what was cut short remains so.           *)
(***************************************************************************)
EditFile(c) ==
    /\ Ready(c)
    /\ \/ /\ files[at[c]] # "none"
          /\ \/ /\ Ends(c, "edited")
                /\ Puts(c, IF files[at[c]] \in Short THEN "cut" ELSE "text")
                /\ UNCHANGED recorded
             \/ WriteFails(c)
       \/ Ends(c, "failed") /\ UNCHANGED fileVars

\* A call that waits for the network; the registry's limit runs.
Waits(c, stage) ==
    /\ clock + Timeout <= MaxClock
    /\ budget' = [budget EXCEPT ![c] = clock + Timeout]
    /\ pc' = [pc EXCEPT ![c] = stage]
    /\ UNCHANGED <<clock, limit, shell, child, outcome>>

-----------------------------------------------------------------------------
\* download_file: the request, then the file is opened, then the body comes.
Download(c) ==
    /\ Ready(c)
    /\ Waits(c, "requesting")
    /\ UNCHANGED fileVars

Opened(c) ==
    /\ pc[c] = "requesting"
    /\ \/ /\ pc' = [pc EXCEPT ![c] = "streaming"]
          /\ Puts(c, "piece")
          /\ UNCHANGED <<clock, budget, limit, shell, child, outcome>>
       \/ Ends(c, "failed") /\ UNCHANGED <<files, last>>
    /\ UNCHANGED <<recorded, at, hostVars>>

\* Mutant: a body that breaks off counts as complete.
DownloadedShort(c) ==
    /\ pc[c] = "streaming"
    /\ Ends(c, "ok")
    /\ \/ Puts(c, "body")
       \/ UNCHANGED <<files, last>>
    /\ UNCHANGED <<recorded, at, hostVars>>

\* What a process has put there meanwhile is mixed up with the body, or stays.
Downloaded(c) ==
    /\ pc[c] = "streaming"
    /\ Ends(c, "ok")
    /\ \/ last[at[c]] = c /\ Puts(c, "body")
       \/ /\ last[at[c]] # c
          /\ UNCHANGED <<files, last>>
    /\ UNCHANGED <<recorded, at, hostVars>>

(***************************************************************************)
(* An error of the connection or a body too large: what is at the path is  *)
(* removed, also if it is an older file and this call never opened it.     *)
(***************************************************************************)
DownloadFails(c) ==
    /\ pc[c] \in {"requesting", "streaming"}
    /\ Ends(c, "failed")
    /\ Puts(c, "none")
    /\ UNCHANGED <<recorded, at, hostVars>>

\* The disk is full: no handler removes the file.
DownloadStuck(c) ==
    /\ pc[c] = "streaming"
    /\ Ends(c, "failed")
    /\ UNCHANGED <<fileVars, at, hostVars>>

-----------------------------------------------------------------------------
\* Mutant: the artifact is recorded before it is written.
ArtifactRecordedFirst(c) ==
    /\ at[c] \in Deliverables
    /\ Ready(c)
    /\ \/ Waits(c, "recording") /\ Puts(c, "text") /\ recorded' = recorded \union {at[c]}
       \/ /\ Ends(c, "failed")
          /\ recorded' = recorded \union {at[c]}
          /\ UNCHANGED <<files, last>>

(***************************************************************************)
(* write_artifact: the file, then the record, on disk at once and then in  *)
(* the mirror, which is waited for.  A record that is not there or cannot  *)
(* be saved is left as it was.                                             *)
(***************************************************************************)
WriteArtifact(c) ==
    /\ at[c] \in Deliverables
    /\ Ready(c)
    /\ \/ Waits(c, "recording") /\ Puts(c, "text") /\ recorded' = recorded \union {at[c]}
       \/ \E o \in {"ok", "failed"} : Ends(c, o) /\ Puts(c, "text") /\ UNCHANGED recorded
       \/ WriteFails(c)

ArtifactMirrored(c) ==
    /\ pc[c] = "recording"
    /\ Ends(c, "ok")
    /\ UNCHANGED <<fileVars, at, hostVars>>

-----------------------------------------------------------------------------
\* run_command and run_python.
RunCommand(c) ==
    /\ service = "up"
    /\ Execute(c)
    /\ UNCHANGED <<fileVars, at, hostVars>>

CommandGoesOn(c) ==
    /\ Spawn(c) \/ Fork(c) \/ ProcessEnds(c) \/ Communicated(c)
    /\ UNCHANGED <<fileVars, at, hostVars>>

\* A process writes or removes a file, whoever waits for it.
ProcessWrites(c, p) ==
    /\ Alive(c)
    /\ \E s \in {"none", "process"} : files' = [files EXCEPT ![p] = s]
    /\ last' = [last EXCEPT ![p] = "process"]
    /\ UNCHANGED <<toolVars, recorded, at, hostVars>>

TimerFires(c) == Timer(c) /\ UNCHANGED <<fileVars, at, hostVars>>

TimePasses == Tick /\ UNCHANGED <<fileVars, at, hostVars>>

-----------------------------------------------------------------------------
(***************************************************************************)
(* The service ends, with the calls that are under way.  On a machine of   *)
(* its own the processes may live on, and the files stay; a container that *)
(* is replaced takes all with it but the record, which is mirrored.        *)
(***************************************************************************)
Lost ==
    /\ restarts < MaxRestarts
    /\ restarts' = restarts + 1
    /\ service' = "starting"
    /\ pc' = [c \in Calls |-> IF pc[c] \in Underway THEN "lost" ELSE pc[c]]
    /\ UNCHANGED <<clock, budget, limit, outcome, recorded, at>>

WarmRestart ==
    /\ Lost
    /\ UNCHANGED <<shell, child, files, last>>

ColdRestart ==
    /\ Lost
    /\ shell' = [c \in Calls |-> IF shell[c] = "none" THEN "none" ELSE "gone"]
    /\ child' = [c \in Calls |-> IF child[c] = "none" THEN "none" ELSE "gone"]
    /\ files' = [p \in Paths |-> "none"]
    /\ last' = [p \in Paths |-> "restart"]

\* A text torn inside a character cannot be decoded, and load_directory does not
\* survive that; bytes that nobody promised to be text may be as bad.
Unreadable == \E p \in SkillFiles : files[p] = "torn"
Doubtful == \E p \in SkillFiles : files[p] \in {"body", "piece", "process"}

\* build_runtime loads the skills.
Boot ==
    /\ service = "starting"
    /\ \/ service' = "up" /\ ~Unreadable
       \/ service' = "unable" /\ (Unreadable \/ Doubtful)
    /\ UNCHANGED <<toolVars, fileVars, at, restarts>>

-----------------------------------------------------------------------------
FileCall(c) ==
    \/ WriteFile(c) \/ EditFile(c) \/ WriteArtifact(c) \/ ArtifactMirrored(c)
    \/ Download(c) \/ Opened(c) \/ Downloaded(c) \/ DownloadFails(c) \/ DownloadStuck(c)

Next ==
    \/ \E c \in FileCalls : FileCall(c)
    \/ \E c \in Commands :
          RunCommand(c) \/ CommandGoesOn(c) \/ \E p \in Paths : ProcessWrites(c, p)
    \/ \E c \in Calls : TimerFires(c)
    \/ TimePasses \/ WarmRestart \/ ColdRestart \/ Boot

Fairness == WF_allVars(TimePasses) /\ \A c \in Calls : WF_allVars(TimerFires(c))

Spec == WorkspaceInit /\ [][Next]_allVars /\ Fairness

-----------------------------------------------------------------------------
(***************************************************************************)
(* Every variable holds a value of its type; a file that a call wrote was  *)
(* written by a tool that writes.                                          *)
(***************************************************************************)
TypeOK ==
    /\ ToolExecTypeOK
    /\ files \in [Paths -> Contents]
    /\ at \in [FileCalls -> Paths]
    /\ recorded \in SUBSET Deliverables
    /\ last \in [Paths -> FileCalls \union {"nobody", "process", "restart"}]
    /\ service \in {"up", "starting", "unable"}
    /\ restarts \in 0..MaxRestarts

(***************************************************************************)
(* What a call reported holds until somebody else touches the file: after  *)
(* a success it is there as a whole, and it is gone only after a failure,  *)
(* not because the registry's limit came in between.                       *)
(***************************************************************************)
ReportsHold ==
    \A c \in FileCalls : last[at[c]] = c /\ pc[c] = "done" =>
        /\ outcome[c] = "ok" => files[at[c]] \in Whole
        /\ files[at[c]] = "none" => outcome[c] = "failed"

(***************************************************************************)
(* A deliverable on the durable record is there, as a whole file: unless a *)
(* process or a later call that did not succeed has spoiled it, or the     *)
(* disk was replaced.                                                      *)
(***************************************************************************)
ArtifactsStand ==
    \A p \in recorded :
        \/ files[p] \in Whole
        \/ last[p] \in {"process", "restart"}
        \/ \E c \in FileCalls : last[p] = c /\ at[c] = p /\ outcome[c] # "ok"

(***************************************************************************)
(* "The loader is intentionally tolerant: a malformed skill is skipped     *)
(* with a warning rather than breaking startup." (skills/loader.py:22)     *)
(***************************************************************************)
SkillsNeverStopABoot == service # "unable"
=============================================================================
