-------------------------- MODULE WorkspaceProofs --------------------------
(***************************************************************************)
(* What the workspace guarantees for any calls, paths, time limits and     *)
(* number of restarts: no command outlives its call without one of three   *)
(* reasons, and neither a report nor the record of the artifacts is wrong  *)
(* by anything but the processes, a replaced disk and later failures.      *)
(***************************************************************************)
EXTENDS Workspace, TLAPS

FileStages == {"requesting", "streaming", "recording"}
CommandStages == {"spawning", "communicating", "draining"}

\* The processes of call c, at each of its stages.
CommandSound(c) ==
    /\ pc[c] \in {"idle", "spawning"} \union FileStages => shell[c] = "none"
    /\ shell[c] = "none" => child[c] = "none"
    /\ pc[c] = "communicating" => shell[c] \in {"alive", "gone"} /\ clock <= limit[c]
    /\ pc[c] = "draining" =>
          shell[c] = "gone" \/ (shell[c] = "killed" /\ child[c] \in {"none", "gone"} \union LeftGroup)
    /\ pc[c] = "done" /\ Alive(c) =>
          \/ outcome[c] = "timeout" /\ budget[c] <= limit[c]
          \/ shell[c] = "gone" \/ (shell[c] = "killed" /\ child[c] \in LeftGroup)

\* The file of call c, at each of its stages, if nobody else has touched it since.
FileSound(c) ==
    /\ pc[c] \notin CommandStages
    /\ pc[c] \in {"idle", "requesting"} => last[at[c]] # c
    /\ last[at[c]] = c =>
          /\ pc[c] = "streaming" => files[at[c]] # "none"
          /\ pc[c] = "recording" => files[at[c]] = "text"
          /\ pc[c] = "done" /\ outcome[c] = "ok" => files[at[c]] \in Whole
          /\ pc[c] = "done" /\ files[at[c]] = "none" => outcome[c] = "failed"

\* The inductive invariant.
Inv ==
    /\ TypeOK
    /\ \A c \in Calls : CommandSound(c)
    /\ \A c \in FileCalls : FileSound(c)
    /\ ArtifactsStand

-----------------------------------------------------------------------------
USE DEF InGroup, LeftGroup

LEMMA InitInv == WorkspaceInit => Inv
<1> SUFFICES ASSUME WorkspaceInit PROVE Inv
  OBVIOUS
<1>1. TypeOK
  BY ConstantsAssumption, WorkspaceAssumption
  DEF WorkspaceInit, Init, TypeOK, ToolExecTypeOK, Underway, Outcomes, Contents
<1>2. \A c \in Calls : CommandSound(c)
  BY DEF WorkspaceInit, Init, CommandSound
<1>3. \A c \in FileCalls : FileSound(c)
  BY WorkspaceAssumption DEF WorkspaceInit, Init, FileSound, CommandStages, FileCalls, Paths
<1>4. ArtifactsStand
  BY DEF WorkspaceInit, ArtifactsStand
<1> QED BY <1>1, <1>2, <1>3, <1>4 DEF Inv

-----------------------------------------------------------------------------
\* What all steps of a tool on files have in common.
FileStep(c) ==
    /\ pc[c] \in {"idle"} \union FileStages
    /\ pc'[c] \in FileStages \union {"done"}
    /\ \E x : pc' = [pc EXCEPT ![c] = x]
    /\ outcome' = outcome \/ \E o \in Outcomes \ {"none"} : outcome' = [outcome EXCEPT ![c] = o]
    /\ pc'[c] = "done" <=> outcome'[c] # "none"
    /\ budget' = budget \/ \E n \in Nat : budget' = [budget EXCEPT ![c] = n]
    /\ UNCHANGED <<files, last>> \/ \E s \in Contents : Puts(c, s)
    /\ \/ recorded' = recorded
       \/ at[c] \in Deliverables /\ recorded' = recorded \union {at[c]} /\ last'[at[c]] = c
    /\ UNCHANGED <<clock, limit, shell, child, at, hostVars>>

\* Each of them reports, or waits for the network, or goes on to the next stage.
LEMMA EndsFacts ==
    ASSUME TypeOK, NEW c \in FileCalls, NEW o \in Outcomes \ {"none"}, Ends(c, o)
    PROVE  /\ pc' = [pc EXCEPT ![c] = "done"] /\ pc'[c] = "done"
           /\ outcome' = [outcome EXCEPT ![c] = o] /\ outcome'[c] = o
           /\ budget' = [budget EXCEPT ![c] = 0]
           /\ UNCHANGED <<clock, limit, shell, child>>
  BY DEF Ends, Report, TypeOK, ToolExecTypeOK, FileCalls

LEMMA WaitsFacts ==
    ASSUME TypeOK, NEW c \in FileCalls, pc[c] = "idle", NEW s \in FileStages, Waits(c, s)
    PROVE  /\ pc' = [pc EXCEPT ![c] = s] /\ pc'[c] = s
           /\ outcome' = outcome /\ outcome[c] = "none"
           /\ \E n \in Nat : budget' = [budget EXCEPT ![c] = n]
           /\ UNCHANGED <<clock, limit, shell, child>>
<1>1. clock + Timeout \in Nat
  BY ConstantsAssumption DEF TypeOK, ToolExecTypeOK
<1> QED BY <1>1 DEF Waits, TypeOK, ToolExecTypeOK, FileCalls, FileStages

LEMMA WriteFailsStep ==
    ASSUME TypeOK, NEW c \in FileCalls, Ready(c), WriteFails(c)
    PROVE  FileStep(c) /\ outcome'[c] = "failed" /\ pc'[c] = "done" /\ recorded' = recorded
<1>1. Ends(c, "failed") /\ "failed" \in Outcomes \ {"none"}
  BY DEF WriteFails, Outcomes
<1>2. UNCHANGED <<files, last>> \/ \E s \in Contents : Puts(c, s)
  BY DEF WriteFails, Contents
<1>3. pc[c] = "idle" /\ UNCHANGED <<at, hostVars, recorded>>
  BY DEF Ready, WriteFails
<1> QED BY <1>1, <1>2, <1>3, EndsFacts DEF FileStep, FileStages

LEMMA FileCallStep ==
    ASSUME TypeOK, NEW c \in FileCalls, FileCall(c)
    PROVE  FileStep(c)
<1> USE DEF FileStages
<1>0. Contents = {"none", "text", "partial", "torn", "body", "piece", "cut", "process"}
      /\ {"ok", "edited", "failed"} \subseteq Outcomes \ {"none"}
  BY DEF Contents, Outcomes
<1>1. CASE WriteFile(c)
  <2>1. CASE WriteFails(c)
    BY <1>1, <2>1, WriteFailsStep DEF WriteFile
  <2>2. CASE Ends(c, "ok") /\ Puts(c, "text") /\ UNCHANGED recorded
    BY <1>0, <1>1, <2>2, EndsFacts DEF WriteFile, Ready, FileStep
  <2> QED BY <1>1, <2>1, <2>2 DEF WriteFile
<1>2. CASE EditFile(c)
  <2>1. CASE WriteFails(c)
    BY <1>2, <2>1, WriteFailsStep DEF EditFile
  <2>2. CASE Ends(c, "edited") /\ (\E s \in Contents : Puts(c, s)) /\ UNCHANGED recorded
    BY <1>0, <1>2, <2>2, EndsFacts DEF EditFile, Ready, FileStep
  <2>3. CASE Ends(c, "failed") /\ UNCHANGED fileVars
    BY <1>0, <1>2, <2>3, EndsFacts DEF EditFile, Ready, FileStep, fileVars
  <2> QED BY <1>0, <1>2, <2>1, <2>2, <2>3 DEF EditFile
<1>3. CASE WriteArtifact(c)
  <2>1. CASE WriteFails(c)
    BY <1>3, <2>1, WriteFailsStep DEF WriteArtifact
  <2>2. CASE Waits(c, "recording") /\ Puts(c, "text") /\ recorded' = recorded \union {at[c]}
    <3>1. last'[at[c]] = c
      BY <2>2 DEF Puts, TypeOK
    <3> QED BY <1>0, <1>3, <2>2, <3>1, WaitsFacts DEF WriteArtifact, Ready, FileStep
  <2>3. CASE \E o \in {"ok", "failed"} : Ends(c, o) /\ Puts(c, "text") /\ UNCHANGED recorded
    BY <1>0, <1>3, <2>3, EndsFacts DEF WriteArtifact, Ready, FileStep
  <2> QED BY <1>3, <2>1, <2>2, <2>3 DEF WriteArtifact
<1>4. CASE ArtifactMirrored(c)
  BY <1>0, <1>4, EndsFacts DEF ArtifactMirrored, FileStep, fileVars
<1>5. CASE Download(c)
  BY <1>5, WaitsFacts DEF Download, Ready, FileStep, fileVars
<1>6. CASE Opened(c)
  <2>1. CASE Ends(c, "failed") /\ UNCHANGED <<files, last>>
    BY <1>0, <1>6, <2>1, EndsFacts DEF Opened, FileStep
  <2>2. CASE /\ pc' = [pc EXCEPT ![c] = "streaming"] /\ Puts(c, "piece")
             /\ UNCHANGED <<clock, budget, limit, shell, child, outcome>>
    BY <1>0, <1>6, <2>2 DEF Opened, FileStep, TypeOK, ToolExecTypeOK, FileCalls
  <2> QED BY <1>6, <2>1, <2>2 DEF Opened
<1>7. CASE Downloaded(c)
  BY <1>0, <1>7, EndsFacts DEF Downloaded, FileStep
<1>8. CASE DownloadFails(c)
  BY <1>0, <1>8, EndsFacts DEF DownloadFails, FileStep
<1>9. CASE DownloadStuck(c)
  BY <1>0, <1>9, EndsFacts DEF DownloadStuck, FileStep, fileVars
<1> QED BY <1>1, <1>2, <1>3, <1>4, <1>5, <1>6, <1>7, <1>8, <1>9 DEF FileCall

\* The types stay, and so do the processes of all calls.
LEMMA FileStepTypes ==
    ASSUME TypeOK, NEW c \in FileCalls, FileStep(c)
    PROVE  TypeOK'
<1> USE DEF TypeOK, ToolExecTypeOK, FileStep, FileCalls, FileStages
<1>1. pc' \in [Calls -> Underway \union {"idle", "done", "lost"}]
  BY DEF Underway
<1>2. outcome' \in [Calls -> Outcomes]
  OBVIOUS
<1>3. budget' \in [Calls -> Nat]
  OBVIOUS
<1>4. files' \in [Paths -> Contents]
  BY DEF Puts
<1>5. last' \in [Paths -> FileCalls \union {"nobody", "process", "restart"}]
  BY DEF Puts
<1>6. recorded' \in SUBSET Deliverables
  OBVIOUS
<1>7. \A d \in Calls : pc'[d] = "done" <=> outcome'[d] # "none"
  OBVIOUS
<1>8. /\ clock' \in 0..MaxClock /\ limit' \in [Calls -> Nat]
      /\ shell' \in [Calls -> {"none", "alive", "gone", "killed"}]
      /\ child' \in [Calls -> {"none", "gone"} \union InGroup \union LeftGroup]
      /\ at' \in [FileCalls -> Paths]
      /\ service' \in {"up", "starting", "unable"} /\ restarts' \in 0..MaxRestarts
  BY DEF hostVars
<1> QED BY <1>1, <1>2, <1>3, <1>4, <1>5, <1>6, <1>7, <1>8

LEMMA FileStepCommands ==
    ASSUME TypeOK, \A d \in Calls : CommandSound(d), NEW c \in FileCalls, FileStep(c)
    PROVE  \A d \in Calls : CommandSound(d)'
<1> SUFFICES ASSUME NEW d \in Calls PROVE CommandSound(d)'
  OBVIOUS
<1>1. CommandSound(d) /\ UNCHANGED <<clock, limit, shell, child>>
  BY DEF FileStep
<1>2. CASE d = c
  <2>1. shell'[c] = "none" /\ child'[c] = "none"
    BY <1>1, <1>2 DEF FileStep, CommandSound
  <2> QED BY <1>2, <2>1 DEF FileStep, CommandSound, FileStages, Alive
<1>3. CASE d # c
  <2>1. pc'[d] = pc[d] /\ outcome'[d] = outcome[d] /\ budget'[d] = budget[d]
    BY <1>3 DEF FileStep, TypeOK, ToolExecTypeOK
  <2> QED BY <1>1, <2>1 DEF CommandSound, Alive
<1> QED BY <1>2, <1>3

\* The files of the other calls are as sound as before.
LEMMA FileStepOthers ==
    ASSUME TypeOK, NEW c \in FileCalls, FileStep(c), NEW d \in FileCalls, d # c, FileSound(d)
    PROVE  FileSound(d)'
<1>1. /\ pc'[d] = pc[d] /\ outcome'[d] = outcome[d] /\ at' = at
      /\ at[c] \in Paths /\ at[d] \in Paths
  BY DEF FileStep, TypeOK, ToolExecTypeOK, FileCalls
<1>2. CASE UNCHANGED <<files, last>>
  BY <1>1, <1>2 DEF FileSound
<1>3. CASE \E s \in Contents : Puts(c, s)
  <2>1. CASE at[c] = at[d]
    BY <1>1, <1>3, <2>1 DEF FileSound, Puts, TypeOK
  <2>2. CASE at[c] # at[d]
    BY <1>1, <1>3, <2>2 DEF FileSound, Puts, TypeOK
  <2> QED BY <2>1, <2>2
<1> QED BY <1>2, <1>3 DEF FileStep

-----------------------------------------------------------------------------
\* The file of the call that makes the step.
LEMMA FileStepSound ==
    ASSUME TypeOK, NEW c \in FileCalls, FileSound(c), FileCall(c)
    PROVE  FileSound(c)'
<1> USE DEF FileStages
<1>0. FileStep(c) /\ at' = at /\ at[c] \in Paths
  BY FileCallStep DEF FileStep, TypeOK
<1>1. ASSUME NEW s, Puts(c, s) PROVE files'[at[c]] = s /\ last'[at[c]] = c
  BY <1>0, <1>1 DEF Puts, TypeOK
<1>2. ASSUME Ends(c, "failed") PROVE FileSound(c)'
  BY <1>0, <1>2, EndsFacts DEF FileSound, CommandStages, Outcomes
<1>3. ASSUME WriteFails(c) PROVE FileSound(c)'
  BY <1>2, <1>3 DEF WriteFails
<1>4. ASSUME NEW o \in {"ok", "edited"}, NEW s \in {"text", "body", "cut"}, Ends(c, o), Puts(c, s),
             o = "ok" => s \in Whole
      PROVE  FileSound(c)'
  <2>1. pc'[c] = "done" /\ outcome'[c] = o
    BY <1>4, EndsFacts DEF Outcomes
  <2>2. files'[at[c]] = s
    BY <1>1, <1>4
  <2> QED BY <1>0, <1>4, <2>1, <2>2 DEF FileSound, CommandStages, Whole
<1>5. "text" \in Whole /\ "body" \in Whole
  BY DEF Whole
<1>6. CASE WriteFile(c)
  BY <1>3, <1>4, <1>5, <1>6 DEF WriteFile
<1>7. CASE EditFile(c)
  BY <1>2, <1>3, <1>4, <1>7 DEF EditFile
<1>8. CASE WriteArtifact(c)
  <2>1. ASSUME Waits(c, "recording"), Puts(c, "text") PROVE FileSound(c)'
    <3>1. pc'[c] = "recording" /\ files'[at[c]] = "text"
      BY <1>1, <1>8, <2>1, WaitsFacts DEF WriteArtifact, Ready
    <3> QED BY <1>0, <3>1 DEF FileSound, CommandStages
  <2>2. ASSUME NEW o \in {"ok", "failed"}, Ends(c, o), Puts(c, "text") PROVE FileSound(c)'
    BY <1>2, <1>4, <1>5, <2>2
  <2> QED BY <1>3, <1>8, <2>1, <2>2 DEF WriteArtifact
<1>9. CASE ArtifactMirrored(c)
  <2>1. pc[c] = "recording" /\ UNCHANGED <<files, last>> /\ pc'[c] = "done" /\ outcome'[c] = "ok"
    BY <1>9, EndsFacts DEF ArtifactMirrored, fileVars, Outcomes
  <2> QED BY <1>0, <1>5, <2>1 DEF FileSound, CommandStages, Whole
<1>10. CASE Download(c)
  <2>1. pc[c] = "idle" /\ UNCHANGED <<files, last>> /\ pc'[c] = "requesting"
    BY <1>10, WaitsFacts DEF Download, Ready, fileVars
  <2> QED BY <1>0, <2>1 DEF FileSound, CommandStages
<1>11. CASE Opened(c)
  <2>1. ASSUME pc' = [pc EXCEPT ![c] = "streaming"], Puts(c, "piece") PROVE FileSound(c)'
    <3>1. pc'[c] = "streaming" /\ files'[at[c]] = "piece"
      BY <1>1, <2>1 DEF TypeOK, ToolExecTypeOK, FileCalls
    <3> QED BY <1>0, <3>1 DEF FileSound, CommandStages
  <2> QED BY <1>2, <1>11, <2>1 DEF Opened
<1>12. CASE Downloaded(c)
  <2>1. ASSUME last[at[c]] # c, UNCHANGED <<files, last>>, Ends(c, "ok") PROVE FileSound(c)'
    BY <1>0, <2>1, EndsFacts DEF FileSound, CommandStages, Outcomes
  <2> QED BY <1>4, <1>5, <1>12, <2>1 DEF Downloaded
<1>13. CASE DownloadFails(c) \/ DownloadStuck(c)
  BY <1>2, <1>13 DEF DownloadFails, DownloadStuck
<1> QED BY <1>6, <1>7, <1>8, <1>9, <1>10, <1>11, <1>12, <1>13 DEF FileCall

\* A call that leaves a deliverable spoiled has not reported success.
LEMMA FileStepArtifacts ==
    ASSUME TypeOK, ArtifactsStand, NEW c \in FileCalls, FileStep(c), FileSound(c)', TypeOK'
    PROVE  ArtifactsStand'
<1> SUFFICES ASSUME NEW p \in recorded'
             PROVE  \/ files'[p] \in Whole
                    \/ last'[p] \in {"process", "restart"}
                    \/ \E d \in FileCalls : last'[p] = d /\ at'[d] = p /\ outcome'[d] # "ok"
  BY DEF ArtifactsStand
<1>1. at' = at /\ at[c] \in Paths /\ Deliverables \subseteq Paths
  BY DEF FileStep, TypeOK, Paths
<1>2. \A d \in FileCalls : d # c => outcome'[d] = outcome[d]
  BY DEF FileStep, TypeOK, ToolExecTypeOK, FileCalls
<1>3. CASE p = at[c] /\ last'[p] = c
  BY <1>1, <1>3 DEF FileSound, TypeOK, ToolExecTypeOK, FileCalls
<1>4. CASE p = at[c] /\ last'[p] # c
  <2>1. p \in recorded /\ UNCHANGED <<files, last>>
    BY <1>1, <1>4 DEF FileStep, Puts, TypeOK
  <2> QED BY <1>1, <1>2, <1>4, <2>1 DEF ArtifactsStand
<1>5. CASE p # at[c]
  <2>1. p \in recorded /\ files'[p] = files[p] /\ last'[p] = last[p]
    BY <1>1, <1>5 DEF FileStep, Puts, TypeOK
  <2> QED BY <1>1, <1>2, <1>5, <2>1 DEF ArtifactsStand
<1> QED BY <1>3, <1>4, <1>5

LEMMA FileCallInv ==
    ASSUME Inv, NEW c \in FileCalls, FileCall(c)
    PROVE  Inv'
<1>1. FileStep(c)
  BY FileCallStep DEF Inv
<1>2. TypeOK'
  BY <1>1, FileStepTypes DEF Inv
<1>3. (\A d \in Calls : CommandSound(d))'
  BY <1>1, FileStepCommands DEF Inv
<1>4. (\A d \in FileCalls : FileSound(d))'
  BY <1>1, FileStepSound, FileStepOthers DEF Inv
<1>5. ArtifactsStand'
  BY <1>1, <1>2, <1>4, FileStepArtifacts DEF Inv
<1> QED BY <1>2, <1>3, <1>4, <1>5 DEF Inv

-----------------------------------------------------------------------------
\* A step that leaves the files, their histories and the reports about them alone.
LEMMA FilesUntouched ==
    ASSUME TypeOK, \A c \in FileCalls : FileSound(c), ArtifactsStand,
           UNCHANGED <<files, recorded, last, at>>,
           \A c \in FileCalls : pc'[c] = pc[c] /\ outcome'[c] = outcome[c]
    PROVE  (\A c \in FileCalls : FileSound(c))' /\ ArtifactsStand'
<1>1. ASSUME NEW c \in FileCalls PROVE FileSound(c)'
  BY <1>1 DEF FileSound
<1>2. ArtifactsStand'
  BY DEF ArtifactsStand
<1> QED BY <1>1, <1>2 DEF FileCalls

\* What all steps of a command and its processes have in common.
CommandStep(c) ==
    /\ pc' = pc \/ \E x \in CommandStages \union {"done"} : pc' = [pc EXCEPT ![c] = x]
    /\ outcome' = outcome \/ \E o \in Outcomes \ {"none"} : outcome' = [outcome EXCEPT ![c] = o]
    /\ pc'[c] = "done" <=> outcome'[c] # "none"
    /\ budget' = budget \/ \E n \in Nat : budget' = [budget EXCEPT ![c] = n]
    /\ limit' = limit \/ \E n \in Nat : limit' = [limit EXCEPT ![c] = n]
    /\ shell' = shell \/ \E x \in {"alive", "gone", "killed"} : shell' = [shell EXCEPT ![c] = x]
    /\ \/ child' = child
       \/ \E x \in {"none", "gone"} \union InGroup \union LeftGroup : child' = [child EXCEPT ![c] = x]
    /\ UNCHANGED <<clock, fileVars, at, hostVars>>
    /\ CommandSound(c)'

LEMMA CommandStepInv ==
    ASSUME Inv, NEW c \in Calls, CommandStep(c), c \in FileCalls => FALSE
    PROVE  Inv'
<1> USE DEF Inv, TypeOK, ToolExecTypeOK
<1>1. TypeOK'
  <2>1. /\ pc' \in [Calls -> Underway \union {"idle", "done", "lost"}]
        /\ outcome' \in [Calls -> Outcomes]
        /\ \A d \in Calls : pc'[d] = "done" <=> outcome'[d] # "none"
    BY DEF CommandStep, CommandStages, Underway
  <2>2. /\ budget' \in [Calls -> Nat] /\ limit' \in [Calls -> Nat]
        /\ shell' \in [Calls -> {"none", "alive", "gone", "killed"}]
        /\ child' \in [Calls -> {"none", "gone"} \union InGroup \union LeftGroup]
    BY DEF CommandStep
  <2>3. /\ clock' \in 0..MaxClock
        /\ files' \in [Paths -> Contents] /\ at' \in [FileCalls -> Paths]
        /\ recorded' \in SUBSET Deliverables
        /\ last' \in [Paths -> FileCalls \union {"nobody", "process", "restart"}]
        /\ service' \in {"up", "starting", "unable"} /\ restarts' \in 0..MaxRestarts
    BY DEF CommandStep, fileVars, hostVars
  <2> QED BY <2>1, <2>2, <2>3
<1>2. ASSUME NEW d \in Calls PROVE CommandSound(d)'
  <2>1. CASE d = c
    BY <2>1 DEF CommandStep
  <2>2. CASE d # c
    <3>1. /\ pc'[d] = pc[d] /\ outcome'[d] = outcome[d] /\ budget'[d] = budget[d]
          /\ limit'[d] = limit[d] /\ shell'[d] = shell[d] /\ child'[d] = child[d]
          /\ clock' = clock
      BY <2>2 DEF CommandStep
    <3>2. CommandSound(d)
      OBVIOUS
    <3> QED BY <3>1, <3>2 DEF CommandSound, Alive
  <2> QED BY <2>1, <2>2
<1>3. (\A d \in FileCalls : FileSound(d))' /\ ArtifactsStand'
  <2>1. \A d \in FileCalls : pc'[d] = pc[d] /\ outcome'[d] = outcome[d]
    BY DEF CommandStep, FileCalls
  <2> QED BY <2>1, FilesUntouched DEF CommandStep, fileVars
<1> QED BY <1>1, <1>2, <1>3

LEMMA ExecuteStep ==
    ASSUME Inv, NEW c \in Commands, RunCommand(c)
    PROVE  CommandStep(c)
<1> USE DEF Inv, TypeOK, ToolExecTypeOK, CommandStages, RunCommand, Execute
<1>1. c \in Calls /\ clock + Timeout \in Nat /\ Asked \union {Timeout} \subseteq Nat
  BY WorkspaceAssumption, ConstantsAssumption
<1>2. shell[c] = "none" /\ child[c] = "none" /\ pc[c] = "idle"
  BY <1>1 DEF CommandSound
<1>3. CASE Report(c, "refused") /\ UNCHANGED limit
  BY <1>1, <1>2, <1>3 DEF Report, CommandStep, CommandSound, Alive, Outcomes, FileStages
<1>4. CASE /\ pc' = [pc EXCEPT ![c] = "spawning"]
           /\ \E n \in Asked \union {Timeout} : limit' = [limit EXCEPT ![c] = n]
           /\ UNCHANGED outcome
  BY <1>1, <1>2, <1>4 DEF CommandStep, CommandSound, Alive, FileStages
<1> QED BY <1>3, <1>4

LEMMA GoesOnStep ==
    ASSUME Inv, NEW c \in Commands, CommandGoesOn(c)
    PROVE  CommandStep(c)
<1> USE DEF Inv, TypeOK, ToolExecTypeOK, CommandStages, CommandGoesOn, FileStages
<1>1. c \in Calls /\ clock \in Nat /\ limit[c] \in Nat /\ clock + limit[c] \in Nat
      /\ clock <= clock + limit[c]
  BY WorkspaceAssumption
<1>2. CommandSound(c)
  BY <1>1
<1>3. UNCHANGED <<fileVars, at, hostVars>>
  OBVIOUS
<1>4. CASE Spawn(c)
  <2>1. shell[c] = "none" /\ child[c] = "none"
    BY <1>2, <1>4 DEF Spawn, CommandSound
  <2>2. CASE Report(c, "not_started") /\ UNCHANGED <<limit, shell>>
    BY <1>1, <1>3, <1>4, <2>1, <2>2 DEF Spawn, Report, CommandStep, CommandSound, Alive, Outcomes
  <2>3. CASE /\ pc' = [pc EXCEPT ![c] = "communicating"]
             /\ limit' = [limit EXCEPT ![c] = clock + @]
             /\ shell' = [shell EXCEPT ![c] = "alive"]
             /\ UNCHANGED outcome
    <3>1. CommandSound(c)'
      BY <1>1, <1>4, <2>1, <2>3 DEF Spawn, CommandSound
    <3> QED BY <1>1, <1>3, <1>4, <2>3, <3>1 DEF Spawn, CommandStep
  <2> QED BY <1>4, <2>2, <2>3 DEF Spawn
<1>5. CASE Fork(c)
  BY <1>1, <1>2, <1>3, <1>5 DEF Fork, CommandStep, CommandSound, Alive
<1>6. CASE ProcessEnds(c)
  BY <1>1, <1>2, <1>3, <1>6 DEF ProcessEnds, CommandStep, CommandSound, Alive
<1>7. CASE Communicated(c)
  <2>1. \E o \in Outcomes \ {"none"} : Report(c, o)
    BY <1>7 DEF Communicated, Outcomes
  <2>2. CommandSound(c)'
    BY <1>1, <1>2, <1>7 DEF Communicated, Report, CommandSound, Alive, Piped
  <2> QED BY <1>1, <1>3, <1>7, <2>1, <2>2 DEF Communicated, Report, CommandStep
<1> QED BY <1>4, <1>5, <1>6, <1>7

LEMMA TimerInv ==
    ASSUME Inv, NEW c \in Calls, TimerFires(c)
    PROVE  Inv'
<1> USE DEF Inv, TypeOK, ToolExecTypeOK, FileStages, CommandStages
<1>1. CommandSound(c) /\ clock \in Nat /\ limit[c] \in Nat /\ budget[c] \in Nat
      /\ clock + Grace \in Nat
  BY ConstantsAssumption
<1>2. UNCHANGED <<fileVars, at, hostVars>>
  BY DEF TimerFires
<1>3. CASE c \notin FileCalls
  <2>1. CASE SandboxTimeout(c)
    <3>1. /\ pc[c] = "communicating" /\ pc' = [pc EXCEPT ![c] = "draining"]
          /\ limit' = [limit EXCEPT ![c] = clock + Grace] /\ outcome[c] = "none"
          /\ UNCHANGED <<clock, budget, outcome>>
      BY <2>1 DEF SandboxTimeout
    <3>2. CommandSound(c)'
      <4>1. CASE shell[c] = "alive"
        BY <1>1, <2>1, <3>1, <4>1 DEF SandboxTimeout, Killed, CommandSound
      <4>2. CASE shell[c] # "alive"
        BY <1>1, <2>1, <3>1, <4>2 DEF SandboxTimeout, Killed, CommandSound
      <4> QED BY <4>1, <4>2
    <3>3. /\ shell' = shell \/ \E x \in {"alive", "gone", "killed"} : shell' = [shell EXCEPT ![c] = x]
          /\ \/ child' = child
             \/ \E x \in {"none", "gone"} \union InGroup \union LeftGroup : child' = [child EXCEPT ![c] = x]
      BY <2>1 DEF SandboxTimeout, Killed
    <3>4. CommandStep(c)
      BY <1>1, <1>2, <3>1, <3>2, <3>3 DEF CommandStep
    <3> QED BY <1>3, <3>4, CommandStepInv
  <2>2. CASE DrainTimeout(c)
    <3>1. CommandStep(c)
      BY <1>1, <1>2, <2>2 DEF DrainTimeout, Report, CommandStep, CommandSound, Alive, Outcomes
    <3> QED BY <1>3, <3>1, CommandStepInv
  <2>3. CASE RegistryTimeout(c)
    <3>1. CommandSound(c)'
      BY <1>1, <2>3 DEF RegistryTimeout, Report, CommandSound, Alive, Underway
    <3>2. CommandStep(c)
      BY <1>2, <2>3, <3>1 DEF RegistryTimeout, Report, CommandStep, Outcomes
    <3> QED BY <1>3, <3>2, CommandStepInv
  <2> QED BY <2>1, <2>2, <2>3 DEF TimerFires, Timer
<1>4. CASE c \in FileCalls
  <2>1. FileSound(c) /\ RegistryTimeout(c) /\ pc[c] \in FileStages
    BY <1>4 DEF TimerFires, Timer, SandboxTimeout, DrainTimeout, RegistryTimeout, FileSound, Underway
  <2>2. /\ pc' = [pc EXCEPT ![c] = "done"] /\ pc'[c] = "done"
        /\ outcome' = [outcome EXCEPT ![c] = "timeout"] /\ outcome'[c] = "timeout"
        /\ UNCHANGED <<clock, budget, limit, shell, child>>
    BY <2>1 DEF RegistryTimeout, Report
  <2>3. FileStep(c)
    BY <1>2, <2>1, <2>2 DEF FileStep, fileVars, Outcomes
  <2>4. FileSound(c)'
    BY <1>2, <2>1, <2>2 DEF FileSound, fileVars
  <2>5. TypeOK' /\ (\A d \in Calls : CommandSound(d))'
    BY <1>4, <2>3, FileStepTypes, FileStepCommands
  <2>6. (\A d \in FileCalls : FileSound(d))'
    BY <1>4, <2>3, <2>4, FileStepOthers
  <2>7. ArtifactsStand'
    BY <1>4, <2>3, <2>5, <2>6, FileStepArtifacts
  <2> QED BY <2>5, <2>6, <2>7
<1> QED BY <1>3, <1>4

\* The clock goes on only while no limit is due.
LEMMA TickInv ==
    ASSUME Inv, TimePasses
    PROVE  Inv'
<1> USE DEF Inv
<1>1. /\ clock < MaxClock /\ clock' = clock + 1 /\ (\A c \in Calls : ~ Due(c))
      /\ UNCHANGED <<pc, budget, limit, shell, child, outcome, files, recorded, last, at, hostVars>>
  BY DEF TimePasses, Tick, fileVars
<1>2. TypeOK'
  BY <1>1, ConstantsAssumption DEF TypeOK, ToolExecTypeOK, hostVars
<1>3. ASSUME NEW c \in Calls PROVE CommandSound(c)'
  <2>1. CommandSound(c) /\ clock \in Nat /\ limit[c] \in Nat
    BY DEF TypeOK, ToolExecTypeOK
  <2>2. pc[c] = "communicating" => clock + 1 <= limit[c]
    BY <1>1, <2>1 DEF Due, Underway
  <2> QED BY <1>1, <2>1, <2>2 DEF CommandSound, Alive
<1>4. (\A c \in FileCalls : FileSound(c))' /\ ArtifactsStand'
  BY <1>1, FilesUntouched
<1> QED BY <1>2, <1>3, <1>4

\* A process that writes is nobody's call.
LEMMA ProcessInv ==
    ASSUME Inv, NEW c \in Commands, NEW p \in Paths, ProcessWrites(c, p)
    PROVE  Inv'
<1> USE DEF Inv
<1>1. /\ \E s \in {"none", "process"} : files' = [files EXCEPT ![p] = s]
      /\ last' = [last EXCEPT ![p] = "process"]
      /\ UNCHANGED <<clock, pc, budget, limit, shell, child, outcome, recorded, at, hostVars>>
  BY DEF ProcessWrites, toolVars, vars
<1>2. TypeOK'
  BY <1>1 DEF TypeOK, ToolExecTypeOK, hostVars, Contents
<1>3. ASSUME NEW d \in Calls PROVE CommandSound(d)'
  BY <1>1, <1>3 DEF CommandSound, Alive
<1>4. ASSUME NEW d \in FileCalls PROVE FileSound(d)'
  <2>1. FileSound(d) /\ d # "process" /\ at[d] \in Paths
    BY WorkspaceAssumption DEF TypeOK, FileCalls
  <2>2. CASE at[d] = p
    BY <1>1, <2>1, <2>2 DEF FileSound, TypeOK
  <2>3. CASE at[d] # p
    BY <1>1, <2>1, <2>3 DEF FileSound, TypeOK
  <2> QED BY <2>2, <2>3
<1>5. ArtifactsStand'
  BY <1>1 DEF ArtifactsStand, TypeOK, Paths
<1> QED BY <1>2, <1>3, <1>4, <1>5

LEMMA RestartInv ==
    ASSUME Inv, WarmRestart \/ ColdRestart
    PROVE  Inv'
<1> USE DEF Inv
<1>1. /\ restarts < MaxRestarts /\ restarts' = restarts + 1 /\ service' = "starting"
      /\ pc' = [c \in Calls |-> IF pc[c] \in Underway THEN "lost" ELSE pc[c]]
      /\ UNCHANGED <<clock, budget, limit, outcome, recorded, at>>
  BY DEF WarmRestart, ColdRestart, Lost
<1>2. \/ UNCHANGED <<shell, child, files, last>>
      \/ /\ shell' = [c \in Calls |-> IF shell[c] = "none" THEN "none" ELSE "gone"]
         /\ child' = [c \in Calls |-> IF child[c] = "none" THEN "none" ELSE "gone"]
         /\ files' = [p \in Paths |-> "none"]
         /\ last' = [p \in Paths |-> "restart"]
  BY DEF WarmRestart, ColdRestart
<1>3. TypeOK'
  <2>1. restarts' \in 0..MaxRestarts
    BY <1>1, WorkspaceAssumption DEF TypeOK
  <2>2. /\ pc' \in [Calls -> Underway \union {"idle", "done", "lost"}]
        /\ \A c \in Calls : pc'[c] = "done" <=> outcome'[c] # "none"
    BY <1>1 DEF TypeOK, ToolExecTypeOK, Underway
  <2>3. /\ shell' \in [Calls -> {"none", "alive", "gone", "killed"}]
        /\ child' \in [Calls -> {"none", "gone"} \union InGroup \union LeftGroup]
        /\ files' \in [Paths -> Contents]
        /\ last' \in [Paths -> FileCalls \union {"nobody", "process", "restart"}]
    BY <1>2 DEF TypeOK, ToolExecTypeOK, Contents
  <2> QED BY <1>1, <2>1, <2>2, <2>3 DEF TypeOK, ToolExecTypeOK
<1>4. ASSUME NEW c \in Calls PROVE CommandSound(c)'
  <2>1. CommandSound(c) /\ pc'[c] \in {"idle", "done", "lost"} /\ (pc'[c] # "lost" => pc'[c] = pc[c])
    BY <1>1 DEF TypeOK, ToolExecTypeOK, Underway
  <2>2. CASE UNCHANGED <<shell, child>>
    BY <1>1, <2>1, <2>2 DEF CommandSound, Alive, FileStages
  <2>3. CASE /\ shell'[c] = IF shell[c] = "none" THEN "none" ELSE "gone"
             /\ child'[c] = IF child[c] = "none" THEN "none" ELSE "gone"
    BY <2>1, <2>3 DEF CommandSound, Alive, FileStages
  <2> QED BY <1>2, <2>2, <2>3
<1>5. ASSUME NEW c \in FileCalls PROVE FileSound(c)'
  <2>1. /\ FileSound(c) /\ c # "restart" /\ at[c] \in Paths /\ at' = at /\ outcome' = outcome
        /\ pc'[c] \in {"idle", "done", "lost"} /\ (pc'[c] # "lost" => pc'[c] = pc[c])
    BY <1>1, WorkspaceAssumption DEF TypeOK, ToolExecTypeOK, FileCalls, Underway
  <2>2. UNCHANGED <<files, last>> \/ last'[at[c]] = "restart"
    BY <1>2, <2>1
  <2> QED BY <2>1, <2>2 DEF FileSound, CommandStages
<1>6. ArtifactsStand'
  <2>1. \A p \in recorded : UNCHANGED <<files, last>> \/ last'[p] = "restart"
    BY <1>2 DEF TypeOK, Paths
  <2> QED BY <1>1, <2>1 DEF ArtifactsStand
<1> QED BY <1>3, <1>4, <1>5, <1>6

-----------------------------------------------------------------------------
LEMMA NextInv == Inv /\ [Next]_allVars => Inv'
<1> SUFFICES ASSUME Inv, [Next]_allVars PROVE Inv'
  OBVIOUS
<1>1. ASSUME NEW c \in FileCalls, FileCall(c) PROVE Inv'
  BY <1>1, FileCallInv
<1>2. ASSUME NEW c \in Commands, RunCommand(c) \/ CommandGoesOn(c) PROVE Inv'
  <2>1. c \in Calls /\ c \notin FileCalls
    BY WorkspaceAssumption DEF FileCalls
  <2> QED BY <1>2, <2>1, ExecuteStep, GoesOnStep, CommandStepInv
<1>3. ASSUME NEW c \in Commands, NEW p \in Paths, ProcessWrites(c, p) PROVE Inv'
  BY <1>3, ProcessInv
<1>4. ASSUME NEW c \in Calls, TimerFires(c) PROVE Inv'
  BY <1>4, TimerInv
<1>5. CASE TimePasses
  BY <1>5, TickInv
<1>6. CASE WarmRestart \/ ColdRestart
  BY <1>6, RestartInv
<1>7. ASSUME UNCHANGED <<toolVars, fileVars, at>>, UNCHANGED restarts,
             service' \in {"up", "unable", service}
      PROVE  Inv'
  <2>1. UNCHANGED <<clock, pc, budget, limit, shell, child, outcome, files, recorded, last, at>>
    BY <1>7 DEF toolVars, vars, fileVars
  <2>2. TypeOK'
    BY <1>7, <2>1 DEF Inv, TypeOK, ToolExecTypeOK
  <2>3. ASSUME NEW c \in Calls PROVE CommandSound(c)'
    BY <2>1, <2>3 DEF Inv, CommandSound, Alive
  <2>4. (\A c \in FileCalls : FileSound(c))' /\ ArtifactsStand'
    BY <2>1, FilesUntouched DEF Inv
  <2> QED BY <2>2, <2>3, <2>4 DEF Inv
<1>8. CASE Boot \/ UNCHANGED allVars
  BY <1>7, <1>8 DEF Boot, allVars, hostVars
<1> QED BY <1>1, <1>2, <1>3, <1>4, <1>5, <1>6, <1>8 DEF Next

\* The invariant holds in every reachable state.
THEOREM Invariance == Spec => []Inv
<1>1. WorkspaceInit => Inv
  BY InitInv
<1>2. Inv /\ [Next]_allVars => Inv'
  BY NextInv
<1> QED BY <1>1, <1>2, PTL DEF Spec

(***************************************************************************)
(* Every variable holds a value of its type, and a call has an outcome     *)
(* exactly when it is done.                                                *)
(***************************************************************************)
THEOREM WorkspaceTypes == Spec => []TypeOK
<1>1. Inv => TypeOK
  BY DEF Inv
<1> QED BY <1>1, Invariance, PTL

(***************************************************************************)
(* A command that outlives its call was cut off by the registry before the *)
(* sandbox's limit was due, or has let its shell end, or has left the      *)
(* group that was killed: Sandbox.run leaves none that killpg would reach. *)
(***************************************************************************)
THEOREM StraysExplained == Spec => []StraysAreExplained
<1>1. Inv => StraysAreExplained
  BY DEF Inv, CommandSound, StraysAreExplained
<1> QED BY <1>1, Invariance, PTL

(***************************************************************************)
(* What write_file, edit_file, write_artifact and download_file report of  *)
(* a file is true until somebody else touches it.                          *)
(***************************************************************************)
THEOREM ReportsAreTrue == Spec => []ReportsHold
<1>1. Inv => ReportsHold
  BY DEF Inv, FileSound, ReportsHold
<1> QED BY <1>1, Invariance, PTL

(***************************************************************************)
(* A recorded deliverable is there, as a whole, unless a process, a        *)
(* replaced disk or a later call without success has spoiled it.           *)
(***************************************************************************)
THEOREM ArtifactsAreThere == Spec => []ArtifactsStand
<1>1. Inv => ArtifactsStand
  BY DEF Inv
<1> QED BY <1>1, Invariance, PTL

-----------------------------------------------------------------------------
(***************************************************************************)
(* The registry's limit is the last word: a call is under way no longer    *)
(* than that, whatever limit it asked for itself, and while one is, a      *)
(* limit is due or the clock goes on.                                      *)
(***************************************************************************)
LimitHolds(c) ==
    pc[c] \in Underway =>
        clock <= budget[c] /\ budget[c] <= clock + Timeout /\ budget[c] <= MaxClock

CallsEndInTime ==
    \A c \in Calls :
        /\ LimitHolds(c)
        /\ pc[c] \in Underway => clock < MaxClock \/ \E d \in Calls : Due(d)

\* A step of the call c that begins it with the registry's limit, or ends it, or
\* neither starts it nor moves its limit.
LimitStep(c) ==
    /\ clock' = clock
    /\ \A d \in Calls \ {c} : pc'[d] = pc[d] /\ budget'[d] = budget[d]
    /\ \/ pc'[c] \notin Underway
       \/ budget'[c] = clock + Timeout /\ clock + Timeout <= MaxClock
       \/ pc[c] \in Underway /\ budget'[c] = budget[c]

LEMMA LimitKept ==
    ASSUME TypeOK, \A d \in Calls : LimitHolds(d), NEW c \in Calls, LimitStep(c)
    PROVE  \A d \in Calls : LimitHolds(d)'
<1>1. clock \in Nat /\ clock' = clock /\ Timeout \in Nat
  BY ConstantsAssumption DEF TypeOK, ToolExecTypeOK, LimitStep
<1>2. LimitHolds(c)'
  <2>1. CASE pc'[c] \notin Underway
    BY <2>1 DEF LimitHolds
  <2>2. CASE budget'[c] = clock + Timeout /\ clock + Timeout <= MaxClock
    BY <1>1, <2>2 DEF LimitHolds
  <2>3. CASE pc[c] \in Underway /\ budget'[c] = budget[c]
    BY <1>1, <2>3 DEF LimitHolds
  <2> QED BY <2>1, <2>2, <2>3 DEF LimitStep
<1>3. ASSUME NEW d \in Calls \ {c} PROVE LimitHolds(d)'
  BY <1>1 DEF LimitStep, LimitHolds
<1> QED BY <1>2, <1>3

LEMMA FileLimitStep ==
    ASSUME TypeOK, NEW c \in FileCalls, FileCall(c)
    PROVE  LimitStep(c)
<1>1. /\ pc \in [Calls -> Underway \union {"idle", "done", "lost"}]
      /\ budget \in [Calls -> Nat] /\ c \in Calls
  BY DEF TypeOK, ToolExecTypeOK, FileCalls
<1>2. ASSUME NEW o, Ends(c, o) PROVE LimitStep(c)
  BY <1>1, <1>2 DEF Ends, Report, LimitStep, Underway
<1>3. ASSUME NEW s, Waits(c, s) PROVE LimitStep(c)
  BY <1>1, <1>3 DEF Waits, LimitStep
<1>4. ASSUME Opened(c) PROVE LimitStep(c)
  <2>1. CASE pc' = [pc EXCEPT ![c] = "streaming"] /\ UNCHANGED <<clock, budget>>
    BY <1>1, <1>4, <2>1 DEF Opened, LimitStep, Underway
  <2> QED BY <1>2, <1>4, <2>1 DEF Opened
<1>5. \/ Opened(c)
      \/ \E o : Ends(c, o)
      \/ \E s : Waits(c, s)
  BY DEF FileCall, WriteFile, WriteFails, EditFile, WriteArtifact, ArtifactMirrored, Download,
         Downloaded, DownloadFails, DownloadStuck
<1> QED BY <1>2, <1>3, <1>4, <1>5

LEMMA CommandLimitStep ==
    ASSUME TypeOK, NEW c \in Calls, RunCommand(c) \/ CommandGoesOn(c) \/ TimerFires(c)
    PROVE  LimitStep(c)
<1>1. /\ pc \in [Calls -> Underway \union {"idle", "done", "lost"}]
      /\ budget \in [Calls -> Nat]
  BY DEF TypeOK, ToolExecTypeOK
<1>2. CASE RunCommand(c)
  BY <1>1, <1>2 DEF RunCommand, Execute, Report, LimitStep
<1>3. ASSUME UNCHANGED <<clock, budget>>, pc' = pc \/ \E s \in Underway \union {"done"} :
                  pc' = [pc EXCEPT ![c] = s] /\ pc[c] \in Underway
      PROVE  LimitStep(c)
  BY <1>1, <1>3 DEF LimitStep, Underway
<1>4. CASE CommandGoesOn(c)
  BY <1>3, <1>4 DEF CommandGoesOn, Spawn, Fork, ProcessEnds, Communicated, Report, Underway
<1>5. CASE TimerFires(c)
  BY <1>3, <1>5 DEF TimerFires, Timer, SandboxTimeout, DrainTimeout, RegistryTimeout, Report, Underway
<1> QED BY <1>2, <1>4, <1>5

LEMMA NextLimit ==
    ASSUME TypeOK, \A d \in Calls : LimitHolds(d), [Next]_allVars
    PROVE  \A d \in Calls : LimitHolds(d)'
<1>0. Commands \subseteq Calls /\ FileCalls \subseteq Calls
  BY WorkspaceAssumption DEF FileCalls
<1>1. ASSUME NEW c \in FileCalls, FileCall(c) PROVE \A d \in Calls : LimitHolds(d)'
  BY <1>0, <1>1, FileLimitStep, LimitKept
<1>2. ASSUME NEW c \in Calls, RunCommand(c) \/ CommandGoesOn(c) \/ TimerFires(c)
      PROVE  \A d \in Calls : LimitHolds(d)'
  BY <1>2, CommandLimitStep, LimitKept
<1>3. ASSUME UNCHANGED <<clock, pc, budget>> PROVE \A d \in Calls : LimitHolds(d)'
  BY <1>3 DEF LimitHolds
<1>4. CASE TimePasses
  <2>1. /\ clock \in Nat /\ clock' = clock + 1 /\ UNCHANGED <<pc, budget>>
        /\ \A d \in Calls : ~ Due(d)
    BY <1>4 DEF TimePasses, Tick, TypeOK, ToolExecTypeOK
  <2>2. ASSUME NEW d \in Calls, pc[d] \in Underway
        PROVE  clock + 1 <= budget[d] /\ budget[d] <= (clock + 1) + Timeout
    <3>1. clock < budget[d]
      BY <2>1, <2>2 DEF Due, TypeOK, ToolExecTypeOK
    <3> QED BY <2>1, <2>2, <3>1, ConstantsAssumption DEF LimitHolds, TypeOK, ToolExecTypeOK
  <2> QED BY <2>1, <2>2 DEF LimitHolds
<1>5. CASE WarmRestart \/ ColdRestart
  <2>1. \A d \in Calls : pc'[d] \notin Underway
    BY <1>5 DEF WarmRestart, ColdRestart, Lost, Underway
  <2> QED BY <2>1 DEF LimitHolds
<1>6. CASE Boot
  BY <1>3, <1>6 DEF Boot, toolVars, vars
<1>7. ASSUME NEW c \in Commands, NEW p \in Paths, ProcessWrites(c, p)
      PROVE  \A d \in Calls : LimitHolds(d)'
  BY <1>3, <1>7 DEF ProcessWrites, toolVars, vars
<1>8. CASE UNCHANGED allVars
  BY <1>3, <1>8 DEF allVars, toolVars, vars
<1> QED BY <1>0, <1>1, <1>2, <1>4, <1>5, <1>6, <1>7, <1>8 DEF Next

(***************************************************************************)
(* "the registry caps its own timeout" (loop.py:534): no call is under way *)
(* longer than the registry's limit, however it hangs and whatever it asks *)
(* for; and nothing stops the clock before that limit is due.              *)
(***************************************************************************)
THEOREM CallsKeepTheirLimit == Spec => []CallsEndInTime
<1> DEFINE Limits == \A c \in Calls : LimitHolds(c)
<1>1. WorkspaceInit => Limits
  BY DEF WorkspaceInit, Init, LimitHolds, Underway
<1>2. TypeOK /\ Limits /\ [Next]_allVars => Limits'
  BY NextLimit
<1>3. TypeOK /\ Limits => CallsEndInTime
  <2> SUFFICES ASSUME TypeOK, Limits, NEW c \in Calls, pc[c] \in Underway
               PROVE  clock < MaxClock \/ \E d \in Calls : Due(d)
    BY DEF CallsEndInTime
  <2>1. clock <= budget[c] /\ budget[c] <= MaxClock /\ clock \in 0..MaxClock /\ budget[c] \in Nat
    BY DEF LimitHolds, TypeOK, ToolExecTypeOK
  <2>2. CASE clock = MaxClock
    <3>1. budget[c] <= clock
      BY <2>1, <2>2, ConstantsAssumption
    <3> QED BY <3>1 DEF Due
  <2> QED BY <2>1, <2>2, ConstantsAssumption
<1> QED BY <1>1, <1>2, <1>3, WorkspaceTypes, PTL DEF Spec
=============================================================================
