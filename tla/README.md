# Verification of auton-agent

auton-agent is an autonomous agent in one asyncio process: tasks come in from Telegram, HTTP or the
command line, a language model decides which tools to call, and the state is kept on a local disk
that is mirrored to a GitHub gist because the host may wipe the disk at any time. This directory
holds TLA+ models of its core, the configurations that TLC checks, and proofs for TLAPS. Paths are
relative to `src/`, the repository; `agentcore` is `src/src/agentcore`.

## 1. Inventory

| Component (source) | State | Operations | Hard behaviour | Module |
|---|---|---|---|---|
| Agent loop (`loop.py`) | `_run_lock`, `_running`, per run: record, deadline, step, `RunResult` | `run`, `_run_loop`, `_execute_calls` | runs interleave at every await around one shared scratchpad; four verdicts, three ways to raise | `AgentRun`, `TaskService` |
| State tools (`tools/state.py`) | `memory.working`, stored records, the memory's document | `working_memory`, `task_state`, `write_artifact`, `long_term_memory` | write to objects that other code holds copies of | `AgentRun`, `Workspace`, `LongTermMemory` |
| Transcript (`memory.py` Conversation) | messages, recap | `append`, `_trim` | trimmed while the results of a turn are coming in; never emptied between tasks | `Conversation` |
| Task records (`memory.py` TaskStore) | one document of all tasks, capped | `save`, `get`, `recent`, `unfinished` | a save reads, changes and writes the whole of it; on an empty disk it waits in between | `AgentRun`, `StateStore` |
| Long-term memory (`memory.py` LongTermMemory) | one document and a cache of it | recall, remember, forget, the cap | cache, disk and gist diverge; PATCHes late, lost or out of order; repeated calls | `LongTermMemory` |
| State store (`persistence.py`) | disk, gist, cache with a time, lock | `get`, `set` of ChainedStore, GistStore, DiskStore | mirror fails, answers late or not; crashes; empty disks | `StateStore` |
| Startup (`main.py`, `runtime.py`, `resolve_gist_id`) | gist id, cached id on disk, the account's gists | `build_runtime`, `preflight`, provisioning, Telegram start | overlapping deployments, lost answers, partial failure | `Startup` |
| Intake (`interfaces/telegram.py`, `service.py`, RateLimiter) | `_seen_updates`, offset, windows | webhook, `poll_forever`, `handle_update` | redelivery, acknowledgement before handling, restarts, two checks of one limit | `Intake` |
| Tool execution (`registry.py`, `sandbox.py`, `tools/exec.py`) | process groups, three nested timers | `ToolRegistry.execute`, `Sandbox.run` | timers race, children outlive their shell | `ToolExec`, `Workspace` |
| File tools (`tools/fs.py`, `tools/web.py`, `tools/state.py`) | the workspace directory, artifacts on the record | `write_file`, `edit_file`, `download_file`, `write_artifact` | downloads cut off or failing halfway, processes that write the same files, replaced disks | `Workspace` |
| Skills (`skills/loader.py`) | what it read at startup | loading at startup | reads what tools left in the workspace | `Workspace` |
| Model chain (`llm/router.py`, `llm/ollama_cloud.py`) | preference, cooldowns | `ModelRouter.chat`, provider retries | health changes while a chain is walked | `ModelRouter` |
| Approval gate (`security.py`) | granted tokens | `require`, `grant` | a refusal in the middle of a turn | a refused call of `AgentRun` |
| Deployment (`scripts/deploy_render.py`, `push_env.py`, `set_webhook.py`) | Render's services and variables per account, Telegram's webhook | deploy, env, delete, suspend, push, register | scripts that end halfway, lost answers, deploys that fail or are late, a secret in three places | `Deployment` |
| Configuration (`config.py`) | the environment of an instance | read at startup | variables that did not arrive | `Deployment` |
| CLI, prompt, events, redaction, read-only tools, path confinement, verification scripts | – | – | – | not modelled, see 8 |

How they interact. The interfaces call `Agent.run` directly, as a coroutine each (a background task
for the webhook and for `POST /tasks`). A run awaits the router for the model's next turn and the
registry for the calls in it. Tools reach shared state through the context: the scratchpad, the task
store, long-term memory. Every save goes through the ChainedStore: the disk synchronously, then a
PATCH of the gist, which is where other coroutines run. There is one event loop, so **the unit of
interleaving is the code between two awaits that can suspend**; that is what an action is in every
module.

What makes each part correct: runs never mix their scratchpads and every accepted task is brought to
an end in order (`AgentRun`); records tell what happened (`AgentRun`); the durable history is not
overwritten (`StateStore`) and found again (`Startup`); what is remembered stays and what is forgotten
goes (`LongTermMemory`); the model sees a well-formed transcript (`Conversation`); an update starts one
run and none is skipped (`Intake`); a call always reports, what it reports holds, and a command that
goes on after it has got away in one of three known ways (`Workspace`); a chat fails only if the whole chain does (`ModelRouter`); the scripts' exit
status can be gone by (`Deployment`).

## 2. Modules

### AgentRun, TaskService, MCAgentRun, AgentRunProofs

`AgentRun` is `Agent.run` and `_run_loop`, over the TaskStore and its chained store. `pc[t]` is the
await a run is at: `looking` and `loading` (the loads of `get` and of the first save, where they wait
for the gist), `opening` (the first save's PATCH), `queued` (for `_run_lock`), `preparing`, `stepping`,
`model`, `tools`, `reporting` (the final save's PATCH), then `done`, `raised` or `lost`. `scratch` is
`memory.working`; `record[t]` the TaskRecord that `run()` built, `stored[t]` what the disk has, two
different objects as in the code. `StartFresh` and `StartNamed` are `run()` without and with
`resume_task_id` (POST /tasks passes its new id that way).
`Acquire` takes the lock, in order, and clears the scratchpad if the run has no id. Tool calls are
actions of their own; a mutating one that is refused raises in the middle of the turn. Texts are
represented by the set of tasks that wrote them: the properties only ask *whose* a plan is.

The records are one document. A save (`Put`) puts its record into the document that it loaded, keeps
the `MaxRecords` records updated last (`Trims`), stores all of it on the disk and sends it to the gist
(`Send`), where the PATCH lands, fails, or lands later than its sender waits for it (`late`). While the
disk has the document a load does not suspend, and a save is one step up to its PATCH. On an empty disk
the load asks the gist: `Open`, `LookedUp` and `Loaded` are the steps of an opening save there, `copy`
is what GistStore would answer with, and `Warm` puts the answer on the disk, over whatever another run
has stored by then. `AskToRead` and `Read` are the same load behind `GET /tasks`. `ColdRestart` empties
the disk and keeps the gist. `Durable` is what a restart would find: the document on the disk or,
without one, in the gist.

That design loses records, in four ways: a load that waited comes back with less than is on record by
then; a load fails on an empty disk; the disk is replaced while the gist is behind; newer records crowd
an unfinished one out. The history variable `mislaid` has the tasks to whose record one of these has
happened since its run last wrote it whole. `Missed` and `CrowdedOut` define it by comparing documents,
not by naming actions. Every property of the records speaks of the tasks that are not mislaid, and so
says that there is no fifth way.

`TaskService` is the abstract specification: tasks are accepted on record (at once, or after `coming`),
wait in line, are worked on one at a time in order, and end; the recorded status is changed by the task
itself only, also over a restart, and the service may lose sight of it (`lost`) until the task is
accepted or ends the next time. `MCAgentRun` holds the refinement mapping (`pc` to `phase`, `queue` to
`line`, `Durable[t].status` to `status`, `lost` for the mislaid), and the run `AgentRunRecords` checks
`ImplementsTaskService`, with the abstract fairness.

### StateStore, MCStateStore, StateStoreProofs

ChainedStore over DiskStore and GistStore, under TaskStore and LongTermMemory. The run's instance has
three clients: the run that holds the lock and a task that is being queued, which both save task
records, and the long-term memory. A document is its set of entries, the empty set meaning that it is
not there; an entry is never taken out here: the caps are far beyond the bound, and what taking entries
out means is the subject of `LongTermMemory`. A client's operation is split at
the wait for the gist's lock (`waiting`), the GET (`reading`, `answered`: the gist may change between
being read and the answer) and the PATCH (`patching`, `landed`: the cache is updated later than the
gist). `blind` is a history variable: documents of which a load missed a part, because its GET failed
or because another client saved while it was under way. Both happen in the code and cost entries; the
properties say that nothing else does but one, which `behind` records: a save, or its PATCH, that went
wrong since the gist was last seen to have caught up with the disk. If the disk is wiped then, or while
a PATCH is under way, the difference is gone.

### Startup, StartupProofs

`lifespan`, `preflight` and `resolve_gist_id` of several instances that share a GitHub account, as
during a deployment. `stage[i]` is the request an instance is at. `preflight` resolves the gist twice
(inside `healthy`, then itself), which `pass` distinguishes. Gists are numbered; `missed` and `blind`
are history variables. Whether the probe's model answers is a choice here: how the chain gets to the
answer is `ModelRouter`.

### Conversation, ModelCallProofs

`Conversation.append` and `_trim`, with every append of `_run_loop` as an action. The loop of `_trim` is
a recursive function of its rounds, `Round` one of them. A message is its position, kind, length, and
the call it answers. `cut` is history: calls that were trimmed before all
their results were in.

### Intake, MCIntake, IntakeProofs

A job is one delivery of an update, its stage the await it is at. Deduplication precedes the first
await, as in the code. `Webhook` delivers and may deliver again; `Poll`/`HandleNext` are the loop of
`poll_forever`, whose start may fail for good (`PollingBegins`). `forgotten` and `restarts` are what
may justify a second run of an update.

### ToolExec, Workspace, WorkspaceProofs

`ToolExec` has the registry's, the sandbox's and the drain's timers around a process group with its
shell and a child that may hold the pipes or not, and that may have left the group (`LeftGroup`: setsid,
a daemon), where `killpg` does not reach it. A timer that is due fires before the clock goes on.
Processes are external. `Workspace` extends it and composes it with what works on the files: the tools
that write, download or deliver one, the processes (also those that nobody waits for any more), restarts
with and without the disk, and the skills that `build_runtime` reads from it. `files[p]` is what a path
holds, by kind (a text or a body as a whole, a text cut short between characters or torn inside one, a
piece of a body, a process's output), `last[p]` is history: who touched it last. `Boot` fails on a skill
that is torn and may fail on bytes that nobody promised to be text. A file tool is one action, except where it waits: a download between its request, its
first byte and its end, `write_artifact` at the mirror. There the registry's limit may cut it off.

### LongTermMemory, MCLongTermMemory, LongTermMemoryProofs

`LongTermMemory` and its tool at the level of one document: `cache`, `disk`, `gist`, and the PATCH that
each concurrent call has under way (`sending`), which lands, fails or is cut off in any order. `Remember`
and `Forget` are the whole of `remember` and `forget` with `_persist`: deduplication, raised importance,
the cap, a disk that fails. `promised` and `gone` are history: what the memory owes, and what must not
come back. `StateStore` has the steps of a load and the gist's lock in more detail, for a client that
only adds.

### Deployment, DeploymentProofs

The scripts, one request per action, with the accounts of Render, the webhook at Telegram and the
instances that come up. Variables are versions: 0 is not set; of the secrets, `token` stands for those
whose presence counts and `secret` for the one whose value has to be the same in the `.env` file, at
Telegram and in the instance. `shell` is the script that runs; `procedure` is history: how far the
documented procedure (push, then register) has got with exit status 0.

### ModelRouter, MCModelRouter, ModelCallProofs

`ModelRouter.chat` and the retries of the provider. Chats are sequential: the loop awaits each one and
runs are serialised. `candidates` are the models that the chat may ask, those that do not rest or, if all
do, every one; it walks them by `Rank`, the preferred one first, and `asked` are those it is through
with. The provider's outcome is a choice: an answer, a failure in passing, a rejection. The names carry
the prefix `Router` where `Conversation` has them too, as `ModelCallProofs` extends both.

## 3. Runs

| Run | Question | Instance |
|---|---|---|
| `AgentRunScratchpad` | do runs stay out of each other's scratchpad and plan? | 3 tasks, one from the API and resumed, 1 step, every tool but those of the other run, room for 1 record, no gist |
| `AgentRunRecords` | do records tell the truth, whose are they, does every run end, is it a TaskService? | 2 tasks, one from the API, 1 step, documents of 2 records, failing disk, cold restarts, a gist with 1 request aside |
| `StateStore` | is history safe from all but failed and overtaken loads and a gist that is behind? | 2 documents, one with 2 clients, 2 entries |
| `Startup` | is the state gist found again, created once, kept? | 2 instances, 4 gists, 1 refused list |
| `Conversation` | what does trimming lose, and what does the model see? | 3 tasks, 6 messages, turns of 3 calls, results of 1 or 5 |
| `Intake` | is each update handled, and started once? | 2 updates, 2 deliveries, 1 restart, either mode |
| `Workspace` | does each call report, does its report hold, what outlives it? | 1 command with limits below, at and above the default, 2 file calls on 1 deliverable, 1 restart |
| `LongTermMemory` | what is kept, what comes back? | 3 texts of 2 importances, cap of 2, 2 concurrent calls, 2 restarts |
| `Deployment` | one service, truthful status, a procedure that works? | 2 accounts, 2 services each, 2 secrets, any 3 commands |
| `ModelRouter` | are models skipped, asked while they rest, does a chat end? | 3 models, 2 attempts, clock of 4 |
| `AgentRunLostPlan`, `WorkspaceBoot` | statements of the repository that the code does not meet, see 4 | small |

All passing runs explore their whole state space, of up to 1.1 million states
(`Workspace` and `AgentRunScratchpad`, two minutes with two workers). Two use symmetry and check no liveness:
`LongTermMemory`, of texts and of calls, and `AgentRunScratchpad`, of the tasks that are neither from
the API nor resumed. The bounds are chosen so that the
interesting case happens with one to spare. Three tasks give a holder and two waiters, so that order
matters; one step lets a run spend it on an empty answer or a tool, and come round to an exhausted
budget. In `AgentRunScratchpad` each record crowds another out, so that runs find theirs gone; in
`AgentRunRecords` two just fill the document, so that nothing may be dropped. There two tasks are enough for one load to
overtake the other, and one request aside (`MaxAside`) is a PATCH that outlives its sender and its
process, or a `GET /tasks` beside both saves. Two entries tell an older document from
a newer one; a transcript of six with turns of three calls is full in the middle of a turn, and three
tasks are needed for one to give up twice and a third to be cut. `MaxSeen = 1` with two updates makes
`_seen_updates` forget. Four gists are one more than the run's bound on duplicates, `2 + 1`. A cap of
two under three texts trims; two calls let PATCHes overtake each other, and two restarts load what the
first one left. Two accounts let a script end between them; three commands are a push, a registration
and one that disturbs them. Of `Workspace`, two file calls on one path let one spoil what the other
delivered, with a command that writes there as a third; the skills are in `WorkspaceBoot`. Clocks
end (`MaxClock`) after every timer of the instance could fire. Each property has a mutant, a changed
definition beside the real one marked "Mutant:", that TLC finds to violate it.

Deadlock is checked for `StateStore`, `Startup`, `ModelRouter` and `LongTermMemory`. The other systems
may stop: all tasks over, all updates handled, all calls reported, no command left to run, with clocks
and restarts at their bounds.

### Fairness

Only what the program itself does is fair, never what comes in or fails. `AgentRun`: a coroutine whose
await is over is resumed (asyncio's ready queue is first in, first out), the model and every tool
answer because the router's requests and the registry's `wait_for` have time limits, and `_run_lock`
(asyncio.Lock) hands over in order. `StateStore`, `Startup`: every request has httpx's 25 s limit.
`Intake`: jobs proceed, `getUpdates` succeeds some time. `Workspace`: time passes and timers that are due
fire; neither processes nor the network are fair. `Deployment`: the scripts' requests have time limits
(httpx 20 to 60 s), so that a script goes on or ends; Render gets to a deploy it accepted, unless it
fails; Telegram repeats what is not acknowledged; the operator owes nothing. `ModelRouter`: the provider comes back, with whatever outcome.

## 4. Where code and documents differ

Each has a violation run; `PROJECT.json` quotes the lines.

* `AgentRunLostPlan`: the final save of a run replaces the plan and the progress log that its tools put
  on the stored record (`loop.py:286`).
* `WorkspaceBoot`: a file below `skills/` that is no UTF-8 text stops every start of the service
  (`skills/loader.py:129`, against `loader.py:22`). TLC's trace is a `write_file` that fails on a full
  disk in the middle of a character, a restart and the start. Downloads and processes may put such bytes
  there too.

Met while modelling, without a run of their own. The first five are visible in the models, whose
properties leave the case out by name:

* two tasks that are queued at once on an empty disk, or one and a `GET /tasks`, may cost each other
  their record: each stores the whole document as it found it before it waited for the gist
  (`memory.py:93`, `persistence.py:408`, against `memory.py:82`);
* a wiped disk loses what a failed, late or overtaken PATCH did not bring to the gist
  (`persistence.py:427`, against `README.md:30`);
* a task from `POST /tasks` is new, yet keeps the previous task's scratchpad, as its id is passed as
  `resume_task_id` (`loop.py:227`, `service.py:145`);
* after a cold start a failed GET is taken for an empty document and the next save overwrites the gist
  (`persistence.py:409`, against `README.md:131`);
* the turn in progress may be trimmed, its later results become orphans (`memory.py:268`, against
  `memory.py:259`);
* a second `deploy` replaces the environment by `PLAIN_ENV`, without the secrets that the first one sent
  (`deploy_render.py:276`, against `README.md:113`);
* an instance without a token acknowledges updates instead of answering 503: `main.py:39` passes an
  interface either way (against `service.py:102`, `set_webhook.py:186`);
* nothing copies the files of the artifacts "into durable state" (`README.md:135`), only their names;
* skills: a later directory replaces an earlier one of the same name (`loader.py:139`, against
  `loader.py:17`), and `SKILLS_PATH` is never read;
* `remember` reports an entry as stored that the cap has just trimmed (`memory.py:166`);
* `read_file` does not report as truncated what it cut at `MAX_READ_BYTES` (`fs.py:126`);
* the registry's timer has the same default as the sandbox's and starts first, so that a command is
  normally cut off without its group being killed (`registry.py:323`, the first case of
  `StraysAreExplained`, against `ARCHITECTURE.md:181`); what has left the group, or goes on in it after
  the shell has ended, is not killed at any limit (`sandbox.py:271`, the other two cases);
* a failing probe at startup ends the process, before the warning for that case (`runtime.py:174`); a
  refused list of gists counts as an empty one (`persistence.py:189`); an objective is charged twice to
  the rate limit; `ARCHITECTURE.md:49` has a model marked dead after consecutive failures, the code does
  so after one permanent rejection; approval tokens are called one-shot (`service.py:214`), but count
  until the process ends, as nothing calls `revoke` (`security.py:146`); the prompt calls queued tasks interrupted (`loop.py:335`).

## 5. Proofs

Eight proof modules, for every value of the constants that satisfies the named assumptions of the module
(`ConstantsAssumption`, `WorkspaceAssumption`, `RouterAssumption`). No other assumption is made. 46
theorems are listed in `PROJECT.json`. Every safety invariant and every action property of the passing
runs is among them.

**AgentRun.** `TypeCorrect`, `Serialised`, `ScratchpadStaysOwn`, `PlanStaysOwn`,
`OnlyOwnRunWritesRecord`, `WorkStaysRecorded`, `OutcomeStaysRecorded`, `RunsKeepTaskService`. The invariant of
the scratchpad properties is

    Inv == TypeOK /\ RunsAreSerialised /\ ScratchpadIsOwn /\ PlansAreOwn /\ OwnRecordIsBlank

None of them is inductive alone. That only the holder of the lock is between `preparing` and `tools`
(`RunsAreSerialised`) is what makes a tool's write to the scratchpad the holder's own. `PlansAreOwn` says
what `PlanIsOwn` says of every document there is, also of those in PATCHes and of GistStore's copy, since
any of them may come to be the stored one. It needs `ScratchpadIsOwn`, since the tools copy the plan from
the scratchpad to the record, and `OwnRecordIsBlank`, since the final save writes the object that the run
started with. One lemma per group of actions shows that it preserves `Inv`; `NextInv` puts them together,
and the theorems follow with `PTL`.

The records have an invariant of their own,

    RecordInv == TypeOK /\ WaitsOK /\ OnDisk /\ \A t \in Tasks : RecordSound(t)

`OnDisk`: from an opening save on the disk has a document, for as long as the process lives, so that the
saves of tools and of the end do not wait; that is what confines the overtaken loads to the openings.
`RecordSound` follows a record from the opening save, over tools that only add to its artifacts, to the
final save. `PutFacts` is what a save does to the document of all tasks: the record of another task is as
it was loaded, or has been crowded out, which `TrimmedDocument` derives from the sort and the cap; with
`WarmFacts` it gives `OthersUnhurt`, that a step of one run leaves what is on record of the others alone
or mislays it. `BackgroundFacts` and `RestartsFacts` say so of the gist and of restarts, and
`OnlyOwnRunWritesRecord` adds that whoever stores a record of its own is opening or holds the lock.
`RunsKeepTaskService` is the refinement without its fairness: under the mapping of `MCAgentRun` each
action is a step of `TaskService` or a stutter, `Acquire` being a `Begin` because `RunsAreSerialised`
leaves nobody active when nobody holds the lock.

**Startup.** `StartupTypes`, `FailureIsSurvived`, `GistIsKept`, `DuplicatesAreBounded`. Two invariants.
`Inv` counts per stage how many requests can have failed, and says that an instance looks for a gist
only if neither configuration nor disk names one, so what it notes is not an exchange. `Room`,

    Cardinality(account) + Cardinality(Creating) <= Cardinality(Instances) + blind

counts a gist about to be created as if it were there. While the account is empty it holds because each
instance creates at most one at a time; later only a refused list, which `blind` counts too, makes an
instance set out to create one. It uses the library's facts on finite sets.

**Deployment.** `DeploymentTypes`, `NoDuplicateService`, `PushMeansPushed`. The invariant is

    Inv == TypeOK /\ OneServicePerAccount /\ ShellOK /\ PushOK /\ PushReports

`ShellOK` says which steps a script may be at and that the service it has just updated is still there,
for there is one shell. `PushOK` carries the promise of `PushReports` through the accounts: while
`push_env.py` has met no error, those behind it hold the whole file and run on it or will, and at the
account it is at the read-back found no name missing, where Render has either taken the value sent or
dropped it.

**LongTermMemory.** `MemoryTypes`, `TextsStayDistinct`, `ImportantIsKept`, `ForgottenIsGone`. The invariant
is

    Inv == TypeOK /\ Sound /\ Faithful

`Sound`: every document anywhere, PATCHes included, is finite, within the cap and has each text once.
`Faithful` is what makes `ImportantStays` and `ForgottenStays` inductive: they speak of the memory that
the next recall finds, which a restart exchanges, so both the cache and `Durable`, what a restart would
find, have to keep the promises; and a PATCH is under way only if the disk has the document, so that the
gist alone is never what is durable while it changes. `RememberInv` counts: among the `Cap` kept entries
no one of top importance is missing if there is room for all of them.

**Workspace.** `WorkspaceTypes`, `StraysExplained`, `ReportsAreTrue`, `ArtifactsAreThere`. The invariant
has one part per call and ties its stage to its processes (`CommandSound`) and to its file (`FileSound`):

    Inv == TypeOK /\ (\A c \in Calls : CommandSound(c)) /\ (\A c \in FileCalls : FileSound(c)) /\ ArtifactsStand

While the sandbox's limit is not due (`clock <= limit[c]`, since the clock waits for timers) the
registry's can only come first or together with it, which gives the first case of `StraysAreExplained`.
Past that limit `CommandSound` says that the shell has ended, or was killed and whatever is left of the
command had left its group.
`FileStep` is what all steps of the file tools have in common; one lemma shows that each is such a step,
three that such a step preserves the parts of the invariant that are about others. `WorkspaceAssumption`
also says that the three words for who is no call are not names of calls.

**Conversation.** `TranscriptIsTyped`, `ModelIsAskedWithItsStep`, `ExchangesGoWhole`,
`TranscriptAndRecapMeet`, `TranscriptFits`. The heart of the invariant is that the conversation is
`WellFormed`:

    Latest /\ Summarised /\ Exchanges /\ Open

`Latest`: the messages are the last ones appended, without a hole. `Summarised`: each summary of the
recap leads to the next one and the last to the transcript, and as long as the recap is not full nothing
is missing in front. `Exchanges` gives each result its call, with nothing but results in between, unless
the call is one of `cut`; `Open` says that the turn that is coming in is the end of the transcript, so
that the next result finds its call. Neither is inductive without the other: `Oldest` takes a call with
the results behind it only as these are adjacent. The loop of `_trim` is proved about in two steps: one
lemma for what a round keeps, and lemmas that a function of the rounds exists (`RunExists`) and has in
each round what the first has and a round keeps. The library's induction takes an operator as a
parameter; instead, `Induction` is about a set of numbers, and follows from a least number outside it
(`WFMin`). `TranscriptFits` is the exit of the loop: at least one message goes in each round, so that as
many rounds as there are messages suffice. It needs nothing about the fold `Size`. The attempt found an
early form of `Oldest` undetermined where its two cases overlapped.

**ModelRouter.** `ChatsExhaustTheChain`, `CoolingModelsRest`, `ChatsRunOut`. The invariant is

    RouterInv == RouterTypeOK /\ Walking /\ Usable

`Walking` says that the model being asked is one of `asked`, that a chat fails only when that is every
candidate, and that the models it leaves out were resting when it began. `Usable` carries what held then
to its end: what it has yet to ask was not resting, or every model was.

**StateStore.** `StateStoreTypes`, `RecordedHistorySurvives`, `DiskNeverForgets`. The invariant is

    Inv == TypeOK /\ Quiet /\ Locked /\ SavesOK /\ HeldOK /\ MirrorOK /\ CopiesOK

`MirrorOK` says why no save takes history from the gist: a document is either on the disk, with all that
the gist has, or not at all, and then the mirror's cache and every answer on its way have all of it, so
that the load before the save finds it. Documents counted `blind` are left out. `SavesOK` ties a PATCH
to the disk, which has its body already; `CopiesOK` is the other direction, without which a wiped disk
could not be survived: unless something went wrong (`behind`), the gist has all that the disk has or a
PATCH is bringing it, and no copy has more than is on record; `Locked` and `Quiet` say when a GET may be under way. `HeldOK`
is about the memory's cache, which is never behind because no other client saves that document. That
proof found an early form of the model wrong: warming the disk when the gist has no document
(`persistence.py:412`).

**Intake.** `IntakeTypes`, `UpdatesRunOnce`, `NothingIsSkipped`. The invariant is

    Inv == TypeOK /\ Counted /\ WebhookOK /\ PollingOK /\ Sorted

`Counted` strengthens `OneRunPerUpdate` to accepted deliveries that have yet to begin their run: together
with the runs they are paid for by the entry of `_seen_updates`, or by the restart or the bound that took
it out. `PollingOK` makes `DroppedMeansHandled` inductive: what lies before the offset is handled or at
work, and so is what a batch that is not finished leaves out. That needs the batch to be ascending
(`Sorted`), and that an ascending sequence of a finite set has all its elements (`AscendingFacts`).

**What liveness rests on.** That something happens at last cannot be proved here, but the two things it
needs besides fairness can: that nobody is stuck, and that what is to be done gets less. TLC checked the
formulas of these theorems on the runs' instances before they were proved; the runs themselves check
the liveness.

* *Locks.* `NobodyIsStranded`, of `AgentRun` for `_run_lock` (`loop.py:224`) and of `StateStore` for the
  gist's lock (`persistence.py:276`): whoever waits is in the line, once, and either the holder may go on
  or the first in line may. `FirstComeFirstServed` and the second part of `OperationsRunOut` add that
  nobody falls back in the line.
* *Ranks*, natural numbers that each own step lowers and nobody else's raises. `RunsRunOut`: a run has
  two loads, a save and a place in line before it, and `MaxSteps` turns of at most `MaxCalls + 3` steps
  each. `OperationsRunOut`: five steps from the wait for
  the lock to the end of the PATCH. `BootsRunOut`: six to the end of a startup. `ChatsRunOut`: `Left`, the
  requests that the rest of the chain allows; between two requests only the clock may move.
* *What is still to be done is not lost.* `PollingLeavesNothing`: between two batches the next
  `getUpdates` asks for each update that was not handled. `CallsKeepTheirLimit`: no call is under way for
  longer than the registry's limit, and while one is, a timer is due or the clock goes on
  (`LimitHolds`). `RegisteredInstanceReplies`: once the procedure has ended well (`RegisterOK`), the
  instance replies as soon as its deploy is through.

**Only model-checked**: the liveness properties themselves (`EveryRunEnds`, `EveryOperationReturns`,
`EveryBootEnds`, `EveryChatEnds`, `PollingHandlesAll`, `EveryCallReports`, `ProcedureDelivers`) and the
fairness in `ImplementsTaskService`, as they need fairness, and with it ENABLED, which TLAPS cannot treat.
What the fold `Size` returns is evaluated by TLC and never needed in a proof. `TypeOK` of `Startup` and
`Deployment` is proved and not run: TLC checks the other properties in the same states.

## 6. Abstractions worth knowing

* Time is a bounded counter where a limit matters, and absent elsewhere: a queued run may find its
  deadline passed, a cache may be old, a window may end at any moment.
* Failures are choices. A disk write fails only where the constant says so; a request fails, is
  refused, or is served with its answer lost.
* A crash of one process comes between any two actions and wipes what is in memory. A request to create
  a gist that was under way may still be served at that moment, but not later.
* The gist always returns what was last written. GitHub's list of gists is complete and current; an
  account has at most 100 gists, and its owner deletes none.
* `AgentRun`: one clock stands for `time.monotonic()` and for the second in `updated_at`; among records
  of the same second any may be crowded out. One instance writes at a time, apart from the PATCHes that a
  dead one has left behind (`late`). A read of the disk does not fail (`persistence.py:91` would take an
  unreadable document for none), and neither is the gist emptied or edited by others. `copy` is what the
  gist had at some moment since it was last fetched, also when that is more than 30 s ago; a copy set back
  by the answer to a PATCH that another one overtook in the gist is not modelled, nor the order of waiters
  for the gist's lock, which `StateStore` has. In `AgentRunScratchpad` there is no gist.
* Mislaid records (`AgentRun`) and the documents `blind` or `behind` (`StateStore`) are what the code
  loses; the properties say that it loses nothing else.
* `Workspace`: a path holds a kind of content, not bytes. The model's own calls never work on one path
  at once (`loop.py:535` takes that for granted), processes do. The script file that `run_python` writes
  and removes is left out.
* `LongTermMemory`: a text stands for all its spellings. The service starts from an empty gist, and loads
  before its first call, as every run begins with a recall under the agent's lock.
* `Deployment`: an account has fewer services than the 100 that one page of the list holds
  (`deploy_render.py:135`). There is one shell. A request that timed out was served by then, or never is. The
  variables of a `.env` file are two, and `GIST_ID`, which `push_env.py` leaves out, is none of them.
* Argument validation, redaction, wording, output caps and search scores are data and left out.

## 7. Plan

Done in this order: `AgentRun` and its proofs, `StateStore`, `Conversation`, `Intake`, `ToolExec`,
`ModelRouter`, `Startup` and its proofs, `Workspace`, `LongTermMemory` and `Deployment` with theirs, the
proofs about `ModelRouter`, `StateStore` and `Intake`, the refinement of `TaskService`, the proofs about
`Conversation`, the lines and ranks behind liveness, whole-document saves with their cap and cold restarts
in `AgentRun`. Next:

1. `validate_arguments` and `validate_command` as operators against reference definitions.
2. The records and the long-term memory over one detailed `StateStore`, with the order of its waiters.

## 8. Not modelled

The command line (a terminal around `Agent.run`), the prompt, events, logging and redaction (output),
path confinement (a pure check with unit tests), the verification scripts (they keep no state), the
read-only endpoints and tools (`OtherCall` of `AgentRun` stands for them), the parsing and retrieval of
skills and the parsing of settings (text).
