------------------------------ MODULE AgentRun ------------------------------
(***************************************************************************)
(* Agent.run and Agent._run_loop (src/src/agentcore/loop.py) with the      *)
(* state tools that write to the shared scratchpad and to the task records *)
(* (src/src/agentcore/tools/state.py).                                     *)
(*                                                                         *)
(* Many runs share one process, one WorkingState and one TaskStore, whose  *)
(* records are one document (src/src/agentcore/memory.py): a save loads    *)
(* all of it, puts its record in and stores all of it, on the disk and     *)
(* then in the gist (src/src/agentcore/persistence.py).  An action is the  *)
(* code between two awaits that can really suspend: disk accesses do not,  *)
(* a load that finds nothing on the disk waits for the gist, and the PATCH *)
(* behind a save is where other runs get in.  A text is represented by     *)
(* the set of tasks that wrote it, which is what the properties tell       *)
(* apart.  The locals of a run (record, step, turn, hint, deadline) are    *)
(* reset when it ends.                                                     *)
(***************************************************************************)
EXTENDS Naturals, Sequences, FiniteSets

CONSTANTS
    Tasks,        \* task ids
    ApiTasks,     \* those of POST /tasks, which passes the new id to run()
    ResumedTasks, \* those whose id a caller passes to run() once more
    NoTask,       \* not a task
    Toolbox,      \* the registry: what the model may call
    Mirrored,     \* is there a gist behind the disk (GIST_API_KEY)?
    MaxRecords,   \* MAX_TASK_RECORDS
    MaxSteps,     \* settings.agent.max_steps
    MaxSeconds,   \* settings.agent.max_seconds
    MaxCalls,     \* bound: tool calls in one model turn
    SetStatuses,  \* bound: the statuses a task gives itself
    MaxClock,     \* bound: readings of the clock
    MaxAside,     \* bound: requests to the gist under way that no run waits for
    DiskMayFail   \* may DiskStore.set raise PersistenceError?

ASSUME ConstantsAssumption ==
    /\ ApiTasks \subseteq Tasks /\ ResumedTasks \subseteq Tasks
    /\ NoTask \notin Tasks
    /\ Toolbox \subseteq {"plan", "entries", "progress", "set_status", "artifacts",
                        "deliverables", "privileged"}
    /\ Mirrored \in BOOLEAN
    /\ MaxRecords \in Nat \ {0}
    /\ MaxSteps \in Nat \ {0}
    /\ MaxSeconds \in Nat
    /\ MaxCalls \in Nat \ {0}
    /\ SetStatuses \subseteq {"pending", "running", "completed", "failed", "blocked"}
    /\ MaxClock \in Nat
    /\ MaxAside \in Nat
    /\ DiskMayFail \in BOOLEAN

VARIABLES
    clock,     \* time.monotonic(), and the second in updated_at
    pc,        \* where each run is
    named,     \* runs that were given a resume_task_id
    deadline,  \* each run's deadline
    queue,     \* waiters of _run_lock, first come first served
    holder,    \* who holds _run_lock
    scratch,   \* memory.working, one object for the whole process
    record,    \* each run's own TaskRecord object, built when it starts
    stored,    \* the records on the disk
    gist,      \* the records in the gist
    late,      \* PATCHes under way whose sender has gone on without an answer
    copy,      \* the records as GistStore last saw them (GistStore._cache)
    reading,   \* how many GET /tasks or /tasks/{id} wait for an answer
    mislaid,   \* history: tasks whose record was lost or set back (see below)
    step,      \* each run's loop index
    turn,      \* the tool calls of each run's current turn
    result,    \* each run's RunResult
    hint,      \* the tasks each run's prompt calls interrupted
    running    \* Agent._running

store == <<stored, gist, late, copy, reading, mislaid>>

vars == <<clock, pc, named, deadline, queue, holder, scratch, record, store,
          step, turn, result, hint, running>>

Verdicts == {"completed", "failed", "blocked", "budget_exceeded"}
Statuses == {"pending", "running", "completed", "failed", "blocked"}
Artifacts == {"deliverable", "noted"}

\* Runs that wait for the gist, that hold the lock, that the process is
\* executing, that it is not.
Loading == {"looking", "loading"}
Inside == {"preparing", "stepping", "model", "tools"}
Live == Loading \union Inside \union {"opening", "queued", "reporting"}
Over == {"done", "raised", "lost"}
Stages == {"idle"} \union Live \union Over

\* NoRecord is the record of a task that has none.
NoRecord == [status |-> "none", plan |-> {}, progress |-> FALSE, artifacts |-> {},
             updated |-> 0]
WrittenRecords == [status : Statuses, plan : SUBSET Tasks, progress : BOOLEAN,
                   artifacts : SUBSET Artifacts, updated : Nat]
Records == WrittenRecords \union {NoRecord}
FreshRecord == [NoRecord EXCEPT !.status = "running"]

\* The document of the task records, and a store that has none.
Documents == [Tasks -> Records]
NoDocument == [t \in Tasks |-> NoRecord]

Scratchpads == [objective : Tasks \union {NoTask}, plan : SUBSET Tasks,
                entries : SUBSET Tasks]
FreshScratchpad(o) == [objective |-> o, plan |-> {}, entries |-> {}]

Results == [status : Verdicts \union {"running"}, artifacts : SUBSET Artifacts]
NoResult == [status |-> "running", artifacts |-> {}]

Turns == [left : 0..MaxCalls, refused : BOOLEAN]
NoTurn == [left |-> 0, refused |-> FALSE]

(***************************************************************************)
(* The status that run() records for a RunResult: an exhausted budget is   *)
(* an interruption, so the task stays unfinished.                          *)
(***************************************************************************)
RecordedStatus(v) == IF v = "budget_exceeded" THEN "running" ELSE v

\* TaskStore.unfinished()
Unfinished == {t \in Tasks : stored[t].status \in {"pending", "running"}}

Init ==
    /\ clock = 0
    /\ pc = [t \in Tasks |-> "idle"]
    /\ named = {}
    /\ deadline = [t \in Tasks |-> 0]
    /\ queue = <<>>
    /\ holder = NoTask
    /\ scratch = FreshScratchpad(NoTask)
    /\ record = [t \in Tasks |-> NoRecord]
    /\ stored = NoDocument
    /\ gist = NoDocument
    /\ late = {}
    /\ copy = NoDocument
    /\ reading = 0
    /\ mislaid = {}
    /\ step = [t \in Tasks |-> 0]
    /\ turn = [t \in Tasks |-> NoTurn]
    /\ result = [t \in Tasks |-> NoResult]
    /\ hint = [t \in Tasks |-> {}]
    /\ running = {}

GoTo(t, from, to) ==
    /\ pc[t] = from
    /\ pc' = [pc EXCEPT ![t] = to]

-----------------------------------------------------------------------------
(***************************************************************************)
(* The task records: TaskStore on the chained store.  The document on the  *)
(* disk is the one that counts; without it a load asks the gist.           *)
(***************************************************************************)
Durable == IF stored = NoDocument THEN gist ELSE stored

\* The tasks of which doc does not say what is on record.
Missed(doc) == {u \in Tasks : doc[u] # Durable[u]}

\* A load suspends.
AsksGist == Mirrored /\ stored = NoDocument

(***************************************************************************)
(* A load that asks the gist is answered with GistStore's copy, which the  *)
(* store may have fetched anew meanwhile; a GET that fails counts as no    *)
(* document.                                                               *)
(***************************************************************************)
Answers == {copy, NoDocument}

\* A load that asked the gist is under way, or may yet be.
LoadsMayEnd == stored = NoDocument \/ reading > 0 \/ \E t \in Tasks : pc[t] \in Loading

\* The copy is doc, or of no use because nobody will ask for it.
KeepCopy(doc) == copy' = IF LoadsMayEnd' THEN doc ELSE NoDocument

\* A GET of the gist is served, or a PATCH has returned.
Fetch ==
    /\ reading > 0 \/ \E t \in Tasks : pc[t] \in Loading
    /\ copy' = gist
    /\ UNCHANGED <<clock, pc, named, deadline, queue, holder, scratch, record, stored, gist,
                   late, reading, mislaid, step, turn, result, hint, running>>

\* A load that comes back with doc puts it on the disk, whatever is there by now.
Warm(doc) ==
    \/ /\ doc # NoDocument
       /\ stored' = doc
       /\ mislaid' = mislaid \union Missed(doc)
    \/ /\ doc = NoDocument \/ DiskMayFail
       /\ UNCHANGED <<stored, mislaid>>

\* save() keeps the MaxRecords records that were updated last.
Trims(doc) ==
    LET there == {u \in Tasks : doc[u] # NoRecord}
        newest == {k \in SUBSET there : /\ Cardinality(k) = MaxRecords
                                        /\ \A u \in k, v \in there \ k :
                                               doc[u].updated >= doc[v].updated}
    IN  IF Cardinality(there) <= MaxRecords THEN {doc}
        ELSE {[u \in Tasks |-> IF u \in k THEN doc[u] ELSE NoRecord] : k \in newest}

MayGoAside == Cardinality(late) + reading < MaxAside

\* The PATCH of doc lands, fails, or lands after its sender gave up on it.
Send(doc) ==
    \/ Mirrored /\ gist' = doc /\ UNCHANGED late
    \/ UNCHANGED <<gist, late>>
    \/ Mirrored /\ MayGoAside /\ late' = late \union {doc} /\ UNCHANGED gist

\* TaskRecord.touch().
Touched(r) == [r EXCEPT !.updated = clock]

\* Mutant: the record replaces the document.
PutAlone(t, r, doc, astray) ==
    /\ stored' = [NoDocument EXCEPT ![t] = r]
    /\ mislaid' = astray
    /\ Send(stored')

\* The records of all that may be missing in new: it is full of records that were
\* updated no earlier.
CrowdedOut(all, new) ==
    LET kept == {u \in Tasks : new[u] # NoRecord}
    IN  {u \in Tasks \ kept : /\ all[u] # NoRecord
                             /\ Cardinality(kept) = MaxRecords
                             /\ \A v \in kept : new[v].updated >= all[u].updated}

\* The end of save(): r joins the document that was loaded, which is stored.
Put(t, r, doc, astray) ==
    LET all == [doc EXCEPT ![t] = r]
    IN  \E new \in Trims(all) :
            /\ stored' = new
            /\ mislaid' = astray \union CrowdedOut(all, new)
            /\ Send(new)

\* A PATCH lands that nobody waits for.
LateLands ==
    /\ \E doc \in late :
          /\ gist' = doc
          /\ late' = late \ {doc}
          /\ mislaid' = IF stored = NoDocument THEN mislaid \union Missed(doc) ELSE mislaid
    /\ UNCHANGED <<clock, pc, named, deadline, queue, holder, scratch, record, stored,
                   reading, step, turn, result, hint, running>>
    /\ KeepCopy(copy)

\* GET /tasks and /tasks/{id} load the document too.
AskToRead ==
    /\ AsksGist
    /\ MayGoAside
    /\ reading' = reading + 1
    /\ UNCHANGED <<clock, pc, named, deadline, queue, holder, scratch, record, stored, gist,
                   late, copy, mislaid, step, turn, result, hint, running>>

Read ==
    /\ reading > 0
    /\ reading' = reading - 1
    /\ \E doc \in Answers : Warm(doc)
    /\ UNCHANGED <<clock, pc, named, deadline, queue, holder, scratch, record, gist, late,
                   step, turn, result, hint, running>>
    /\ KeepCopy(copy)

-----------------------------------------------------------------------------
(***************************************************************************)
(* The opening of run(): the record is made and saved before the lock is   *)
(* asked for.  A save that fails raises out of run().                      *)
(***************************************************************************)
OpeningSave(t, r, doc) ==
    \/ /\ Put(t, r, doc, (mislaid \union Missed(doc)) \ {t})
       /\ record' = [record EXCEPT ![t] = r]
       /\ pc' = [pc EXCEPT ![t] = "opening"]
    \/ /\ DiskMayFail
       /\ Warm(doc)
       /\ record' = [record EXCEPT ![t] = NoRecord]
       /\ pc' = [pc EXCEPT ![t] = "raised"]
       /\ UNCHANGED <<gist, late>>

\* save() at the start of a run, up to where it first suspends.
Open(t, r) ==
    \/ /\ AsksGist
       /\ record' = [record EXCEPT ![t] = Touched(r)]
       /\ pc' = [pc EXCEPT ![t] = "loading"]
       /\ UNCHANGED <<stored, gist, late, mislaid>>
    \/ ~AsksGist /\ OpeningSave(t, Touched(r), stored)

\* What tasks.get() makes of the record of a run that was given an id.
NamedRecord(t, doc) ==
    IF doc[t] = NoRecord THEN FreshRecord ELSE [doc[t] EXCEPT !.status = "running"]

\* A message from Telegram or the command line: run() makes up the id.
StartFresh(t) ==
    /\ pc[t] = "idle"
    /\ t \notin ApiTasks
    /\ Open(t, FreshRecord)
    /\ result' = [result EXCEPT ![t] = NoResult]
    /\ UNCHANGED <<clock, named, deadline, queue, holder, scratch, reading, step, turn, hint,
                   running>>
    /\ KeepCopy(copy)

\* run() with an id: POST /tasks with a new one, or a caller that resumes a task.
StartNamed(t) ==
    /\ \/ pc[t] = "idle" /\ t \in ApiTasks
       \/ pc[t] \in Over /\ t \in ResumedTasks
    /\ named' = named \union {t}
    /\ \/ /\ AsksGist
          /\ pc' = [pc EXCEPT ![t] = "looking"]
          /\ UNCHANGED <<record, stored, gist, late, mislaid>>
       \/ ~AsksGist /\ Open(t, NamedRecord(t, stored))
    /\ result' = [result EXCEPT ![t] = NoResult]
    /\ UNCHANGED <<clock, deadline, queue, holder, scratch, reading, step, turn, hint, running>>
    /\ KeepCopy(copy)

(***************************************************************************)
(* The record was looked up with a load that waited.  If it left the       *)
(* document on the disk the save goes on from there; otherwise the save    *)
(* does its own load.                                                      *)
(***************************************************************************)
LookedUp(t) ==
    /\ pc[t] = "looking"
    /\ \E doc \in Answers :
          \/ doc # NoDocument /\ OpeningSave(t, Touched(NamedRecord(t, doc)), doc)
          \/ (doc = NoDocument \/ DiskMayFail) /\ Open(t, NamedRecord(t, doc))
    /\ UNCHANGED <<clock, named, deadline, queue, holder, scratch, reading, step, turn,
                   result, hint, running>>
    /\ KeepCopy(copy)

\* save() edits the object that it loaded, which is GistStore's copy.
Edited(t, doc) == IF doc = NoDocument THEN copy ELSE [doc EXCEPT ![t] = record[t]]

\* The save's own load waited.
Loaded(t) ==
    /\ pc[t] = "loading"
    /\ \E doc \in Answers :
          /\ OpeningSave(t, record[t], doc)
          /\ UNCHANGED <<clock, named, deadline, queue, holder, scratch, reading, step, turn,
                         result, hint, running>>
          /\ KeepCopy(Edited(t, doc))

\* Mutant: the scratchpad is made before the lock is held.
EnqueueClearing(t) ==
    /\ GoTo(t, "opening", "queued")
    /\ running' = running \union {t}
    /\ deadline' = [deadline EXCEPT ![t] = clock + MaxSeconds]
    /\ queue' = Append(queue, t)
    /\ scratch' = IF t \in named THEN scratch ELSE FreshScratchpad(t)
    /\ UNCHANGED <<clock, named, holder, record, store, step, turn, result, hint>>

\* The clock of the run starts here, before it waits for its turn.
Enqueue(t) ==
    /\ GoTo(t, "opening", "queued")
    /\ running' = running \union {t}
    /\ deadline' = [deadline EXCEPT ![t] = clock + MaxSeconds]
    /\ queue' = Append(queue, t)
    /\ UNCHANGED <<clock, named, holder, scratch, record, store, step, turn, result, hint>>

\* Mutant: the scratchpad of the previous run is kept.
KeptScratchpad(t) == [scratch EXCEPT !.objective = t]

\* What run() and _run_loop make of the scratchpad under the lock.
OpenedScratchpad(t) ==
    IF t \notin named THEN FreshScratchpad(t)
    ELSE IF scratch.objective = NoTask THEN [scratch EXCEPT !.objective = t]
    ELSE scratch

\* Mutant: nothing is locked.
AcquireUnlocked(t) ==
    /\ GoTo(t, "queued", "preparing")
    /\ queue # <<>> /\ Head(queue) = t
    /\ holder' = t
    /\ queue' = Tail(queue)
    /\ scratch' = OpenedScratchpad(t)
    /\ UNCHANGED <<clock, named, deadline, record, store, step, turn, result, hint, running>>

\* Mutant: the lock goes to whichever waiter asks.
AcquireBarging(t) ==
    /\ GoTo(t, "queued", "preparing")
    /\ holder = NoTask
    /\ holder' = t
    /\ queue' = SelectSeq(queue, LAMBDA u : u # t)
    /\ scratch' = OpenedScratchpad(t)
    /\ UNCHANGED <<clock, named, deadline, record, store, step, turn, result, hint, running>>

Acquire(t) ==
    /\ GoTo(t, "queued", "preparing")
    /\ holder = NoTask
    /\ queue # <<>> /\ Head(queue) = t
    /\ holder' = t
    /\ queue' = Tail(queue)
    /\ scratch' = OpenedScratchpad(t)
    /\ UNCHANGED <<clock, named, deadline, record, store, step, turn, result, hint, running>>

\* Recall and unfinished(): the prompt names the other unfinished tasks.
Prepare(t) ==
    /\ GoTo(t, "preparing", "stepping")
    /\ hint' = [hint EXCEPT ![t] = Unfinished \ {t}]
    /\ UNCHANGED <<clock, named, deadline, queue, holder, scratch, record, store,
                   step, turn, result, running>>

-----------------------------------------------------------------------------
(***************************************************************************)
(* The end of a run: the lock is released and the run's own record object, *)
(* as it was built at the start, is written over the stored one.  From the *)
(* opening save on the disk has the document, so that no load waits.       *)
(***************************************************************************)
\* Mutant: a status that the task gave itself is kept.
FinalRecordKeepingStatus(t, v) ==
    [record[t] EXCEPT !.artifacts = result[t].artifacts,
                      !.status = IF stored[t].status = "running" THEN RecordedStatus(v)
                                 ELSE stored[t].status]

FinalRecord(t, v) ==
    [record[t] EXCEPT !.status = RecordedStatus(v), !.artifacts = result[t].artifacts]

Conclude(t, v) ==
    /\ holder' = NoTask
    /\ \/ /\ Put(t, Touched(FinalRecord(t, v)), stored, mislaid \ {t})
          /\ result' = [result EXCEPT ![t].status = v]
          /\ pc' = [pc EXCEPT ![t] = "reporting"]
       \/ /\ DiskMayFail
          /\ result' = [result EXCEPT ![t] = NoResult]
          /\ pc' = [pc EXCEPT ![t] = "raised"]
          /\ UNCHANGED <<stored, gist, late, mislaid>>
    /\ record' = [record EXCEPT ![t] = NoRecord]
    /\ hint' = [hint EXCEPT ![t] = {}]
    /\ turn' = [turn EXCEPT ![t] = NoTurn]
    /\ step' = [step EXCEPT ![t] = 0]
    /\ deadline' = [deadline EXCEPT ![t] = 0]
    /\ UNCHANGED <<clock, named, queue, scratch, reading, running>>
    /\ KeepCopy(copy)

\* The loop goes round: out of steps, out of time, or another model call.
StepBudget(t) ==
    /\ pc[t] = "stepping"
    /\ step[t] = MaxSteps
    /\ Conclude(t, "budget_exceeded")

WallClockBudget(t) ==
    /\ pc[t] = "stepping"
    /\ step[t] < MaxSteps
    /\ clock >= deadline[t]
    /\ Conclude(t, "budget_exceeded")

\* Mutant: one step too many.
CallModelOnceMore(t) ==
    /\ GoTo(t, "stepping", "model")
    /\ step[t] <= MaxSteps
    /\ clock < deadline[t]
    /\ step' = [step EXCEPT ![t] = @ + 1]
    /\ UNCHANGED <<clock, named, deadline, queue, holder, scratch, record, store,
                   turn, result, hint, running>>

CallModel(t) ==
    /\ GoTo(t, "stepping", "model")
    /\ step[t] < MaxSteps
    /\ clock < deadline[t]
    /\ step' = [step EXCEPT ![t] = @ + 1]
    /\ UNCHANGED <<clock, named, deadline, queue, holder, scratch, record, store,
                   turn, result, hint, running>>

\* No usable model, or any other exception out of the router.
ModelFails(t) ==
    /\ pc[t] = "model"
    /\ Conclude(t, "failed")

FinalAnswer(t) ==
    /\ pc[t] = "model"
    /\ Conclude(t, "completed")

\* Mutant: an empty answer costs no step.
EmptyAnswerForFree(t) ==
    /\ GoTo(t, "model", "stepping")
    /\ step' = [step EXCEPT ![t] = @ - 1]
    /\ UNCHANGED <<clock, named, deadline, queue, holder, scratch, record, store,
                   turn, result, hint, running>>

EmptyAnswer(t) ==
    /\ GoTo(t, "model", "stepping")
    /\ UNCHANGED <<clock, named, deadline, queue, holder, scratch, record, store,
                   step, turn, result, hint, running>>

ToolTurn(t) ==
    /\ GoTo(t, "model", "tools")
    /\ \E n \in 1..MaxCalls : turn' = [turn EXCEPT ![t] = [left |-> n, refused |-> FALSE]]
    /\ UNCHANGED <<clock, named, deadline, queue, holder, scratch, record, store,
                   step, result, hint, running>>

-----------------------------------------------------------------------------
(***************************************************************************)
(* The tool calls of a turn.  gather() starts them in order and each state *)
(* tool does its work before it first suspends, so they take effect in     *)
(* order.                                                                  *)
(***************************************************************************)
Calling(t) == pc[t] = "tools" /\ turn[t].left > 0

NextCall(t) ==
    /\ turn' = [turn EXCEPT ![t].left = @ - 1]
    /\ UNCHANGED <<clock, pc, named, deadline, queue, holder, record, reading, step, hint,
                   running>>
    /\ KeepCopy(copy)

\* The records are left alone.
NoSave == UNCHANGED <<stored, gist, late, mislaid>>

\* TaskStore.save of a record a tool has just read; it raises if the disk does.
Save(t, r) ==
    \/ Put(t, Touched(r), stored, mislaid)
    \/ DiskMayFail /\ NoSave

\* _persist, which does nothing for a task whose record is gone.
CopyPlan(t, plan) ==
    \/ stored[t] # NoRecord /\ Save(t, [stored[t] EXCEPT !.plan = plan])
    \/ stored[t] = NoRecord /\ NoSave

\* WorkingMemoryTool: change the scratchpad, then copy the plan to the record.
WorkingMemory(t, new) ==
    /\ Calling(t)
    /\ scratch' = new
    /\ CopyPlan(t, new.plan)
    /\ NextCall(t)
    /\ UNCHANGED result

SetPlan(t) ==
    /\ "plan" \in Toolbox
    /\ \E plan \in {{}, {t}} : WorkingMemory(t, [scratch EXCEPT !.plan = plan])

CompleteStep(t) ==
    /\ "plan" \in Toolbox
    /\ scratch.plan # {}
    /\ WorkingMemory(t, [scratch EXCEPT !.plan = @ \union {t}])

\* Facts, blockers, notes, finish condition: the lists are capped, so that a
\* new entry may push old ones out.
AddEntry(t) ==
    /\ "entries" \in Toolbox
    /\ \E kept \in SUBSET scratch.entries :
            WorkingMemory(t, [scratch EXCEPT !.entries = kept \union {t}])

\* Every blocker that contains the given text goes, or all of them.
ClearBlocker(t) ==
    /\ "entries" \in Toolbox
    /\ \E kept \in SUBSET scratch.entries :
            WorkingMemory(t, [scratch EXCEPT !.entries = kept])

\* What TaskStateTool reads: the stored record, or a new one if that is gone.
Current(t) == IF stored[t] = NoRecord THEN [NoRecord EXCEPT !.status = "pending"] ELSE stored[t]

\* Mutant: the tool takes the task that the scratchpad names for its own.
TaskStateByObjective(t, r) ==
    /\ Calling(t)
    /\ Save(scratch.objective, r)
    /\ NextCall(t)
    /\ UNCHANGED <<scratch, result>>

\* TaskStateTool: read the record, change it, save it.
TaskState(t, r) ==
    /\ Calling(t)
    /\ Save(t, r)
    /\ NextCall(t)
    /\ UNCHANGED <<scratch, result>>

Progress(t) ==
    /\ "progress" \in Toolbox
    /\ TaskState(t, [Current(t) EXCEPT !.progress = TRUE])

SetStatus(t) ==
    /\ "set_status" \in Toolbox
    /\ \E s \in SetStatuses : TaskState(t, [Current(t) EXCEPT !.status = s])

AddArtifact(t) ==
    /\ "artifacts" \in Toolbox
    /\ TaskState(t, [Current(t) EXCEPT !.artifacts = @ \union {"noted"}])

(***************************************************************************)
(* write_artifact records the file on the task, if there is a record.  The *)
(* loop puts it in the RunResult when the call reports success (the        *)
(* registry's time limit may strike during the mirror's PATCH, after the   *)
(* record is saved) and no earlier call of the turn was refused.           *)
(***************************************************************************)
WriteArtifact(t) ==
    /\ "deliverables" \in Toolbox
    /\ Calling(t)
    /\ \/ /\ \/ /\ stored[t] # NoRecord
                /\ Put(t, Touched([stored[t] EXCEPT !.artifacts = @ \union {"deliverable"}]),
                       stored, mislaid)
             \/ stored[t] = NoRecord /\ NoSave
          /\ \E inTime \in BOOLEAN :
                result' = IF inTime /\ ~turn[t].refused
                          THEN [result EXCEPT ![t].artifacts = @ \union {"deliverable"}]
                          ELSE result
       \/ DiskMayFail /\ NoSave /\ UNCHANGED result
    /\ NextCall(t)
    /\ UNCHANGED scratch

\* Any call that leaves this state alone: other tools, reads, failed calls.
OtherCall(t) ==
    /\ Calling(t)
    /\ NoSave
    /\ NextCall(t)
    /\ UNCHANGED <<scratch, result>>

\* ApprovalGate.require refuses a privileged call.
RefusedCall(t) ==
    /\ "privileged" \in Toolbox
    /\ Calling(t)
    /\ turn' = [turn EXCEPT ![t] = [left |-> @.left - 1, refused |-> TRUE]]
    /\ UNCHANGED <<clock, pc, named, deadline, queue, holder, scratch, record, store,
                   step, result, hint, running>>

\* The outcomes are in: a refused call ends the run, otherwise the loop goes on.
TurnRefused(t) ==
    /\ pc[t] = "tools" /\ turn[t].left = 0
    /\ turn[t].refused
    /\ Conclude(t, "blocked")

TurnDone(t) ==
    /\ GoTo(t, "tools", "stepping")
    /\ turn[t].left = 0 /\ ~turn[t].refused
    /\ UNCHANGED <<clock, named, deadline, queue, holder, scratch, record, store,
                   step, turn, result, hint, running>>

\* After the final save's PATCH: run() forgets the task and returns.
Report(t) ==
    /\ GoTo(t, "reporting", "done")
    /\ running' = running \ {t}
    /\ UNCHANGED <<clock, named, deadline, queue, holder, scratch, record, store,
                   step, turn, result, hint>>

-----------------------------------------------------------------------------
Tick ==
    /\ clock < MaxClock
    /\ clock' = clock + 1
    /\ UNCHANGED <<pc, named, deadline, queue, holder, scratch, record, store,
                   step, turn, result, hint, running>>

(***************************************************************************)
(* The process dies and comes back, on the disk as it was or, after a      *)
(* spin-down or a deployment, on an empty one, where the records are those *)
(* that reached the gist.  Everything else is rebuilt empty.               *)
(***************************************************************************)
Restart(disk) ==
    /\ pc' = [t \in Tasks |-> IF pc[t] \in Live THEN "lost" ELSE pc[t]]
    /\ queue' = <<>>
    /\ holder' = NoTask
    /\ scratch' = FreshScratchpad(NoTask)
    /\ record' = [t \in Tasks |-> NoRecord]
    /\ turn' = [t \in Tasks |-> NoTurn]
    /\ hint' = [t \in Tasks |-> {}]
    /\ step' = [t \in Tasks |-> 0]
    /\ deadline' = [t \in Tasks |-> 0]
    /\ running' = {}
    /\ result' = [t \in Tasks |-> IF pc[t] = "done" THEN result[t] ELSE NoResult]
    /\ stored' = disk
    /\ mislaid' = mislaid \union Missed(IF disk = NoDocument THEN gist ELSE disk)
    /\ reading' = 0
    /\ copy' = IF disk = NoDocument THEN gist ELSE NoDocument
    /\ UNCHANGED <<clock, named, gist, late>>

WarmRestart == Restart(stored)
ColdRestart == Restart(NoDocument)

CallTool(t) ==
    \/ SetPlan(t) \/ CompleteStep(t) \/ AddEntry(t) \/ ClearBlocker(t)
    \/ Progress(t) \/ SetStatus(t) \/ AddArtifact(t)
    \/ WriteArtifact(t) \/ OtherCall(t) \/ RefusedCall(t)

\* What the event loop does for a run by itself once the run has started.
Advance(t) ==
    \/ LookedUp(t) \/ Loaded(t)
    \/ Enqueue(t) \/ Acquire(t) \/ Prepare(t)
    \/ StepBudget(t) \/ WallClockBudget(t) \/ CallModel(t)
    \/ ModelFails(t) \/ FinalAnswer(t) \/ EmptyAnswer(t) \/ ToolTurn(t)
    \/ CallTool(t) \/ TurnRefused(t) \/ TurnDone(t)
    \/ Report(t)

Next ==
    \/ \E t \in Tasks : StartFresh(t) \/ StartNamed(t) \/ Advance(t)
    \/ Fetch \/ AskToRead \/ Read \/ LateLands
    \/ Tick
    \/ WarmRestart \/ ColdRestart

(***************************************************************************)
(* The event loop serves every task that can go on; the gist's client, the *)
(* router and the registry bound each call by a timeout, so gist, model    *)
(* and tools answer or fail.                                               *)
(***************************************************************************)
Fairness == \A t \in Tasks : WF_vars(Advance(t))

Spec == Init /\ [][Next]_vars /\ Fairness

-----------------------------------------------------------------------------
(***************************************************************************)
(* Every variable holds a value of its type.                               *)
(***************************************************************************)
TypeOK ==
    /\ clock \in Nat
    /\ pc \in [Tasks -> Stages]
    /\ named \in SUBSET Tasks
    /\ deadline \in [Tasks -> Nat]
    /\ queue \in Seq(Tasks)
    /\ holder \in Tasks \union {NoTask}
    /\ scratch \in Scratchpads
    /\ record \in [Tasks -> Records]
    /\ stored \in Documents
    /\ gist \in Documents
    /\ late \in SUBSET Documents
    /\ copy \in Documents
    /\ reading \in Nat
    /\ mislaid \in SUBSET Tasks
    /\ step \in [Tasks -> 0..MaxSteps]
    /\ turn \in [Tasks -> Turns]
    /\ result \in [Tasks -> Results]
    /\ hint \in [Tasks -> SUBSET Tasks]
    /\ running \in SUBSET Tasks

(***************************************************************************)
(* "Tasks are serialised on purpose" (loop.py:150): the run that holds     *)
(* _run_lock, and no other, is between its first and its last step, over   *)
(* every handover, failure and restart.                                    *)
(***************************************************************************)
RunsAreSerialised == \A t \in Tasks : pc[t] \in Inside <=> holder = t

\* Who has written to the scratchpad since it was made.
Writers == scratch.plan \union scratch.entries

(***************************************************************************)
(* "Concurrent runs would interleave one task's plan into another's"       *)
(* (loop.py:152): a run that came without an id works on a scratchpad with *)
(* its own objective and nothing in it that another task wrote, whatever   *)
(* ran before and whatever is queued meanwhile.                            *)
(***************************************************************************)
ScratchpadIsOwn ==
    \A t \in Tasks : pc[t] \in Inside /\ t \notin named =>
        scratch.objective = t /\ Writers \subseteq {t}

(***************************************************************************)
(* The plan that the state tools copy from the scratchpad to the durable   *)
(* record of a task is that task's own, if no run of it was given an id.   *)
(***************************************************************************)
PlanIsOwn == \A t \in Tasks : t \notin named => stored[t].plan \union gist[t].plan \subseteq {t}

(***************************************************************************)
(* The record of a task is mislaid, until its run writes it whole again,   *)
(* by one of four things, which the properties below name by this one word *)
(* and the code has no answer to: a load that waited for the gist comes    *)
(* back with less than is on record by then, and the save behind it, or    *)
(* the warming of the disk, puts that back; a load fails on an empty disk; *)
(* the disk is replaced while the gist is behind, or a PATCH from before   *)
(* lands after that; MaxRecords other tasks, updated since, crowd it out.  *)
(*                                                                         *)
(* Once its opening save is through, and while it is executed, a task is   *)
(* on record with every deliverable that its RunResult reports, unless the *)
(* record was mislaid.                                                     *)
(***************************************************************************)
WorkIsRecorded ==
    \A t \in Tasks \ mislaid : pc[t] \in Live \ Loading =>
        Durable[t] # NoRecord /\ result[t].artifacts \subseteq Durable[t].artifacts

(***************************************************************************)
(* What the record says of a task that ran to its end is what the run      *)
(* returned (loop.py:268): the same artifacts, and the status of the       *)
(* verdict, an exhausted budget being recorded as unfinished, whatever     *)
(* status the task gave itself on the way, whoever ran since and whichever *)
(* process reads it, unless the record was mislaid.                        *)
(***************************************************************************)
OutcomeIsRecorded ==
    \A t \in Tasks \ mislaid : pc[t] \in {"reporting", "done"} =>
        /\ result[t].status \in Verdicts
        /\ Durable[t].status = RecordedStatus(result[t].status)
        /\ Durable[t].artifacts = result[t].artifacts

(***************************************************************************)
(* What is on record of a task changes by that task's run only: by its     *)
(* opening save, by its tools while it holds the lock and by its end, or   *)
(* else it is mislaid.  The whole document that every save stores, the     *)
(* restarts and the gist do nothing more to the records of the others.     *)
(***************************************************************************)
OnlyOwnRunWrites ==
    [][\A t \in Tasks : Durable'[t] # Durable[t] =>
            pc'[t] = "opening" \/ holder = t \/ t \in mislaid']_vars

(***************************************************************************)
(* Every run that was started ends, or is lost with the process.           *)
(***************************************************************************)
EveryRunEnds == \A t \in Tasks : pc[t] \in Live ~> pc[t] \in Over

-----------------------------------------------------------------------------
(***************************************************************************)
(* task_state keeps "the durable record of the current task - its status,  *)
(* progress log, artifacts and result" (state.py:206), and a run out of    *)
(* budget promises to "resume from the recorded state" (loop.py:574): the  *)
(* end of the run leaves the recorded plan and progress log in place.      *)
(***************************************************************************)
RecordedWorkSurvivesTheRun ==
    [][\A t \in Tasks : pc[t] # "reporting" /\ pc'[t] = "reporting" =>
            /\ stored'[t].plan = stored[t].plan
            /\ stored[t].progress => stored'[t].progress]_vars
=============================================================================
