# Gosidian: a verification development

Gosidian is a server for a vault of markdown notes: people use it through a web
UI, agents through MCP tools, and it runs *pipelines*, graphs of nodes written
in notes, on a durable queue of its own. This directory holds TLA+ models of
the parts where steps of several goroutines, crashes and retries meet, TLC
configurations that check them on small instances, and proofs TLAPS checks for
every value of the constants.

## The system and its parts

| Part | State | Operations | What makes it hard |
|---|---|---|---|
| Job queue (`internal/jobs`: `store.go`, `runner.go`) | SQLite rows of runs and steps; in memory the workers' slots, a lock per run, the cancel functions of the steps under way | `Submit`, `EndWait`/`Resume`, `RunAgain`, `Cancel`, the loop of `Start` (recover, expire waits, prune, claim), `runStep`, `advance`, `ended` | callers, workers and the loop change the same run; the claim does not take the run's lock; an end and what follows it are two transactions; the process may die at any point |
| Gate (`jobs/gate.go`) | places taken per resource | `TryTake` (by a claim), `Take` (by an agent's call), `Release` | several resources at once; every path must give back |
| Pipeline engine (`internal/pipeline/engine.go`) | none of its own: it decides from the rows | `Start`, `Step`, `Next`, `Ended` | decisions that feed one another; checks made before `Submit` |
| `pipeline.run` (`pipelinerun.go`) | the idempotency key of a child names its parent | start a child and wait, `endedChild`, `stopChildren` | a child ends before its parent waits; a parent ends while it starts a child |
| Task trigger and teams (`tasktrigger.go`, `internal/fleet`) | task notes: status, holder, attempts, rounds | take a task for a run, give it back, coordinators, budget | the note and the run are written separately; people and agents move the same tasks |
| Other triggers (`queuetrigger.go`, `runtrigger.go`, `innodes.go`, `commit.go`, `chat.go`) | small episodes in memory, files' status | read a condition, `Start` with a key | once per event, across restarts |
| Automations (`internal/automation`) | a JSON file: keys fired, keys pending with their run | `Tick`, the action's step, `settle`, `reconcile`, `Await` | the state file and the jobs database are saved one after the other |
| Vault and index (`internal/vault`, `internal/index`) | files, an LRU of loaded notes, a SQLite copy for searches | save under a path's lock, the watcher, the boot scan | two writers of the copy, one of which reads without the lock |
| Events (`internal/server/events`, `mcp/tools_wait.go`) | a number, a ring of the last events, a bounded channel per subscriber | publish, subscribe, replay, long poll | full channels, cursors that fall out of the ring |
| IN folder (`internal/infolder`) | uploads in parts, batches, files' status | upload, close a batch, mark files | a run may end before its files are marked |
| Git sync (`internal/gitsync`) | the repository, a list of writes to commit | commit now, periodic sync | writers and commits on the same files |
| MCP server, HTTP API (`internal/mcp`, `internal/api`, `internal/server`) | sessions | some two hundred requests | they call the parts above |
| Projects, access, authentication (`internal/projects`, `authz`, `auth`, `webauth`, `oauth`, `ldap`, `ratelimit`) | files of grants, tokens, sessions | grant, check, rotate | whole-file stores under one lock |
| Plugins, chatbot, trash, quotas, audit, marks, mirror | one file or table each | | sequential |
| Parser, views, lint, diagrams, i18n, config, commands | none | pure functions | sequential |

Who calls whom: requests, triggers, automations and the chat call
`Engine.Start` or `Runner.Submit`; the runner's workers call back
`Executor.Step`, `advance` calls `Executor.Next` under the run's lock, and
`ended` calls `Executor.Ended` outside it, from where the engine resumes a
parent run, stops children, starts the pipelines on that end and gives tasks
back: each of them a new call of the runner. Workers and agents' calls of
plugins share the gate.

### What must be true of each part

- **Job queue**: a step is never run twice at once; a node starts only when all
  it waits for ended, and well; an end is never overwritten; a run that ends
  leaves nothing open; its end is told once; a run not ended always has
  something that will move it; a crash loses nothing.
- **Gate**: the count is the count, and within its limit; no place is lost.
- **Engine**: `Next` leaves no node it could have decided; a category's limits
  hold; a replaced run had not started.
- **pipeline.run**: one child per element; the parent goes on after its child
  and only then; a parent that ended leaves no child running.
- **Task trigger**: one run holds a task; every task held is given back.
- **Automations**: an action that is due happens once; what failed fires again.
- **Vault, index**: a write loses no write before it; a search finds what was
  last written.
- **Events**: a waiter that is not told to resync missed nothing.
- **IN folder**: a file is hashed as it is, told to the pipelines once, and
  working only for a run that has it or that somebody gave it to.

## What is modelled

| Module | Models | Role |
|---|---|---|
| `PipelineNext` | `Engine.decide`, the outcome of `Engine.Next`, `Runner.derive`, the closing of an ended run's steps | constant-level operators over a graph of steps, used by the two modules below |
| `JobRunner` | `Store` and `Runner` with the engine as executor | the core: one action per transaction or critical section of each goroutine |
| `RunLifecycle` | nothing: the promise | the abstract specification `JobRunner` implements |
| `NextPasses` | the passes of `Engine.Next` | the loop of the code reaches what `PipelineNext!NextSteps` allows |
| `Automation` | the engine of the databases' rules, its state file, and its runs on the job queue | composes the rules with the promise of the queue, `RunLifecycle` |
| `PipelineRun` | `pipeline.run` | a parent run and its children, which share nothing but rows |
| `TaskTrigger` | the task trigger, the task notes of `internal/fleet`, the claims of outside agents | who holds a task, against the runs, persons and crashes |
| `NoteWrite` | the write tools, the path locks, the load cache, the watcher and the boot scan | files and the copy of them the index keeps |
| `Events` | the events hub and `memory_wait_changes` | a ring, channels and cursors |
| `InFolder` | the scan of an IN folder and the runs its files start | the disk, the rows and the runs, which nobody locks together |
| `MC...` | values of the constants for TLC | |
| `JobRunner_proofs`, `Automation_proofs`, `PipelineRun_proofs`, `TaskTrigger_proofs`, `NoteWrite_proofs`, `InFolder_proofs`, `NextPasses_proofs`, `Events_proofs` | | theorems |

`Automation` builds on the promise of the queue (`RunLifecycle`) and `JobRunner`
is proved to keep it. `PipelineRun`, `TaskTrigger` and `InFolder` need less of
the queue: that runs start, end, and are told to have ended, in the order
`JobRunner` gives these; they keep of a run its status only.

### JobRunner

`run`, `step`, `attempt` and `again` are the jobs database; the rest is memory
and is lost by `Crash`. A thread is a worker's goroutine (both lanes), the loop
of `Runner.Start`, or the goroutine of a request. `pc` says where in the code it
is, and the actions follow the code's own boundaries:

| Code | Actions |
|---|---|
| `Submit`, `EndWait`, `RunAgain`, `CancelFor` | `Submit`, `EndWait`, `RunAgain`, `Cancel`, each up to the end of its own transaction |
| `advance` | `AdvanceRead` (lock, read the rows), `AdvanceWrite` (decide, apply, unlock), `AdvanceNothing` (the run had ended) |
| `ended` | `TellEnded` |
| `expireWaits` | `ExpireRead` (no lock), `ExpireApply` (one wait, under its run's lock), `ExpireDone` |
| `claim` and the launch | `Claim`; it takes places of the gate and ignores the run's lock |
| `runStep` | `Begin` (register the cancel function), `StepEnds` (the executor answered), `Save` (apply), `Release` |
| `recoverRunning`, `Prune`, the end of the context | `Recover`, `Prune`, `Stop` |
| `main`: `startRunner`, then `Register` | `Register`; until then a worker finds no executor (`Orphan`, `FailOrphan`) and `advance` returns an error |
| an agent's call of a plugin | `PluginTake`, `PluginRelease` |

`advance` is split between its reading and its writing because the claim takes
`Store.mu` only, and may fall between them; everything else that changes a run
takes its lock, which `lock` models. The lock is one per run here, while
`forgetRun` drops the mutex of a run that ended and a later caller makes a new
one: such a caller finds the run ended and writes nothing. Time is left out: a
retry may be claimed at any later moment and a wait may expire at any moment.
A condition of a node is any outcome its expression may have. `Outcomes` is what
`Engine.Step` may answer: an error is retried while tries are left or fails at
once, and a node may wait when its type can.

Requests come in once the executors are registered: they go through the engine.
All kinds of run have one executor here, while the code registers the
automations' and the pipelines' at different moments of the start-up.

Left out: the order in which queued steps are claimed, idempotency keys,
priorities and lanes (a lane is a bound on who takes what), the errors of the
database, the limits of the gate changing while it runs.

### Automation

`fired` and `pending` are the engine's memory, `saved` the state file; `phase`,
`part` and `keys` are the rows of the actions' runs in the jobs database. The
runs move as `RunLifecycle` lets them, with one step and no dependencies: the
module composes with the promise of the queue, not with its threads.

| Code | Actions |
|---|---|
| `Tick` | `TickStarts` (takes `Engine.mu`, `reconcile`), `Fire` or `FireNothing` for each rule, `TickEnds` (`save`) |
| `fire`, `queue` | `Fire`: the run is submitted and its keys marked pending |
| `Next`, `Step` under the runner | `Advance`, `StepEnds` |
| a cancel by a person or a tool, the retention | `Cancel`, `Prune` |
| `Ended`, a goroutine that waits for `Engine.mu` | `Ended`, which may come at any later moment out of a tick, or be lost |
| `Await` | `Await` |
| `settle` | `Settled`, in `TickStarts`, `Ended` and `Await` |
| `save`, which may fail | `Save` |
| the process dies; `New` reads the file | `Crash` |

A tick is split by rule since the runs go on while it holds the engine; its
`Submit` and its marks are one action, as nothing that reads the marks runs
before the tick lets the engine go, and a crash between the two loses no more
than one after both. Time is the set of the keys whose moment came. `lost` is a
history variable: the keys whose action the state file did not know of when the
server crashed.

Left out: that a rule with `every` looks at its last slot only, the forgetting
of rules and firings after 400 days, the log and the errors kept on a rule, and
the engine without a runner. An action is done when its step is: that a step's
work itself may be done twice, after a crash or a cancel that its context does
not stop, is the queue's to promise, and it does not.

### PipelineRun

One parent run whose nodes are all of type `pipeline.run` and wait for nothing
else; `child` has the row of the run each element starts, which its idempotency
key makes one per element. A child's end is one transaction and its telling
another (`told`), in a goroutine when it comes before its parent waits.

| Code | Actions |
|---|---|
| `claim`, `roomForChild`, the start and the wait, the worker's write | `Claim`, `Room`, `StartChild`, `Save` |
| the rows of a child, which waits and goes on | `ChildMoves` |
| its end; `endedChild` with `EndWait`, `RunAgain` and its tries | `ChildEnds`; `Resume` |
| `expireWaits` on the parent's step | `Expire` |
| `advance` of the parent, `CancelFor` | `Advance`, `Cancel` |
| `stopChildren`: a read per status, again and again while it cancels | `StopRead`, `StopOne`, `StopNext` |
| the process dies; `recoverRunning` | `Crash` |

The goroutine that tries a resume again gives up after two minutes; the model's
goes on. The depth of a chain of runs, and what inputs and outputs hold, are left
out.

### TaskTrigger

`task` has the notes, `run` the jobs database, `tick` where the task loop is. Every
change of a note is one `UpdateTask` under its lock, made from the note as it is
then, so it is one action; between the loop's reading of a task and its taking it,
and between the taking and the start of the run, anybody may come.

| Code | Actions |
|---|---|
| `tickProject` | `Find`, `FindGone`, `LeaseEnded` |
| `startTask`: take the task, start under its key, hand over, undo | `Take`; `StartNew`, `StartFound`, `StartOwn`, `StartFails`; `Hand`; `Undo` |
| `askPerson` | `AskPerson` |
| `giveBack`, by the tick and by the callback of a run's end | `Release`; `ToldReads`, `ToldGives` |
| `memory_task_*`: create, move, complete, claim, heartbeat | `Split`, `Move`, `Complete`, `Claim`, `Heartbeat` |
| a lease's time, a person's edit, the process | `LeaseRunsOut`, `Person`, `Crash` |

Left out: dependencies between tasks, budgets and costs, the choice of team, role
and pipeline, the cards of a board. A run that was canceled gives its task back as
one that completed does, so `Endings` may leave it out.

`heard` is a history variable: the states of the sub-tasks the coordinator, or a
person, was last called for, which the code keeps a digest of only. The digest has
no memory: states it was called for do not call again when they come back.
`ObjectiveGoesOn` is about the others, those the coordinator has not heard of.

### NoteWrite

`disk` is the truth, `index` the search copy, `cache` the load cache. Every write
has a stamp of its own, which stands for mtime and size.

| Code | Actions |
|---|---|
| a read through the cache | `Peek`, `Put` |
| `writeNote` and its callers: ask, lock in order, check mode and etag, save, index, answer | `Ask`, `Lock`, `Check`, `Save` or `RemoveFile`, `Unindex`, `Reload`, `Index`, `Done` |
| the watcher: debounce, queue, `next`, `handle` | `Fire`; `Wake`, `Pop`; `Compare`, `Settle` |
| `Vault.Scan` at boot, the watch, the process | `Scan`, `StartWatch`, `Crash` |
| an editor outside | `Edit` |

`doubt` is a history variable: the notes of which the index cannot be sure, since
two workers handled them at once, a call indexed what it had read before, or an edit
came between the scan and the watch. Left out: events the system drops when too many
come (the code logs it), the rewriting of the links of notes that refer to a renamed
one, attachments and folders, and what is published after a write (`Events`).

### Events

| Code | Actions |
|---|---|
| `Hub.Publish`, under its lock, one step per subscriber and per try | `Number`, `Keep`, `Open`, `Deliver`, `Evict`, `Again`, `Published` |
| `memory_wait_changes` | `Call`, `Subscribe`, `Replay` (`ReplaySince`, a copy of the ring), `Sift` and `Sifted` (the loop over it), `Receive`, `Drain`, `GiveUp`, `Ended`, `Leave`, `Answer` |
| an answer that never reaches the caller | `LoseAnswer` |
| `Hub.Close`, a new process | `Close`, `Restart` |

The call looks at its copy of the ring while writers go on, and the cursor of an answer
that says resync is the hub's count of when it is done with that, not of the copy. The
stream of the web UI, a subscriber that replays nothing, is not part of it.

### InFolder

One first-level folder of local files. `disk` and `content` belong to whoever writes
files; `row`, `open` are in.db; `runs` the jobs database; `lock` the project's lock.

| Code | Actions |
|---|---|
| `reconcile`: the walk, then the rows, under the lock | `Walk`, `Reconcile` |
| `hash`: the list, then per file a read without the lock, a look at file and row, the write | `HashList`, `HashRead`, `HashStore` |
| `closeBatches`, by the scan and by the sources; `INBatch`, `startIN` | `NotYet`, `Close`; `StartRun`, `StartFails`, `Mark`, `SinkDone` |
| the end of a run and `Store.RunEnded` | `RunEnds`, `RunEnded` |
| `Move`, `Remove`, the status of `in.move`, `SetStatus` | `MoveFile`, `MoveRow`, `MoveStatus`; `RemoveFile`, `Removed`; `SetStatus` |
| `StartINFiles`, of a pipeline that takes its files or leaves them | `StartByHand`, `MarkByHand` |
| files written and deleted from outside, the process | `Write`, `Delete`, `Crash` |

A person, or a node with `in.move`, may set any status, `working` included
(`ValidStatus`), and a node may do so after the end of its run was told: the step of a
canceled run goes on until its executor returns. `Acting` has every run but those lost
in a crash, more than may have a step under way. A set without a run keeps the one the
row had. A pipeline with `take: false` starts runs that mark no file (`Leaves`). A file
may be there and not be readable: a write without content. It stays so until it is
written anew; errors that come and go are left out, as the next scan reads the file
again. A scan closes the batches from where it has no more to hash (`AtClose`).

`done` stands for `error` as well, the order in which a batch's runs start is free,
and an error of the engine, a pipeline that is off, or one that cannot start are
`StartFails`. The histories name what the properties leave out: `lost`, versions a
crash or a failed start took from the engine; `torn`, a move a crash cut in two;
`given`, versions a person, a node or a start by hand set working, with the run they
work for then; `late`, versions set working, by anyone, for a run whose end was told;
`back`, versions moved away from their path and back while another file was read there.
Left out: the files of sources, uploads and unzipping, folders moved whole, a project's
rename, and a rename from outside that keeps the stamp. One mover at a time is at work,
from the disk to the status, while the code has let the lock go by the status: of
several moves by nodes, one status at a time is still to be set (`SetStatus` of other
nodes and persons comes in between).

## What the runs check

| Run | Instance | Question |
|---|---|---|
| `job_runner` | one run of three nodes (`c` after `a` and `b`; `b` continues on error, `c` has a condition, `a` may wait and be run again), two workers, the loop, one caller, two resources with limits 1 and 2, two tries, one crash | every safety property of the runner, and that it implements `RunLifecycle` |
| `job_runner_live` | the same pipeline, no crash, under fairness | every run ends, and its end is told |
| `next_passes` | all acyclic graphs of three nodes, all choices of conditions and `on_error`, all eight statuses of a step, as a run under way can have them | the loop of `Next` reaches an outcome `PipelineNext` allows, and leaves a run something to do |
| `automation` | two rules, one row, three runs, two crashes, saves that fail, under fairness | an action happens once; what is fired was done; what is done or under way is on record; no key waits for ever for a run that is over |
| `pipeline_run` | an `each` of three that waits and a node with one child, two tries, room for two children, one crash, under fairness | order, outcome, number and stopping of the children; the parent goes on |
| `task_trigger` | an objective and a sub-task, two attempts, one round, two runs, two troubles, under fairness | tries are bounded, one run is at work, what is closed stays so, holds end, the objective goes on when its coordinator has not heard of what calls it |
| `note_write` | two notes, two clients who replace, delete and rename, two workers, three of the calls, edits and crashes | no lost update, an index that follows, no lost wake-up, no circle of locks |
| `events` | two writers, a caller, a channel of one event, a ring of two, a lost answer, a restart, under fairness | nothing is missed or told twice, no wait sleeps through a change or a shutdown |
| `in_folder` | two paths, two writes, one deed, one trouble, one of them of a file that cannot be read; a project with runs per file, one with a run per batch, one whose runs leave their files; `working` set by hand; under fairness | hashes, working files, what is told to the engine and when it ends, and that every file is taken |
| `job_runner_restart` | one node, one crash | expected violation of `FailsByItsExecutor` |
| `events_restart` | one writer, one caller, one restart | expected violation of `NewHubIsNoticed` |
| `task_trigger_crash` | one task, one run, one crash, under fairness | expected violation of `GoneHoldersRelease` |

That the variables of `JobRunner`, `Automation` and `PipelineRun` keep their types is
proved for every value of the constants, and not checked again by TLC. Every other
invariant and action property of a run is checked by TLC and proved as well.

### The bounds

Runs share nothing but workers, the loop and the gate, and the properties of
`JobRunner` are about one run each, so one run with a join shows the interleavings of
its steps; two workers run both branches of the join at once, and with the loop and a
caller three threads can want the same lock. One crash reaches every state a second
one would start from. `MaxAgain` and `MaxCrashes` are the only bounds of counters,
`Tries` is a setting of the code.

In `Automation` three runs are a first one, a second that takes its keys over, and a
third for what is left; the rule without a row shows what a tick's second rule sees of
its first. In `PipelineRun` an `each` of three has a first, a middle and a last
element, the second node is what the room is shared with. In `TaskTrigger` a coordinator
needs one sub-task to be called for, two runs to be at work at once, and a trouble
(`MaxTroubles`) is a failed start, an agent's claim, a person's edit or a crash, any two
of them. A digest that comes back needs more: an objective called for a failed sub-task,
a person who sends that again, and a run that fails it again. `ObjectiveGoesOn` was
checked there too, with three runs, three troubles, no agent and runs that fail
(3.9 million states), and the rest with three runs and one trouble (three million). In
`NoteWrite` two notes are what a rename locks, and `MaxMoves` three is a write, an
edit and what interrupts them; its clients replace, delete and rename, so that a call
writes a file, takes one away or moves one, while create and append, which differ in
the mode checked and in what is kept of the text, would make the run too long and are
left to the proofs, which cover all five. In `Events` a channel of one event and a ring of two
are full with the fewest events. In `InFolder` two paths are a file and where it moves
to, the second write may have the content of the first, and the first may be one nobody
can read. `working` is the status by hand that matters: the others only end a row's
work. Safety was also checked with two deeds and a trouble for runs per file (8.2 million
states), with both pipelines at once, with a trouble and two contents (9.3 million) or with
no trouble and contents that may be equal (3.3 million), and with three deeds and no
pipelines: this last is what `back` comes from.

`CHECK_DEADLOCK FALSE` is set where the system may stop: all calls made, all tasks
closed, the parent and its children ended.

### Fairness

It is weak, and for the server's goroutines only. In `JobRunner` a worker's step ends
at the latest with its lease (`context.WithDeadline` in `runStep`), an agent's call of a
plugin with its timeout, every wait has a time after which it expires, and the loop
looks at the queue at every poll. In `Automation` `Start` calls the tick at every
interval and it goes through its rules to the end; no run is obliged to end, nor the
goroutine of `Ended` to get the engine before the next tick. In `PipelineRun` workers
and resumes go on; no child is obliged to end and no wait to expire. In `Events` a
publish and a call run on and a caller asks again; timers are not relied on, nor is
anyone obliged to publish. In `TaskTrigger` the tick ends what it began and callbacks
run on, and a pass finds a hold or an objective that stays to be found. In `InFolder` the scan goes on at
its ticker and holders of the lock give it back; that the scan closes a batch is
strong, for a folder left alone gets quiet at some of its looks. Nobody is obliged to
write, move, call, renew a lease, or end a run, and the server is not obliged to crash.

## Findings

The three violations, and what the models made visible besides:

- `FailsByItsExecutor` (`job_runner_restart`): the loop starts before the executors are
  registered, so that a step taken back after a restart may be claimed first, and
  failed for want of an executor; its run is not advanced either, and stays as it is.
  An automation's key then waits for it until somebody cancels the run. The docs
  promise such a run is "taken up again after a restart" (`docs/vault/databases.md:301`).
- `NewHubIsNoticed` (`events_restart`): a cursor of an earlier process is noticed only
  while it is greater than the new count; after that it is taken for one of this hub.
- `GoneHoldersRelease` (`task_trigger_crash`): a crash between taking a task and
  storing its run leaves it held by a run nobody can find.
- A run stored, or a step ended, and not advanced when the process dies is advanced by
  nobody after the restart (`jobs/runner.go:185`). `RunsEnd` is checked without a crash.
- A cancel between the claim of a step and the registration of its cancel function does
  not reach it: it runs to its end (`jobs/runner.go:542`), while "the running ones see
  their context end" (`runner.go:267`).
- A wait read as expired and then resumed with `RunAgain` is failed while queued or
  running (`jobs/runner.go:513`).
- A cursor that fell out of the ring of a new hub is answered with itself and resync,
  again and again, until the count has passed it (`mcp/tools_wait.go:149`), while
  `docs/mcp/patterns.md:198` has the caller reconcile once "then resume".
- A child started while its parent was being canceled is stopped by nobody
  (`pipeline/pipelinerun.go:303`): "A run that ends, is canceled or fails while it waits
  (its wait expired) cancels the run it waited for" (`docs/pipelines.md:952`). `late` in
  `ChildrenStopped`.
- Two workers of the watcher may handle one note at once, and the older reading be
  indexed last (`vault/watcher.go:144`), where "the watcher picks up the change and
  reindexes" (`docs/vault/format.md:14`). `doubt` in `SettledIndex`.
- A run that ended before its files were marked leaves them working for ever
  (`pipeline/innodes.go:156`): "then `done` or `error` as the run ends"
  (`docs/pipelines.md:138`). So does a `working` set for a run that was told to have
  ended: by a person, whose status keeps the row's run (`infolder/service.go:580`), or by
  a step of a canceled run (`innodes.go:255`). `late` in `SettledOnceTold`.
- A start by hand marks its file by path and without the lock (`innodes.go:321`): one
  that changed in between is working for a run that was asked for another version, and
  is not started again. `given` in `WorkingForItsRun`.
- A file that is there and cannot be read never has a hash ("gone or unreadable: the
  next scan sees it", `infolder/service.go:352`), and a batch with a file to hash does
  not close (line 424): none of the files of its folder is asked of a run until it is
  readable or gone. Files that join later join the same batch. `Blocked` in
  `EveryFileIsTaken`.
- The coordinator "runs once for each" digest of its sub-tasks
  (`pipeline/tasktrigger.go:454`), which is compared with the last one only (line 363): a
  sub-task a person sends again that fails again, with no call in between, is the digest
  of before, and the objective stays working in nobody's hands until a person looks.
  A start that stored its run and failed drops the digest only while the task is still
  its own: when that run ends and gives the objective back first, the digest stays, and
  the round is spent. `heard` in `ObjectiveGoesOn`.
- A version moved away and back while the scan read another file at its path keeps that
  file's hash: stamps are compared before and after, not during
  (`infolder/service.go:355`), where "A file that changed while it was read keeps none"
  (line 328). `back` in `HashOfVersion`.
- A start under a key of its own that fails with its run stored may give a task a second
  run, and a failed start reopens a task closed meanwhile (`loose` and `tick.at # "undo"`
  in the properties of `TaskTrigger`).

None of them breaks a safety property beyond what the property names as its exception:
each is in the model of the passing run as well.

## What is proved

`JobRunner_proofs` proves, for every finite acyclic pipeline and any runs, workers,
callers, resources, limits, tries and crashes (the named `ASSUME`s of `JobRunner`
are all that is assumed):

| Theorem | Property |
|---|---|
| `TypeCorrect` | `TypeOK` |
| `StepsRunOnce` | `SingleExecution` |
| `NodesWaitForTheirOwn` | `DependenciesHold` |
| `EndedRunsStayClosed` | `EndedRunsAreClosed` |
| `RunsEndForTheirSteps` | `EndsForItsSteps` |
| `EndsStayFinal` | `EndsAreFinal` |
| `EndsAreToldOnce` | `ToldOnce` |
| `GateCounts` | `GateIsExact` |
| `RunnerImplementsLifecycle` | `LifecycleSpec`, the refinement |

The argument. `TypeOK` is inductive with `WorkInv`, which says where each kind of
thread may stand. `LockInv` ties the lock to the thread inside `advance`, and
`ViewInv` says that what that thread read is still what the rows say, except for
queued steps a worker claimed or a new process took back. `SingleExecution` is
inductive on top of these two: the only way to put a running step back in the
queue would be an `advance` writing "queued" over it, and `ViewInv` rules it out.
`ExpiredInv` says the waits the loop still has to end are never pending steps,
and `RowsInv` collects what the rows of a run say together: dependencies, closed
ends, and that a step is canceled in a live run only below something that ended
badly, without which "failed" could be a run whose nodes were only canceled.
The one place where the pipeline matters is the lemma that some pending node of
an acyclic graph can always be decided, so that `derive`'s "it could not start"
never happens. `ToldInv` follows the thread that is about to tell an end. The
refinement uses these invariants: every action moves a run as `RunLifecycle`
allows or leaves it as it was.

`Automation_proofs` proves, for any rules, keys, runs and number of crashes:

| Theorem | Property |
|---|---|
| `RulesTyped` | `TypeOK` |
| `ActsOnce` | `OneAction` |
| `ActionsOnRecord` | `OnRecord` |
| `FiredOnlyWhenDone` | `FiredWasDone` |

`OneAction` is not inductive alone: that a key is due says nothing of the runs
that have it. With `OnRecord` it is: a run that acts has its keys fired or
pending for itself, so a key that is neither has no such run, unless it is lost.
`OnRecord` needs `Mine`, that an end told late finds its keys waiting for a later
run and leaves them, and `UntoldInv`, that only ends are told. `FiredWasDone`
needs `PartInv`, that a run is done only with its step.

`PipelineRun_proofs` proves, for any nodes, elements, tries, limits and crashes:

| Theorem | Property |
|---|---|
| `ChildrenTyped` | `TypeOK` |
| `ElementsInOrder` | `OneAfterAnother` |
| `NodesEndAsTheirChildren` | `OutcomeOfChildren` |
| `StoppedParentsStopChildren` | `ChildrenStopped` |
| `ChildrenAreBounded` | `ChildrenBounded` |

The order needs where a node's worker is: the elements before the one it is at are done,
and no later one has started. The bound is a count: the children started and the nodes
that counted and have not started yet are together at most `MaxChildren` and one less
than the nodes; it is the one place where finite sets matter. The stop needs what each
page of `stopChildren` has left behind it.

`TaskTrigger_proofs` proves, for any sub-tasks, agents, limits, ids and troubles:

| Theorem | Property |
|---|---|
| `TasksTyped` | `TypeOK` |
| `TriesAreBounded` | `AttemptsBounded` |
| `WorkIsNotDoubled` | `OneRunAtWork` |
| `ClosedIsClosed` | `ClosedStaysClosed` |

`AttemptsBounded` needs that a task is submitted only with a try left, and that a start
under way was counted within the limit. `OneRunAtWork` is far from inductive: a start that
fails after it stored its run gives the task back, and nobody holds it while its run
works. `Where` lists the places of a task that has a run at work: held by it, done with,
given back to be taken under the same key, taken again under it, or held by an id that
will have no run. From each of them a start either cannot take the task or finds the
run by its key, which no other run has (`KeyInv`); `FreshInv` says that the id of a run
to come is nobody's yet, and `TakenInv` that nobody changes a task between its being
taken and its start. `TypeOK` says how far the counts of a task may go, which no
limit of the code does alone: of the attempts counted, all but `troubles` have a run
under a key of their number or are under way (`PaidInv`), keys of one task differ, and
there are only so many runs; rounds are looked at before they are counted (`RoundsInv`).

`NoteWrite_proofs` proves, for any notes, callers, workers and bounds:

| Theorem | Property |
|---|---|
| `WritesLoseNothing` | `NoLostUpdate` |
| `NoDeadlockOfLocks` | `CallsGoOn` |
| `TokenIsEnough` | `QueueIsServed` |
| `IndexFollowsFiles` | `SettledIndex` |
| `NotesTyped` | `TypeOK` |

`NoLostUpdate` needs `LockInv`, that a call past its locks holds them and nobody else
does, and `FileInv`, that two copies of a file with the same stamp, on disk, in the cache
or in the hands of a call, are the same: without it an etag, which is a stamp here, would say
nothing of the text. `CallsGoOn` is the argument of ordered locks: were all calls waiting, the
one that waits for the greatest note would wait for a call that waits for a greater
one. `QueueIsServed` is inductive with where a worker is.

`SettledIndex` speaks of notes at rest, and says nothing of how they get there. `SureInv`
does: of a note with no event to come and no doubt, a worker that has it has read it as it
is and is the only one (`HandsInv`), a call about to index it has read it as it is, one
about to drop its row has removed it (`CallsInv`), and with neither a worker nor a call
still to write it the row is that of the note (`RowInv`). It needs the locks: while the
watch is not on, a save leaves no event, and what makes its note known again is that the
call that saved it is the only one to have it. It needs that the watch is at work only
while it is on, and that a file that is there holds some write: a row whose text is the
file's is then not gone, and refreshing its stamp makes it the file (`PlaceInv`).

`TypeOK` bounds stamps and the watcher's queue. A stamp is left for every call that is
still to write and for every call and edit to come (`StampsInv`): a call writes once,
whatever it waits for, and a crash only lets stamps go unused. No path is queued twice
(`WatchInv`), so the queue is a one-to-one map into the notes and no longer than they.

`InFolder_proofs` proves, for any paths, contents, writes, pipelines and bounds:

| Theorem | Property |
|---|---|
| `FolderTyped` | `TypeOK` |
| `HashesAreOfVersions` | `HashOfVersion` |
| `WorkWasAsked` | `WorkingForItsRun` |
| `VersionsAreToldOnce` | `ToldOnce` |
| `EndsSettle` | `SettledOnceTold` |

Everything is tied by the stamp of a write: `StampInv` says that one file, one row and one
look of the walk have it at most. `HashOfVersion` needs it of what the scan has read and
not stored as well (`HashInv`), and `TodoInv`, that what is still to hash has no hash
wherever it was moved. `WorkingForItsRun` needs `SinkInv`, that the rows of a batch stay as
they were while it is told: no walk, move or removal gets the lock, and a hash stored
meanwhile is of a row outside the batch. `ToldOnce` looks local and is not: a batch tells of
a version again when its row was lost or taken for new. `ToldInv` says why it is not: the
row of a file is where the file is, or where a move under way took it from (`AtHome`,
`ToldHome`), and what the walk did not see as it is, or was moved over, is new to everybody
(`WalkFresh`, `LeftFresh`). `WorkingForItsRun` and `SettledOnceTold` hold for any statuses
set by hand: what is set so is in `given`, and, once the run's end was told, in `late`
(`GivenRows`); the engine's own marks are of files their run was asked for.

`TypeOK` is inductive with `NameInv`, that whatever is named anywhere is a run of a
batch closed before or of a start by hand there was, and `TellInv`, that a batch is
told while who closed it is at it, and then only.

`NextPasses_proofs` proves, for pipelines of any number of nodes:

| Theorem | Property |
|---|---|
| `PassesEndInNext` | `PassesAgree` |
| `NextLeavesWork` | `NothingLeftBehind` |

What a pass decided stays what the statuses make of the node, though later decisions
change these (`AgreeInv`): a node is decided once all it waits for ended, and ends stay.
A pass that released no node has decided each node with the statuses that stay
(`PassInv`). That `N + 1` passes get there is a count: each pass before the last
released a node at least, and there are `N` (`CountInv`). `NextLeavesWork` then needs
that the graph is acyclic: of the nodes left pending one waits for none of the others, and
would have been decided.

`Events_proofs` proves, for any writers, callers, room of ring and channels, events,
lost answers and restarts:

| Theorem | Property |
|---|---|
| `EventsTyped` | `TypeOK` |
| `NothingIsMissed` | `MissedNothing` |
| `ToldInOrderOnce` | `InOrderOnce` |

`MissedNothing` speaks of a caller between its calls and says nothing of a call. What
makes it inductive is where an event is that a call has not told of: up to `last` it is
in `out` or was dropped (`ToldInv`); after `last` it is in the call's copy of the ring,
in its channel, was dropped, or is the one under way to it, and nothing that comes
before it in copy or channel is left out (`NextInv`). This needs that one writer
publishes at a time (`WriterInv`), that the ring holds consecutive numbers up to the
last one kept (`RingInv`), and that channels, copy and answer are in order (`ChanInv`,
`OutInv`).

The named `ASSUME`s of the modules are all these proofs assume.

Only model-checked: liveness (`RunsEnd`, `PendingSettles`, `ParentGoesOn`, `HoldsEnd`,
`ObjectiveGoesOn`, `CloseEndsWaits`, `EveryChangeIsTold`, `EveryFileIsTaken`), which is
out of this prover's reach. Every invariant, every action property of a passing run and
the refinement of `RunLifecycle` have a theorem.

## The plan

Done: `JobRunner`, `Automation`, `PipelineRun`, `TaskTrigger`, `NoteWrite`, `InFolder`,
`NextPasses` and `Events`, each with its proofs.

What would come next: the order of the claims (`pickInOrder`, `pickFair`, the lanes) and
the starts within a category (`max_runs`, `replace`, idempotency keys) as one module over
several runs; the files of sources and uploads in `InFolder`.

## Not modelled

Parsing, rendering, views, lint and configuration are pure functions over text.
Git sync keeps its state in git, the stores of grants, trash, quotas, audit and
marks are single files under one mutex each. The MCP and HTTP layers call the
parts above; what they validate is not about ordering. The reasons are beside
each component in `PROJECT.json`. Everywhere left out: the errors of the databases
(the code logs them and tries again at the next pass), and the configuration
changing while the server runs.
