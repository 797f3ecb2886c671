# A verification of shob's session core

This directory holds TLA+ models of the part of shob that decides *when* a
session runs, *what* its model gets to see and *what* its observers get to see:
the V2 session core in `src/packages/core` (and its replication between
workspaces in `src/packages/shob`), with the services its drains run on: the tool journal, the
privileged context, permissions, background jobs and the lock between processes.
The models are written from the code, file by file; `PROJECT.json` maps every
definition to the lines it stands for. TLC checks them on small instances, and
TLAPS proves the safety of eight of them for all instances.

## 1. Inventory

### Components, their state, operations and what makes them correct

| Component | Code (`src/packages/…`) | State | Operations | Correct when | Module |
|---|---|---|---|---|---|
| Run coordinator | `core/src/session/run-coordinator.ts` | `active: Map<Key, Entry>`, entry (`owner`, `pendingWake`, `stopping`, `done`), fibers | `run`, `wake`, `interrupt`, `start`, `settle` | one drain per session, no wake lost, no waiter abandoned, success only when all is drained | `RunCoordinator` |
| Session execution | `core/src/session/execution.ts`, `execution/local.ts` | what the coordinator keeps, seen from outside | `resume`, `wake`, `interrupt` | a serial execution per session which serves every wake | `Execution` |
| Durable inbox | `core/src/session/input.ts` | rows of `session_input` | `admit`, `hasPending`, `promoteSteers`, `promoteNextQueued`, two projections | one receipt per message ID, promotion once and in order | `SessionCore` |
| Session API | `core/src/session.ts`, `session/revert.ts` | `session` row, staged revert | `prompt`, `resume`, `interrupt`, `revert.stage/clear/commit`, `events` | a woken prompt is answered; a revert leaves history and inbox consistent | `SessionCore`, `EventStream` |
| Session runner | `core/src/session/runner/llm.ts` | point of control of a drain and what it has read; a turn's stream, tool fibers and their failure | `run`, `runTurn`, `runTurnAttempt`, `failInterruptedTools` | queued input waits, a wake calls the provider with input only; a turn is settled whatever interrupts it | `SessionCore`, `ProviderTurn` |
| Session projector | `core/src/session/projector.ts` | `session_message`, `session_input`, `session` | one projection per event | projections agree after every transaction | `SessionCore` |
| Durable event log, tails | `core/src/event.ts` | `event`, `event_sequence`, wake signals, live subscriptions | `publish`, `publishBatch`, `replay`, `durable`, `claim`, `remove` | no gap, no repetition, no missed commit | `EventTail`, `EventStream`, `SessionSync` |
| Workspace sync and warp | `shob/src/control-plane/workspace.ts`, `…/handlers/sync.ts` | logs, owners and locations of a session on host and workspaces | `syncHistory`, sync loop, `sessionWarp`, `replay`, `steal` | one writer, replicas agree, old owners fenced off, a session arrives with its history | `SessionSync` |
| Tool event journal | `core/src/session/tool-journal.ts` | buffer, flush timer, the database's line | `append`, `flush`, timer, `drain` | stored in the order of appending; a call runs, and counts as settled, only when that is stored; progress does not stay in the buffer | `ToolEventJournal` |
| Turn settlement | `core/src/session/runner/publish-llm-event.ts`, `session/message-updater.ts`, `tool/registry.ts` | the publisher's map of calls; open text and reasoning; projected tool states | provider events, tool results, `failUnsettledTools` | a call runs after it is recorded and is settled once, by its result if it has one | `ProviderTurn` |
| Context epoch | `core/src/system-context`, `session/context-epoch.ts`, `session/history.ts` | row of `session_context_epoch`, rows of the history | `initialize`, `prepare`, `reset` | what is stored as told is what the history tells; the baseline stays while it can | `ContextEpoch` |
| Session move | `core/src/control-plane/move-session.ts` | `session.location` | `moveSession` | a drain of the old location does not tell the new one's context | `ContextEpoch` (the event) |
| Permission requests | `core/src/permission.ts`, `permission/saved.ts` | pending requests with their deferreds, saved rules | `assert`, `ask`, `reply` | answered once; a reply reaches every request it stands for; nobody waits for an answer that came | `Permission` |
| Question requests | `core/src/question.ts` | pending questions | `ask`, `reply`, `reject` | answered once | not modelled: `Permission` without its cascades |
| Background jobs | `core/src/background-job.ts` | jobs, their scopes, runs and extensions | `start`, `extend`, `settle`, `cancel`, `promote`, `wait` | a job settles once, whole, in the order of its runs | `BackgroundJob` |
| Lock between processes | `core/src/util/effect-flock.ts` | lock directory with heartbeat and metadata, breaker directory | acquire, break, release | one holder; a lock left behind is broken | `FileLock` |
| Other locks | `core/src/util/flock.ts`, `effect/keyed-mutex.ts` | the same with promises; a map of semaphores | acquire, release | one holder per key | not modelled: the same protocol; a wrapper of a semaphore |
| V1 engine | `shob/src/session`, `shob/src/effect/runner.ts` | runner state per session | `ensureRunning`, `shell`, `cancel` | one run per session | not modelled: what the V2 core replaces |
| Configuration, catalog, integrations, plugins | `core/src/*.ts` | loaded values | load, merge | | not modelled: little shared state |
| Git, snapshot, files, processes, PTY, tools | `core/src/*.ts`, `core/src/tool` | outside the process | commands | | not modelled: wrappers of external programs |
| LLM adapters, protocol, schema, SDK | `llm`, `protocol`, `schema`, `sdk` | none | translation | | not modelled: parsing and generated code |
| HTTP server, CLI, user interfaces | `server`, `app`, `desktop`, `tui`, `ui`, `session-ui` | presentation | | | not modelled |

### How they interact

A client calls the session API. `prompt` appends `PromptAdmitted` to the
session's durable log; the event's projection writes the inbox row in the same
transaction. It then *wakes* the execution. The run coordinator keeps at most one
drain per session; a drain is `SessionRunner.run`, which reads the inbox,
*promotes* rows by publishing `Prompted` (whose projection marks the row and
inserts the visible message), assembles the request from the visible history and
calls the provider. While the provider streams, every event is published by one
fiber and every local tool call is executed by a fiber of its own, which publishes
its result; both share the publisher's map of calls and one permit. What tools publish
goes through the turn's *journal*, which stores transitions at once and buffers progress. The turn ends by
settling what is left, and the next drain settles what a crash left. Reverts delete messages and inbox rows by a projection of
their own. Every committed event sets the signals of the tails of its session,
which re-read the log; that is how clients observe all of this. Replication
copies the same log to and from remote workspaces.

Before it calls the provider, an attempt of a turn brings the *context epoch* up to
date: the baseline that the provider caches, and what was told since in the
history. A move and a committed revert reset it. A tool that needs a
permission registers a request and waits for the reply of a client. The task tool
of `packages/shob` runs subagents as background jobs, one id per child session, and
extends the job when that session is given more to do. Processes that share a package
cache, a repository cache or stored credentials exclude each other by the lock.

Shared state is the SQLite database (one writer at a time; a transaction is one
step), the file system (one call, one step) and in-memory maps (JavaScript is
single-threaded; what happens between two yields is one step).

### What is hard

* interleavings of several API calls with the steps of a drain, each of which is
  a separate transaction or read;
* the end of a drain against a wake, a resume or an interrupt of the same session;
* interrupts, failures and a crash of the process between any two steps;
* the hand-over of a tail from history to live signals, and coalesced signals;
* values read before another transaction and used after it (the inbox rows a
  drain selected, the revert a call read);
* a tool that returns, fails or asks while its turn is interrupted, fails or ends;
* ownership of a session while it is moved between workspaces;
* a reply that passes over pending requests while others change them;
* runs of a job that settle late, when the job or its id has gone on;
* processes that die with the lock, or while they break one.

`PROJECT.json` lists each of them under `hazards`, with its line.

## 2. Modules

### Execution — the contract

Per session: idle, due or draining, started by a resume (`force`), being stopped,
and whether one more drain was asked for. It has no entries, fibers or waiters.
It is what `SessionExecution.Interface` promises, and both the abstract
specification that `RunCoordinator` implements and the scheduler that
`SessionCore` is composed with.

### RunCoordinator — `run-coordinator.ts`

Entries and fibers are objects of finite pools, because the code closes over them:
`settle(key, entry, exit)` deletes or replaces whatever the key maps to, and a
waiter keeps the deferred of the entry it joined. An object nobody can reach is
`Unused` and may be allocated again. The callers of `run` and `interrupt` are
processes; `wake` is synchronous. `Run`, `Wake`, `Interrupt` are the three calls,
`Begin` is the fiber entering the drain, `Restart`, `Handover` and `Retire` are
the three outcomes of `settle` and `Cancel` is the interruption of a waiter.

The drain itself is open: it may end with any exit at any time once begun, since
the runner may fail, succeed or interrupt itself. Completing a deferred resumes
its waiters in the same step; the one place where the code schedules more work
(`Effect.andThen(run(key))`) is a state of its own (`rerun`).

`owed` is a history variable: execution was asked for and none began since. No action
reads it. `SlotOf`, `ForceOf`, `StoppingOf` and `AgainOf` are what the contract sees of a
key: the phase of its entry's owner and the flags of the two objects.

### SessionCore — the inbox, the runner's drain and reverts

One session, with the calls of the clients split at every database access:
`admit` finds, publishes, recovers from a conflict and compares; a revert reads
the session and publishes. The drain reads `hasPending` twice, captures its cutoff, selects
rows, publishes them one by one, calls the provider, continues or ends, and reads
`hasPending` again. Publishing an event is one step together with its projection.
Scheduling is `INSTANCE Execution`. `Crash` keeps the database and loses the
rest, so every later behaviour starts from any state a crash can leave.

Abstractions, all of which allow more behaviours than the code, or none fewer as
far as the inbox is concerned: a prompt's content is its delivery mode; a
provider turn with its tools is one `streaming` step that ends, continues or
fails; compaction repeats an attempt (the retry after an overflow is taken before
the answered call, as nothing was answered); a failure of any step, the location
fence and the initialisation of the context epoch are `DrainFails`; two
admissions of the same ID in the same millisecond are told apart.

### EventStream and EventTail — `event.ts`

`EventStream` is the promise of `sessions.events({ sessionID, after })` to a
consumer that keeps its cursor: every event once, in order, and catching up while
connected. `EventTail` is the code: publishers that commit and then signal, tails
that register a signal of capacity one, read the history, emit it, wait and
re-read, consumers that disconnect and reconnect, and a crash.

`CommitBatch` and `InterruptBatch` model `publishBatch`, whose signals are sent
outside the uninterruptible transaction. What the code can promise is therefore
catching up with what was *announced*: `announced` is the latest position some
publisher has signalled, and both `NoMissedCommit` and the liveness of
`EventStream` speak of it. (Of what was *committed* a tail may stay behind until
something else is announced; see the observations.)

### SessionSync — `workspace.ts`, `handlers/sync.ts`, replay and claim of `event.ts`

The log of one session at every node (the host and the remote workspaces), each
with its own database, `event_sequence.owner_id` and drains. An event is its
position and its publisher; of its content only a change of location matters
(`session.created`, and the `session.updated` of `setWorkspace`). `Outcome` is
what `commitDurableEvent` decides about a replayed event, in the order the code
decides it. The host's sync loop of a workspace is `Connect`, `FetchHistory`,
`ReplayHistory`, `GoLive` and `ReplayLive`; notifications leave a workspace after
the commit and may overtake each other (`Notify`). `sessionWarp` is the machine
`sourceSync`, `sourceReplay`, `claim`, `copy`, `read`, `replay`, `move`, with
other steps between any two of its own; each step may fail, and a crash of the
host ends it. What ends a connection decides what becomes of its loop: a history request
that fails and a stream that is closed are retried (`Disconnect`), a stream that fails
while it is read (`StreamFails`), a history that cannot be replayed and a crash of the
host (`HostCrash`) leave the loop `dead` until somebody calls `startSync` (`StartSync`). The properties of replication are stated of one writer (`OneWriter`): no
node but the one the session was created on has written to it.

Requests are delivered or fail; a workspace's process does not crash, since a
workspace whose database survives is, to the host, a closed or failing stream.
`behind` is history.

### ProviderTurn — `runner/llm.ts`, `publish-llm-event.ts`, `message-updater.ts`

The turns of one session's drains and the tool calls they make. The publisher's
`Map` is the four sets `known`, `called`, `hosted` (executed by the provider) and
`settled`; `op` is the event the stream's fiber is publishing. Marks in the map
change before the transaction that records the event, so an interrupt in between
(`StreamInterrupted` drops `op`) loses the event and not the mark. `open` is the
`FiberSet`, `failure` its deferred (the first fiber that failed: `rejected` for a
dismissed question, `unstored` for everything else) and `fiber` what became of each
execution. `runner` is the point of control of `runTurnAttempt`: `failHosted` is line
310, `await` 314, `clear` 313/316/324, `failAll` 317/325/332/357, `failRest` 359,
`close` the end of the scope. `Fail` takes the calls one by one, each in a
transaction of its own, and tool fibers that publish wait for the permit
(`PermitFree`). `Applies` is the projection: `Called` makes any known tool running,
`Success` needs a running one, `Failed` a pending or running one.

`settlements` is history: it counts the `Success` and `Failed` events of a call but
not the refusals of a turn without tools, because the code does refuse calls that it
records as called afterwards (see the observations).

A call is made at most once: what later turns call is another call, although the
provider's call IDs may repeat. Text, reasoning, `Step` events and progress do not
change what is settled and are left out; so are the retry after an overflow, which
starts no assistant message, and the tools themselves.

### ToolEventJournal — `tool-journal.ts`, `runner/llm.ts`

An event is its call, its kind and its number in the order of appending (its chunk);
events that `coalesceProgress` merges keep all their chunks, so that what is stored can
be compared with what was appended. `Flush` is the synchronous half of `flush`: the
buffer is taken out, coalesced into the fiber's `batch`, and the fiber joins the `line`
of the database's semaphore, which serves it in order (`Commit`) or fails it
(`PersistFails`). Fibers flush by `AppendEvent` (a transition, or progress that fills the
buffer), by the timer (`TimerFlush`) and at the end (`StopTimer`, `DrainFlush`); a fiber
that is interrupted while it waits leaves the line with its batch (`Interrupt`,
`StopTimer`).

The turn around it is what decides who appends what: the stream's fiber records calls,
a tool's fiber reports progress and publishes its result, and the end of the turn fails
what has no result (`Fail`). The model also lets the stream go on after its own
transaction failed, which only adds behaviours. Transitions are appended under one permit that is held until
they are stored (`PermitFree`); progress is not.

### ContextEpoch — `system-context/index.ts`, `context-epoch.ts`, `history.ts`, `runner/llm.ts`

A source is a key, and its text is the value it was observed as: `Told` is what a
baseline, a snapshot or a request says of every key. `Unavailable` is an observation
that failed, `Gone` a source that is not (or no longer) part of the context; only
some sources (`Removable`) have a text for that. `NeedsReplacement`, `Blocked`,
`Update` and `Reconciled` are the decisions of `reconcile` and `replace` over one
observation. `Legacy` values were written by an earlier codec, which the
running program cannot decode once it is `upgraded`.

The drain is one attempt after the other, a step per query: the fence, `initialize`
(`Exists`, `Observe`, `ReadSequence`, `Insert`), the promotions, `prepare` with its
two concurrent reads (`PrepareFind`, `PrepareCompaction`), its observation and its
decision (`DecideInsert`, `DecideKeep`, `DecideReplace`, `Advance`, `Replace`), the
history, and the call with its outcomes. `Move` and `Revert` are what everybody
else does to the epoch, and may come between any two of these steps. Interrupts,
failures, defects and crashes all end a drain without a trace (`End`): everything it
wrote is in transactions of its own.

Which location an observation is of is not kept: no property says whose services an
attempt observed with. What is asserted of a move in the middle of an attempt is that
what is stored as told stays what the history tells (`ToldIsAdmitted`).

A revert puts `deleted` in place of the rows it deletes, so that a row's place in
`log` is its sequence.

### Permission — `permission.ts`

A request goes through `Evaluate` (the configured rules), `EvaluateSaved` (the saved
ones; what is left to ask is registered in the same step), `Announced` and, unless
`ask` made it, `Resume`. A reply goes through `Reply` (the lookup), the publication
that follows, and `Reject` or `Approve`; a rejection then passes over the other
requests of the session, an "always" over those that the rules it saved now allow
(`Save`, `ApproveSaved`, `Remember`, `Check`, `Cascade`). Every publication may fail in
a subscriber (`AnnounceFails`, `ReplyDies`) and every read is a step. `Configure` and
`Forget` change the rules meanwhile.

The configured rules are one set for all sessions, where the code evaluates those of a session's
agent: what a change of them does to one session's requests, it does here to all.

The Map of pending requests is a set and a loop takes them in any order, the order of
registration among them; a request registered while the loop runs may be met, as in
the code. `owed` is history: the requests that were pending when the loop began and
that it stands for; those that a later denial takes out of its reach leave it.

### FileLock — `effect-flock.ts`

Who made a directory and who wrote a file in it is all that is known of the file
system. `MakeLock` is the `mkdir` that decides; `StatHeartbeat`, `StatMeta`, `StatDir`
are the three looks of `isStale`; `Claim` makes the breaker, under which the same looks
are repeated (`twice`) before `Nuke` and `Recreate`; `StatBreaker` and `Clean` remove a
breaker left behind. `WriteHeartbeat` and `WriteMeta` may fail and find the lock
compromised. `Release` compares the token. `Touch` is the heartbeat fiber of a holder: it
sets the time of the heartbeat file by its path, whoever wrote it. A process dies anywhere (`Crash`), and what
it left belongs to `Dead` from then on.

Time is abstracted to one assumption, *staleness means death*: `Age` and `AgeBreaker`
make old only what a dead process left behind, and `Age` not while a living holder's
heartbeat reaches it (`Reaches`). A heartbeat or metadata file that is written into a
directory makes it fresh again, as far as `isStale` looks at that file. The code relies on it (a heartbeat
every 20 s against staleness after 60 s); a living process that stalls for longer
loses its lock by design, and the release then reports it. The removal of a directory
with its files is one step.

### BackgroundJob — `background-job.ts`

Jobs started one after another under one id, each a chain of runs. `Start`, `Extend`,
`Cancel`, `Promote` and `Settle` are the operations that exchange the registry's entry;
`Begin`, `RunEnds` and `Interrupted` are the fibers in the job's scope. The entry's
token is the number of the job, `done` is the deferred that `wait` awaits, and `exit`
folds the code's failure, defect and self-interruption of a run into `failure`. A run's
successor is released when it *ends*, before it *settles*, so that settlements come
in any order.

`MCSessionCore`, `MCContextEpoch` and `MCPermission` hold the symmetry sets and the
values of the constants; the other runs use the specifications as they are. The
modules named `…Proofs` extend the modules they are about (section 5); the names of
`SessionSync`'s and `ToolEventJournal`'s specifications begin with `Sync` and `Journal`
because the modules of their theorems extend a second component.

## 3. Runs and bounds

| Run | Instance | Shows |
|---|---|---|
| `coordinator` | 1 session, 3 callers, 2 entries, 2 fibers | `Serialised`, `NoAbandonedWaiter`, `NoLostDemand`, `SuccessMeansDrained`, `DemandServed`, `CallsReturn`, and the refinement of `Execution` with its fairness |
| `coordinator_resume` | 1 session, 2 callers | **violation** of `DeferredResumeRuns` |
| `session_prompts` | 2 IDs, 2 clients, 4 events before the last admission, no reverts | `ReceiptIsKept`, `NothingStranded`, `PromotedInOrder`, `QueuedWaits`, `WakeCallsWithInput` |
| `session_revert` | 2 IDs, 1 client, 6 events; reverts, interrupts and compactions, no crash and no resume | `HistoryMatchesInbox`, `AskedIsAnswered` |
| `tail` | 2 publishers, 2 consumers, 4 positions | `NoGapNoRepeat`, `NoMissedCommit`, and the refinement of `EventStream` with its fairness |
| `sync` | 1 workspace, 3 positions | `ReplicaIsPrefix`, `OwnerWrites`, `MovedWithHistory`, `HostCatchesUp` |
| `turn` | 3 calls | `SettledOnce`, `ResultIsKept`, `SettledBeforeRequest`, `QuestionHalts`, `InterruptEnds` |
| `epoch` | 2 sources (1 removable), 1 old and 2 new values, 2 locations, 4 rows | `ToldIsAdmitted`, `RequestTellsWhatWasSeen`, `BaselineIsKept` |
| `permission` | 3 requests of 2 sessions (1 by `ask`), 2 replies, 2 resources, 1 change of the rules | `PendingMatchesCalls`, `ReplyReachesAll`, `AnsweredReturns` |
| `lock` | 3 processes, 3 deaths | `MutualExclusion`, `DeadLockIsBroken` |
| `jobs` | 2 jobs under one id, 2 extensions each | `CompletedIsWhole`, `RunsAreSerial`, `JobEnds` |
| `journal` | 2 calls, a buffer of 3, 6 events | `StoredInOrder`, `TransitionsAreStored`, `ProgressIsFlushed` |

The type invariants are not checked by the runs: every one of them is proved.

*Why the bounds are enough.* The coordinator treats sessions independently, so one is
enough; settling allocates the successor while the settled entry and fiber are still
reachable, hence two of each; three callers can be a joiner, a deferred resume and an
interrupter of one execution at once, and a caller that has returned calls again. In
`SessionCore` two IDs in two delivery modes give every pair of an earlier and a later
input, and two clients the race on one ID. `MaxSeq` stops *new* prompts and reverts
only, so every drain runs to its end. With six events a row can be selected by a drain,
removed by a revert and admitted again before the drain publishes it; which ID comes
first is fixed, since IDs are alike. In `EventTail` the interesting states have a tail
one read behind while two publishers commit; four positions contain them with a
reconnection on either side. In `SessionSync` three positions hold a session that is
created, written to and moved, or moved and written by both sides. In `ProviderTurn`
three calls are a tool that returns, one that fails and one that still runs, in one
turn, or the calls of two turns and a recovery. In `ToolEventJournal` a buffer of three
holds progress of one call around that of another, and six events are two calls, two
settlements and two batches of progress that fibers flush past each other.

In `ContextEpoch` four rows hold an input, an update, a compaction and a move or
a revert in any order. Two sources can differ in whether their
removal can be told, and one can be unavailable while the other changes. In `Permission` a
request of one session, one of two resources and one of another session tell the two
cascades apart, and two replies can find one request pending or settle each other's.
Three processes are an owner (dead or alive), a breaker and a waiter that has looked before
either; three deaths are the owner, a breaker and the new owner. Two jobs are a job and the one
its id was given to afterwards, three runs a chain with a middle. What these modules' theorems state holds for
every number.

Runs with liveness properties use no symmetry. Deadlock is checked where the system
cannot stop because a client can always call: in every run but `permission`, where all
requests may have been answered, `jobs`, where all jobs may have ended, and `journal`, where all
events may have been appended and the journal drained.

*Fairness.* The event loop runs every scheduled fiber and every resumed waiter, so
their steps are weakly fair. A drain ends (`Settle`, `TurnEnds`): a provider call
ends or is interrupted; this is an assumption about providers, not about
shob. `ProviderTurn` does without it: there nothing makes the provider send an event
or a tool return, only the runner's fiber, the interruption of tool fibers and
publishing are fair, and `InterruptEnds` holds nevertheless. In `SessionSync` the
loops are strongly fair, because a connection may be closed again and again: of the
history requests not all fail, and a loop that has not ended connects again after its
back-off. Nobody has to call `startSync`, so `HostCatchesUp` promises of a loop that
ended only that after every `startSync` it catches up or ends again. `CallProvider` and `TurnEnds` are strongly fair because
compaction and continuation may be taken in between, finitely often. In `EventTail`
publishers signal and tails read, emit and wait; `InterruptBatch` and `Close` may always
be taken instead. In `Permission` a call and a reply that have begun go on; nobody
has to reply. In `FileLock` a living process goes on with its attempt and its heartbeat,
and time passes; nobody has to begin or to release, so `DeadLockIsBroken` promises
nothing to those that wait beside a holder whose heartbeat reaches the lock. In `BackgroundJob` fibers that can begin, settle or be
interrupted are; a run need not end. In `ToolEventJournal` the timer's fiber runs and the
database serves its line. `Refused` is fair in `SessionCore`: a drain that publishes a
row which was removed and admitted again since it was selected dies of it, and the wake
of that admission starts another. Nothing makes clients, interrupts, crashes or failures
happen.

## 4. Findings

**A resume during the cleanup of an interruption is not run**
(`run-coordinator.ts:71`, run `coordinator_resume`). The deferred call is
`await(entry.done).andThen(run(key))`, and `entry.done` completes with the
interrupted exit, so the caller gets the interruption.
`test/session-run-coordinator.test.ts:285` describes the opposite.

Other observations, made in the code while modelling; no run is about them. Of the
session and its turns:

* a wake can call the provider without new input: a revert between the guard
  (`llm.ts:405`) and the promotion removes the input, which `specs/v2/session.md:163`
  excludes. Without reverts the property holds (`session_prompts`);
* a call can stay without a result when the provider is called again: after a stream
  that ended well only the provider's own calls are failed (`llm.ts:359`). A local call
  whose input began and that was never made (a stream without a finish reason, see
  `llm/test/provider/openai-chat.test.ts:592`) stays pending, and a steer lets the same
  drain assemble the next request with it. In a turn without tools the refusal of the
  first call marks a second one settled whose input has begun, and its `Called` event
  then projects it as running again. `specs/v2/schema-changelog.md:183` says that
  results are settled before continuation;
* the wait for the tool fibers ends with the first failure (`llm.ts:144`), although
  `specs/v2/session.md:50` says that the runner awaits every started fiber: the results
  of the others are overruled by `Tool execution failed`, which `ResultIsKept` exempts;
  for the same reason a question that is dismissed after another tool failed does not
  halt the drain, which `QuestionHalts` exempts;
* an `LLMError` after the step has finished publishes `Step.Failed` and then
  `Step.Ended` for the same message (`llm.ts:311`, `llm.ts:335`);
* the drain of the journal interrupts its timer also in the middle of persisting (the
  wait for the database's semaphore is interruptible), so that a turn which ends well
  loses the progress the timer had taken out, against the comments at
  `tool-journal.ts:72` and `tool-journal.ts:97`. Transitions are not lost
  (`TransitionsAreStored`);
* `coalesceProgress` concatenates the content of progress events, while their projection
  replaces what a running tool shows (`message-updater.ts:288`) and the shell tool sends
  deltas (`tool/bash.ts:137`): what is shown depends on when the timer fires.

Of the log and its replication:

* an interrupted batch is not announced: `publishBatch` signals the tails in an
  interruptible region after its transaction (`event.ts:549`), `publish` does both in one
  uninterruptible region (comment at `event.ts:132`). A connected tail stays behind until
  something else is published;
* a failed warp leaves its claim behind, and a session that comes back is not heard:
  `claim` runs before the changes and the log are sent (`workspace.ts:589`) and nothing
  takes it back, against the comment at `workspace.ts:609`; and only a warp away from a
  workspace claims (`workspace.ts:566`), so that after a warp to the project and back the
  project stays the owner. Either way the host ignores what the session's own workspace
  writes;
* the target's `/sync/steal` and the host both publish `session.updated` at the same
  position at the end of a warp (`workspace.ts:712`), so the logs differ from there on,
  although `sync/README.md:33` assumes one writer;
* reading the live stream is outside of what the sync loop retries (`parseSSE` at
  `workspace.ts:395`, the catch at `workspace.ts:378`): a connection that is reset, rather
  than closed, ends the loop in the status `error` (`workspace.ts:473`), although the
  comment at `workspace.ts:434` speaks of reconnecting while the workspace stays
  unavailable. The host does not hear of the workspace again until `startSync` is called;
* replay compares positions before owners (`event.ts:286`): an event of a fenced
  workspace at a known position is a defect, which ends that workspace's sync loop
  (`workspace.ts:363`) for all its sessions, instead of being ignored;
* the answer `{ applied: false }` of a target that cannot apply the changes is not read
  (`workspace.ts:611`).

Of the context:

* `initialize` races a move: a baseline observed at the old location can be stored after
  the move has reset the epoch (`context-epoch.ts:85`). The next drain, at the new
  location, reconciles it: `ToldIsAdmitted` holds throughout, and the context of the old
  location is told to no more than one request;
* a move or a revert between `prepare` and the read of the history deletes the rows this
  request was to tell its updates by; the request is sent with the baseline alone. The
  next attempt finds no epoch and starts over, which is why `RequestTellsWhatWasSeen`
  speaks of the epoch that is still there;
* a revert between `Exists` and `prepare` makes `prepare` initialize after the
  promotion; an unavailable source then fails a turn whose input is already visible;
* a warp moves a session to another workspace without resetting its epoch.

Of permissions, jobs and the lock:

* an "always" that comes between a request's evaluation (`permission.ts:200`) and its
  registration does not reach it: the user is asked for what was just allowed;
* two repliers that find one request pending publish `Replied` twice, and only the first
  settlement counts;
* when a subscriber fails on `Replied` the request stays pending although other
  subscribers were told of the answer;
* a job started under the id of an ended one can overlap with runs of the earlier one
  that are still being interrupted;
* two waiters can both find a breaker stale that a dead process left behind, and the
  second removes the fresh breaker of the first (`effect-flock.ts:201`); from there two
  processes can hold the lock (TLC finds it in 44 steps). `MutualExclusion` and
  the theorem's `HolderOwnsLock` therefore say *until a process dies with the breaker*, against the
  comment at `effect-flock.ts:196` ("We own the breaker");
* of two such holders, the one whose directory was removed goes on touching the heartbeat
  file of the other's (`effect-flock.ts:262`, by path and without a look at the token). If
  the other dies, its lock does not look stale until the first one releases, which
  `DeadLockIsBroken` exempts.

## 5. Proofs

Each module of theorems proves, for all values of the constants and under the
assumptions its base module names (that the absent value is not a value, that the
bounds are natural numbers, the shape of the constant functions), the type invariant
and these properties:

| Module | Theorem | Property |
|---|---|---|
| `RunCoordinatorProofs` | `OwnershipHolds` | `OneOwner` |
| | `ExecutionIsSerialised` | `Serialised` |
| | `WaitersAreKept` | `NoAbandonedWaiter` |
| | `DemandIsKept` | `NoLostDemand` |
| | `SuccessIsDrained` | `SuccessMeansDrained` |
| | `ContractIsImplemented` | the refinement of `Execution`, without its fairness |
| `SessionCoreProofs` | `ProjectionsAgree` | `HistoryMatchesInbox` |
| | `PromotesOnce` | `PromotedOnce` |
| | `StrandsNothing` | `NothingStranded`, reverts included |
| | `PromotesInOrder` | `PromotedInOrder`, without reverts |
| | `KeepsReceipts` | `ReceiptIsKept`, without reverts |
| | `QueuedInputWaits` | `QueuedWaits`, without reverts |
| | `WokenDrainHasInput` | `WakeCallsWithInput`, without reverts |
| `EventLogProofs` | `InOrderOnce` | `NoGapNoRepeat` |
| | `HandsOver` | `NoMissedCommit` |
| | `StreamIsImplemented` | the refinement of `EventStream`, without its fairness |
| | `ReplicaFollows` | `ReplicaIsPrefix` |
| | `OldOwnersAreFenced` | `OwnerWrites` |
| | `HistoryArrives` | `MovedWithHistory` |
| `ProviderTurnProofs` | `RunsWhatIsRecorded` | `RecordedBeforeRun` |
| | `SettlesOnce` | `SettledOnce` |
| | `KeepsResults` | `ResultIsKept` |
| | `SettlesBeforeRequest` | `SettledBeforeRequest` |
| | `StopsTools` | `ToolsStopped` |
| | `HaltsOnRejection` | `QuestionHalts` |
| `ContextEpochProofs` | `AdmittedIsTold` | `ToldIsAdmitted` |
| | `BaselineStays` | `BaselineIsKept` |
| | `TellsWhatWasSeen` | `RequestTellsWhatWasSeen` |
| `PermissionProofs` | `PendingIsRight` | `PendingMatchesCalls` |
| | `RepliesReach` | `ReplyReachesAll` |
| `LockAndJournalProofs` | `HoldersOwn` | `HolderOwnsLock` |
| | `Exclusive` | `MutualExclusion` |
| | `EventsKeepOrder` | `StoredInOrder` |
| | `TransitionsComeFirst` | `TransitionsAreStored` |
| `BackgroundJobProofs` | `CompletesWhole` | `CompletedIsWhole` |
| | `RunsInTurn` | `RunsAreSerial` |

None of these is inductive as it stands. What each proof adds, and why:

* **Coordinator.** `IInv == Linked /\ NoAbandonedWaiter /\ NoLostDemand`, where
  `Linked == TypeOK /\ OneOwner`. That settling one fiber leaves no second one behind
  depends on the entry the key maps to being owned by exactly this fiber; `OneOwner` says
  that key, entry and fiber point at each other, in both directions. From it follow
  `Serialised` and, for each action, that what it deletes or replaces belongs to the
  execution it acts on. The refinement adds `StopInv`: an entry is being stopped exactly
  when its owner is interrupted, which is what makes the end of a fiber that never
  drained an end the contract allows. Each step then shows at one key only
  (`Kept` for the others): launching is `Resume` or `Wake`, the three outcomes of
  `settle` are all `End`, and what waiters do does not show.
* **Session.** `RowsInOrder` puts a row's sequences in their order and bounds them by the
  log's; with it `HistoryMatchesInbox` is inductive. For the properties
  without reverts, `CallsHold` ties the receipt a client is about to get to what is
  stored, and `RowsHold` says that the rows a drain has selected stand as they were read
  and that no pending one before them was passed over.
  `NothingStranded` rests on `AskedInv`: unless another drain is already asked for, an asked
  prompt that is pending finds the drain at a point from which it will still look for
  it, and what is visible has been shown to the provider wherever a drain may end.
  What a provider call is given, without reverts, needs to know what the drain has shown
  before each of its reads: `Shown` says that a drain that goes on has nothing new until
  it publishes, and `OneRow` that it then publishes one queued row (`QueuedInputWaits`);
  `Fed` that a drain nobody forced finds, from its guard to its first call, something
  new or a pending row it is going to publish (`WokenDrainHasInput`). Both rest on
  admission numbers being distinct.
* **Tails.** `Drained` says that a tail reads and waits only when its consumer has taken
  everything up to the cursor. The refinement
  maps registering, reading, signals and wakes to stuttering and `Emit` to the delivery.
* **Sync.** A replayed event is accepted or ignored by its position, so the properties
  need what everything in transit says of the logs: `LinksPositioned` that a notification,
  a history page or a cursor points into its workspace's log, `WarpPositioned` and
  `Replayed` that what a warp has replayed stands at the target as at the host.
  `HostKnows`: what a workspace has beyond the host's log it wrote itself. `Copies`: with
  one writer every log is a prefix of the creator's, from any node to any other, which a
  property of the host alone does not give by induction, since events also reach a
  workspace from the host. `Begun`: every log that has anything begins with the
  session's creation, so that the log of a node that has the session says where the
  session belongs. A step
  changes a log by publishing or by taking over the event that follows its own; the
  actions are shown to be one of these, and the properties follow from that.
* **Turn.** Who may still settle a call: `OpInv` ties the event being published to the
  publisher's map; `OpenInv` says that only local, made calls have fibers, that a turn
  without tools has none, and that a call with a fiber is unsettled until another tool's
  failure overtakes it; `FiberInv` that what has an execution is recorded; `StateInv`
  what the database holds of the calls of this turn; `SettleInv` that what may still be
  settled was not; `TurnInv` that, at each point of the settlement, a call still
  projected as running has somebody left who settles it.
* **Context.** `Held` says that what an attempt read of the epoch is still the row, if there is
  a row, from the read of the row to the write; `Compactions`, `Summarised`, `Counted` and
  `Unread` say where the sequences an attempt has read lie in the log, so that a
  new baseline counts from where no update follows it. The lemmas say what `TellsAfter` does
  when a row is appended, deleted by a revert, or left behind by a new baseline.
  `Telling` follows what the attempt is going to tell from its decision to its call, as
  long as the row it read, or one, is still there.
* **Permission.** `MetInv` says that whatever a reply holds has passed its registration,
  so that a late settlement meets a request that can be answered; `LoopInv` that what a
  loop owes and has not settled is still ahead of it.
* **Lock.** `FilesInv`: files are in a directory, and only a dead process's is old;
  `TwiceInv`: the second check runs under the breaker; `BreakerInv`: until a process dies
  with it the breaker is its maker's, no one cleans it, and what is removed under it is a
  dead process's.
* **Journal.** `InLine`: a fiber is in the line, once, exactly while it holds a batch.
  `Apart`: what is stored was appended before every batch, the batches before each other
  in the order of the line, and all of them before what is buffered; each of these rises
  in itself, merged progress included; `Counted`: the next event comes after all of it.
  That is what makes a fiber that fails or is interrupted in the middle of the line
  harmless. `Kinds` says that what is buffered is progress and who flushes what, and
  `OnePermit` that at most one batch ends in a transition, whose call is in the status it
  is published from: therefore a commit advances that call and no other, with its
  event stored. The lemmas say that `Merge` and `Coalesce` lose and reorder nothing and
  keep a transition that comes last; `FlattenAscends`, that what rises is in order when
  it is taken apart.
* **Jobs.** `EntryInv`: only the job the id stands for runs, and its scope, status and
  deferred agree; `ChainInv`: the runs up to `next` exist and begin in order; `CountInv`:
  `pending` is the number of runs that have not settled, and the output is the latest of
  those that have.

Every inductive invariant was checked with TLC before it was proved.

`Coalesce` and the flattening of what is stored are recursive along a sequence of any
length. The induction theorems of the library take an operator as a parameter, which the
provers cannot instantiate; the journal's lemmas induce over *sets* instead: the set of
the lengths up to which a statement holds contains 0 and with each number the next
(`UpTo`, by the least number outside it), and that the recursive function exists at all is
shown the same way (`RecursionExists`). What the theorems use of `Coalesce` is therefore
proved, not assumed.

Checked by TLC only: every liveness property and the fairness of both refinements
(liveness under fairness and `ENABLED` are outside TLAPS). Every invariant and every
action property that a passing run checks is also proved; those of `session_prompts`, but
for `NothingStranded`, of the specification without reverts, as the run checks them.

## 6. Not modelled

* the closing of the coordinator's scope (the process ends with it: `Crash`);
* text and reasoning fragments, `Step` events, snapshots and the overflow retry within a
  turn;
* failures of the database while the process lives, which the code treats as defects,
  and the yields that the fiber scheduler may insert into long synchronous sequences;
* listeners and live subscriptions of the event service, which see events after
  the commit and in the order of their publishers' fibers;
* of replication: workspaces on the local machine as targets, the creation and
  removal of workspaces, two warps of a session at once, and sessions that share a
  workspace other than by the sync loop they share;
* of the context: the texts themselves, the choice of what a compaction summarises, the
  transfer of the working tree in a move;
* of permissions: wildcards and the order of rules beyond what they say of a resource,
  duplicate request IDs, the end of the location (which rejects what is pending); of
  jobs: the timeouts of a wait, the hook that a promotion runs, the closing of the
  registry's scope; of the lock: a living process that stalls for longer than the
  staleness period, and a removal that stops halfway;
* the components marked so in the table above: most of the repository by size is
  user interfaces, generated clients, schemas and wrappers of external programs,
  whose correctness is not one of steps and interleavings.

## 7. Plan

Done: `Execution`, `RunCoordinator`, `SessionCore`, `EventStream`, `EventTail`;
`SessionSync`; `ProviderTurn`; `ContextEpoch`, `Permission`, `FileLock`,
`BackgroundJob`, `ToolEventJournal`; the proofs of section 5. What would come next:

1. the journal's promise as an abstract queue that `ToolEventJournal` implements, composed
   with the tool fibers of `ProviderTurn`;
2. `Question` and the location's finalizer, which settle what is pending when the
   location goes; `KeyedMutex`; the V1 runner;
3. permission rule evaluation with wildcards, over bounded inputs;
4. a proof that a tail and the journal keep their order when the log they write is one: the
   tails of `EventTail` over the positions `ToolEventJournal` commits.
