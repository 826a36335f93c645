# A TLA+ model of the agent runtime

The repository is an agent platform written in TypeScript on the Cordis plugin
framework. An agent keeps an event log (the *session*), takes messages from an
inbox, drives turns of model requests and tool calls over them, and stores the
log behind the running work. Everything runs in one process on one event loop, so
what is hard is not parallel memory access but *interleaving at awaits*: between
any two jobs of the loop a user may send, cancel or dispose, a timer may fire, a
promise may settle in an unexpected order, and the process may die with any prefix
of the log on disk.

This project models the parts that carry that logic, checks them with TLC and
proves with TLAPS the safety of most of them.

Contents: 1 the system, 2 modules and code, 3 runs and bounds, 4 fairness and
deadlock, 5 proofs, 6 divergences found, 7 what is not modelled, 8 plan.

## 1. The system

`PROJECT.json` lists every component with its sources. Paths below are relative to
`src/packages`. The ones with logic of
their own:

| component | state it keeps | operations | what is hard |
|---|---|---|---|
| Session write-behind (`session/session-persistence/src/write-behind.ts`) | queue, deadline timer, active write, barrier, pause after a failure | enqueue, flush, cancelDeadline; timer and promise continuations | a flush overlapping a background write; a failed batch put back while new events arrive; a paused path that nobody re-arms |
| Session persistence coordinator (`coordinator.ts`) | per identity: a chain of operations, the state (cursor, owner), retirements; per live session: initialization promise, controller | prepare, load, inspect, append, delete, flush; binding of created and prepared sessions; retirement | initialization that fails under waiting flushes; state read before an await and used after it; who owns an identity |
| Session preparations (`preparations.ts`) | one pool entry per identity: loading, ready, committing, reserved; the promise that waiters of a reservation share | inspect, reserve, release, attach, discard, invalidate, takeReady, eviction | one preparation for many callers; waiters left behind; stale sources; cancelled callers |
| Agent driver (`core/agent-loop/src/agent.ts`) | phase, abort controller, latch `wakeRequested`, turn and step counters | send (followup, steer, inject), cancel, runMaintenance, whenIdle; turn, preStep, step, turn-stopping | sends and cancels at every await and inside every listener; the latch of a wake that meets an aborted activity; disposal against new wakes |
| Agent inbox (`core/agent/src/inbox.ts`) | two pending lists, projected from the log | append, remove, clear, claim, replace | the lists and the log must agree at every crash |
| Tool-call scheduler (`core/agent-loop/src/tool-calls.ts`) | the group's cursors, slots, in-flight map, failure flag | one call per assistant step | results settle in any order but are recorded in model order; exclusive calls are barriers; a failure must not surface while calls run |
| Checkpoint policy (`session/session-checkpoint-policy`) | none | flush before a request, before each tool body, before pre-step ends | an abort while the flush is awaited; effects of a tool the log does not know of |
| Session invariant companion and repair (`core/session/src/invariant.ts`, `repair.ts`) | a trace of the log; a scan of the log | validate each append; closers of an interrupted turn | a repair that is itself cut; numbers after a repair |
| Job registry (`jobs/jobs-local`) | job records, waits, cleanups of owners | start, read, kill, wait, settle, disposals | a completion reported exactly once although kill, wait, timeout, abort and teardown race the settlement |
| Completion notices (`jobs/tool-jobs`) | turns spent on each owner since its last human input | delivery of a settlement, claim of human input | a notice meets an owner that is idle, busy, about to stop, or out of budget |
| Goals (`goal/goal`, `goal/goal-round-driver`, `goal/tool-goal`) | the goal folded from the log, its activation; per agent: the reserved round, trigger and checkpoint flags, the running loop | create, edit, pause, resume, complete, block, clear; drive; the pre-step fence; listeners of status, inbox, goal and log | a round is reserved, queued, claimed and entered at four different times, and a person acts between any two |
| Compaction (`compaction/compaction-basic`, `compaction`, `compaction-tool-result-pruner`) | the lock is the unmatched start in the log; per agent: retries of an overflow; the surface and its token total are folds of the log | pressure before a step, overflow recovery, the manual command, a region for a tool; prune | the surface is read, a model is awaited, and what was read is replaced; each append may be refused; a crash leaves a start behind |
| Model requests (`agent-loop` `step`) and retry (`llm/llm-retry`) | the chunks of an attempt; the recoveries in progress; the count is in the log | stream, request-error waterfall, back-off, disposal | an abort, a reload and a changed route at every await of a recovery |

Interactions. The agent appends every event to its session; the session checks it
against the invariant companion and hands it to the coordinator, which enqueues it
on the write-behind controller of that session. The checkpoint policy sits as a
plugin on the driver's pre-step and on the tool pipeline and awaits
`coordinator.flush`. The driver hands the calls of an assistant message to the
scheduler and awaits it as one step. A job is started by a tool, outlives the
step, and its completion comes back into the inbox of its owner: it wakes an idle owner
while the budget lasts and is injected otherwise. A failed model request is offered to
the `agent/request-error` waterfall, in which llm-retry decides, and compaction first when the context has overflowed. Compaction
also stands in pre-step, and reserves an idle agent for its manual command. The goal driver listens
to the idle edges of the agent, waits for a checkpoint of the session, queues a round
as a follow-up and stands in pre-step to keep a stale one out.
After a crash the coordinator loads the durable prefix, repairs it with the
closers and a new agent rebuilds its inbox from it.

What makes each of them correct is stated by the properties of section 3. The list
`hazards` of `PROJECT.json` names the lines where each can go wrong and the
properties that watch them, and says why where none does.

## 2. Modules and code

An action is one synchronous piece of the program: from one await (or emitted event
whose listener may re-enter the component) to the next. Mutants of an action stand
before it, are marked as such, and are never part of a next-state relation.

**DurableLog** is the abstract promise of the write path: events are accepted in
order, a prefix becomes durable, only what is durable is acknowledged.

**WriteBehind** is `SessionWriteBehind` and the coordinator's `flush`,
`createWriteBehind` and `appendLiveBatch`. Its variables are the private fields of
the class (`pending`, `timer`, `active`, `barrier`, `deadlineExpired`,
`automaticPaused`), the coordinator's `init` promise, the flush calls that wait for
it (`callers`), the write operations in progress (`running`) and the backend's log
(`durable`). `settled` is the write whose waiter is queued as a microtask: a
settlement is three jobs (outcome and catch handler; finally handler; continuation
of `continueAutomatic` or of the drain loop), because a call from outside may see
the state between them. Timers and I/O completions run only when no microtask is
queued (`MicrotasksDrained`). `mark` and `promised` are history: what the callers of
the open barrier had published, and what a resolved flush has acknowledged.
Events are the numbers 1, 2, 3, ... in the order of publication. A payload plays no
role.

**SessionLog** is pure: `Accepts`/`After` are `validateEvent`/`applyTransition` of
the invariant companion, `ScanEvent`/`Closers` the scan and the result of
`interruptedTurnClosers`. They are folds over sequences of event records: `TraceOf`, `ScanOf`,
and `Valid`, which folds `Check` along with the trace.

**AgentDriver** is `ReactLoopAgent` with its `Inbox`, the disposal of the agent's
lifecycle owner, and a crash followed by a resume. `phase`, `signal`, `wake`, `turn`
and `step` are the fields of the phase object; a signal keeps the cause of its first
abort, as `AbortController` does. `pc` is the place where the driver awaits. `Send`
stops where the insertion is logged (listeners of `agent/inbox/spliced` may call
back) and `Wake` is the rest. `Retire` stops where the idle status is published and
`ReplayWake` is the rest. A step is one await: request, stream (`ModelRequest`), tool calls (`ToolScheduler`); its
outcomes are the reasons it may return, an error, or the abort. A pre-step may
enter with the claimed batch, with the batch and a context message, with nothing,
or it may reject. `parked` is history: pending messages that nobody owes a turn. A
message is parked when it is injected, when a cancel aborts a running driver and keeps the inbox, when
a turn that was not aborted is rejected or fails while the message waits, when it is sent to an
agent whose activity was aborted by a disposal, and when it is there at a crash. No other message is:
a waking send that comes after the driver's last look is not parked, but lost where
`Overlooks` lets it fall. That constant names the two places at which a driver that is not aborted misses
a waking send: `"late send"`, behind the end of its last turn (its last look at the inbox, `agent.ts:324`, or
the exception that ended it) and before `kick`'s `finally` (`agent.ts:215-219`), where
`wakeDriver` sees a running agent and neither claims nor latches (`agent.ts:173-181`); and `"empty turn"`, behind a first
step that enters with nothing, whose turn returns without a look (`agent.ts:274-277`). Without them no
waking send falls there, and an empty first step finds nothing else to do.
`CrashAndResume` cuts the log anywhere, repairs it and builds the agent anew: the inbox is
`Replay` and the turn is `LastTurn` of the repaired log. `PromptCount`, of the property only,
counts the claims of prompts that were not the first of an open turn (`stray`).

**ToolScheduler** is `executeToolCalls` with `executeToolCallGroup`, the checkpoint
that runs before each tool body, and the repair of a crash in the middle of it.
`pc` is the await of the sequential scheduler; dispatched calls (`stage`),
persistence (`durable`), the abort and the crash interleave with it. `slot` is the
`completed` array, `next` and `commit` its two cursors, `aborted` the group's copy
of the signal that is read again at `CommitEnds` only. `WriteRepair` may store a
part of the closers, any number of times.

**JobRegistry** is `LocalJobRegistry` and whether a settlement is announced
(`onJobDone` of tool-jobs tests `snapshot.reported`). A settlement is one action,
as in the code: record, release of waits, notice. A wait is three pieces: up to its
await, the resolution (settlement, timeout) or the abort, and the continuation.
`killed` and `torn` are history: who claimed the report. The disposal of the
service also unloads the job controllers that `start` asks for, so `Start` is
guarded by the service being up (see section 7).

**Notices** extends `JobRegistry` with the delivery of a completion notice and as much of
an owner's agent loop as it sees. `RegistryStep` is a step of the registry together with
the delivery of the notice it announces, since the listener runs inside `settle`. `busy`
is the owner's status, `notice` the place of a job's notice (held in the inbox, heard by a
step, dropped with the inbox), `human` whether a person's message waits, `spent` the map
`spentWakes`. The last look at the inbox and the idle status are two steps: `ending` says
how the driver of a busy owner came to end, and `Retire` makes the owner idle later. A turn completes only when nothing waits
(`TurnCompletes`); one that is rejected, fails or has nothing to say in its first step leaves what waits
(`TurnBreaks`); a cancel may come at any time before the retirement and clears or keeps what
waits (`Cancels`), and a person's message to an aborted owner is latched. `LateNotices` says whether a
settlement may be delivered between the last look of a completed turn and the retirement.
`opened` and `stalled` are history.

**GoalRounds** is the goal service, its round driver and the agent loop between them. The
goal is the fold of the log: phase, a number `ver` that stands for id and revision (every
change makes a new one), rounds started, and the cap. `attempt` is `state.attempt`, and
`competing`, `needsCheckpoint`, `requested` and `run` are the fields of `DriverState`.
`loops` says where each scheduling loop stands: `sync` is its first pass, which runs before
`state.run` is assigned; `flush` awaits the checkpoint, `overtaken` is a checkpoint after
whose call something was appended; `go` continues behind it in the same piece; `next` is the
loop condition. `RequestDrive`, `Drive`, `Checkpointed`, `RetireLoop` are `requestDrive` and
`drive`. `pc` is the agent: `start`, `pre` (assembly), `inner` (listeners behind the fence),
`outer` (listeners before it), `step`, `exit`. `Fence` and `InnerEnters` are the two looks of
the driver's pre-step listener; `Admit` appends the `user/message`, where the strict fold
counts the round or throws (phase `corrupt`, after which no read of the goal succeeds).
`EndTurn` and `Retire` are the driver's listeners of `turn/end`, `agent/error` and
`agent/status`. A goal tool called by the model passes `completionAuthority`
(`ModelSettlesGoal`); a change by a person may come at any await.

**ModelRequest** is the loop of `step` around one open step and llm-retry. `pc` goes through
building the request, the stream, the captured callback, the policy behind it (`downstream`
in mode always, `delegate` when llm-retry hands over), the wait and the decision. A *route* is a
provider together with its policy key, and each attempt may be served by another one.
`captured` is the mount whose callback the waterfall holds. The count of retries is not a
variable: `Previous` finds it in the log, as the code does.

**Compaction** is the transaction of `region.ts` and its four callers, over a session that
has a real log: `session` is the log with the surface, the replacement count and the token
total that are folded from it event by event. A tool phase may fail as a whole (`ToolPhaseFails`:
the scheduler fails, step and turn end without results for the calls that are left, and neither the
repair nor a later step answers them). The surface fold is `surface.ts`, the total is
`foldSurfaceProjection`, which sees no nodes and relies on the shadow price that each
replacement follows (`claim`). `job` is the transaction that runs, `measured` the reading
of the surface from before the capacity of the model is awaited, `retries` the map
`overflowRetries`. The lock is `Lock(log)`, as in the code, and no variable. The callers are
pressure before a step (with its further attempts, `PressureContinues`), recovery from an
overflow (`Recovers`, `RecoveryEnds`), `compactNow` on an idle agent with its flush, and
`compactRegion` asked for by a tool. The agent loop is cut down to what these meet. Each
append of the transaction and of a prune may be refused by a listener (`Vetoed`); the crash
keeps any prefix that contains what was flushed and repairs it (`Restored`).
`CompanionAccepts` and `CompanionTrace` are the checks of the compaction companion. A
message has a size in tokens and no text.

**Preparations** is `SessionPreparations` and the operations of the coordinator on one
identity (two identities share only the capacity of the pool, which is the action
`Evict`). `current` is the pool's map entry, `entry` its phase, result and source,
`tracked` the coordinator's `SessionState`, `chain` the per-identity promise chain whose
head runs and `stage` the backend call the head awaits. A *slot* is an entry and the
Session object made from its read. `caller` is the place of each caller of `prepare`,
`load` and `inspect`: waiting for the shared read (`await`), for a reservation (`wait`),
for its own commit (`commit`, answered by `committed`, `stale` or `failed` and not yet
resumed), or holding the preparation (`held`). `where` is the life of a Session:
unpublished, live, disposed and draining, retired. Abstracted: the write-behind
controller hands over everything it has in one batch (it is `WriteBehind`); all closers of
an interrupted turn are one event (they are `SessionLog`), and a torn tail is repaired
with them; the wait of `load` for the flush of a live session is left out, so such a load
is answered at once. A revision is a counter that every change of the log advances.

The `MC` modules are the TLC instances. The proofs are in eight modules. `ModelRequestProofs`,
`GoalRoundsProofs`, `ToolSchedulerProofs` and `AgentDriverProofs` each
extend the module they are named for; `JobProofs` is about `JobRegistry` and `Notices`,
`PersistenceProofs` about `WriteBehind` and `Preparations`, the two ends of the coordinator.
That is why the definitions of `WriteBehind` that every specification has are called
`WriteInit`, `WriteNext`, `WriteSpec` and so on.
`LeftFold` says how a fold of a log moves with one event, and `SessionLogProofs` applies it to
the folds of `SessionLog`; the proofs of the tool calls and of the agent driver rest on it.

## 3. Runs and bounds

| run | instance | distinct states | shows |
|---|---|---|---|
| write_behind | 4 events, 2 waiting flushes | 4,621 | nothing lost or reordered under failing writes, retries and overlapping flushes; the queue always has a taker; everything becomes durable; refines `DurableLog`, in which only what is durable is acknowledged |
| agent_driver | 3 messages, 1 step that asks for another, no crash, `Overlooks` empty, by view | 25,772 | the log is well formed, one prompt per turn, no wake forgotten, an abort is final |
| agent_crash | 2 messages, 1 crash, both overlooks | 240,873 | after any cut and repair the live inbox is the projection of the log and nothing is delivered twice; disposal becomes quiescent |
| tool_scheduler | 3 calls, pool of 2, abort, crash, cut repairs | 639,694 | order, barriers, one answer per call, no effect the log does not know of; the scheduler always ends |
| job_registry | 2 jobs, 1 owner or none, 1 wait, limit 1, one outcome of a producer, wake budget 1, 2 messages of a person, no late notice | 472,352 | a completion is reported exactly once; nothing of a gone owner is left; an announced notice waits only with a reason; notices open turns within the budget; disposals complete although a cancel throws |
| preparations | 2 callers, 3 inputs in all, 1 failing backend call, by view | 191,017 | one holder; what is held is what is stored; an owner's log is the stored log; what is acknowledged is stored; every call is answered, also behind a retirement or a reservation |
| goal_rounds | 2 changes by a person, caps up to 2, 2 messages, 1 cancel | 306,795 | a round that enters is the next one of the current goal; none overtakes a person or follows a stop; each is reserved from a stored state; no trigger is lost |
| model_request | 4 attempts, 1 chunk each, budgets 1 and 2, always, no policy, 1 reload | 114,872 | the budget holds over routes and reloads; no request after a cancelled wait; a message has the chunks of one attempt; aborts and disposals get through |
| compaction | 1 resumed tool call, results of 3 tokens pruned to 2, threshold 4, 1 further attempt, 1 retry, 3 inputs in all | 286,215 | calls and results stay paired, but for those of a tool phase that failed; the projected total is the surface's; the log is bracketed over vetoes and crashes; a summary lands on what it was made from; what a person is told is true; a retry follows progress |
| agent_late_send, preparations_append, goal_stale_round | 2 messages without steps; 1 caller, 1 slot, 4 inputs, no failure; 2 changes by a person, cap 1, no messages | | the three divergences of section 6 that a run shows |

Why the bounds are enough.

*WriteBehind.* Four events let one batch be in flight, fail and be put back while
two more are enqueued and a fourth arrives at a pause. Two flushes let one join the
barrier of the other, and one fail behind initialization.

*AgentDriver.* Three messages are a prompt under way, one queued behind it and one
that steers or wakes at the worst moment; one further step is needed for the
boundary inside a turn. The crash run has two messages and one step per turn, since
each prefix of each log is a state of its own: what a crash can separate is an
insertion, a claim, a delivery and the events of two turns, and these are there. It has
both values in `Overlooks`, since its properties do not depend on them: what the code does there is
part of it.

*ToolScheduler.* Three calls over a pool of two: the smallest instance with a full
pool, a call that waits for room, and a barrier between two others.

*Notices and JobRegistry.* Two jobs over a limit of one make a start meet a running and a
stopping job, and let two settle into the same turn of an owner, or the second meet a
budget that the first has used up. Two messages of a person refill it, and
let one follow another that a cancelled driver latched. Producers settle as completed (`Outcomes`): no
statement of the registry tells the terminal states apart, and a cancel that throws adds failed. `LateNotices` is FALSE:
with TRUE, `HeldNoticeHasReason` is violated in six steps (section 6), and the other
properties of the run do not look at it. One wait can
be released, time out or abort on either job; that waits of one job do not disturb each
other is part of the proof of `CompletionIsReported`, for every set of waits.

*GoalRounds.* Two changes by a person are a creation and the change that makes a round
stale, at each of its stages; the driver's own changes (pause, block) come on top. A cap
of two has a first round, a round after a round and the limit. Two messages are a prompt that competes
with a queued round and one that steers, or is latched behind a cancel. `MaxLoops` is three, and
at most two of the loops exist at once.

*ModelRequest.* Four attempts let a budget of two be used up with another route in
between, and let a retry of the policy behind come between two of the plugin's own. One
chunk per attempt suffices to tell the attempts apart.

*Preparations.* An input (`MaxInputs`) is a call or a disturbance: an event of a session, a
created session, an append, a deletion, an eviction or a foreign write. Three of them give a
holder and a waiter with an invalidation between the claim and the commit, a call with two
disturbances, and a call that follows two others; a session may be created on the
state that a load left, write, and meet a failure. One backend call may fail at any of these
points. The slots suffice for the entries, sessions and callers that exist at once; a caller
that found none free would wait, so the bound removes behaviour but adds none, and under
three inputs at most two entries are referred to besides one live session.

*Compaction.* An input (`MaxActs`) is an answered request, a prompt, a cancel, a compaction that
a person or a tool asks for, a veto, an act of another plugin, or a crash. Everything else
(pressure, recovery, prunes, summaries that arrive, fail or are too large) happens as often as it
can. The initial log has a closed turn with a tool result worth pruning, so three inputs reach:
a second attempt under pressure, with the first checkpoint inside the new range; a retry
that only a prune has earned, and a second overflow after it; a lock left by a veto that pressure and overflow
run into; a stale start of an earlier life followed by a new transaction; a surface that
another plugin changes during a summary or while the capacity is awaited; a tool phase that
fails after one of two results, with compactions over what it leaves; a crash
between a price and its replacement, and one before and after a flush; a region in the middle of the surface.
Each was confirmed with an invariant that denies it. Result sizes exceed what a pruned result
costs, and summaries may be smaller than the range or not.

Assumed of the environment of these runs: detached appends (`append` of the service) are
only requested for an identity that is not reserved, owned, live or retiring
(`AppendWhileHeld` lifts this, see section 6); another process may append to
a log only while this one has no cursor for it and is not writing it, since the package's
README gives no exclusion of foreign writers; the working directories of all sessions with
the identity are equal.

*The view of preparations.* `SlotsView` hides the contents of a slot that nothing refers to
any more, and of an entry that has left the pool everything but the result its callers
still wait for (an inspection still asks for its source). No action reads more of them
before it overwrites them, and the properties of the run speak of the pool's entry, of existing sessions and of
the callers only. The fairness is over actions that change what is visible.

*The view of agent_driver.* The log grows with every event, although nothing reads it
without a crash. `DriverView` replaces it with the folds the invariants are
functions of (`TraceOf`, `Valid`, `PromptCount`). Each of them is a left fold, so its
value after an action is determined by its value before and by the appended events,
and those depend on the other variables only. `AbortIsFinal` is about the appended
events too. So two states with the same view have the same futures and the same
verdicts.

## 4. Fairness and deadlock

The fairness conjuncts are weak and one per queue of the event loop.

* WriteBehind: timers fire, a promise that the backend returned settles (either way),
  microtasks run, initialization settles, and a flush that was called goes on.
  Publishing and calling flush are never required.
* AgentDriver: the rest of a synchronous piece runs (`Wake`, `ReplayWake`, `Retire`) and
  each await of the driver ends *in some way*. It is not assumed that it ends well:
  the conjunct is over the disjunction of every outcome. Sends, cancels, removals,
  maintenance and disposal are not fair; a maintenance task that began does end.
* ToolScheduler: the scheduler's task runs, a checkpoint resolves or rejects, a tool
  body returns or its dispatch rejects. Repair and resume are not fair.
* Preparations: the head of the chain runs and its backend call settles (either way), a
  caller whose promise has settled resumes, a batch is handed over (the deadline of the
  controller, or the final flush), a retirement goes on, and the holder of a preparation
  publishes it or disposes it: the only caller, `agent-loop/src/index.ts:684-725`, disposes
  in a `finally`. Calls, aborts, disposals of sessions and all disturbances are not fair.
* GoalRounds: the agent's awaits and each scheduling loop's settle, in some way. What a person
  or the model does to a goal is not fair.
* ModelRequest: timers fire, a policy behind the plugin settles (its README asks for that),
  a stream ends, well or not, and the loop goes on. Aborts, disposals and mounts are not fair.
* Compaction has no liveness property: its states hold the log, and the graph with fairness was
  beyond the budget of a run. That its awaits end is the business of the model and the adapter.
* JobRegistry and Notices: the owner's turns and a person owe nothing, but a driver that has ended
  retires; a producer settles after it *took* a cancel (the contract of
  `JobHooks`); one whose cancel threw, or that was never asked, may run forever. Timers
  fire and continuations run.

Deadlock is checked in write_behind, where a flush can always be called. The other
configurations set `CHECK_DEADLOCK FALSE`, because each of their instances really may
come to rest: the messages, events, calls or jobs of the bound are used up and the
component is idle, which is a state the program stays in as well. That nothing stops
*earlier* is what the liveness properties say.

## 5. Proofs

Every theorem is of the form `Spec => []P`, or `Spec => [][A]_vars` for an action property, and
holds for every value of the constants that the module's named assumption admits. The
assumptions say no more than that bounds are natural numbers, budgets and pools positive, and
(`RegistryAssumption`) that finitely many jobs are started, the marker of an unowned job is
no owner and a producer's outcome is terminal. Five theorems have a hypothesis on a constant, which their statement shows: `OwnersExtendTheLog` and
`FlushedEventsAreDurable` (`~AppendWhileHeld`), `RoundsAreAdmissible` (`~OuterAwaits`),
`NoWakeIsStranded` (`Overlooks = {}`) and `HeldNoticesHaveReasons` (`~LateNotices`). Without it each of
them is false of the code (section 6). Each proof follows the same line: an inductive invariant `IInv` that
implies the properties, one lemma per action, and lemmas on the operators. The invariants
were checked by TLC on small instances before they were proved.

| run's property | theorem |
|---|---|
| `NothingLost`, `NotStranded`, `ImplementsDurableLog` | `NoEventLost`, `QueueIsNotStranded`, `RefinesDurableLog` |
| `HeldIsCurrent`, `SoleHolder`, `OwnerExtendsLog`, `FlushedIsDurable` | `HeldAreCurrent`, `HolderIsSole`, `OwnersExtendTheLog`, `FlushedEventsAreDurable` |
| `CompletionReported`, `NoRedundantNotice`, `GoneOwnsNothing` | `CompletionIsReported`, `NoticeIsNotRedundant`, `DisposedOwnsNothing` |
| `TurnsWithinBudget`, `HeldNoticeHasReason` | `WakesAreBounded`, `HeldNoticesHaveReasons` |
| `BudgetHolds`, `RetriesAreRecorded`, `MessageIsOneAttempt` | `FiniteBudgetHolds`, `RecordIsComplete`, `MessageHasItsChunks` |
| `RoundIsAdmissible`, `PersonComesFirst`, `CheckpointBeforeRound` | `RoundsAreAdmissible`, `ThePersonComesFirst`, `RoundsFollowCheckpoints` |
| `ModelOrder`, `ExclusiveIsBarrier`, `AnsweredOnce`, `EffectsAreRecorded` | `ResultsAreOrdered`, `ExclusiveCallsAreBarriers`, `CallsAreAnsweredOnce`, `EffectsStayKnown` |
| `LogIsValid`, `InboxIsReplayable`, `DeliveredOnce`, `NoWakeStranded`, `AbortIsFinal` | `LogStaysValid`, `InboxStaysReplayable`, `MessagesAreDeliveredOnce`, `NoWakeIsStranded`, `AbortsAreFinal` |

The type invariants are proved as well.

### Write path

The first half of `PersistenceProofs` proves, for every number of events and waiting flushes:
`WriteTypeCorrect`, `WritesAreSerial`, `NoEventLost`, `FlushIsDurable`, `QueueIsNotStranded`
and the refinement `RefinesDurableLog`. `WritesAreSerial` and `FlushIsDurable` are stated
for the proof only: the refinement, which the run checks, would fail with either. The only assumption is that the bounds are
natural numbers (`BoundsAssumption`).

None of these properties is inductive. The invariant `WriteInv` adds three parts.

* `Settlement` says who can be in progress together. A write of a barrier runs only
  while the barrier drains; a queued continuation excludes a newer settled write. With
  it, every place that calls `startWrite` finds no write in progress, which gives
  `OneWriteAtATime` and with it the order of `NothingLost`.
* `Handover` says who takes the queue when the automatic path is on: the deadline, or
  the write that used the deadline up and will look at `deadlineExpired` when it
  settles well. It also says that a failed barrier leaves the path paused. `NotStranded`
  follows from it.
* `Marks` relates `promised`, `mark` and `accepted`; with `NothingLost` a barrier that
  closes on an empty queue has made everything up to its mark durable.

There is one lemma per action, and the lemmas on sequences that are prefixes of the
published events (`PrefixSplit`, `PrefixAppend`, ...) are stated once. The refinement
maps each variable to itself; the step `WriteSucceeds` is the abstract `Commit`, the close
of a barrier is `Acknowledge`, `Enqueue` is `Accept` and everything else stutters.

### Preparations

The second half of `PersistenceProofs` is about `Preparations`, for every set of callers, every number of slots and
every bound (`PreparationsAssumption`: the bounds are natural numbers and there is a slot):
`PreparationsTypeCorrect`, `HeldAreCurrent`, `HolderIsSole`, `EntryOrLive`, and, with appends only
for identities that are not in use, `OwnersExtendTheLog` and `FlushedEventsAreDurable`. The
hypothesis `~AppendWhileHeld` of the last two is the constant of the run preparations; with the
other value they are false, which is what the run preparations_append shows (section 6).
Nothing else is assumed about who calls what: any number of callers, of failing backend calls, of
foreign writes, deletions, aborts and evictions.

The properties say what a holder or an owner may rely on *now*; most of what makes them true is in
the queue. The invariant `IInv` therefore says of each place of the identity what is still on its way to it.

* `SourcesAreRead`, `CursorIsEnd`: an entry whose revision is the current one has read what is
  stored; a known cursor stands at the end of the log, and ownerless state is kept only for a log
  whose last turn is over. Ownership is only given out on such a state.
* `CallersFit`: the callers that took a ready entry have it for themselves, until they give it
  back. `HoldersFit`: from the revision check of the commit to the end of the reservation the
  entry is the pool's, nothing is being written and nobody owns the identity. The interval begins
  in the job of the chain that answers the commit, before the caller resumes, so that a caller
  that is `committed` with its entry still in the pool counts as a holder.
* `StageFits`: what the head of the chain awaits is about the identity as it is now; a write
  under way is the part of the owner's events behind the cursor.
* `OpsFit`: every queued operation finds its slot or its caller as it was left (`Fits`), writes of
  a session find it as the owner, and no two queued operations are about the same slot or caller
  (`Clash`). Without the latter the first of two could change what the second relies on.
* `OneLive`, `InitIsGuarded`: while the binding of a fresh session is queued no entry enters the pool,
  because that session, or one created behind it, is live or is the retirement in the way.
* `ReadyFits`, `PreparedExtends`, `LogIsOwned`: a session whose write path is ready owns the log and has
  acknowledged no more than the cursor, or it lost the identity without ever having an event.
* `AppendIsUnowned`: an append for an identity that is not in use runs before anybody comes to own
  it: no binding and no commit of the pool's entry is queued before it.

`HeldIsCurrent`, `OwnerExtendsLog` and `FlushedIsDurable` follow from `IInv`. `SoleHolder` also
needs `OnePlace` (the pool's entry and a live session exclude each other), which is inductive relative
to `IInv` and has its own theorem `EntryOrLive`. The proof has one lemma per action;
operations of the chain that share a shape share a lemma (`OpsStay`, `OpsGrow`, `OpsPop`: what
becomes of the queued operations when the chain stays, grows or loses its head).

### Jobs and notices

`JobProofs` proves, for every set of jobs, owners and waits and every limit:
`TypeCorrect`, `CompletionIsReported`, `NoticeIsNotRedundant`, `LimitHolds`,
`DisposedOwnsNothing` and the action property `OutcomeIsFinal` (`LimitHolds` and
`OutcomeIsFinal` have no run of their own). Assumed are that the
limit is a positive number, that only finitely many jobs are started, and that the
marker of an unowned job is no owner, and for any terminal outcomes (`RegistryAssumption`). Its invariant adds to the
properties:

* `ReportIsClaimed`: before a settlement `reported` is set by a kill or a teardown only, and a job
  that is not over has not been announced. So when `settle` keeps silent, somebody who
  knows has claimed the report.
* `WaitStates`: `waiters` counts exactly the waits that are pending, released or timed out
  and whose continuation is still to come; none of them is left pending by a settlement.
  It is what makes the suppression by `waiters > 0` sound: a counted wait cannot reject any
  more once its job is over. An abort that uncounted later would break it.
* `Reachable`: an active job has a record; a registry in disposal has claimed and awaits
  all of them; the owner of a record has its cleanup attached or in progress. The check
  of the owner *before* the place is taken, in `start`, is what it needs.

The job registry is one component of `Notices`, and `DeliveryImplementsRegistry` proves that the
composition implements the registry alone (`NSpec => Spec`): every theorem above holds with the
delivery at work. Its own invariant `NIInv` adds to `IInv`:

* `OwnedIsTorn`: a teardown has claimed the report of every active job that it awaits, so
  a job that settles into a disposal announces nothing.
* `NoticeIsOwned`: only a job of an owner is announced.
* `Paid`: what an owner's notices have opened is at most `Budget` for each message of a person
  that was claimed, plus what is `spent` now; a message that still waits has its budget in
  reserve. A refill that resets `spent` thereby pays with that message.
  `TurnsWithinBudget` alone says nothing of a message that waits, and a claim would break it.
* `EndingFits`: a driver ends while its owner is busy, and a latch stands for a message that waits.
* `HeldFits`: without late notices, `HeldNoticeHasReason`, and a driver whose last turn completed has left no notice behind
  (`ClosedIsEmpty`), so that its retirement leaves none on an idle owner. This is what a late notice breaks; the
  rest of the invariant, and with it `WakesAreBounded`, holds with late notices too.

### Model requests

The count of retries is no variable of the code, it is read back from the log. So the
invariant of `ModelRequestProofs` is about places in the log: `LastsExist` (a set of places has a
last one, without which `CHOOSE` says nothing), `StartsLookBack` (a start names an earlier
retry, and a wait is for the event appended last), `DownstreamIsAlways` (only a policy without a
bound asks the policy behind it), `NextIsEarned` (whoever is on the way to another request has a
start or a delegated decision for it) and `ChunksAreCurrent` (the chunks collected are
those of the current attempt, and a message is the last event).

### Goals

The invariant of `GoalRoundsProofs` has one part per stage of a round: `NothingFromLater`, `OnePlace`
(a reservation is queued, claimed or admitted in one place only), `IdleIsSettled`,
`BehindIsStale` (a message behind the reserved round has made it stale), `FenceStands`
(behind the second look the goal is as the fence has seen it), `TurnIsTracked`,
`HaltIsUnderWay` (a halted goal that is still armed is about to be disarmed), and for the
loops `OnePiece` (no two synchronous pieces at once) and `UnstoredIsKnown` (what was
appended since the last checkpoint makes one due, or one is under way).

`RoundsAreAdmissible` has the hypothesis `~OuterAwaits`: no listener mounted before the driver
awaits after `next()`. It is the configuration of run goal_rounds; for the other one the run goal_stale_round refutes the property
(section 6). `ThePersonComesFirst` and `RoundsFollowCheckpoints` hold in both.

### Logs

A session's trace, the scan of the repair and the replayed inbox are folds of the log. The
induction theorems of the library take a predicate as parameter, which the provers
cannot instantiate; a *set* of numbers or sequences can be. `LeftFold` proves induction over a
set from the well-foundedness of the naturals, and from it that a fold over a log with one more event is the operator
applied to the fold and the event. It has the operator as a CONSTANT and is instantiated for
each one (`Traces`, `Scans`, `Checks` in `SessionLogProofs`; `Replays`, `Turns`, `Counts` in
`AgentDriverProofs`). Proofs then follow a log event by event, and nothing
recursive has to be unfolded.

Both components that write logs survive a crash which keeps *any* durable beginning of the log. What is
inductive is therefore a statement about all beginnings: `Sound` says that each of them is `Good`,
meaning that the trace and the scan are what the events in it demand, and that nothing in it is
there twice. The lemmas in the first half of `ToolSchedulerProofs` and of `AgentDriverProofs` are about logs
alone: which event may come next, that a cut of a sound log is sound (`SoundCut`), and that any
part of a repair (`RepairIsSound`), or the whole one (`RepairedIsSound`), leaves a sound log.

*Tool calls* (`ToolSchedulerProofs`). Besides `Sound`, `LogFits` says for each `pc` which calls are recorded
and answered (`Running`), with `Cursor` for the call whose record is written although `next` does not count it
yet. `PoolFits` bounds the pool and says that a call that was started is in flight or has its slot,
so that the commit cursor cannot pass it. `GroupFits` places the exclusive calls in earlier groups
or alone in this one. `EffectsFit` says that a body is entered behind the durable record of
its call. After a crash the answers come from the closers: the scan holds exactly the unanswered
calls, each marked as recorded or not (`EntriesFit`), hence `EffectsAreRecorded`.

*Agent driver* (`AgentDriverProofs`). `LogFits` says where the log stands for each `pc` (`Stands`: all folds
agree on turn and step, nothing was refused, no claim of a prompt was stray) and that the inbox is its replay.
`ClaimFits` says that the claimed batch is neither queued nor heard: the messages of an inbox, of a claim and of the transcript are
three disjoint sets, in every beginning of the log. This is what lets a crash lose any end of the log and
still deliver nothing twice: it may undo a delivery only together with it bringing the message back to the inbox.
`OwedFits` accounts for each message that is queued and not parked (`Owed`): by a driver that
will look at the inbox, by a latch, by a replay or by the rest of a send that is under way. With
`phase = "idle"` and nothing under way nothing is left, which is `NoWakeStranded`. `OwedFits` is the
only part that needs `Overlooks = {}`; the other theorems hold for every value.
`AbortIsFinal` follows from `IInv` by what each action appends (`AppendsTimely`).

### Only model-checked

* Every liveness property: `WritesSettle`, `DisposeQuiesces`, `Settles`, `DisposalCompletes`,
  `CallIsAnswered`, `GoalComesToRest`, `AbortAndDisposalEnd`. Fairness and `ENABLED` are beyond the prover.
* `Compaction`: `SurfaceIsPaired`, `ProjectionIsExact`, `LogIsBracketed`, `SummariesLand`,
  `ReportedIsTrue`, `RetriesMakeProgress`.
* The three divergences that a run shows: a counterexample is a run, not a theorem.

## 6. Divergences found

* **agent_late_send**: `agent.ts:175-176` says that "Live drivers claim queued work themselves", and
  `wakeDriver` therefore latches only for maintenance and aborted drivers. A driver whose last turn is over is
  still `running` until `kick`'s `finally`, some microtasks later, and that looks at the latch only. In the
  run's trace the pre-step of a turn throws, `turn/end` is logged, and a second waking send comes before the
  retirement: it is neither claimed nor latched, and the agent goes idle beside it. The same
  window follows the last look of a turn that completed (`agent.ts:324`). A later waking message starts the
  agent again. With `Overlooks` empty `NoWakeStranded` holds (run agent_driver).
* **preparations_append**: `coordinator.ts:1160` calls flush "the immediate durability
  barrier for buffered writes". `append` is refused while the identity is reserved
  (`preparations.ts:222`), but the test runs when the operation's turn comes, and the owner
  of the state is never looked at. The run's trace has one caller and no failure. A first session stores its
  event and retires; a `prepare` loads the log, claims the entry and its commit returns; an append is
  requested while that preparation is held; the preparation is published; the append runs and takes the
  owner's next place in the log. The owner's own next event is then filtered as already stored
  (`coordinator.ts:1390`) and acknowledged without being in the log. With appends only for identities that are
  not in use the property `FlushedIsDurable` holds (run preparations).
* **goal_stale_round**: the driver's README says that its pre-step listener "verifies the
  complete claimed record and current goal both before and after downstream listeners".
  The second look ends when that listener returns. A listener mounted before the driver
  (agent-instructions, `bundle/base/cordis.patch.yml:235` against `:262`; tmux-context with
  `prepend`) is outside it and awaits after `next()`. A person who pauses, edits or clears the
  goal in that await lets a round enter that the strict fold refuses
  (`goal/goal/src/fold.ts:325-328`). The fold never gets past the event, and every later read
  or change of the goal throws. `OuterAwaits` turns such a listener on; without it
  `RoundIsAdmissible` holds.

Met while modelling, without a run:

* *Two scheduling loops.* `requestDrive` assigns `state.run` after the loop's first synchronous
  pass. When that pass blocks the goal at its limit, the listener of `goal/changed` finds no
  run and starts a second loop; each retirement then clears `state.run` for both. If, with a
  prompt waiting behind the last checkpoint, the goal is edited and resumed, a round can be
  reserved before the flush of the resume has settled, although the README says that the
  driver "before queuing work" awaits it and the comment of `requestDrive` promises one
  serialized driver. It takes four changes of the goal; `CheckpointBeforeRound` is stated for a
  single loop.
* *A round left at the head of the queue.* When a turn ends with a round still queued (it was
  rejected at a later step, or a cancel kept the inbox, as the host's stop does,
  `host/apiproxy/src/api-proxy.ts:2641`), the driver pauses the goal and the message stays. A
  resume queues its round behind it, the stale one is claimed and rejected, and the goal is
  paused again.
* *An empty first step.* A turn whose first pre-step enters with nothing returns without a
  look at the inbox, and the driver retires with a prompt that was queued meanwhile, although
  `agent.ts:175-176` says that live drivers claim queued work themselves. It is the value
  `"empty turn"` of `Overlooks`, with which `NoWakeStranded` is violated too.
* *A disposal behind a cancel.* `agent.ts:176-177` says that "disposal never latches, so teardown waits on no
  model turn", and `runtime-types.ts:109-110` that a `disposed` cancel leaves the message parked. `wakeDriver` looks at the
  reason of the signal, and an `AbortController` keeps the reason of its first abort. When a user's cancel comes first
  and the disposal while the activity unwinds, a waking send is latched and the teardown waits
  for the turn it opens. `AgentDriver` has this behaviour (`Cancel`, `WakeDriver`); that the disposal still ends is
  `DisposeQuiesces`.
* *Retries and steps.* llm-retry's README (line 13) says its companion wants the "latest closed step" of a
  retry; the companion demands an open step (`invariant.ts:95`), and the plugin retries in it.
* *Notices.* `tool-jobs/src/index.ts:270-271` says that a turn cannot close over a notice in its
  next-step inbox. A turn that is rejected, fails or is cancelled can (`stalled`), and so can one that
  completed, in the window of agent_late_send: with `LateNotices` TRUE, TLC finds that a job is started, a person's message opens a
  turn, the turn completes, the job settles and its notice is injected because the owner is still running, and the owner becomes idle
  with budget left. The notice then waits for the next message.
* *Calls without a result.* A failure of the scheduler (a prepare, a record or a commit that rejects,
  `tool-calls.ts:115-119, 231-235`) ends step and turn "without fabricating tool results", as the loop's README says.
  The repair and the companion forget pending calls at the end of a step (`repair.ts:48-51`, `invariant.ts:107-111`), so these calls
  dangle on the surface of every later request; and because `tool-pairing.ts` counts, no cut behind
  them is balanced any more: nothing behind them is ever compacted. `SurfaceIsPaired` says exactly which calls dangle,
  and that they stay.

## 7. Not modelled, and limits

`PROJECT.json` has the status of all components. In the modelled ones:

* The windows inside one microtask chain of Cordis' own teardown are not explored: the
  job controllers are unloaded together with the registry in one step.
* A step of the driver is one await in `AgentDriver`; the interior of its tool part is
  `ToolScheduler`. The two are not composed: the product adds no shared variable but the
  log and the signal, which both modules have.
* The durable prefix is an assumption of `AgentDriver` and `ToolScheduler` (any prefix that
  contains what was checkpointed). `WriteBehind` shows that the write path provides it.
  That a backend appends atomically is assumed of both backends; the torn tail of the
  JSONL backend is planned.
* `Inbox.replace` has no caller in the loop; the only prepends are the goal driver's, which
  puts back what was claimed next to its own round (`GoalRounds` counts them).
* Of the coordinator, `create` of detached metadata, `readFrom`, listings, format checks, the
  adoption of live sessions at a hot reload and the teardown of the backend are left out.
* Of the goal driver, its loading and unloading over live agents, the session-start edge, a
  followup that throws and maintenance are left out. Objectives and texts play no role.
* `Notices` has the part of the loop a notice can see and not the whole `AgentDriver`: how a turn
  may end and when the driver retires are translated from the same code. The microtasks between
  the settlement and the owner's first claim are one step.
* In `ModelRequest` delays have no length, and whether a failure is retryable is a choice. A
  listener before llm-retry may decide instead of it at any failure. Tool calls of the
  message are `ToolScheduler`.
* In `Compaction` the events of a step, the price that is anchored to the usage a provider
  reported, sessions without a routed target, the wait of llm-retry next to an overflow and
  cancels that keep the inbox are abstracted. A veto of the start itself changes nothing and
  is left out, and so is one of a metering event (a prune that has not begun). Nothing
  in the repository calls `compactRegion` or `pruneSession` outside compaction-basic; both are
  public, and `ToolCompacts` and `OtherPrunes` stand for an extension that does. A
  prompt behind a failed turn stays parked, which is `AgentDriver`'s matter.
* Access checks, scope layers, output buffers and the change observers of the job registry
  do not influence the modelled state.
* Of the invariant companion, the relations of turns, steps and tool calls are modelled;
  those of derived events, chunks and the request surface are not.

Out of scope: user interface, transport, wire formats of model providers, operating-system
processes, sandboxes, remote worlds, code generation, vendored framework code.

## 8. Plan

Order: the most important behaviour first. Done: 1-9.

1. `DurableLog`, `WriteBehind`, proofs of its safety and of the refinement.
2. `SessionLog`, `AgentDriver` with crash and disposal.
3. `ToolScheduler` with checkpoint and repair.
4. `JobRegistry` and the proofs of its safety.
5. `Preparations`: the coordinator's shared read, reservation, revisions, ownership and
   retirement of one identity.
6. `ModelRequest`: chunks, attempt budget, back-off, abort while waiting, reload.
7. `Notices`: `JobRegistry` with the owner's turns, the wake budget and its refill.
8. `GoalRounds`: the goal, its driver and its fence.
9. `Compaction`: the transaction, its callers, the pruner, the surface and its projected total.

Proofs, done: the write path, preparations, jobs and notices, model requests, goals, tool calls and
the agent driver. Next:

* `Compaction`: `LogIsBracketed` and `RetriesMakeProgress` on the lock, which is a fold of the log;
  `ProjectionIsExact` by following both folds with `LeftFold`; then `SummariesLand`.

Later modules, each a component with state and awaits of its own: the subagent service's
continuations (with `JobRegistry`), `Schedule` (timers and idle agents), `Approvals` (one-shot
requests racing an answer, an abort and a disposal), `TornTail` (the JSONL backend against the
durable-prefix assumption), storage documents and settings commits, the agent factory.
