# grok-pi: a TLA+ model of the Pi adapter

grok-pi runs the Pi coding agent behind the native Grok terminal UI.  The
*pager* (the UI, imported upstream code) speaks ACP; *Pi* is a separate process
that speaks JSON lines on stdin/stdout and hosts TypeScript extensions.  The
program's own logic is the adapter between the two, the crate
`src/crates/codegen/pi-grok-adapter`, together with the extensions under
`src/extensions`.  This directory models the parts of it in which order,
failure and time matter, and of the shared crates the circuit breaker; it checks
them with TLC on small instances, and proves their safety properties with TLAPS for all
instances.

`PROJECT.json` lists the components, runs, mutants, the correspondence of every
definition with source lines, the findings, the hazards and the theorems.

## 1. Inventory

Paths are relative to `src/crates/codegen/pi-grok-adapter/src/` unless they
start with `src/`.

| component | source | state | operations | interacts with |
|---|---|---|---|---|
| RPC connection | `pi_rpc.rs` | generation counter, endpoints (writer, child control), pending map, event channel; per child: process, writer, reader, exit coordinator | request, send, deadline, dropped caller, kill, kill_unresponsive, respawn | everybody; emits Pi's lines and `adapter_process_exit` |
| Recovery | `pi_adapter/recovery.rs` | sliding window of recoveries, heartbeat misses, the session in the bootstrap | recovery round, attempt, watchdog | a round is spawned for every crash event; calls respawn, switch_session, replace_bootstrap |
| Queue mirror | `queue_bridge.rs` | five lists: local rows, Pi's rows, reservations, parked turns, the running slot; id counter | enqueue, take, edit, reorder, reserve, queue_update, promote, clear | owned by AdapterState |
| Prompt scheduler | `pi_adapter/agent.rs`, `queue_runtime.rs`, `events.rs`, `tools.rs`, `session.rs`, `pi_adapter.rs` | active prompts, waiting completions, flags agent_running / cancelling / bash_running | prompt, cancel, queue methods, dispatch, interject, flush, probe, settle poll, event handlers | pager (requests and notifications), Pi (RPC and events) |
| Background Bash | `background_bash_bridge.rs`, `tools.rs`, `src/extensions/pi-grok-bash` | shells in Pi; mirror of tasks in the adapter | launch, promote, finish, deliver; record, drain | status lines, tool results, messages, exits |
| Session operations | `pi_adapter/session.rs` | bootstrap, session paths, replay cache | load, new, fork, clone, rename, navigate, reload | requests to Pi; exchange the plan tracker |
| Goal host | `goal_host.rs`, `session.rs`, `src/extensions/pi-grok-goal` | the goal file, shared with the extension; a window of continuations and a loop guard | set, replace, pause, resume, end; continue, count, block | the scheduler continues a goal when a dispatch found nothing to do |
| Loop and workflow hosts | `loop_host.rs`, `workflow_host.rs`, `pi_workflow_backend.rs` | next to none of their own | translate bridge entries; run upstream workflows | event consumer |
| Plan mode | `plan_mode.rs`, `agent.rs`, `events.rs`, `tools.rs`, `session.rs` | Inactive / Pending / Active / ExitPending, two flags; the session's snapshot and the control file of the write gate | set mode, prompt, settle, approval, load, new, fork, clone, restart | prompt and dispatch put its reminders into texts; the extension in Pi reads the control file |
| Circuit breaker | `src/crates/common/xai-circuit-breaker` | five atomics and a window under a lock | check, record, error_rate | used by upstream HTTP clients, from several threads |
| Subagents | `subagent_projection.rs`, `subagent_transport.rs` | sequence numbers per subagent, pending replays | accept, replay, cancel | socket from the extension |
| Projections | `tool_projection.rs`, `model.rs`, `context_projection.rs`, `cache_metrics.rs`, `todo_bridge.rs`, `btw_bridge.rs`, `recap_bridge.rs`, `psm_session_catalog.rs` | next to none | JSON in, ACP out | event consumer |
| Upstream | `src/crates/codegen/xai-*`, `src/crates/common/*` | - | - | the pager is the adapter's client |

What is hard here:

* **Concurrency.**  The adapter's tasks run on one thread (a `LocalSet`) and
  interleave at every `await`: a notification to the pager, an RPC, a sleep.
  State read before an await is used after it.  The tasks of `pi_rpc.rs` are
  spawned on the runtime and interleave at their own awaits and locks.
* **Failure.**  Pi can crash, hang, refuse a command, swallow a prompt in an
  input handler, or start a turn nobody asked for.
* **Ordering.**  Events of one child arrive in order, but events and RPC
  answers are not ordered against each other as far as the adapter's tasks are
  concerned; old children still deliver lines after a new one is attached.
* **Timeouts.**  Requests expire after 300 s (`bash` and `compact` never),
  heartbeats after 15 s, the settle poll gives up after 30 s.  A deadline around
  a whole future (`recovery.rs:109`) drops requests at their await.
* **The user.**  The only event consumer waits for the answer to a plan approval
  dialogue, without a timeout (`events.rs:319`, `tools.rs:240`, `392`).  Until it
  comes, no event is handled: no settle, no exit, no recovery.

What makes each component correct:

* connection: every request resolved exactly once, by the right party; an exit
  takes only the requests of lost children; kill returns; a live child is
  replaced only after a teardown has been awaited;
* recovery: no dead connection that nobody looks after; bounded respawns; the
  adapter is bound to the session Pi has open;
* mirror: an id names one row; rows follow Pi's arrays and keep their identity;
  a started turn keeps its slot;
* scheduler: no prompt lost, answered twice or held for ever; the adapter is
  not busy when Pi is idle; what a cancel answered is not sent;
* background tasks: exactly one terminal state each;
* goals: an active goal goes on, and a loop that makes no progress is stopped;
* plan mode: write gate, screen and snapshot say what the tracker says, and the
  model knows in which mode it works;
* breaker: the fast flag agrees with the state, slots are counted, a lost probe
  does not keep the breaker half open.

## 2. Modules

```
RpcService  <---- refines ----  PiRpc  <--- extends ---  Recovery
                                                            ^
                                                      Recovery_proofs
QueueMirror  <--- extends ---  MirrorMachine, PromptScheduler
     ^                              ^              ^
QueueMirror_proofs  <- extends -  MirrorMachine_proofs, PromptScheduler_proofs
                                                   ^
                                              SchedulerRows_proofs
BackgroundBash  <- BackgroundBash_proofs     PlanMode  <- PlanMode_proofs
CircuitBreaker  <- CircuitBreaker_proofs
MCPiRpc  MCRecovery  MCMirror  MCSched  MCBash  MCPlan  MCBreaker
                                          (model values and symmetry)
```

### PiRpc: the connection

`proc[g]`, `outbox[g]`, `inbox[g]`, `stdout[g]`, `stdinOpen[g]` and `coord[g]`
are the operating-system process, the channel of the writer task, the child's
unanswered commands, the pipe, the writer task and the exit coordinator of
generation `g`.  `pending` is the map of `PendingRequest`s (0: no entry);
`status` is what the caller of `request()` sees; `target` is a history variable
that remembers to which child a command went.  `attached` is the generation
whose endpoints are in `RpcShared`; it lags behind `generation` when a spawn
fails, because `attach_child` counts before it spawns.

A request takes two steps, `Request` (the entry goes into the map) and `Send`
(the command goes to the writer), each under its own lock.  All users of the
connection run on the adapter's `LocalSet`, a single thread, and there is no await
between the two steps; so no other request, call or event is handled in between
(`LocalSetFree`), while the tasks that `attach_child` spawns and the child move
freely.  `Droppable` are the requests of `PiBootstrap::load`, whose future a
recovery round drops at its deadline: their entry stays in the map until the
response or the exit removes it.

| action | code |
|---|---|
| `Request`, `Send`, `RequestTimeout` | `request_inner`: stamp and insert; send or roll back; the deadline |
| `CallerDropped` | `respawn_and_rebind`: the deadline around `PiBootstrap::load` |
| `WriterStep`, `ReaderStep` | the writer and stdout tasks of `attach_child` |
| `CoordKill`, `CoordReaps`, `CoordFinishes` | `wait_for_child_exit` and the exit task: kill on demand, reap, drain stderr, `fail_pending`, emit the exit event |
| `Kill`, `RespawnKill` | `kill`, `kill_unresponsive`, the teardown in `respawn` |
| `AttachOk`, `AttachFails` | `attach_child` with its two outcomes |
| `ConsumeEvent` | `run_events` takes an event |
| `ChildAnswers`, `ChildDies` | Pi (external) |

`RpcService` is what users of the connection rely on: a request is bound to the
child that is current when it is issued, it is resolved once, and an exit fails
it only if its own child is gone.  The refinement maps `child` to `target`,
`current` to `attached`, `gone` to the children that are dead or replaced, and
`status` to itself, except that a request between its two steps is still new.

### Recovery

Extends `PiRpc`: `Respawners` are the recovery rounds, `Killers` the watchdog.
Every crash event that the storm guard lets through starts a round, whatever
other rounds are doing: `Respawners` holds at least `MaxRecoveries + MaxSlides`
tasks, so that no event waits for one.  A round walks through `backoff`,
`respawn`, `load`, `loaded`, `switch`, `reload`, `finish`; each RPC it makes is
bound to the child attached at that moment, as `RpcService` grants, and may fail
at any time: the child is gone, a deadline passes, or a living child answers with
an error.  The session it re-attaches (`saved`) is read again at the start of each
attempt, as in `respawn_and_rebind`.  `bound` is the session the adapter believes
in, `opened[g]` the one child `g` has open.  `told` records for which child the
user was told that recovery has ended.  `WindowSlides` lets a recovery leave the
300-second window.  `asking` says that the event consumer waits for the user
(`DialogueOpens`, `DialogueCloses`).  `slipped` is history, for `BoundToOpenSession`.

| action | code |
|---|---|
| `ExitIntentional`, `RoundBegins`, `RecoveryPaused` | the `adapter_process_exit` event with `try_begin` |
| `AttemptKills`, `AttemptAttaches`, `AttemptSpawnFails` | `respawn()` inside `respawn_and_rebind` |
| `LoadAnswered`, `LoadFails`, `LoadDone` | `PiBootstrap::load` under its deadline, `replace_bootstrap` |
| `SwitchAnswered`, `SwitchRefused`, `SwitchUnanswered` | the `switch_session` request: opened; refused, cancelled or lost; its deadline, with the effect in Pi or without |
| `ReloadAnswered`, `ReloadFails` | the second half of `switch_session` |
| `RoundEnds`, `ReplayFails` | replay, publish, the final notice |
| `HeartbeatMissed`, `HeartbeatReset`, `WatchdogKills` | `run_rpc_watchdog` |

One timing is abstracted: a switch that ran into its deadline takes effect at that
moment or never, not later.

### QueueMirror and MirrorMachine

`QueueMirror` holds every operation of the Rust type as an operator on a record
`[local, pi, reserved, parked, running, seq]`.  `apply_queue_update` is a fold
of `MatchRow` over the desired rows: match an unused old row with the same lane
and text, else a reservation (by text, then by lane), else a new id.
`MirrorMachine` drives it with the calls the adapter makes, in any order, while
Pi's arrays change.  Row versions and edits are here and not in the scheduler.

### PromptScheduler

`ad` is `AdapterState`; operators on it have the names of its methods.  A task
is one ACP request, probe, settle poll or the event consumer; `task[o].pc` is
the await it is at:

| pc | await |
|---|---|
| `kick` | a queue snapshot is being published; `dispatch_next_queued` follows |
| `announce`, `sent` | inside dispatch: the snapshot, then the `prompt` request |
| `direct` | the `prompt` request of a prompt that runs at once |
| `steering`, `steer` | an interjection: the snapshot, then the request |
| `doze`, `ask` | the 40 ms sleep and the `get_state` of a probe (or settle poll) |
| `poll` | the 100 ms between two settle polls |
| `stats`, `settled`, `load` | the consumer inside `agent_settled` or a reload |
| `continue` | the goal's state is being sent to the pager; the continuation follows |
| `bash` | the `bash` request |

Pi is external: it may take, consume or refuse a prompt, start turns of its
own, queue follow-ups, end messages, settle and crash.  Its handlers are
asynchronous, so commands may take effect in any order.  A crash fails what is
in flight before it is announced (that is what `PiRpc` provides).

**Goals.**  `pi.goal` is the goal file: the id counts the goals that were set,
the status is active, paused (by the user, by `update_goal` or by the guard) or
over.  `ad.host` is `GoalHost`: the goal it counts for, the continuations in the
window, the guard.  A task record says what follows a `dispatch_next_queued`
that returned false (`then`: nothing, `maybe_continue_goal`, or the recording of
the continuation it has just dispatched), because settle handler, probe and
`maybe_continue_goal` itself all call it and go on differently.
`MaybeContinueGoal` is everything up to the first await; `ContinueGoal` is the
enqueue after it, for the goal that was read before it.  The extension writes
the file, appends the bridge entry and triggers a turn unless one is going on.
Time appears as `ContinuationExpires`.

Deliberate simplifications: every prompt carries a `promptId`; the plan-mode
files are in `PlanMode`; each process writes the goal file in one step, and the
write succeeds; the notification that opens a direct Bash call is merged with its
request; the settle task of a cancel may begin a little earlier than in the
code, which only adds behaviours; intentional exits are in `Recovery`.

### PlanMode

`tracker` is `PiPlanTracker`, `cur` the session whose plan file it names, `bound`
the session of the adapter's bootstrap, `pi.open` the one Pi has open: the three
come apart between the awaits of a session request.  `file` is the snapshot of
each session, `gate` the control file, `shown` the mode the pager displays,
`believes` what the model of a session was last told.  A handler runs without
interruption up to its next await, so the change of the tracker, the persist and
the sync are one step, with three outcomes of its writes; `SyncAlways` is the form
used by the handlers that log a failure and go on.  The scheduler is reduced to
three flags (running, a client prompt active, one queued) and Pi to "busy", the
settle events not yet handled and the open session; sending a prompt and Pi's
answer are one step, which may be a refusal.

| action | code |
|---|---|
| `EnterPlan`, `LeavePlan` | `set_session_mode` |
| `Prompt`, `PromptQueued`, `Dispatch` | `prompt`, `dispatch_next_queued` with `prepare_execution_text` |
| `Settle`, `SettleFinishes` | `agent_settled` before and after the await of the mode update |
| `PollFindsIdle`, `PiExits` | the turn ends without a settle event; an exit with its recovery |
| `AskApproval`, `Approved`, `Rejected` | `request_plan_approval` around its await |
| `PiSwitches` | Pi replaces its session for `load_session`, `new_session`, fork or clone |
| `LoadSwitched`, `LoadCurrent`, `LoadEnds` | `load_session`: `replace_bootstrap` and the tracker; the same for the session that is open; the end of the request |
| `NewSwitched`, `NewTracker`, `NewCancelled` | `new_session`: `replace_bootstrap`; the fresh tracker after `publish_bootstrap`; the request that Pi cancelled |
| `BranchSwitched` | `rebind_after_session_branch` (fork, clone): the tracker, and no publication |
| `LoadFails` | a session request that returns early, before or after `replace_bootstrap` |
| `Restart` | a new adapter restores the snapshot |

A fork or clone starts with a copy of the history, so the new session's model
believes what the old one's did, and has no snapshot of its own.

`hist` records what a property has to except: a write or a load that failed, a
reminder that was dropped, a flag that came from a snapshot, a prompt left behind,
a tracker exchanged by a fork or clone and not published since (`unsynced`).  An
activation whose snapshot was not written counts as a dropped reminder too
(`Unrecorded`): if the adapter restarts before the next write, the model has been
told of plan mode and the restored tracker knows nothing of it.  So does a prompt
or an approval that reaches Pi while the tracker is still another session's
(`Astray`).

Assumed: the client makes one session request at a time; a request that
reads Pi's state when Pi exits has failed before the exit event is handled; the
recovery of an exit is one step here (its own interleavings are in `Recovery`); and
no recovery replaces the bootstrap while a cancelled `new_session` publishes it.

### CircuitBreaker

Every thread inside `check` or `record` is at one atomic access or at the lock
of the window; `th[t]` holds its program counter and locals (the time it read,
the claim it saw).  `trip` is four steps and `close` four steps, in the order of
the code.  The counter of probes is an unsigned word of `WordSize` values and
wraps.  A caller may be dropped between `check` and `record` (`Cancelled`).  The
memory model is sequentially consistent: the state is published with
release/acquire operations; the relaxed load of `is_open()` is an observation of
`fast` that may be older than the model's.  `episode` and `overlap` are history:
the slots handed out since the breaker became half open, and whether two
transitions ran at the same time.

### BackgroundBash

The shells of each Pi process, its stdout as a sequence of lines, the reader,
the exit announcement and the adapter's mirror `[Ids -> state and owner]`.
Lines carry the process that wrote them as history; the code cannot see it.
A completion message may never be delivered: the extension batches late ones
into a message the adapter does not parse, and the adapter drops messages and tool
results while it cancels (`HandleEvent` may drop any of them: the user can cancel
at every moment).  `asking` says that the event consumer waits for an approval.  A
restart may precede the announcement of the old exit.

## 3. Runs

All runs allow the system to stop (`CHECK_DEADLOCK FALSE`): the user may do
nothing and Pi may be silent.  Bounds are constants; each `.cfg` lists them.

| run | instance | shows |
|---|---|---|
| `rpc_connection` | 2 requests (one without deadline, one whose caller may be dropped), 2 respawners, 1 killer, 2 generations, fair | `PendingMatchesCallers`, `ExitFailsOnlyLostRequests`, `LateResponsesAreStale`, refinement of `RpcService`, `KillReturns`, `OutstandingRequestsFail` |
| `recovery_rounds` | a storm guard of 1 round and a window that slides once, so 2 rounds that may overlap, one of 2 attempts and one of 1 (`Brief`); watchdog, 5 generations, every request may fail, dialogues; fair | `RecTypeOK` (with `TypeOK` of the connection), `NeverSilentlyDisconnected`, `BoundToOpenSession`, `RespawnsBounded`, `TeardownIsAwaited`, `CrashIsResolved` |
| `recovery_overlap` | the same instance, without fairness | violates `OneChild` |
| `mirror` | 1 client row, 2 texts, arrays of 2, 2 generated ids | `IdsAreUnique`, `UpdateMirrorsPi`, `RowsKeepTheirIds`, `SlotIsNotStolen`, `StartedTurnsAreKept` |
| `sched_turns` | 2 prompts, a cancel, a message end | `PromptAccounting`, `NoStrandedRows`, `NoGhostRun` |
| `sched_faults` | 1 prompt; any three of a cancel, a reload, a Bash command, a crash, a refusal, a missed deadline, a turn of Pi's own | `PromptAccounting`, `NoGhostRun` |
| `sched_extension` | 1 prompt, an extension message, a follow-up of Pi's, fair | `CompletedOnce`, `NoStrandedRows`, `EveryPromptAnswered` |
| `sched_goal` | no client prompt; 1 goal and two of: an edit of it or a turn of Pi's own, a follow-up, an expiry; a loop limit of 2 | `GoalGoesOn`, `GoalLoopBounded` |
| `bash_tasks` | 2 processes, 1 task each with the same id, dialogues, fair | `BashTypeOK`, `TerminalOnce`, `RunningTasksSettle` |
| `breaker` | 2 threads, 3 requests, 1 probe slot, 3 instants, a word of 8 values, fair | `MirrorFollowsState`, `SlotsAreCounted`, `LostProbeReplaced` |
| `plan` | 2 sessions, 2 prompts, 2 mode changes, 2 session requests or restarts, 1 turn without settle, 1 failure; any six of these together | `PlanTypeOK`, `PublishedState`, `RestartIsFaithful`, `AwaitingIsCleared`, `ExitIsAnnouncedOnce`, `BusyForAReason` |
| `sched_reload` | 1 prompt, a reload | violates `QueueSurvivesReload` |

Why the bounds suffice. Two generations are an old child and its replacement, which
is what stale coordinators and readers can meet; the safety properties of the
connection are proved for every number of generations (section 4), so TLC is needed
there for the liveness. Two requests distinguish "mine" from "another's". Two rounds
overlap; a third adds nothing two do not show, as each interacts only with the
attached child, and the safety properties of recovery are proved for any number.
Five generations are what the rounds' three attempts need, and one to spare. In the
mirror, two texts in arrays of two give duplicates, reordering, dequeuing and the
lane-only match of reservations.

In the scheduler, two prompts give one that runs and one that waits, and each fault
is allowed once, at every point; the faults are spread over several runs (in plan
mode they are in one), and `MaxTogether` bounds how many meet in one behaviour,
because their product is too large. `IdleConfirmations` has the code's value 3,
except in `sched_turns`, where 2 suffices for a poll that must be confirmed. The
goal's loop limit is 2 instead of 3: two is the least with which a guard can arm
between two continuations, and room is left for the overshoot (`MaxSeq` 5, and the
bound is 4 where nothing edits the goal). What two goals in a row do to the guard is
proved and not only run (section 4). `MaxSeq` bounds the ids the mirror gives out on
both sides, the callers that add rows and the consumer that takes them over from Pi.
In plan mode two mode changes give enter and leave (what happens after more of them
is proved); a second session and two session requests let each handler meet a
tracker that was exchanged under it, and a session be left and come back to. Two
threads are a winner and a loser of each race of the breaker, and the three instants
let one cool-down and one lease pass.

Some properties carry an exception that the code makes:

* `PendingMatchesCallers` allows an entry without a caller if the caller was
  dropped at its await (`recovery.rs:109`): it stays until the response or the exit;
* `BoundToOpenSession` claims nothing once adapter and child may have slipped
  apart, until a round begins alone again: a second round began beside the first,
  the switch ran into its deadline on a child that lives, the reload failed after the
  switch took effect, or the last attempt gave up on a child that it could not load;
* `TeardownIsAwaited` allows a live child to be replaced by a respawn that waited
  for an older child while another respawn attached this one;
* `CrashIsResolved` and `RunningTasksSettle` speak of behaviours in which the
  event consumer is not left waiting for a plan approval for ever;
* `NoGhostRun` does not speak of a settle poll that gave up after its 30
  seconds, which lifts the barrier and leaves `agent_running` set;
* `RunningTasksSettle` does not speak of a task whose id another Pi process has
  used as well, because the mirror then cannot tell the two apart;
* `GoalGoesOn` allows an idle active goal after its continuation was removed,
  refused or dropped, after a direct Bash command, and while a row is parked in
  the mirror;
* `GoalLoopBounded` counts anew after each goal, each change of it and, from the
  second goal on, each late record of an earlier goal's continuation;
* `PublishedState` claims nothing between a fork or clone and the next load or
  new session, which publish what they find;
* `AwaitingIsCleared` does not speak of a flag restored from a snapshot,
  `BusyForAReason` not of a prompt that a failed write left behind;
* `ExitIsAnnouncedOnce` does not speak of a reminder that was discarded by entering
  plan mode again or was part of a prompt that never reached Pi, of an activation
  that was never recorded, of a prompt or an approval that reached Pi while the
  tracker was another session's, and of a model that a fork, a clone or a cancelled
  new session leaves in plan mode;
* `MirrorFollowsState` does not speak of transitions that overlapped, and
  `SlotsAreCounted` not of an episode whose counter was zeroed in the middle.

### Disagreements with the repository's own words

Two runs expect a violation of the sentence of a comment:

* `recovery_overlap` - two recovery rounds that overlap both attach a child, so two
  Pi children are alive, which `pi_rpc.rs:134` says cannot happen.  A round is
  spawned for every crash (`events.rs:426`).  In TLC's shortest trace a round whose
  kill has been answered is slow to go on; two rounds whose back-offs end while
  they wait for the same child to die do the same;
* `sched_reload` - `thinking_level_changed` empties the queue of the same session,
  which only a session change is said to do.

The models show further behaviours that a maintainer may want to look at.  Each
is reached in the instance named here, by changing a bound or checking a property
that the module states but no run lists.

Connection and recovery:

* the adapter and the child come to rest with different sessions: a child answers
  the reload with an error after it has switched, a switch outlasts its deadline,
  the last attempt gives up on a child that lives, or two rounds overlap
  (`BoundToOpenSession` without `~slipped`, `MCRecovery.cfg`).  `recovery.rs:113`
  binds to the fresh child's session "so the adapter is consistent even when the
  old session cannot be reattached", which holds if the switch itself fails, and not
  if what follows it does;
* while a plan approval dialogue is open, no exit event is read: the prompts of a Pi
  that crashed stay open, its background tasks are shown as running, and recovery
  does not start until the user has answered the dialogue of the dead process
  (`CrashIsResolved` and `RunningTasksSettle` without `[]<>~asking`);
* a request without deadline, accepted after the exit coordinator has failed
  the pending ones and before the writer notices, waits for ever
  (`AbandonedRequestsFail` under `RpcSpec`, one respawner).

Scheduler:

* the settle of a turn of Pi's own answers a prompt whose command has not
  reached Pi (`NoEarlyEnd`, one prompt, `MaxPiTurns = 1`);
* a row popped by dispatch is sent after a cancel has answered it
  (`AnsweredPromptsAreNotSent`, two prompts and a cancel);
* the settle poll applies an idle answer that is out of date
  (`ReopensWhenIdle`, one prompt and a cancel);
* nothing dispatches the prompts queued during a direct Bash command
  (`EveryPromptAnswered`, `MaxBash = 1`), nor the rows behind a direct prompt
  that Pi refused (`NoStrandedRows`, two prompts and `MaxErrors = 1`);
* an interjection has no idle probe, so a steer that an input handler swallows
  leaves its prompt active when the turn it was meant for has failed (`NoGhostRun`,
  two prompts and `MaxErrors = 1` or `MaxCrashes = 1`).

Goals:

* the settle handler and a probe both find the queue empty and both continue the
  goal, although `session.rs:517` wants to "Avoid stacking continuations"
  (`NoStackedContinuations`, `MCSchedGoal.cfg`); a continuation is recorded only
  after its prompt was answered, so the guard counts late;
* a goal that the extension pauses during the await is continued all the same,
  from the control that was read before it;
* a follow-up that ran inside another turn can stay parked in the mirror; it
  counts as pending work, and the goal waits for it for ever (`GoalGoesOn`
  without its exception);
* a continuation that is dropped because the adapter cancels is counted;
* a continuation that is queued while a direct Bash command runs stays in the
  queue: its kick finds the adapter busy, and the end of the command dispatches
  nothing (`GoalGoesOn` with `spent["bash"]` left out of its exception,
  `MaxBash = 1`);
* a continuation of a goal that has been replaced is recorded after the new goal
  was adopted.  `record_continuation` then finds another goal id, resets the guard
  and counts one (`goal_host.rs:122-126`), so the guard of the new goal starts
  again: with two goals, a limit of 2 and two probes, 78 steps lead past the bound
  that holds for one goal (`GoalLoopBounded` without its term for later goals).

Background tasks:

* after a restart of Pi, the end of a task with a reused id is dropped, although
  each terminal state is to be projected "exactly once"
  (`background_bash_bridge.rs:29`; `EndsAreProjected`, `MCBash.cfg`).

Plan mode:

* after a fork or a clone the write gate and the screen are still those of the
  session that was left: `rebind_after_session_branch` exchanges the tracker and
  calls neither `sync_plan_mode_control` nor a mode update (`PublishedState` without
  `~hist.unsynced`); and a model that was in plan mode goes on believing in it,
  because the copied session has no snapshot and so no reminder;
* a `new_session` that Pi cancels resets, persists and publishes the tracker of the
  session that stays open (`agent.rs:57-62`), without an exit reminder: the model
  believes in a plan mode that is off (`ExitIsAnnounced`);
* a prompt that comes between Pi's switch and the exchange of the tracker gets the
  reminder of the session that was left (`Astray`);
* a snapshot taken while the approval dialogue was open restores its flag; it is
  not "outstanding" (`plan_mode.rs:53`), and `exit_plan_mode` is ignored until
  the user leaves plan mode by hand (`AwaitingIsOutstanding`);
* the exit reminder is lost when the user enters plan mode again before the next
  prompt and leaves at once, or when the prompt that carries it is refused; the
  model goes on believing in plan mode (`ExitIsAnnounced`);
* an exit that was deferred stays deferred when its turn ends without a settle
  event, and then waits for the settle of some later turn;
* an answer to the approval dialogue is applied to the session that is open when
  it arrives, and that session's model is told that the plan was approved;
* when the files cannot be written, `prompt` returns an error and leaves the
  adapter busy, and `agent_settled` returns before it finishes the prompts
  (`BusyForAReason` without its exception).

Circuit breaker:

* between `fetch_add` and the store of the claim (`breaker.rs:279-283`) another
  caller sees an old claim, takes it for abandoned and is admitted as well; the
  test `cas_loss_recovery_with_mock_clock` asserts exactly one (`OnlyTheSlots`);
* `trip` stores the state before the time, so a caller in between measures the
  cool-down from an earlier opening, and the counter can be zeroed, or wrap below
  zero, while a half-open episode is going on; the comment at 211 says it is
  already 0.

Some passing runs leave these events out where they state the same property: no
refusal in `sched_turns`, no Bash or cancel in `sched_extension`.  Where prompts are
cancelled, reloaded or refused, `PromptAccounting` and `NoGhostRun` say at rest what
`EveryPromptAnswered` says over time: no prompt is open that nobody holds.

### Fairness

`RpcSpec` is weakly fair to the writer, reader and coordinator of every child,
to the second step of a request and to the death of a child that was killed: the
runtime polls tasks that are ready, and the operating system delivers SIGKILL.
Nothing is assumed of a child that lives.

`RecSpec` adds the steps of a round, whose requests all have deadlines, and the
event consumer; `BashSpec` is fair to the adapter's reader, coordinator and
consumer.  The consumer is the delicate one: it awaits the user's answer to a
plan approval dialogue, without a timeout, and the user owes none.  Both modules have
the dialogue (`asking`), and no fairness closes it.  The consumer is strongly fair:
it takes events one after another in the order of the channel, and each dialogue
belongs to an event ahead, so that an event is handled if the consumer is free
again and again.  The properties that need the consumer say so: `[]<>~asking`.

`SchedSpec` is fair to the consumer as well, and plan mode is no part of that
module: what `sched_extension` shows under fairness (`EveryPromptAnswered`) holds of
behaviours in which no plan approval dialogue stays open for ever (`tools.rs:392`).
With one that does, a cancel still answers the prompt, because `cancel()` does not
need the consumer.  `SchedSpec` assumes in addition that Pi answers requests and
that its runs end; the adapter bounds both, by the 300-second deadline and by the
user's cancel.

`BreakerSpec` assumes that the clock runs, that a thread inside a call is
scheduled, and that callers keep coming; requests may hang or be dropped.  Elsewhere
the client is never fair.

### Mutants

Each property of each passing run has a mutant, an operator next to the one it
replaces and commented as such: a skipped wait, a stamp off by one, a reset
left out, a probe not spawned, a drain that does nothing.

## 4. Proofs

`Recovery_proofs`, first part: the connection, for every set of requests, whichever
of them may be dropped, any respawns and kills at once, and every `MaxGen`:

* `TypeCorrect`, `InvariantHolds`, `PendingMatches`, `ExitFailsOnlyLost`,
  `LateAreStale`, `TeardownAwaited`, `Implementation`.

The invariant comes in layers, each inductive relative to the ones before it:

1. `TypeOK`;
2. `GenerationInv` - children are numbered as they were attached, and a
   coordinator past its wait, or a writer that has ended, proves the child dead;
3. `StampInv` - entry and caller agree, up to callers that were dropped; a stamp is
   never below the child the command went to; a request failed by an exit lost its
   child.  This needs layer 2, because `fail_pending(g)` compares stamps and not children;
4. `WireInv` - a command or its response is in one pipe, its target's, and its
   caller has not seen the answer; with it `LateResponsesAreStale` is inductive;
5. `ReleasedInv` - a respawn that has been answered waited for a child that is
   dead now, so the child it replaces is dead or was attached since.

The implementation theorem shows that the initial state maps to `SvcInit` and
each step to a step of `RpcService` or to a stutter, under `RpcInv`.

`BackgroundBash_proofs`, for any number of processes and tasks: `BashTypeCorrect`
and `EndedOnce`.  `TerminalOnce` is not inductive; `OpenIsUnended` adds that an
id which is open in the mirror has never been ended in any process.

`Recovery_proofs`, second part: recovery, for any number of rounds, attempts and
generations: `RecoveryUsesConnection` (a step of recovery is a step of the
connection or leaves it alone, so all of the first part carries over), `RecTypeCorrect`,
`RecRespawnsBounded`, `RecNeverSilent`, `RecBoundToOpenSession`,
`RecTeardownIsAwaited`.  None of them assumes that rounds do not overlap or that a
child that lives answers.

* `RespawnsBounded` needs `BudgetInv`: children started plus attempts still owed
  are paid for by the rounds the storm guard admitted.  Attempts are counted as a
  finite set of pairs, so the number of rounds is not bounded.
* `NeverSilentlyDisconnected` needs `ExitInv`: an exit event tells the truth about
  intent, and somebody answers for the attached child once it was reaped.
* `BoundToOpenSession` needs `SessionInv`: while nothing has slipped at most one
  round is at work, it talks to the attached child, and what it has read or asked
  for is what that child has open.  Crashes, kills, refused switches, missing session
  files and failed replays are all in it.
* `TeardownIsAwaited` is carried over from the connection.  `OneChild` itself is not a
  theorem: overlapping rounds violate it (section 3).

`PlanMode_proofs`, for any number of sessions, prompts, restarts and faults:
`PlanTypeCorrect`, `PlanPublishedState`, `PlanRestartIsFaithful`,
`PlanAwaitingIsCleared`, `PlanExitIsAnnouncedOnce`, `PlanBusyForAReason`.
`PublishedState` is inductive; the others need a strengthening each, named at the
top of the module. Two of them need `TargetIsFresh`: between the moment Pi opens a
new session and the one the adapter gives it a tracker, no handler writes that
session's snapshot, so what the tracker is restored to is what the session began
with. `ExitIsAnnouncedOnce` was first false: with three faults an activation that
was not written, a restart and a leave produce a model that was never told. The
run's single fault does not reach it; the failed proof did, and the property now
names the exception (`Unrecorded`).

`CircuitBreaker_proofs`, for any finite set of threads: `BreakerTypeCorrect`,
`BreakerMirrorFollowsState`, `BreakerSlotsAreCounted`.  `MirrorInv` says that
while transitions do not overlap at most one thread is midway through one;
`SlotInv` that the slots handed out are the counter less the callers that will
take themselves off again.

`QueueMirror_proofs` and `MirrorMachine_proofs`, for any texts, any client ids and
queues of any length: `MirrorInvariant`, `MirrorTyped`, `MirrorIdsAreUnique`,
`MirrorShowsPi`, `MirrorRowsKeepTheirIds`, `MirrorSlotIsNotStolen`,
`MirrorStartedTurnsAreKept`.

* The mirror's operations are folds over its rows.  What they return is proved by
  induction with sets in place of predicates: `Least` and `Induct` follow from the
  well-foundedness of `<`, `MatchSteps`, `ChooseSteps` and `RetainSteps` name the
  intermediate states of a fold, `Reaches` carries an invariant along them.
* `MatchArraysLoop` is the loop invariant of `apply_queue_update`: the rows so far
  are the first desired ones (`Contents`), no previous row is lost (`Kept`), no id
  is shared and each is an old or a newly generated one (`Owned`), and a text that
  a previous row left over still has was never given to another row (`Greedy`).
* `IdsAreUnique` is not inductive; `GoodMirror` adds that every generated id is
  behind the counter, so that the next one is new.
* `RowsKeepTheirIds` is a counting argument.  If a row were left over, the rows
  that got its text would all be previous ones and, with it, one more than the
  mirror had; but Pi's array holds at least as many, and no id is used twice.

`PromptScheduler_proofs` and `SchedulerRows_proofs`, for any set of prompts, any
bounds, and any order of requests, tasks, events, crashes, cancels and reloads:

| theorem | says | of behaviours |
|---|---|---|
| `SchedPromptAccounting` | `PromptAccounting` | all |
| `SchedTypeCorrect` | `SchedTypeOK` | all |
| `SchedGoalGoesOn` | `GoalGoesOn` | all; the property names its exceptions |
| `SchedGoalLoopBounded` | `GoalLoopBounded` | all |
| `SchedNoGhostRun` | `NoGhostRun` | in which Pi refuses no request and does not exit |
| `SchedNoStrandedRows` | `NoStrandedRows` | the same, no cancel expires, no direct Bash command runs |
| `SchedCompletedOnce` | `CompletedOnce` | in which Pi refuses nothing, does not exit, and no state is loaded again |

The conditions are statements about the counters of `spent`, inside the theorem:
they restrict the states that are spoken of, not the specification.  Each is
needed: TLC finds the property violated with two prompts and that one event.

* `NoGhostRun`: an interjection has no idle probe.  When the prompt it interrupts
  is refused, or fails with an exit, the steer finds Pi idle, and if an input
  handler swallows it, no turn starts that could end; the steer stays active.
* `NoStrandedRows`: the poll that gives up and the end of a Bash command reopen
  the queue without a dispatch; a direct prompt that is refused, or fails with an
  exit, frees the slot without one.
* `CompletedOnce`: an exit announces the end of the running extension row, and the
  prompt in flight, which then fails, announces it again.  With a refusal, the
  answer of an outdated probe clears the slot, the end of the turn announces the
  row, and the refusal of its prompt announces it again.  After a reload the
  mirror is a new one and gives its ids out again from 0.

`sched_turns` and `sched_extension` keep to these conditions; `sched_faults`, with
a single prompt, goes beyond that of `NoGhostRun`.

The invariants, each inductive relative to the ones before it:

1. `SchedInv` - `PromptAccounting` speaks of rows, this of ids (`Accounts`): the
   client's rows are those with its ids, no id has two local rows, the waiting
   prompts are those with a local row, and a prompt is open exactly if it is
   waiting or active.  The arrays in unread events only have to be sequences,
   because `apply_queue_update` does not touch the local rows (`UpdateUntouched`).
2. `Shape` - the counters are natural numbers, tasks that were not spawned are
   over, and the flags agree with the tasks: started prompts are active, a Bash
   command runs as long as its task, only a cancel sets the barrier.
3. `Guarded`, which is `Healthy` and `Watched` while Pi refuses nothing and does not
   exit - a busy adapter has somebody on duty who will find it idle: an unread
   event of a running turn, a task that settles it, a probe or a prompt on whose
   answer one starts, the poll of a cancel.  The delicate step is an answer that
   says "idle" and is out of date: then the end of the turn that it does not know
   of is still ahead (`Ahead`, over Pi's flag and the unread events).
4. `RowsServed` - `NoStrandedRows` within its condition; a task that opens the
   queue dispatches, and one that finds it closed leaves a witness of layer 3.
5. `Tallied` - the ids the mirror has given out lie below its counter and
   nothing has happened to the ones above it; `Unrefreshed` and `Ledger` - an end was
   announced once, only of rows that are gone, and whoever still owes an
   announcement owes it for a row that has none and that nobody else owes.
6. `Followed`, which is `Shown` and `Pursued` - while the goal is active somebody
   pursues it: a running turn, a settle, a busy adapter, a task that will ask for
   a continuation, or a row of the adapter's own in the queue.
7. `Accounted` and `Metered` - the argument for the loop.  At any time at most
   `MaxProbes + 1` tasks end a turn and hold a continuation (`Enders`): the
   `Recorders` have passed the guard and not recorded it yet, the `Queuers` among
   them have not even queued it.  The invariant is

   `continued + |Queuers| + Room + (LoopLimit + MaxProbes) * |Late| <= bound`

   where `Room` is what the guard still lets pass and `Late` are the recorders whose
   goal was replaced.  Every step belongs to one of eight classes
   (`Reckons`): it counts nothing, admits a task, halts the loop, records, queues,
   sets a goal, edits one, or lets a continuation leave the window.  Each class
   keeps the sum or pays with the counter that appears in the bound.

The proofs found two errors of earlier versions of the properties, and no run had
reached them: `GoalGoesOn` did not name the Bash command, and `GoalLoopBounded` did
not hold for two goals in a row (section 3).  The candidates of layer 7 were
checked with TLC on instances with one and with two goals before they were proved.

Assumptions are the named ones on constants: `RequestsAssumption`,
`MaxGenAssumption`, `CallersAssumption`, `BashAssumption`, `RecoveryAssumption`,
`PlanAssumption`, `BreakerAssumption`, `LoopLimitAssumption` (the loop guard's limit
is positive: the code's is 3), `ClientIdAssumption`, `ClientAssumption`.
The last two say that a client's prompt id is none that the mirror generates:
the pager's ids are UUIDs, the generated ones a fixed prefix with a counter.  The
counter is a natural number in the model; `next_id` wraps after 2^64 ids.

`TypeOK` is checked by TLC as a conjunct of `RecTypeOK`.  `MirrorTypeOK` and
`BreakerTypeOK` are proved; the runs do not list them.

Only model-checked is the liveness: `KillReturns`, `OutstandingRequestsFail`,
`CrashIsResolved`, `EveryPromptAnswered`, `RunningTasksSettle` and
`LostProbeReplaced` are temporal properties under fairness, which the prover does
not treat.  Every safety property of a passing run is stated by a theorem.  The
violations of `sched_reload` and `recovery_overlap` are counterexamples, and there
is nothing to prove.

## 5. Not modelled

* Formatting, streaming and projection of messages and tools: no control state.
* `notify()`: fire and forget, no entry in the pending map.
* `handle_steer_message`, bridge commands, subagents, btw, recap: see the plan.
* Loop and workflow hosts: the first translates bridge entries and keeps no
  state, the second drives upstream code.
* Of plan mode, the counter that chooses between the full and the sparse
  reminder, the approval of edits of the plan file, the text of the plan.
* Of goals, token budgets and progress reports.
* Upstream crates: imported; the pager appears as the client.
* Wrapping of operation and request ids (64 bits): not reachable in practice.

## 6. Plan

Order of work, the most important behaviour first:

1. done: connection, recovery, mirror, scheduler, background tasks, goal
   continuation, plan mode, the circuit breaker, the proofs of section 4;
2. `SubagentBridge`: sequence numbers, replay markers, and the deadlock that
   running recovery inside the event consumer would cause;
3. the remaining requests of `agent.rs` and `session.rs` (steer messages,
   reload, bridge commands, btw and recap with their in-flight tables), and the
   control file of background tasks with `kill_task`;
4. `xai-message-delivery-core` and `xai-prompt-queue` as separate modules, each
   with its abstract specification.
