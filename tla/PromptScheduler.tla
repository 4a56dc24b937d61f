-------------------------- MODULE PromptScheduler --------------------------
(***************************************************************************)
(* How the adapter schedules prompts: prompt(), cancel(), the queue        *)
(* methods, dispatch_next_queued() and the event consumer of               *)
(* pi_adapter/{agent,queue_runtime,events,session,tools}.rs.               *)
(*                                                                         *)
(* All adapter tasks share one thread and interleave only at an await:     *)
(* the acknowledgement of a notification by the pager, an RPC to Pi, or a  *)
(* sleep.  An action is the code between two awaits, and task[o].pc says   *)
(* which await task o is at.  `ad` is AdapterState; the operators on it    *)
(* bear the names of its methods.  Pi is external.                         *)
(*                                                                         *)
(* maybe_continue_goal() is run by a task that ends a turn and finds no    *)
(* row to dispatch: while the goal file says the goal is active, the       *)
(* adapter sends a continuation of its own, and a guard stops the loop.    *)
(*                                                                         *)
(* Plan mode is module PlanMode; prompts carry a promptId.                 *)
(***************************************************************************)
EXTENDS QueueMirror, FiniteSets

CONSTANTS
    Clients,             \* prompt ids of the pager, one prompt each
    IdleConfirmations,   \* CANCEL_IDLE_CONFIRMATIONS
    MaxSeq,              \* bound on generated row ids
    MaxEvents,           \* bound on unread events
    MaxProbes,           \* bound on probes at one time
    MaxCancels,          \* how often the user cancels
    MaxPiTurns,          \* turns Pi starts on its own, edits of the goal
    MaxFollowUps,        \* follow-ups that bypass the adapter
    MaxMessages,         \* assistant messages that end
    MaxExtension,        \* messages of extensions
    MaxRefreshes,        \* thinking_level_changed / session_info_changed
    MaxBash,             \* direct Bash commands
    MaxCrashes,          \* exits of the Pi process
    MaxErrors,           \* prompts that Pi refuses
    MaxDeadlines,        \* cancels after which Pi is busy for 30 seconds
    LoopLimit,           \* CONTINUATION_LOOP_LIMIT
    MaxGoals,            \* goals that are set
    MaxExpired,          \* continuations that leave the guard's window
    MaxTogether          \* how many of all these happen in one behaviour

ASSUME SchedulerBounds ==
    \A n \in {IdleConfirmations, MaxSeq, MaxEvents, MaxProbes, MaxCancels,
              MaxPiTurns, MaxFollowUps, MaxMessages, MaxExtension,
              MaxRefreshes, MaxBash, MaxCrashes, MaxErrors,
              MaxDeadlines, LoopLimit, MaxGoals, MaxExpired, MaxTogether}
        : n \in Nat

\* CONTINUATION_LOOP_LIMIT is 3.
ASSUME LoopLimitAssumption == LoopLimit > 0

\* The pager's prompt ids are no ids that the adapter generates.
ASSUME ClientAssumption == \A p \in Clients : p \notin Nat

VARIABLES
    ad,       \* AdapterState
    task,     \* [Tasks -> the await at which the task is]
    pi,       \* Pi: is it streaming, its arrays, is the child up
    events,   \* unread events of Pi, in order
    spent     \* how much of each bound is used up

schedVars == <<ad, task, pi, events, spent>>

Bounds == [cancel |-> MaxCancels, turn |-> MaxPiTurns, follow |-> MaxFollowUps,
           message |-> MaxMessages, extension |-> MaxExtension,
           refresh |-> MaxRefreshes, bash |-> MaxBash, crash |-> MaxCrashes,
           error |-> MaxErrors, deadline |-> MaxDeadlines,
           goal |-> MaxGoals, expired |-> MaxExpired,
           together |-> MaxTogether]
Spend(b) == /\ spent[b] < Bounds[b]
            /\ spent.together < MaxTogether
            /\ spent' = [spent EXCEPT ![b] = @ + 1, !.together = @ + 1]

-----------------------------------------------------------------------------
(* Tasks.                                                                  *)

PromptTask(p) == <<"prompt", p>>          \* the ACP request of prompt p
InterjectTask(p) == <<"interject", p>>    \* x.ai/queue/interject of row p
ProbeTask(n) == <<"probe", n>>            \* probe_prompt_without_agent
SettleTask(n) == <<"settle", n>>          \* settle_cancelled_prompts
Consumer == <<"consumer", 0>>             \* run_events
BashTask == <<"bash", 0>>                 \* execute_bash

RowIds == Clients \cup (1 .. MaxSeq)
Tasks == {PromptTask(p) : p \in Clients} \cup {InterjectTask(p) : p \in Clients}
            \cup {ProbeTask(n) : n \in 1 .. MaxProbes}
            \cup {SettleTask(n) : n \in 1 .. MaxCancels}
            \cup {Consumer, BashTask}

\* reply: the answer of Pi to the request the task waits for; then: what the
\* caller of dispatch_next_queued() does after it; goal: the control it holds.
At(pc, row) == [pc |-> pc, row |-> row, reply |-> "none", polls |-> 0,
                then |-> "end", goal |-> 0]
Settling(row) == [At("settled", row) EXCEPT !.then = "goal"]
Onward(o, t) == [t EXCEPT !.then = task[o].then, !.goal = task[o].goal]
Done == At("end", NoRow)

\* A request to a child that is down fails at once.
Sent(pc, row) ==
    [At(pc, row) EXCEPT !.reply = IF pi.up THEN "none" ELSE "err"]

Requesting == {"sent", "direct", "steer", "ask", "bash", "load"}
InFlight(o) == task[o].pc \in Requesting /\ task[o].reply = "none"
Answered(o, pc, replies) == task[o].pc = pc /\ task[o].reply \in replies

\* Task o ends and leaves a probe behind.
SpawnProbe(o) ==
    LET free == {n \in 1 .. MaxProbes : task[ProbeTask(n)] = Done} IN
    /\ free # {}
    /\ task' = [task EXCEPT ![o] = Done,
                            ![ProbeTask(Min(free))] = At("doze", NoRow)]

-----------------------------------------------------------------------------
(* AdapterState.                                                           *)

\* GoalHost: the goal it counts continuations for, how many are in the
\* window, and the loop guard.
NoGoal == [id |-> 0, sends |-> 0, armed |-> FALSE]

InitialState ==
    [mirror |-> EmptyMirror,
     active |-> {},            \* active_prompts
     started |-> {},           \*   the ones with agent_started
     waiting |-> {},           \* keys of queued_prompt_completions
     host |-> NoGoal,          \* GoalHost
     agentRunning |-> FALSE, cancelling |-> FALSE, bashRunning |-> FALSE,
     outcome |-> [p \in Clients |-> "new"],    \* completion of each prompt
     ended |-> [id \in RowIds |-> 0],         \* prompt_complete messages sent
     continued |-> 0,          \* history: continuations that were queued
     withdrawn |-> FALSE]      \* history: a row of an extension was removed

AdapterBusy(a) ==
    \/ a.agentRunning \/ a.cancelling \/ a.bashRunning
    \/ a.active # {}
    \/ a.mirror.running # NoRow

\* Mutant: the prompts leave, their agent_started flags stay.
FinishKeepsStarted(a, reason) ==
    [a EXCEPT !.outcome = [p \in Clients |->
                              IF p \in a.active THEN reason ELSE @[p]],
              !.active = {}]

FinishPrompts(a, reason) ==
    [a EXCEPT !.outcome = [p \in Clients |->
                              IF p \in a.active THEN reason ELSE @[p]],
              !.active = {}, !.started = {}]

FinishQueuedEntries(a, ids, reason) ==
    [a EXCEPT !.outcome = [p \in Clients |->
                              IF p \in ids \cap a.waiting THEN reason ELSE @[p]],
              !.waiting = @ \ ids]

\* take_active_prompt / remove_prompt, and what becomes of the completion.
TakeActivePrompt(a, id, reason) ==
    IF id \in a.active
    THEN [a EXCEPT !.active = @ \ {id}, !.started = @ \ {id},
                   !.outcome[id] = reason]
    ELSE a

SendServerPromptComplete(a, row) == [a EXCEPT !.ended[row.id] = @ + 1]

\* The end of a turn that is not the client's is announced to the pager.
CompleteServerTurn(a, row) ==
    IF row = NoRow \/ row.origin = "Client" THEN a
    ELSE SendServerPromptComplete(a, row)

\* Mutant: the completion is copied instead of moved.
ActivateKeepsWaiting(a, id) ==
    IF id \in a.waiting THEN [a EXCEPT !.active = @ \cup {id}] ELSE a

ActivateQueuedClient(a, id) ==
    IF id \in a.waiting
    THEN [a EXCEPT !.waiting = @ \ {id}, !.active = @ \cup {id}]
    ELSE a

\* Mutant: the active prompts are not finished.
DropKeepsActive(a) ==
    CompleteServerTurn(
        FinishQueuedEntries(
            [a EXCEPT !.mirror = ClearMirror(ClearRunning(ClearLocal(@)))],
            IdsOf(a.mirror.local), "Cancelled"),
        a.mirror.running)

\* What cancel() and adapter_process_exit do alike.
DropEverything(a) ==
    CompleteServerTurn(
        FinishPrompts(
            FinishQueuedEntries(
                [a EXCEPT !.mirror = ClearMirror(ClearRunning(ClearLocal(@)))],
                IdsOf(a.mirror.local), "Cancelled"),
            "Cancelled"),
        a.mirror.running)

\* Mutant: the mirror is replaced, the waiters stay.
ReplaceKeepsWaiting(a) ==
    [a EXCEPT !.mirror = EmptyMirror, !.agentRunning = FALSE,
              !.cancelling = FALSE]

\* Dropping the senders resolves the waiting prompts as cancelled.
ReplaceBootstrap(a) ==
    [FinishQueuedEntries(a, a.waiting, "Cancelled") EXCEPT
        !.mirror = EmptyMirror,
        !.agentRunning = FALSE, !.cancelling = FALSE]

\* Mutant: every control that is read starts a new count.
ApplyControlAnew(h, control) ==
    IF control.status # "active" THEN NoGoal ELSE [NoGoal EXCEPT !.id = control.id]

\* apply_control(): the count belongs to one goal that stays active.
ApplyControl(h, control) ==
    IF control.status # "active" THEN NoGoal
    ELSE IF h.id = control.id THEN h ELSE [NoGoal EXCEPT !.id = control.id]

\* record_continuation()
RecordContinuation(a, id) ==
    LET h == IF a.host.id = id THEN a.host ELSE [NoGoal EXCEPT !.id = id]
        n == h.sends + 1
    IN  [a EXCEPT !.host = [h EXCEPT !.sends = n,
                                     !.armed = @ \/ n >= LoopLimit]]

QueueIsEmpty(m) ==
    m.running = NoRow /\ SteeringCount(m) = 0 /\ FollowUpCount(m) = 0

\* Mutant: the guard stops the loop without a word to the goal file.
StopsSilently(o, a) ==
    LET h == ApplyControl(a.host, pi.goal)
        goesOn == QueueIsEmpty(a.mirror) /\ pi.goal.status = "active"
    IN
    /\ ad' = IF QueueIsEmpty(a.mirror) THEN [a EXCEPT !.host = h] ELSE a
    /\ task' = [task EXCEPT ![o] =
                   IF goesOn /\ ~h.armed
                   THEN [At("continue", NoRow) EXCEPT !.then = "record",
                                                      !.goal = pi.goal.id]
                   ELSE Done]
    /\ UNCHANGED pi

\* maybe_continue_goal(), up to its first await: the goal file is read and,
\* if the guard is armed, written.
MaybeContinueGoal(o, a) ==
    LET h == ApplyControl(a.host, pi.goal)
        goesOn == QueueIsEmpty(a.mirror) /\ pi.goal.status = "active"
        stops == goesOn /\ h.armed
    IN
    /\ ad' = IF ~QueueIsEmpty(a.mirror) THEN a
             ELSE [a EXCEPT !.host = IF stops THEN NoGoal ELSE h]
    /\ pi' = IF stops THEN [pi EXCEPT !.goal.status = "paused"] ELSE pi
    /\ task' = [task EXCEPT ![o] =
                   IF goesOn /\ ~stops
                   THEN [At("continue", NoRow) EXCEPT !.then = "record",
                                                      !.goal = pi.goal.id]
                   ELSE Done]

\* dispatch_next_queued() returned false to task o.
NothingDispatched(o, a) ==
    \/ task[o].then = "goal" /\ MaybeContinueGoal(o, a)
    \/ /\ task[o].then # "goal"
       /\ ad' = IF task[o].then = "record"
                THEN RecordContinuation(a, task[o].goal) ELSE a
       /\ task' = [task EXCEPT ![o] = Done]
       /\ UNCHANGED pi

\* The head of dispatch_next_queued()'s loop, run by task o in state a.
DispatchNextQueued(o, a) ==
    IF AdapterBusy(a) \/ a.mirror.local = << >>
    THEN NothingDispatched(o, a)
    ELSE LET row == Head(a.mirror.local) IN
         /\ ad' = [ActivateQueuedClient(a, row.id) EXCEPT
                      !.agentRunning = TRUE,
                      !.mirror = SetRunning(PopNextLocal(@), row)]
         /\ task' = [task EXCEPT ![o] = Onward(o, At("announce", row))]
         /\ UNCHANGED pi

SchedInit ==
    /\ ad = InitialState
    /\ task = [o \in Tasks |-> Done]
    /\ pi = [up |-> TRUE, streaming |-> FALSE, steering |-> << >>,
             followUp |-> << >>, recovery |-> "none",
             goal |-> [id |-> 0, status |-> "over"]]
    /\ events = << >>
    /\ spent = [b \in DOMAIN Bounds |-> 0]

-----------------------------------------------------------------------------
(* The client's requests.                                                  *)

\* prompt(), up to its first await: while the adapter is busy the prompt is
\* queued in a lane, otherwise it becomes the primary prompt.
Prompt(p, lane) ==
    /\ ad.outcome[p] = "new"
    /\ \/ /\ AdapterBusy(ad)
          /\ ad' = [ad EXCEPT
                       !.mirror = EnqueueLocal(@, Row(p, p, lane, "Client")),
                       !.waiting = @ \cup {p},
                       !.outcome[p] = "open"]
          /\ task' = [task EXCEPT ![PromptTask(p)] = At("kick", NoRow)]
       \/ /\ ~AdapterBusy(ad) /\ lane = "FollowUp"
          /\ ad' = [ad EXCEPT
                       !.mirror = SetRunningPrimary(@, p, p, "Client"),
                       !.agentRunning = TRUE,
                       !.active = @ \cup {p},
                       !.outcome[p] = "open"]
          /\ task' = [task EXCEPT ![PromptTask(p)] = Sent("direct", NoRow)]
    /\ UNCHANGED <<pi, events, spent>>

\* Pi accepted the primary prompt; after the broadcast, the probe starts.
DirectAccepted(p) ==
    \/ /\ Answered(PromptTask(p), "direct", {"ok"})
       /\ task' = [task EXCEPT ![PromptTask(p)] = At("acked", NoRow)]
       /\ UNCHANGED <<ad, pi, events, spent>>
    \/ /\ task[PromptTask(p)].pc = "acked"
       /\ SpawnProbe(PromptTask(p))
       /\ UNCHANGED <<ad, pi, events, spent>>

\* Pi refused it, or the connection is gone.
DirectFails(p) ==
    /\ Answered(PromptTask(p), "direct", {"err"})
    /\ ad' = [TakeActivePrompt(ad, p, "Error") EXCEPT
                 !.agentRunning = FALSE,
                 !.mirror = ClearRunning(ReleaseReservation(@, p))]
    /\ task' = [task EXCEPT ![PromptTask(p)] = Done]
    /\ UNCHANGED <<pi, events, spent>>

\* cancel(); the abort it sends to Pi changes nothing but when a run ends.
Cancel ==
    /\ Spend("cancel")
    /\ ad' = [DropEverything(ad) EXCEPT !.cancelling = TRUE]
    /\ task' = [task EXCEPT ![SettleTask(spent'.cancel)] = At("poll", NoRow)]
    /\ UNCHANGED <<pi, events>>

\* x.ai/queue/remove and x.ai/queue/clear
RemoveRows(ids) ==
    /\ ids \subseteq IdsOf(ad.mirror.local) /\ ids # {}
    /\ ad' = [FinishQueuedEntries(ad, ids, "Cancelled") EXCEPT
                 !.mirror.local = Without(@, ids),
                 !.withdrawn = @ \/ ~(ids \subseteq Clients)]
    /\ UNCHANGED <<task, pi, events, spent>>

\* execute_bash(): bash_running keeps the queue from being dispatched.
BashStarts ==
    /\ ~ad.bashRunning
    /\ Spend("bash")
    /\ ad' = [ad EXCEPT !.bashRunning = TRUE]
    /\ task' = [task EXCEPT ![BashTask] = Sent("bash", NoRow)]
    /\ UNCHANGED <<pi, events>>

BashEnds ==
    /\ Answered(BashTask, "bash", {"ok", "err"})
    /\ ad' = [ad EXCEPT !.bashRunning = FALSE]
    /\ task' = [task EXCEPT ![BashTask] = Done]
    /\ UNCHANGED <<pi, events, spent>>

-----------------------------------------------------------------------------
(* dispatch_next_queued().                                                 *)

\* The publication before the loop has been acknowledged.
Kick(o) ==
    /\ task[o].pc = "kick"
    /\ DispatchNextQueued(o, ad)
    /\ UNCHANGED <<events, spent>>

\* The row is published; its prompt goes to Pi whatever happened meanwhile.
Dispatch(o) ==
    /\ task[o].pc = "announce"
    /\ task' = [task EXCEPT ![o] = Onward(o, Sent("sent", task[o].row))]
    /\ UNCHANGED <<ad, pi, events, spent>>

DispatchAccepted(o) ==
    /\ Answered(o, "sent", {"ok"})
    /\ SpawnProbe(o)
    /\ ad' = IF task[o].then = "record"
             THEN RecordContinuation(ad, task[o].goal) ELSE ad
    /\ UNCHANGED <<pi, events, spent>>

\* The slot is freed, the waiter (or the pager) told, and the loop goes on.
DispatchFails(o) ==
    LET row == task[o].row
        a == [TakeActivePrompt(ad, row.id, "Cancelled") EXCEPT
                 !.agentRunning = FALSE, !.mirror = ClearRunning(@)]
    IN
    /\ Answered(o, "sent", {"err"})
    /\ ad' = IF row.id \in ad.active THEN a
             ELSE SendServerPromptComplete(a, row)
    /\ task' = [task EXCEPT ![o] = Onward(o, At("kick", NoRow))]
    /\ UNCHANGED <<pi, events, spent>>

-----------------------------------------------------------------------------
(* interject_local_queue() and flush_pending_steering().                   *)

\* The row at index i of the local queue, in state a, on its way to Pi.
Steer(o, a, i) ==
    LET row == a.mirror.local[i] IN
    /\ ad' = [ActivateQueuedClient(a, row.id) EXCEPT
                 !.mirror = Reserve(TakeLocal(@, i),
                                    [row EXCEPT !.lane = "Steering"])]
    /\ task' = [task EXCEPT ![o] = At("steering", row)]

\* x.ai/queue/interject
Interject(p) ==
    LET i == LocalIndex(ad.mirror, p, AnyVersion)
        o == InterjectTask(p)
    IN
    /\ i # 0 /\ task[o] = Done
    /\ IF ~ad.cancelling /\ (ad.agentRunning \/ ad.active # {})
       THEN Steer(o, ad, i)
       ELSE /\ ad' = [ad EXCEPT !.mirror = PushFrontLocal(TakeLocal(@, i),
                                                          @.local[i])]
            /\ task' = [task EXCEPT ![o] = IF ad.cancelling THEN Done
                                           ELSE At("kick", NoRow)]
    /\ UNCHANGED <<pi, events, spent>>

FlushPendingSteering(a) ==
    LET i == NextLocalInLane(a.mirror, "Steering") IN
    IF a.cancelling \/ ~a.agentRunning \/ i = 0
    THEN ad' = a /\ task' = [task EXCEPT ![Consumer] = Done]
    ELSE Steer(Consumer, a, i)

SendSteer(o) ==
    /\ task[o].pc = "steering"
    /\ task' = [task EXCEPT ![o] = Sent("steer", task[o].row)]
    /\ UNCHANGED <<ad, pi, events, spent>>

\* Only the consumer, at its safe point, looks for another row.
SteerAccepted(o) ==
    /\ Answered(o, "steer", {"ok"})
    /\ IF o = Consumer THEN FlushPendingSteering(ad)
       ELSE task' = [task EXCEPT ![o] = Done] /\ UNCHANGED ad
    /\ UNCHANGED <<pi, events, spent>>

SteerFails(o) ==
    LET id == task[o].row.id IN
    /\ Answered(o, "steer", {"err"})
    /\ ad' = [TakeActivePrompt(ad, id, "Cancelled") EXCEPT
                 !.mirror = ReleaseReservation(@, id)]
    /\ task' = [task EXCEPT ![o] = Done]
    /\ UNCHANGED <<pi, events, spent>>

-----------------------------------------------------------------------------
(* probe_prompt_without_agent().                                           *)

ProbeWakes(o) ==
    /\ task[o].pc = "doze"
    /\ task' = [task EXCEPT ![o] =
                   IF \/ ad.active # ad.started
                      \/ ad.mirror.running # NoRow /\ ad.agentRunning
                   THEN Sent("ask", NoRow) ELSE Done]
    /\ UNCHANGED <<ad, pi, events, spent>>

\* Mutant: the probe announces the end, and so does TurnEnds.
ProbeCompletesToo(o) ==
    /\ o[1] = "probe"
    /\ Answered(o, "ask", {"idle"})
    /\ ad' = CompleteServerTurn([ad EXCEPT !.agentRunning = FALSE,
                                           !.cancelling = FALSE,
                                           !.mirror = ClearRunning(@)],
                                ad.mirror.running)
    /\ task' = [task EXCEPT ![o] = Settling(ad.mirror.running)]
    /\ UNCHANGED <<pi, events, spent>>

\* Mutant: the probe waits for an agent_start that need not come.
ProbeWaitsForStart(o) ==
    /\ o[1] = "probe"
    /\ Answered(o, "ask", {"idle", "streaming", "err"})
    /\ task' = [task EXCEPT ![o] = IF task[o].reply = "idle"
                                   THEN At("doze", NoRow) ELSE Done]
    /\ UNCHANGED <<ad, pi, events, spent>>

\* Pi is idle: the adapter takes the turn as over.
ProbeAnswered(o) ==
    /\ o[1] = "probe"
    /\ Answered(o, "ask", {"idle", "streaming", "err"})
    /\ IF task[o].reply = "idle"
       THEN /\ ad' = [ad EXCEPT !.agentRunning = FALSE, !.cancelling = FALSE,
                                !.mirror = ClearRunning(@)]
            /\ task' = [task EXCEPT ![o] = Settling(ad.mirror.running)]
       ELSE UNCHANGED ad /\ task' = [task EXCEPT ![o] = Done]
    /\ UNCHANGED <<pi, events, spent>>

\* Mutant: the next row is not dispatched.
TurnEndsAlone(o) ==
    /\ task[o].pc = "settled"
    /\ ad' = CompleteServerTurn(FinishPrompts(ad, "EndTurn"), task[o].row)
    /\ task' = [task EXCEPT ![o] = Done]
    /\ UNCHANGED <<pi, events, spent>>

\* The end of a turn, after the cleared slot is published: here and in the
\* handler of agent_settled.
TurnEnds(o) ==
    LET row == task[o].row
        a == CompleteServerTurn(FinishPrompts(ad, "EndTurn"), row)
    IN
    /\ task[o].pc = "settled"
    /\ IF row = NoRow \/ row.origin = "Client"
       THEN DispatchNextQueued(o, a)
       ELSE /\ ad' = a
            /\ task' = [task EXCEPT ![o] = Onward(o, At("kick", NoRow))]
            /\ UNCHANGED pi
    /\ UNCHANGED <<events, spent>>

\* The pager has the goal's state: enqueue_extension_message(), for which
\* cancelling is a barrier; a dropped continuation is counted as well.
ContinueGoal(o) ==
    /\ task[o].pc = "continue"
    /\ ad.mirror.seq < MaxSeq
    /\ IF ad.cancelling
       THEN /\ ad' = RecordContinuation(ad, task[o].goal)
            /\ task' = [task EXCEPT ![o] = Done]
       ELSE /\ ad' = [ad EXCEPT
                         !.mirror = EnqueueGenerated(@, "goal", "FollowUp",
                                                     "Extension"),
                         !.continued = @ + 1]
            /\ task' = [task EXCEPT ![o] = Onward(o, At("kick", NoRow))]
    /\ UNCHANGED <<pi, events, spent>>

-----------------------------------------------------------------------------
(* settle_cancelled_prompts().                                             *)

SettlePolls(o) ==
    /\ task[o].pc = "poll"
    /\ task' = [task EXCEPT ![o] =
                   IF ad.cancelling
                   THEN [Sent("ask", NoRow) EXCEPT !.polls = task[o].polls]
                   ELSE Done]
    /\ UNCHANGED <<ad, pi, events, spent>>

\* Mutant: the barrier is lifted and the held rows are left alone.
SettleReopensOnly(o) ==
    /\ o[1] = "settle"
    /\ Answered(o, "ask", {"idle"})
    /\ task[o].polls + 1 >= IdleConfirmations
    /\ ad' = IF ad.cancelling /\ ad.mirror.running = NoRow
             THEN [ad EXCEPT !.agentRunning = FALSE, !.cancelling = FALSE]
             ELSE ad
    /\ task' = [task EXCEPT ![o] = Done]
    /\ UNCHANGED <<pi, events, spent>>

\* Mutant: agent_running is left set.
SettleKeepsRunning(o) ==
    /\ o[1] = "settle"
    /\ Answered(o, "ask", {"idle"})
    /\ task[o].polls + 1 >= IdleConfirmations
    /\ ad' = [ad EXCEPT !.cancelling = FALSE]
    /\ task' = [task EXCEPT ![o] = At("kick", NoRow)]
    /\ UNCHANGED <<pi, events, spent>>

\* Pi has been idle often enough: reopen, unless a newer turn owns the slot.
SettleConfirmed(o) ==
    /\ o[1] = "settle"
    /\ Answered(o, "ask", {"idle"})
    /\ task[o].polls + 1 >= IdleConfirmations
    /\ IF ad.cancelling /\ ad.mirror.running = NoRow
       THEN /\ ad' = [ad EXCEPT !.agentRunning = FALSE, !.cancelling = FALSE,
                                !.mirror = ClearRunning(@)]
            /\ task' = [task EXCEPT ![o] = At("kick", NoRow)]
       ELSE UNCHANGED ad /\ task' = [task EXCEPT ![o] = Done]
    /\ UNCHANGED <<pi, events, spent>>

SettleAgain(o) ==
    /\ o[1] = "settle"
    /\ \/ Answered(o, "ask", {"streaming"})
       \/ /\ Answered(o, "ask", {"idle"})
          /\ task[o].polls + 1 < IdleConfirmations
    /\ task' = [task EXCEPT ![o] = [At("poll", NoRow) EXCEPT !.polls =
                   IF task[o].reply = "idle" THEN task[o].polls + 1 ELSE 0]]
    /\ UNCHANGED <<ad, pi, events, spent>>

\* The request fails, or 30 seconds have passed.
SettleGivesUp(o) ==
    /\ o[1] = "settle"
    /\ \/ Answered(o, "ask", {"err"}) /\ UNCHANGED <<ad, spent>>
       \/ /\ Answered(o, "ask", {"idle", "streaming"})
          /\ task[o].reply = "idle" => task[o].polls + 1 < IdleConfirmations
          /\ Spend("deadline")
          /\ ad' = [ad EXCEPT !.cancelling = FALSE]
    /\ task' = [task EXCEPT ![o] = Done]
    /\ UNCHANGED <<pi, events>>

-----------------------------------------------------------------------------
(* run_events() and handle_event(): one event at a time.                   *)

Event(kind) == [kind |-> kind, steering |-> << >>, followUp |-> << >>,
                lane |-> "none"]

NextEvent(kind) ==
    /\ task[Consumer] = Done
    /\ events # << >> /\ Head(events).kind = kind
    /\ events' = Tail(events)
    /\ UNCHANGED <<pi, spent>>

\* While the adapter cancels, a run that starts is aborted and not noted.
AgentStart ==
    /\ NextEvent("agent_start")
    /\ ad' = IF ad.cancelling THEN ad
             ELSE [ad EXCEPT
                      !.agentRunning = TRUE,
                      !.started = ad.active,
                      !.mirror = IF ad.active = {} THEN PromoteParkedRunning(@)
                                 ELSE @]
    /\ UNCHANGED task

\* refresh_context_usage() asks Pi first; its answer does not matter.
AgentSettled ==
    /\ NextEvent("agent_settled")
    /\ task' = [task EXCEPT ![Consumer] = At("stats", NoRow)]
    /\ UNCHANGED ad

SlotIsCleared ==
    /\ task[Consumer].pc = "stats"
    /\ ad' = [ad EXCEPT !.agentRunning = FALSE, !.cancelling = FALSE,
                        !.mirror = ClearRunning(@)]
    /\ task' = [task EXCEPT ![Consumer] = Settling(ad.mirror.running)]
    /\ UNCHANGED <<pi, events, spent>>

\* The safe point at which held steering rows are forwarded.
MessageEnd ==
    /\ NextEvent("message_end")
    /\ IF ad.cancelling THEN UNCHANGED <<ad, task>>
       ELSE FlushPendingSteering(ad)

QueueUpdate ==
    LET e == Head(events) IN
    /\ NextEvent("queue_update")
    /\ ad' = IF ad.cancelling THEN ad
             ELSE [ad EXCEPT !.mirror =
                      ApplyQueueUpdate(@, e.steering, e.followUp)]
    /\ ad'.mirror.seq <= MaxSeq
    /\ UNCHANGED task

\* enqueue_extension_message(): cancelling is a barrier.
ExtensionMessage ==
    LET e == Head(events) IN
    /\ NextEvent("extension")
    /\ IF ad.cancelling THEN UNCHANGED <<ad, task>>
       ELSE /\ ad.mirror.seq < MaxSeq
            /\ ad' = [ad EXCEPT !.mirror =
                         EnqueueGenerated(@, "ext", e.lane, "Extension")]
            /\ task' = [task EXCEPT ![Consumer] = At("kick", NoRow)]

\* handle_goal_bridge_message(): the goal file is read again.
GoalMessage ==
    /\ NextEvent("goal")
    /\ ad' = [ad EXCEPT !.host = ApplyControl(@, pi.goal)]
    /\ UNCHANGED task

\* A continuation is older than CONTINUATION_LOOP_WINDOW.
ContinuationExpires ==
    /\ ad.host.sends > 0
    /\ Spend("expired")
    /\ ad' = [ad EXCEPT !.host.sends = @ - 1]
    /\ UNCHANGED <<task, pi, events>>

\* thinking_level_changed, session_info_changed: the state is loaded again.
StateChanged ==
    /\ NextEvent("state_changed")
    /\ task' = [task EXCEPT ![Consumer] = Sent("load", NoRow)]
    /\ UNCHANGED ad

Reloaded ==
    /\ Answered(Consumer, "load", {"ok", "err"})
    /\ ad' = IF task[Consumer].reply = "ok" THEN ReplaceBootstrap(ad) ELSE ad
    /\ task' = [task EXCEPT ![Consumer] = Done]
    /\ UNCHANGED <<pi, events, spent>>

\* adapter_process_exit
ProcessExit ==
    /\ task[Consumer] = Done
    /\ events # << >> /\ Head(events).kind = "exit"
    /\ events' = Tail(events)
    /\ ad' = [DropEverything(ad) EXCEPT !.agentRunning = FALSE,
                                        !.cancelling = FALSE]
    /\ pi' = [pi EXCEPT !.recovery = "due"]
    /\ UNCHANGED <<task, spent>>

\* recover_rpc_connection(): a new child, whose state is loaded, and loaded
\* again after switch_session (module Recovery has the details).
Respawn ==
    /\ pi.recovery = "due"
    /\ pi' = [pi EXCEPT !.up = TRUE, !.recovery = "load"]
    /\ UNCHANGED <<ad, task, events, spent>>

Rebind ==
    /\ pi.recovery \in {"load", "switch"} /\ pi.up
    /\ ad' = ReplaceBootstrap(ad)
    /\ pi' = [pi EXCEPT !.recovery = IF @ = "load" THEN "switch" ELSE "none"]
    /\ UNCHANGED <<task, events, spent>>

-----------------------------------------------------------------------------
(* Pi (external).  It starts commands in order, but its handlers are       *)
(* asynchronous, so they may take effect in any order.                     *)

Emit(es) == /\ Len(events) + Len(es) <= MaxEvents
            /\ events' = events \o es
ArraysEvent == [Event("queue_update") EXCEPT !.steering = pi'.steering,
                                             !.followUp = pi'.followUp]
Reply(o, r) == task' = [task EXCEPT ![o].reply = r]

\* A prompt starts a run, or an input handler consumes it.
PiAccepts(o) ==
    /\ InFlight(o) /\ task[o].pc \in {"sent", "direct", "steer"}
    /\ Reply(o, "ok")
    /\ \/ /\ ~pi.streaming
          /\ pi' = [pi EXCEPT !.streaming = TRUE]
          /\ Emit(<<Event("agent_start")>>)
       \/ UNCHANGED <<pi, events>>
    /\ UNCHANGED <<ad, spent>>

\* A steer joins the run.
PiQueuesSteer(o) ==
    /\ InFlight(o) /\ task[o].pc = "steer" /\ pi.streaming
    /\ Reply(o, "ok")
    /\ pi' = [pi EXCEPT !.steering = Append(@, task[o].row.text)]
    /\ Emit(<<ArraysEvent>>)
    /\ UNCHANGED <<ad, spent>>

PiRefuses(o) ==
    /\ InFlight(o) /\ task[o].pc \in {"sent", "direct", "steer"}
    /\ Spend("error")
    /\ Reply(o, "err")
    /\ UNCHANGED <<ad, pi, events>>

PiAnswers(o) ==
    /\ InFlight(o)
    /\ \/ /\ task[o].pc = "ask"
          /\ Reply(o, IF pi.streaming THEN "streaming" ELSE "idle")
       \/ task[o].pc \in {"bash", "load"} /\ Reply(o, "ok")
    /\ UNCHANGED <<ad, pi, events, spent>>

\* A turn of Pi's own, for example of an extension.
PiStartsTurn ==
    /\ pi.up /\ ~pi.streaming
    /\ Spend("turn")
    /\ pi' = [pi EXCEPT !.streaming = TRUE]
    /\ Emit(<<Event("agent_start")>>)
    /\ UNCHANGED <<ad, task>>

PiQueuesFollowUp ==
    /\ pi.up /\ pi.streaming
    /\ Spend("follow")
    /\ ad.mirror.seq < MaxSeq
    /\ pi' = [pi EXCEPT !.followUp = Append(@, "pi")]
    /\ Emit(<<ArraysEvent>>)
    /\ UNCHANGED <<ad, task>>

\* An assistant message ends; the steering messages are delivered.
PiEndsMessage ==
    /\ pi.streaming
    /\ Spend("message")
    /\ pi' = [pi EXCEPT !.steering = << >>]
    /\ Emit(<<Event("message_end")>>
              \o (IF pi.steering = << >> THEN << >> ELSE <<ArraysEvent>>))
    /\ UNCHANGED <<ad, task>>

\* The run goes on with what is queued, and settles when nothing is.
PiContinues ==
    /\ pi.streaming
    /\ \/ /\ pi.steering # << >>
          /\ pi' = [pi EXCEPT !.steering = << >>]
       \/ /\ pi.steering = << >> /\ pi.followUp # << >>
          /\ pi' = [pi EXCEPT !.followUp = Tail(@)]
    /\ Emit(<<ArraysEvent, Event("agent_start")>>)
    /\ UNCHANGED <<ad, task, spent>>

PiSettles ==
    /\ pi.streaming /\ pi.steering = << >> /\ pi.followUp = << >>
    /\ pi' = [pi EXCEPT !.streaming = FALSE]
    /\ Emit(<<Event("agent_settled")>>)
    /\ UNCHANGED <<ad, task, spent>>

PiExtensionMessage ==
    /\ pi.up
    /\ Spend("extension")
    /\ ad.mirror.seq < MaxSeq
    /\ \E lane \in Lanes :
           Emit(<<[Event("extension") EXCEPT !.lane = lane]>>)
    /\ UNCHANGED <<ad, task, pi>>

\* The goal extension: the file, the bridge entry, and a message that
\* triggers a turn unless one is going on.
WriteGoal(control) ==
    /\ pi' = [pi EXCEPT !.goal = control,
                        !.streaming = @ \/ control.status = "active"]
    /\ Emit(<<Event("goal")>>
              \o (IF pi'.streaming = pi.streaming THEN << >>
                  ELSE <<Event("agent_start")>>))
    /\ UNCHANGED <<ad, task>>

\* /goal <objective> and create_goal
PiSetsGoal ==
    /\ pi.up
    /\ Spend("goal")
    /\ WriteGoal([id |-> pi.goal.id + 1, status |-> "active"])

\* /goal pause, /goal clear, and update_goal in a run; /goal resume
PiEditsGoal ==
    /\ pi.up
    /\ Spend("turn")
    /\ \/ /\ pi.goal.status = "active"
          /\ \E st \in {"paused", "over"} :
                 WriteGoal([pi.goal EXCEPT !.status = st])
       \/ /\ pi.goal.status = "paused"
          /\ WriteGoal([pi.goal EXCEPT !.status = "active"])

PiStateChanges ==
    /\ pi.up
    /\ Spend("refresh")
    /\ Emit(<<Event("state_changed")>>)
    /\ UNCHANGED <<ad, task, pi>>

\* The exit fails what is in flight before it is announced.
PiCrashes ==
    /\ pi.up
    /\ Spend("crash")
    /\ pi' = [pi EXCEPT !.up = FALSE, !.streaming = FALSE,
                        !.steering = << >>, !.followUp = << >>]
    /\ task' = [o \in Tasks |-> IF InFlight(o)
                                THEN [task[o] EXCEPT !.reply = "err"]
                                ELSE task[o]]
    /\ Emit(<<Event("exit")>>)
    /\ UNCHANGED ad

-----------------------------------------------------------------------------
ClientStep ==
    \/ \E p \in Clients :
           \/ \E lane \in Lanes : Prompt(p, lane)
           \/ Interject(p)
    \/ Cancel
    \/ \E ids \in SUBSET IdsOf(ad.mirror.local) : RemoveRows(ids)
    \/ BashStarts

PromptStep(p) == DirectAccepted(p) \/ DirectFails(p)

TaskStep(o) ==
    \/ Kick(o) \/ Dispatch(o) \/ DispatchAccepted(o) \/ DispatchFails(o)
    \/ SendSteer(o) \/ SteerAccepted(o) \/ SteerFails(o)
    \/ ProbeWakes(o) \/ ProbeAnswered(o) \/ TurnEnds(o) \/ ContinueGoal(o)
    \/ SettlePolls(o) \/ SettleConfirmed(o) \/ SettleAgain(o)
    \/ SettleGivesUp(o)

ConsumerStep ==
    \/ AgentStart \/ AgentSettled \/ SlotIsCleared \/ MessageEnd
    \/ QueueUpdate \/ ExtensionMessage \/ StateChanged \/ Reloaded
    \/ ProcessExit \/ GoalMessage

PiReplies(o) == PiAccepts(o) \/ PiQueuesSteer(o) \/ PiRefuses(o) \/ PiAnswers(o)

PiStep ==
    \/ \E o \in Tasks : PiReplies(o)
    \/ PiStartsTurn \/ PiQueuesFollowUp \/ PiEndsMessage \/ PiContinues
    \/ PiSettles \/ PiExtensionMessage \/ PiStateChanges \/ PiCrashes
    \/ PiSetsGoal \/ PiEditsGoal

SchedNext ==
    \/ ClientStep
    \/ \E p \in Clients : PromptStep(p)
    \/ \E o \in Tasks : TaskStep(o)
    \/ BashEnds \/ ConsumerStep \/ Respawn \/ Rebind
    \/ ContinuationExpires \/ PiStep

SchedSafeSpec == SchedInit /\ [][SchedNext]_schedVars

\* The runtime polls every task that can run.  Pi answers every request, and
\* a run of Pi ends; the client owes nothing.
SchedSpec ==
    /\ SchedSafeSpec
    /\ \A p \in Clients : WF_schedVars(PromptStep(p))
    /\ \A o \in Tasks : WF_schedVars(TaskStep(o)) /\ WF_schedVars(PiReplies(o))
    /\ WF_schedVars(ConsumerStep)
    /\ WF_schedVars(BashEnds)
    /\ WF_schedVars(PiContinues)
    /\ WF_schedVars(PiSettles)

-----------------------------------------------------------------------------
(* Properties.                                                             *)

Outcomes == {"new", "open", "EndTurn", "Cancelled", "Error"}

SchedTypeOK ==
    /\ ad.mirror.seq \in 0 .. MaxSeq
    /\ ad.started \subseteq ad.active /\ ad.active \subseteq Clients
    /\ ad.waiting \subseteq Clients
    /\ ad.outcome \in [Clients -> Outcomes]
    /\ ad.ended \in [RowIds -> Nat]
    /\ DOMAIN task = Tasks
    /\ Len(events) <= MaxEvents

\* Nobody's prompt gets lost: a prompt is unanswered exactly while the
\* adapter holds it, either as a local row with its completion in the waiting
\* map or among the active prompts, and never as both.
PromptAccounting ==
    /\ ad.waiting = {e.id : e \in {ad.mirror.local[i] : i \in
                         {j \in DOMAIN ad.mirror.local :
                              ad.mirror.local[j].origin = "Client"}}}
    /\ ad.waiting \cap ad.active = {}
    /\ {p \in Clients : ad.outcome[p] = "open"} = ad.waiting \cup ad.active

\* A held row is never stranded: while the adapter is idle, some task is on
\* its way to dispatch_next_queued().
NoStrandedRows ==
    (ad.mirror.local # << >> /\ ~AdapterBusy(ad)) =>
        \E o \in Tasks : task[o].pc \in {"kick", "settled"}

\* No ghost runs: once every task has returned, all events are handled and Pi
\* is idle, the adapter knows that it is idle, whatever was cancelled, refused,
\* consumed by an input handler or lost in a crash before.  Otherwise every
\* later prompt would be queued behind a turn that never ends.  Only a settle
\* poll that gave up after its 30 seconds leaves agent_running behind.
AtRest ==
    /\ \A o \in Tasks : task[o] = Done
    /\ events = << >>
    /\ pi.up /\ ~pi.streaming /\ pi.recovery = "none"

NoGhostRun == AtRest /\ spent.deadline = 0 => ~AdapterBusy(ad)

\* The end of a turn that is not the client's is announced at most once for each
\* row, whichever of settle, probe, exit and failed dispatch gets to it, as long
\* as Pi refuses nothing, does not exit, and no state is loaded again.
CompletedOnce == \A id \in RowIds : ad.ended[id] <= 1

\* The command of prompt p has not reached Pi yet.
OnItsWay(p) ==
    \/ InFlight(PromptTask(p)) /\ task[PromptTask(p)].pc = "direct"
    \/ \E o \in Tasks :
           /\ task[o].row.id = p
           /\ task[o].pc \in {"announce", "steering"} \/ InFlight(o)

\* An active goal does not stall: when everything is at rest, the goal has been
\* reached, paused by its user or stopped by the loop guard, whichever of probe
\* and agent_settled ended its turns.  What can leave it behind: the user took
\* its continuation out of the queue, Pi refused it, a cancel, a reload or a
\* crash dropped it, a direct Bash command was running when it was queued and
\* ended without a dispatch, or a follow-up that ran inside another turn is
\* parked in the mirror for ever and counts as work to come.
GoalGoesOn ==
    AtRest /\ pi.goal.status = "active" =>
        \/ ad.withdrawn \/ ad.mirror.parked # << >>
        \/ \E b \in {"cancel", "error", "crash", "refresh", "bash"} : spent[b] > 0

\* The loop guard stops the loop although a continuation is counted only after
\* Pi has taken it: from one change of the goal to the next, what passes the
\* guard beyond the limit is at most one continuation for each other task that
\* ends a turn at the same time.  A continuation of an earlier goal that Pi
\* takes after the goal has been replaced starts the count anew; each task that
\* ends turns can bring one for each later goal.
GoalLoopBounded ==
    LET later == IF spent.goal = 0 THEN 0 ELSE spent.goal - 1
        anew == spent.goal + spent.turn + (MaxProbes + 1) * later
    IN  ad.continued <= (LoopLimit + MaxProbes) * anew + spent.expired

\* "Avoid stacking continuations when the queue already has work."
NoStackedContinuations ==
    [][ad'.continued > ad.continued => QueueIsEmpty(ad.mirror)]_schedVars

\* "`agent_settled` owns ACP prompt completion": no prompt is answered with
\* EndTurn before Pi has even taken its command.
NoEarlyEnd ==
    [][\A p \in Clients :
          (ad.outcome[p] = "open" /\ ad'.outcome[p] = "EndTurn")
              => ~OnItsWay(p)]_schedVars

\* "ACP cancel synchronously clears adapter-owned client/extension rows": a
\* prompt that was answered is not sent to Pi afterwards.
AnsweredPromptsAreNotSent ==
    [][\A o \in Tasks :
          (task[o].pc = "announce" /\ task'[o].pc = "sent"
              /\ task[o].row.id \in Clients)
              => ad.outcome[task[o].row.id] = "open"]_schedVars

\* "A session change invalidates the previous session's isolated queue": only
\* a session change does, a reload of the same session keeps the queue.
QueueSurvivesReload ==
    [][(task[Consumer].pc = "load" /\ task'[Consumer].pc # "load")
          => ad'.waiting = ad.waiting]_schedVars

\* "A `get_state` settle probe reopens dispatch only after Pi is idle."
ReopensWhenIdle ==
    [][(ad.cancelling /\ ~ad'.cancelling) => ~pi.streaming]_schedVars

\* Every prompt is answered.
EveryPromptAnswered ==
    \A p \in Clients : ad.outcome[p] = "open" ~> ad.outcome[p] # "open"

=============================================================================
