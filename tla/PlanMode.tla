------------------------------ MODULE PlanMode ------------------------------
(***************************************************************************)
(* Plan mode: the tracker (plan_mode.rs), the two files it is published in *)
(* (the session's snapshot and the control file that the write gate in Pi  *)
(* reads), and the handlers of the adapter that drive it: set_session_mode *)
(* and prompt, the settle event, the approval dialogue, loading a session, *)
(* a restart of the adapter.                                               *)
(*                                                                         *)
(* Handlers run on one thread and interleave at their awaits.  Between two *)
(* awaits the tracker changes and both files are written, so a handler is  *)
(* one action up to its next await, with the three outcomes of its writes: *)
(* both succeed, the snapshot fails, the control file fails.               *)
(*                                                                         *)
(* The scheduler (PromptScheduler) is reduced to what plan mode sees of    *)
(* it: whether it is busy, whether a client prompt is active, whether one  *)
(* is queued.  Wording of the reminders is left out, so are the counter    *)
(* and the re-entry flag that only choose between wordings.                *)
(***************************************************************************)
EXTENDS Naturals, FiniteSets

CONSTANTS
    Sessions,      \* sessions of the catalogue
    First,         \* the one that is open at start-up
    MaxPrompts,    \* bound: prompts of the client
    MaxToggles,    \* bound: set_session_mode requests
    MaxLoads,      \* bound: load_session and new_session requests, restarts
    MaxLost,       \* bound: turns that end without a settle event
    MaxFaults,     \* bound: failing writes, failing loads, refused prompts
    MaxTogether    \* bound: all of these, after which none begins

ASSUME PlanAssumption ==
    /\ IsFiniteSet(Sessions) /\ First \in Sessions
    /\ {MaxPrompts, MaxToggles, MaxLoads, MaxLost, MaxFaults, MaxTogether}
           \subseteq Nat

VARIABLES
    tracker,    \* PiPlanTracker
    cur,        \* the session whose plan file the tracker names
    bound,      \* the session that the adapter takes to be open (bootstrap)
    file,       \* [Sessions -> persisted snapshot]
    gate,       \* the control file
    shown,      \* mode the pager displays
    sched,      \* the scheduler as plan mode sees it
    pi,         \* is Pi working, settle events not yet handled, open session
    consumer,   \* where the only event consumer is
    load,       \* a load_session, new_session, fork or clone between its awaits
    believes,   \* [Sessions -> what the model was told last]
    hist,       \* history: what has gone wrong on the way
    used        \* bounds

vars == <<tracker, cur, bound, file, gate, shown, sched, pi, consumer, load,
          believes, hist, used>>

States == {"Inactive", "Pending", "Active", "ExitPending"}
Fresh == [state |-> "Inactive", exitReminder |-> FALSE, awaiting |-> FALSE]
Trackers == [state : States, exitReminder : BOOLEAN, awaiting : BOOLEAN]
Idle == [op |-> "none", pc |-> "ending", to |-> First]
Writes == {"ok", "no snapshot", "no control"}
Sends == Writes \cup {"refused"}    \* both files written, and Pi refuses

PlanTypeOK ==
    /\ tracker \in Trackers
    /\ cur \in Sessions /\ bound \in Sessions
    /\ file \in [Sessions -> Trackers]
    /\ gate \in [active : BOOLEAN, session : Sessions]
    /\ shown \in {"default", "plan"}
    /\ sched \in [running : BOOLEAN, active : BOOLEAN, queued : BOOLEAN]
    /\ pi \in [busy : BOOLEAN, settled : 0 .. 2, open : Sessions]
    /\ consumer \in {"free", "settling", "approval"}
    /\ load \in [op : {"none", "load", "new", "branch"},
                 pc : {"reading", "publishing", "ending"}, to : Sessions]
    /\ believes \in [Sessions -> {"nothing", "plan", "normal"}]
    /\ hist \in [fault : BOOLEAN, dropped : BOOLEAN, stuck : BOOLEAN,
                 restored : BOOLEAN, misled : BOOLEAN, unsynced : BOOLEAN]
    /\ used \in [prompts : 0 .. MaxPrompts, toggles : 0 .. MaxToggles,
                 loads : 0 .. MaxLoads, lost : 0 .. MaxLost,
                 faults : 0 .. MaxFaults]

PlanInit ==
    /\ tracker = Fresh
    /\ cur = First /\ bound = First
    /\ file = [s \in Sessions |-> Fresh]
    /\ gate = [active |-> FALSE, session |-> First]
    /\ shown = "default"
    /\ sched = [running |-> FALSE, active |-> FALSE, queued |-> FALSE]
    /\ pi = [busy |-> FALSE, settled |-> 0, open |-> First]
    /\ consumer = "free"
    /\ load = Idle
    /\ believes = [s \in Sessions |-> "nothing"]
    /\ hist = [fault |-> FALSE, dropped |-> FALSE, stuck |-> FALSE,
               restored |-> FALSE, misled |-> FALSE, unsynced |-> FALSE]
    /\ used = [prompts |-> 0, toggles |-> 0, loads |-> 0, lost |-> 0,
               faults |-> 0]

-----------------------------------------------------------------------------
(* The tracker.                                                            *)

EnterPending(t) ==
    CASE t.state = "Inactive"    -> [t EXCEPT !.state = "Pending",
                                              !.exitReminder = FALSE]
      [] t.state = "ExitPending" -> [t EXCEPT !.state = "Active",
                                              !.exitReminder = FALSE]
      [] OTHER -> t

UserExit(t, inFlight) ==
    LET u == [t EXCEPT !.awaiting = FALSE]
    IN  CASE t.state = "Pending" -> [u EXCEPT !.state = "Inactive"]
          [] t.state = "Active" /\ inFlight ->
                [u EXCEPT !.state = "ExitPending"]
          [] t.state = "Active" /\ ~inFlight ->
                [u EXCEPT !.state = "Inactive", !.exitReminder = TRUE]
          [] OTHER -> u

\* Mutant: the deferred exit forgets the reminder.
CompleteSilently(t) ==
    IF t.state = "ExitPending" THEN [t EXCEPT !.state = "Inactive"] ELSE t

\* The turn is over: what user_exit deferred happens now.
CompleteDeferredExit(t) ==
    IF t.state = "ExitPending"
    THEN [t EXCEPT !.state = "Inactive", !.exitReminder = TRUE]
    ELSE t

DeactivateApproved(t) ==
    IF t.state = "Active"
    THEN [t EXCEPT !.state = "Inactive", !.awaiting = FALSE]
    ELSE t

\* from_snapshot_with_plan_file: transient states collapse.
FromSnapshot(t) ==
    CASE t.state = "Pending"     -> [t EXCEPT !.state = "Inactive"]
      [] t.state = "ExitPending" -> [t EXCEPT !.state = "Inactive",
                                              !.exitReminder = TRUE]
      [] OTHER -> t

\* build_reminder_for_prompt: the tracker after it, and what the model reads.
Reminded(t) ==
    CASE t.state = "Pending" -> [t EXCEPT !.state = "Active"]
      [] t.state # "Pending" /\ t.state # "Active" /\ t.exitReminder ->
            [t EXCEPT !.exitReminder = FALSE]
      [] OTHER -> t

ReminderText(t, old) ==
    CASE t.state \in {"Pending", "Active"} -> "plan"
      [] t.state \notin {"Pending", "Active"} /\ t.exitReminder -> "normal"
      [] OTHER -> old

\* What the pager is to show (acp_session_modes).
ModeOf(t) == IF t.state \in {"Pending", "Active"} THEN "plan" ELSE "default"

-----------------------------------------------------------------------------
(* The two files.                                                          *)

Spend(k) ==
    /\ used.prompts + used.toggles + used.loads + used.lost + used.faults
           < MaxTogether
    /\ used[k] < CASE k = "prompts" -> MaxPrompts
                    [] k = "toggles" -> MaxToggles
                    [] k = "loads"   -> MaxLoads
                    [] k = "lost"    -> MaxLost
                    [] k = "faults"  -> MaxFaults

\* persist_plan_mode_state, then, if the handler goes on, the control file.
Persist(w, t) ==
    file' = IF w = "no snapshot" THEN file ELSE [file EXCEPT ![cur] = t]

Sync(w, t) ==
    gate' = IF w \in {"ok", "refused"}
            THEN [active |-> t.state = "Active", session |-> cur] ELSE gate

\* The handlers that only log a failing write attempt the other one as well.
SyncAlways(w, t) ==
    gate' = IF w = "no control" THEN gate
            ELSE [active |-> t.state = "Active", session |-> cur]

\* Failures are bounded, failing writes remembered.
Outcome(w, h, u) ==
    /\ w # "ok" => Spend("faults")
    /\ hist' = [h EXCEPT !.fault = @ \/ w \in Writes \ {"ok"}]
    /\ used' = [u EXCEPT !.faults = IF w = "ok" THEN @ ELSE @ + 1]

-----------------------------------------------------------------------------
(* set_session_mode.                                                       *)

\* The pager is told only when both writes succeeded.
SetMode(t, mode, w) ==
    /\ Spend("toggles")
    /\ tracker' = t
    /\ IF t # tracker \/ (mode = "default" /\ tracker.state # "Inactive")
       THEN Persist(w, t) /\ Sync(w, t) /\ shown' = IF w = "ok" THEN mode ELSE shown
       ELSE w = "ok" /\ UNCHANGED <<file, gate, shown>>
    /\ UNCHANGED <<cur, bound, sched, pi, consumer, load, believes>>

EnterPlan(w) ==
    /\ SetMode(EnterPending(tracker), "plan", w)
    /\ Outcome(w, [hist EXCEPT !.dropped = @ \/ tracker.exitReminder],
               [used EXCEPT !.toggles = @ + 1])

LeavePlan(w) ==
    /\ SetMode(IF tracker.state = "Inactive" THEN tracker
               ELSE UserExit(tracker, sched.active), "default", w)
    /\ Outcome(w, hist, [used EXCEPT !.toggles = @ + 1])

-----------------------------------------------------------------------------
(* prompt and dispatch.                                                    *)

Busy == sched.running \/ sched.active

\* prepare_execution_text; the model is misled if it now works in normal mode
\* and still believes in plan mode.
Told == ReminderText(tracker, believes[pi.open])
Misled == Reminded(tracker).state = "Inactive" /\ Told = "plan"

\* The tracker is still that of another session than the one Pi has open.
Astray == pi.open # cur

\* The reminder is part of a text that never reaches the model.
Unsent(h) == [h EXCEPT !.dropped = \/ @
                                   \/ /\ tracker.exitReminder
                                      /\ ~Reminded(tracker).exitReminder]

\* A prompt that runs at once.  If a write fails the request returns an error,
\* but the scheduler stays marked busy and nothing goes to Pi; if Pi refuses,
\* the scheduler is rolled back and the tracker is not.
Prompt(w) ==
    /\ ~Busy /\ Spend("prompts")
    /\ tracker' = Reminded(tracker)
    /\ Persist(w, tracker') /\ Sync(w, tracker')
    /\ sched' = IF w = "refused" THEN sched
                ELSE [sched EXCEPT !.running = TRUE, !.active = TRUE]
    /\ IF w = "ok"
       THEN /\ pi' = [pi EXCEPT !.busy = TRUE]
            /\ believes' = [believes EXCEPT ![pi.open] = Told]
       ELSE UNCHANGED <<pi, believes>>
    /\ Outcome(w, CASE w = "ok"      -> [hist EXCEPT !.misled = Misled,
                                                       !.dropped = @ \/ Astray]
                    [] w = "refused" -> Unsent(hist)
                    [] OTHER         -> [Unsent(hist) EXCEPT !.stuck = TRUE],
               [used EXCEPT !.prompts = @ + 1])
    /\ UNCHANGED <<cur, bound, shown, consumer, load>>

\* A prompt that finds the adapter busy waits in the queue; its row stays
\* there when a write fails and the request returns an error.
PromptQueued(w) ==
    /\ Busy /\ ~sched.queued /\ Spend("prompts")
    /\ sched' = [sched EXCEPT !.queued = TRUE]
    /\ Persist(w, tracker) /\ Sync(w, tracker)
    /\ Outcome(w, hist, [used EXCEPT !.prompts = @ + 1])
    /\ UNCHANGED <<tracker, cur, bound, shown, pi, consumer, load, believes>>

\* The model reads that plan mode is on and no snapshot says so: neither the
\* one that fails now nor an earlier one.
Unrecorded(w) ==
    /\ w = "no snapshot" /\ file[cur].state # "Active"
    /\ tracker.state \in {"Pending", "Active"}

\* Mutant: a queued prompt activates plan mode and the snapshot is not written.
DispatchUnpersisted(s, h, u, w) ==
    IF s.queued
    THEN /\ w = "ok"
         /\ tracker' = Reminded(tracker)
         /\ SyncAlways(w, tracker')
         /\ sched' = [running |-> TRUE, active |-> TRUE, queued |-> FALSE]
         /\ pi' = [pi EXCEPT !.busy = TRUE]
         /\ believes' = [believes EXCEPT ![pi.open] = Told]
         /\ Outcome(w, [h EXCEPT !.misled = Misled, !.dropped = @ \/ Astray], u)
         /\ UNCHANGED file
    ELSE /\ w = "ok" /\ sched' = s /\ hist' = h /\ used' = u
         /\ UNCHANGED <<tracker, file, gate, pi, believes>>

\* dispatch_next_queued after a turn has ended.  Failing writes are logged; a
\* refused row is completed and nothing else is queued.
Dispatch(s, h, u, w) ==
    IF s.queued
    THEN /\ tracker' = Reminded(tracker)
         /\ Persist(w, tracker') /\ SyncAlways(w, tracker')
         /\ IF w = "refused"
            THEN /\ sched' = [s EXCEPT !.queued = FALSE]
                 /\ Outcome(w, Unsent(h), u)
                 /\ UNCHANGED <<pi, believes>>
            ELSE /\ sched' = [running |-> TRUE, active |-> TRUE, queued |-> FALSE]
                 /\ pi' = [pi EXCEPT !.busy = TRUE]
                 /\ believes' = [believes EXCEPT ![pi.open] = Told]
                 /\ Outcome(w, [h EXCEPT !.misled = Misled,
                                       !.dropped = @ \/ Unrecorded(w) \/ Astray], u)
    ELSE /\ w = "ok" /\ sched' = s /\ hist' = h /\ used' = u
         /\ UNCHANGED <<tracker, file, gate, pi, believes>>

\* A turn that Pi starts by itself (an extension's message).
PiTurn ==
    /\ ~Busy /\ ~pi.busy
    /\ pi' = [pi EXCEPT !.busy = TRUE]
    /\ sched' = [sched EXCEPT !.running = TRUE]
    /\ UNCHANGED <<tracker, cur, bound, file, gate, shown, consumer, load,
                   believes, hist, used>>

\* Mutant: a turn is announced as settled twice.
TurnEndsTwice ==
    /\ pi.busy /\ pi.settled < 2
    /\ pi' = [pi EXCEPT !.busy = FALSE, !.settled = @ + 2]
    /\ UNCHANGED <<tracker, cur, bound, file, gate, shown, sched, consumer,
                   load, believes, hist, used>>

\* Pi goes idle and announces it.
TurnEnds ==
    /\ pi.busy /\ pi.settled < 2
    /\ pi' = [pi EXCEPT !.busy = FALSE, !.settled = @ + 1]
    /\ UNCHANGED <<tracker, cur, bound, file, gate, shown, sched, consumer,
                   load, believes, hist, used>>

\* Mutant: every settle is announced as a change to the default mode.
SettleResetsMode(w) ==
    /\ consumer = "free" /\ pi.settled > 0 /\ w = "ok"
    /\ pi' = [pi EXCEPT !.settled = @ - 1]
    /\ tracker' = CompleteDeferredExit(tracker)
    /\ shown' = "default"
    /\ consumer' = "settling"
    /\ sched' = [sched EXCEPT !.running = FALSE]
    /\ Persist(w, tracker') /\ Sync(w, tracker')
    /\ Outcome(w, hist, used)
    /\ UNCHANGED <<cur, bound, load, believes>>

\* agent_settled: flags, the deferred exit, the files.  A failing write leaves
\* the handler before finish_prompts.
Settle(w) ==
    /\ consumer = "free" /\ pi.settled > 0
    /\ pi' = [pi EXCEPT !.settled = @ - 1]
    /\ tracker' = CompleteDeferredExit(tracker)
    /\ sched' = [sched EXCEPT !.running = FALSE]
    /\ IF tracker.state = "ExitPending"
       THEN /\ Persist(w, tracker') /\ Sync(w, tracker')
            /\ shown' = IF w = "ok" THEN "default" ELSE shown
            /\ consumer' = IF w = "ok" THEN "settling"
                           ELSE consumer
            /\ Outcome(w, [hist EXCEPT !.stuck = @ \/ (w # "ok" /\ sched.active)],
                       used)
       ELSE /\ w = "ok"
            /\ consumer' = "settling"
            /\ UNCHANGED <<file, gate, shown, hist, used>>
    /\ UNCHANGED <<cur, bound, load, believes>>

\* The rest of the handler: finish_prompts, then the next row.
SettleFinishes(w) ==
    /\ consumer = "settling"
    /\ consumer' = "free"
    /\ LET s == [sched EXCEPT !.active = FALSE]
           h == [hist EXCEPT !.stuck = @ /\ sched.running]
       IN  IF s.running THEN /\ w = "ok" /\ sched' = s /\ hist' = h
                             /\ UNCHANGED <<tracker, file, gate, pi, believes,
                                            used>>
           ELSE Dispatch(s, h, used, w)
    /\ UNCHANGED <<cur, bound, shown, load>>

\* The prompt is given up without a settle event: a probe or a cancel's poll
\* finds Pi idle.  Neither completes a deferred exit.
PollFindsIdle(w) ==
    /\ Busy /\ ~pi.busy /\ Spend("lost")
    /\ Dispatch([sched EXCEPT !.running = FALSE, !.active = FALSE],
                [hist EXCEPT !.stuck = FALSE],
                [used EXCEPT !.lost = @ + 1], w)
    /\ UNCHANGED <<cur, bound, shown, consumer, load>>

\* A session that nobody has worked in yet.
Untouched(s) ==
    /\ s \notin {cur, bound, pi.open}
    /\ file[s] = Fresh /\ believes[s] = "nothing"

\* Mutant: the exit leaves the active prompt behind.
PiExitsKeepsPrompt(s) ==
    /\ consumer = "free" /\ Busy /\ Spend("lost")
    /\ load.pc # "reading" /\ s = bound
    /\ used' = [used EXCEPT !.lost = @ + 1]
    /\ sched' = [sched EXCEPT !.running = FALSE, !.queued = FALSE]
    /\ pi' = [busy |-> FALSE, settled |-> 0, open |-> s]
    /\ UNCHANGED <<tracker, cur, bound, file, gate, shown, consumer, load,
                   believes, hist>>

\* Pi exits: the exit event drops prompts and rows.  The recovery opens the
\* adapter's session in the new child, or is left with the one that the child
\* has made; it does not touch the tracker.  A request that was reading Pi's
\* state has failed by then.
PiExits(s) ==
    /\ consumer = "free" /\ Busy /\ Spend("lost")
    /\ load.pc # "reading"
    /\ s = bound \/ Untouched(s)
    /\ used' = [used EXCEPT !.lost = @ + 1]
    /\ sched' = [running |-> FALSE, active |-> FALSE, queued |-> FALSE]
    /\ pi' = [busy |-> FALSE, settled |-> 0, open |-> s]
    /\ bound' = s
    /\ hist' = [hist EXCEPT !.stuck = FALSE]
    /\ UNCHANGED <<tracker, cur, file, gate, shown, consumer, load, believes>>

-----------------------------------------------------------------------------
(* request_plan_approval: awaited by the event consumer itself.            *)

AskApproval(w) ==
    /\ consumer = "free" /\ pi.busy
    /\ tracker.state = "Active" /\ ~tracker.awaiting
    /\ IF w = "ok"
       THEN /\ tracker' = [tracker EXCEPT !.awaiting = TRUE]
            /\ consumer' = "approval"
       ELSE UNCHANGED <<tracker, consumer>>
    /\ Persist(w, [tracker EXCEPT !.awaiting = TRUE])
    /\ Sync(w, tracker)
    /\ Outcome(w, hist, used)
    /\ UNCHANGED <<cur, bound, shown, sched, pi, load, believes>>

\* The user approves (or abandons): whatever the tracker says by now, the
\* model of the session that is open is told that plan mode is off.  Failing
\* writes are logged.
Approved(w) ==
    /\ consumer = "approval"
    /\ consumer' = "free"
    /\ tracker' = DeactivateApproved(tracker)
    /\ Persist(w, tracker') /\ SyncAlways(w, tracker')
    /\ shown' = IF tracker.state = "Active" THEN "default" ELSE shown
    /\ believes' = [believes EXCEPT ![pi.open] = "normal"]
    /\ Outcome(w, [hist EXCEPT !.dropped = @ \/ Astray], used)
    /\ UNCHANGED <<cur, bound, sched, pi, load>>

\* Mutant: a dialogue that failed leaves its flag set.
RejectedKeepsFlag(answered) ==
    /\ consumer = "approval"
    /\ consumer' = "free"
    /\ tracker' = [tracker EXCEPT !.awaiting = @ /\ ~answered]
    /\ file' = IF answered THEN [file EXCEPT ![cur] = tracker'] ELSE file
    /\ UNCHANGED <<cur, bound, gate, shown, sched, pi, load, believes, hist,
                   used>>

\* The user wants changes, or the request to the pager failed; only the
\* answer is written down.
Rejected(answered) ==
    /\ consumer = "approval"
    /\ consumer' = "free"
    /\ tracker' = [tracker EXCEPT !.awaiting = FALSE]
    /\ file' = IF answered THEN [file EXCEPT ![cur] = tracker'] ELSE file
    /\ UNCHANGED <<cur, bound, gate, shown, sched, pi, load, believes, hist,
                   used>>

-----------------------------------------------------------------------------
(* Sessions.                                                               *)
(*                                                                         *)
(* load_session of another session, new_session, fork and clone ask Pi to  *)
(* replace its session, read Pi's state back, and exchange the tracker.    *)
(* Until Pi has answered nothing is changed.                               *)

\* Pi aborts its turn and opens the session: one that exists, an empty one, or
\* one that starts with a copy of the history, with what the model believes but
\* without a snapshot.
PiSwitches(op, s) ==
    /\ load.op = "none" /\ Spend("loads")
    /\ IF op = "load" THEN s # bound ELSE Untouched(s)
    /\ used' = [used EXCEPT !.loads = @ + 1]
    /\ load' = [op |-> op, pc |-> "reading", to |-> s]
    /\ pi' = [busy |-> FALSE, settled |-> IF pi.busy THEN 1 ELSE pi.settled,
              open |-> s]
    /\ IF op = "branch"
       THEN /\ believes' = [believes EXCEPT ![s] = believes[pi.open]]
            /\ hist' = [hist EXCEPT !.dropped = @ \/ believes[pi.open] = "plan"]
       ELSE UNCHANGED <<believes, hist>>
    /\ UNCHANGED <<tracker, cur, bound, file, gate, shown, sched, consumer>>

\* replace_bootstrap: rows are dropped.
Rebind(s) ==
    /\ bound' = s
    /\ sched' = [sched EXCEPT !.running = FALSE, !.queued = FALSE]

\* load_plan_tracker: what the session's snapshot is restored to.
TakeTracker(s, h) ==
    /\ cur' = s
    /\ tracker' = FromSnapshot(file[s])
    /\ hist' = [h EXCEPT !.restored = @ \/ file[s].awaiting]

\* load_session after its switch: the session that was asked for is open.
LoadSwitched ==
    /\ load.op = "load" /\ load.pc = "reading"
    /\ Rebind(load.to)
    /\ TakeTracker(load.to, hist)
    /\ load' = [load EXCEPT !.pc = "ending"]
    /\ UNCHANGED <<file, gate, shown, pi, consumer, believes, used>>

\* load_session of the session that is open: nothing is asked of Pi.
LoadCurrent ==
    /\ load.op = "none" /\ Spend("loads")
    /\ used' = [used EXCEPT !.loads = @ + 1]
    /\ TakeTracker(bound, hist)
    /\ load' = [op |-> "load", pc |-> "ending", to |-> bound]
    /\ UNCHANGED <<bound, file, gate, shown, sched, pi, consumer, believes>>

\* rebind_after_session_branch: the tracker of the new file, and nobody is
\* told.
BranchSwitched ==
    /\ load.op = "branch" /\ load.pc = "reading"
    /\ Rebind(load.to)
    /\ TakeTracker(load.to, [hist EXCEPT !.unsynced = TRUE])
    /\ load' = Idle
    /\ UNCHANGED <<file, gate, shown, pi, consumer, believes, used>>

\* new_session after refresh; publishing the bootstrap is awaited.
NewSwitched ==
    /\ load.op = "new" /\ load.pc = "reading"
    /\ Rebind(load.to)
    /\ load' = [load EXCEPT !.pc = "publishing"]
    /\ UNCHANGED <<tracker, cur, file, gate, shown, pi, consumer, believes,
                   hist, used>>

\* new_session: a session outside plan mode.
NewTracker ==
    /\ load.op = "new" /\ load.pc = "publishing"
    /\ cur' = load.to /\ tracker' = Fresh
    /\ load' = [load EXCEPT !.pc = "ending"]
    /\ UNCHANGED <<bound, file, gate, shown, sched, pi, consumer, believes,
                   hist, used>>

\* new_session that Pi has cancelled: the session that stays open gets a fresh
\* tracker all the same, without a reminder for a model that is in plan mode.
NewCancelled(w) ==
    /\ load.op = "none" /\ Spend("loads")
    /\ cur' = bound /\ tracker' = Fresh
    /\ file' = IF w = "no snapshot" THEN file ELSE [file EXCEPT ![bound] = Fresh]
    /\ gate' = IF w = "ok" THEN [active |-> FALSE, session |-> bound] ELSE gate
    /\ shown' = IF w = "ok" THEN "default" ELSE shown
    /\ Outcome(w, [hist EXCEPT !.dropped = @ \/ believes[bound] = "plan",
                               !.unsynced = FALSE],
               [used EXCEPT !.loads = @ + 1])
    /\ UNCHANGED <<bound, sched, pi, consumer, load, believes>>

\* The end of load_session and new_session: the mode goes into the response,
\* then the control file; a new session is persisted before that.
LoadEnds(w) ==
    /\ load.op # "none" /\ load.pc = "ending"
    /\ load' = Idle
    /\ IF load.op = "new" THEN Persist(w, tracker)
       ELSE w # "no snapshot" /\ UNCHANGED file
    /\ Sync(w, tracker)
    /\ shown' = IF w = "ok" THEN ModeOf(tracker) ELSE shown
    /\ Outcome(w, [hist EXCEPT !.unsynced = FALSE], used)
    /\ UNCHANGED <<tracker, cur, bound, sched, pi, consumer, believes>>

\* A request returns early: Pi's state cannot be read back, the snapshot cannot
\* be read after the bootstrap has been replaced, or the history or the
\* subagents cannot be replayed.
LoadFails(replaced) ==
    /\ load.op # "none" /\ load.pc # "publishing" /\ Spend("faults")
    /\ IF replaced
       THEN /\ load.pc = "reading" /\ load.op # "new"
            /\ Rebind(load.to)
       ELSE /\ load.pc = "reading" \/ load.op = "load"
            /\ UNCHANGED <<bound, sched>>
    /\ load' = Idle
    /\ hist' = [hist EXCEPT !.fault = TRUE]
    /\ used' = [used EXCEPT !.faults = @ + 1]
    /\ UNCHANGED <<tracker, cur, file, gate, shown, pi, consumer, believes>>

\* The adapter is restarted and its client loads the session again.
Restart ==
    /\ Spend("loads")
    /\ used' = [used EXCEPT !.loads = @ + 1]
    /\ TakeTracker(bound, [hist EXCEPT !.stuck = FALSE])
    /\ load' = [op |-> "load", pc |-> "ending", to |-> bound]
    /\ sched' = [running |-> FALSE, active |-> FALSE, queued |-> FALSE]
    /\ pi' = [busy |-> FALSE, settled |-> 0, open |-> bound]
    /\ consumer' = "free"
    /\ shown' = "default"
    /\ UNCHANGED <<bound, file, gate, believes>>

-----------------------------------------------------------------------------
PlanNext ==
    \/ \E w \in Writes : \/ EnterPlan(w) \/ LeavePlan(w) \/ PromptQueued(w)
                         \/ Settle(w) \/ AskApproval(w) \/ Approved(w)
                         \/ LoadEnds(w) \/ NewCancelled(w)
    \/ \E w \in Sends : Prompt(w) \/ SettleFinishes(w) \/ PollFindsIdle(w)
    \/ PiTurn \/ TurnEnds
    \/ \E answered \in BOOLEAN : Rejected(answered)
    \/ \E s \in Sessions : \/ PiExits(s)
                            \/ \E op \in {"load", "new", "branch"} : PiSwitches(op, s)
    \/ LoadSwitched \/ LoadCurrent \/ BranchSwitched
    \/ NewSwitched \/ NewTracker
    \/ \E replaced \in BOOLEAN : LoadFails(replaced)
    \/ Restart

PlanSpec == PlanInit /\ [][PlanNext]_vars

-----------------------------------------------------------------------------
(* Properties.                                                             *)

\* No request is between its awaits, and no write or load has failed.
Clean == load.op = "none" /\ ~hist.fault

\* The write gate in Pi and the mode on the screen agree with the tracker,
\* whichever handlers have changed it, but for one that does not publish: after
\* a fork or a clone they are those of the session that was left, until a
\* session is loaded or made.
PublishedState ==
    Clean /\ ~hist.unsynced =>
        /\ gate = [active |-> tracker.state = "Active", session |-> cur]
        /\ shown = ModeOf(tracker)

\* A restart at any moment comes up in the state that the user left: what the
\* snapshot is restored to is what the tracker itself would collapse to.
RestartIsFaithful ==
    Clean => LET a == FromSnapshot(file[cur])
                 b == FromSnapshot(tracker)
             IN  a.state = b.state /\ a.exitReminder = b.exitReminder

\* What the field comment says of awaiting_plan_approval.
AwaitingIsOutstanding == tracker.awaiting => consumer = "approval"

\* A flag that was not restored from a snapshot is cleared by the dialogue
\* that set it, whatever the user, the settle or another session do while the
\* dialogue is open.
AwaitingIsCleared == ~hist.restored => AwaitingIsOutstanding

\* A model that works outside plan mode has been told that it left: the exit
\* reminder is "one-shot after user exit or approved exit".
ExitIsAnnounced == ~hist.misled

\* The same, but for an exit whose reminder was still waiting when the user
\* entered plan mode again, or was put into a prompt that never reached Pi; an
\* activation whose snapshot could not be written; a prompt or an approval that
\* reached another session than the tracker's; a model in plan mode that a fork
\* has copied, or that stays behind when Pi cancels new_session.
ExitIsAnnouncedOnce == hist.misled => hist.dropped

\* The adapter is busy only while Pi works, a settle event is on its way or
\* being handled, or a failed write has left a prompt behind.
BusyForAReason ==
    Busy => pi.busy \/ pi.settled > 0 \/ consumer = "settling" \/ hist.stuck

=============================================================================
