--------------------------- MODULE PlanMode_proofs ---------------------------
(***************************************************************************)
(* Proofs about PlanMode, for any number of sessions, prompts, restarts    *)
(* and faults.                                                             *)
(*                                                                         *)
(* Each property has an inductive invariant of its own beside the types:   *)
(*   PublishedState        is inductive as it stands;                      *)
(*   BusyForAReason        needs RunningForAReason: the flag of a running  *)
(*                         turn never rests on the settle handler, which   *)
(*                         clears only the active prompt;                  *)
(*   AwaitingIsCleared     needs that the flag is only ever set in Active, *)
(*                         in the tracker and in every snapshot, because   *)
(*                         an approval clears it only there;               *)
(*   RestartIsFaithful     has to hold while a session is being loaded,    *)
(*                         and needs TargetIsFresh: nobody touches the     *)
(*                         session that new_session is about to open;      *)
(*   ExitIsAnnouncedOnce   needs TargetIsFresh and ExitInv: whoever        *)
(*                         believes in plan mode is a session whose        *)
(*                         tracker, and whose snapshot, still remember to  *)
(*                         say that it is over.                            *)
(***************************************************************************)
EXTENDS PlanMode, TLAPS

\* The types of the history, the bounds, the scheduler and Pi.
Hists == [fault : BOOLEAN, dropped : BOOLEAN, stuck : BOOLEAN,
          restored : BOOLEAN, misled : BOOLEAN, unsynced : BOOLEAN]
Uses == [prompts : 0 .. MaxPrompts, toggles : 0 .. MaxToggles,
         loads : 0 .. MaxLoads, lost : 0 .. MaxLost, faults : 0 .. MaxFaults]
Loads == [op : {"none", "load", "new", "branch"},
          pc : {"reading", "publishing", "ending"}, to : Sessions]
Scheds == [running : BOOLEAN, active : BOOLEAN, queued : BOOLEAN]
Pis == [busy : BOOLEAN, settled : 0 .. 2, open : Sessions]

\* The operations of the tracker return trackers.
LEMMA TrackerTypes ==
    ASSUME NEW t \in Trackers
    PROVE  /\ EnterPending(t) \in Trackers
           /\ \A b \in BOOLEAN : UserExit(t, b) \in Trackers
           /\ CompleteDeferredExit(t) \in Trackers
           /\ DeactivateApproved(t) \in Trackers
           /\ FromSnapshot(t) \in Trackers
           /\ Reminded(t) \in Trackers
           /\ [t EXCEPT !.awaiting = TRUE] \in Trackers
           /\ [t EXCEPT !.awaiting = FALSE] \in Trackers
           /\ Fresh \in Trackers
  <1>1. EnterPending(t) \in Trackers
    BY DEF Trackers, States, EnterPending
  <1>2. \A b \in BOOLEAN : UserExit(t, b) \in Trackers
    BY DEF Trackers, States, UserExit
  <1>3. CompleteDeferredExit(t) \in Trackers
    BY DEF Trackers, States, CompleteDeferredExit
  <1>4. DeactivateApproved(t) \in Trackers
    BY DEF Trackers, States, DeactivateApproved
  <1>5. FromSnapshot(t) \in Trackers
    BY DEF Trackers, States, FromSnapshot
  <1>6. Reminded(t) \in Trackers
    BY DEF Trackers, States, Reminded
  <1>7. /\ [t EXCEPT !.awaiting = TRUE] \in Trackers
        /\ [t EXCEPT !.awaiting = FALSE] \in Trackers
        /\ Fresh \in Trackers
    BY DEF Trackers, States, Fresh
  <1> QED BY <1>1, <1>2, <1>3, <1>4, <1>5, <1>6, <1>7

\* What is left of a bound.
LEMMA SpendDef ==
    /\ Spend("prompts") => used.prompts < MaxPrompts
    /\ Spend("toggles") => used.toggles < MaxToggles
    /\ Spend("loads") => used.loads < MaxLoads
    /\ Spend("lost") => used.lost < MaxLost
    /\ Spend("faults") => used.faults < MaxFaults
  BY DEF Spend

\* Counting an outcome keeps the history and the bounds in range.
LEMMA OutcomeType ==
    ASSUME PlanTypeOK, NEW w, NEW h \in Hists, NEW u \in Uses,
           u.faults = used.faults, Outcome(w, h, u)
    PROVE  /\ hist' \in Hists /\ used' \in Uses
           /\ hist'.fault = (h.fault \/ w \in Writes \ {"ok"})
           /\ hist'.dropped = h.dropped /\ hist'.stuck = h.stuck
           /\ hist'.restored = h.restored /\ hist'.misled = h.misled
           /\ hist'.unsynced = h.unsynced
  <1>1. hist' \in Hists
    BY DEF Outcome, Hists
  <1>2. used' \in Uses
    BY SpendDef, PlanAssumption DEF Outcome, Uses
  <1>3. /\ hist'.fault = (h.fault \/ w \in Writes \ {"ok"})
        /\ hist'.dropped = h.dropped /\ hist'.stuck = h.stuck
        /\ hist'.restored = h.restored /\ hist'.misled = h.misled
        /\ hist'.unsynced = h.unsynced
    BY DEF Outcome, Hists
  <1> QED BY <1>1, <1>2, <1>3

\* The initial state has the types.
LEMMA TypeInit == PlanInit => PlanTypeOK
  <1> SUFFICES ASSUME PlanInit PROVE PlanTypeOK
    OBVIOUS
  <1>1. Fresh \in Trackers
    BY DEF Fresh, Trackers, States
  <1>2. used \in Uses
    BY PlanAssumption DEF PlanInit, Uses
  <1>3. hist \in Hists
    BY DEF PlanInit, Hists
  <1>4. /\ sched \in [running : BOOLEAN, active : BOOLEAN, queued : BOOLEAN]
        /\ pi \in [busy : BOOLEAN, settled : 0 .. 2, open : Sessions]
        /\ gate \in [active : BOOLEAN, session : Sessions]
        /\ load \in Loads
    BY PlanAssumption DEF PlanInit, Idle, Loads
  <1> QED BY <1>1, <1>2, <1>3, <1>4, PlanAssumption
          DEF PlanInit, PlanTypeOK, Uses, Hists, Loads

\* Writing the control file keeps its type.
LEMMA SyncType ==
    ASSUME PlanTypeOK, NEW w, NEW t \in Trackers,
           Sync(w, t) \/ SyncAlways(w, t)
    PROVE  gate' \in [active : BOOLEAN, session : Sessions]
  <1> DEFINE b == t.state = "Active"
  <1>1. b \in BOOLEAN
    OBVIOUS
  <1>2. gate' = gate \/ gate' = [active |-> b, session |-> cur]
    BY DEF Sync, SyncAlways
  <1> HIDE DEF b
  <1> QED BY <1>1, <1>2 DEF PlanTypeOK

\* Writing a snapshot keeps the type of the snapshots.
LEMMA PersistType ==
    ASSUME PlanTypeOK, NEW w, NEW t \in Trackers, Persist(w, t)
    PROVE  file' \in [Sessions -> Trackers]
  BY DEF PlanTypeOK, Persist

\* What the reminder for a prompt says, and what is recorded of it.
LEMMA TextType ==
    ASSUME PlanTypeOK
    PROVE  /\ Told \in {"nothing", "plan", "normal"}
           /\ Misled \in BOOLEAN /\ Astray \in BOOLEAN
           /\ \A w : Unrecorded(w) \in BOOLEAN
           /\ \A h \in Hists : Unsent(h) \in Hists
  <1>1. Told \in {"nothing", "plan", "normal"}
    BY DEF PlanTypeOK, Told, ReminderText
  <1>2. Misled \in BOOLEAN /\ Astray \in BOOLEAN
    BY DEF Misled, Astray
  <1>3. \A w : Unrecorded(w) \in BOOLEAN
    BY DEF Unrecorded
  <1>4. \A h \in Hists : Unsent(h) \in Hists
    BY DEF Unsent, Hists
  <1> QED BY <1>1, <1>2, <1>3, <1>4

\* set_session_mode keeps the types.
LEMMA TypeToggle ==
    ASSUME PlanTypeOK, NEW w \in Writes, EnterPlan(w) \/ LeavePlan(w)
    PROVE  PlanTypeOK'
  <1> DEFINE Toggled == [used EXCEPT !.toggles = @ + 1]
  <1>1. PICK t \in Trackers, mode \in {"default", "plan"}, h \in Hists :
             SetMode(t, mode, w) /\ Outcome(w, h, Toggled)
    <2>1. CASE EnterPlan(w)
      <3>1. [hist EXCEPT !.dropped = @ \/ tracker.exitReminder] \in Hists
        BY DEF PlanTypeOK, Hists
      <3> QED BY <2>1, <3>1, TrackerTypes DEF PlanTypeOK, EnterPlan
    <2>2. CASE LeavePlan(w)
      BY <2>2, TrackerTypes DEF PlanTypeOK, LeavePlan, Hists
    <2> QED BY <2>1, <2>2
  <1>2. Toggled \in Uses /\ Toggled.faults = used.faults
    BY <1>1, SpendDef, PlanAssumption DEF PlanTypeOK, SetMode, Uses
  <1>3. hist' \in Hists /\ used' \in Uses
    BY <1>1, <1>2, OutcomeType
  <1>4. gate' \in [active : BOOLEAN, session : Sessions]
    BY <1>1, SyncType DEF SetMode, PlanTypeOK
  <1>5. file' \in [Sessions -> Trackers]
    BY <1>1, PersistType DEF SetMode, PlanTypeOK
  <1> QED BY <1>1, <1>3, <1>4, <1>5 DEF SetMode, PlanTypeOK, Hists, Uses

\* A prompt that runs at once keeps the types, with every outcome.
LEMMA TypePrompt ==
    ASSUME PlanTypeOK, NEW w \in Sends, Prompt(w)
    PROVE  PlanTypeOK'
  <1> DEFINE Prompted == [used EXCEPT !.prompts = @ + 1]
  <1>1. Prompted \in Uses /\ Prompted.faults = used.faults
    BY SpendDef, PlanAssumption DEF PlanTypeOK, Prompt, Uses
  <1>2. PICK h \in Hists : Outcome(w, h, Prompted)
    <2>1. hist \in Hists
      BY DEF PlanTypeOK, Hists
    <2>2. [hist EXCEPT !.misled = Misled, !.dropped = @ \/ Astray] \in Hists
      BY <2>1, TextType DEF Hists
    <2>3. Unsent(hist) \in Hists
      BY <2>1, TextType
    <2>4. [Unsent(hist) EXCEPT !.stuck = TRUE] \in Hists
      BY <2>3 DEF Hists
    <2>5. CASE w = "ok"
      BY <2>2, <2>5 DEF Prompt
    <2>6. CASE w = "refused"
      BY <2>3, <2>6 DEF Prompt
    <2>7. CASE w \notin {"ok", "refused"}
      BY <2>4, <2>7 DEF Prompt
    <2> QED BY <2>5, <2>6, <2>7
  <1>3. hist' \in Hists /\ used' \in Uses
    BY <1>1, <1>2, OutcomeType
  <1>4. tracker' \in Trackers
    BY TrackerTypes DEF Prompt, PlanTypeOK
  <1>5. /\ gate' \in [active : BOOLEAN, session : Sessions]
        /\ file' \in [Sessions -> Trackers]
    BY <1>4, SyncType, PersistType DEF Prompt
  <1>6. /\ sched' \in [running : BOOLEAN, active : BOOLEAN, queued : BOOLEAN]
        /\ pi' \in [busy : BOOLEAN, settled : 0 .. 2, open : Sessions]
    <2>1. \/ sched' = sched
          \/ sched' = [sched EXCEPT !.running = TRUE, !.active = TRUE]
      BY DEF Prompt
    <2>2. pi' = pi \/ pi' = [pi EXCEPT !.busy = TRUE]
      BY DEF Prompt
    <2> QED BY <2>1, <2>2 DEF PlanTypeOK
  <1>7. believes' \in [Sessions -> {"nothing", "plan", "normal"}]
    BY TextType DEF Prompt, PlanTypeOK
  <1> QED BY <1>3, <1>4, <1>5, <1>6, <1>7 DEF Prompt, PlanTypeOK, Hists, Uses

\* A prompt that is queued keeps the types.
LEMMA TypeQueued ==
    ASSUME PlanTypeOK, NEW w \in Writes, PromptQueued(w)
    PROVE  PlanTypeOK'
  <1> DEFINE Prompted == [used EXCEPT !.prompts = @ + 1]
  <1>1. Prompted \in Uses /\ Prompted.faults = used.faults
    BY SpendDef, PlanAssumption DEF PlanTypeOK, PromptQueued, Uses
  <1>2. hist' \in Hists /\ used' \in Uses
    BY <1>1, OutcomeType DEF PromptQueued, PlanTypeOK, Hists
  <1>3. /\ gate' \in [active : BOOLEAN, session : Sessions]
        /\ file' \in [Sessions -> Trackers]
    BY SyncType, PersistType DEF PromptQueued, PlanTypeOK
  <1> QED BY <1>2, <1>3 DEF PromptQueued, PlanTypeOK, Hists, Uses

\* Sending the next row keeps the types.
LEMMA DispatchType ==
    ASSUME PlanTypeOK, NEW w \in Sends, NEW s \in Scheds, NEW h \in Hists,
           NEW u \in Uses, u.faults = used.faults, Dispatch(s, h, u, w)
    PROVE  /\ tracker' \in Trackers /\ file' \in [Sessions -> Trackers]
           /\ gate' \in [active : BOOLEAN, session : Sessions]
           /\ sched' \in Scheds /\ pi' \in Pis
           /\ believes' \in [Sessions -> {"nothing", "plan", "normal"}]
           /\ hist' \in Hists /\ used' \in Uses
  <1>1. CASE ~s.queued
    BY <1>1 DEF Dispatch, PlanTypeOK, Pis, Hists, Uses
  <1>2. CASE s.queued
    <2>1. tracker' \in Trackers
      BY <1>2, TrackerTypes DEF Dispatch, PlanTypeOK
    <2>2. /\ gate' \in [active : BOOLEAN, session : Sessions]
          /\ file' \in [Sessions -> Trackers]
      BY <1>2, <2>1, SyncType, PersistType DEF Dispatch
    <2>3. PICK g \in Hists : Outcome(w, g, u)
      <3>1. Unsent(h) \in Hists
        BY TextType
      <3>2. [h EXCEPT !.misled = Misled,
                      !.dropped = @ \/ Unrecorded(w) \/ Astray] \in Hists
        BY TextType DEF Hists
      <3>3. CASE w = "refused"
        BY <1>2, <3>1, <3>3 DEF Dispatch
      <3>4. CASE w # "refused"
        BY <1>2, <3>2, <3>4 DEF Dispatch
      <3> QED BY <3>3, <3>4
    <2>4. hist' \in Hists /\ used' \in Uses
      BY <2>3, OutcomeType
    <2>5. sched' \in Scheds
      <3>1. CASE w = "refused"
        BY <1>2, <3>1 DEF Dispatch, Scheds
      <3>2. CASE w # "refused"
        <4>1. sched' = [running |-> TRUE, active |-> TRUE, queued |-> FALSE]
          BY <1>2, <3>2 DEF Dispatch
        <4> QED BY <4>1 DEF Scheds
      <3> QED BY <3>1, <3>2
    <2>6. pi' \in Pis
      BY <1>2 DEF Dispatch, Pis, PlanTypeOK
    <2>7. believes' \in [Sessions -> {"nothing", "plan", "normal"}]
      BY <1>2, TextType DEF Dispatch, PlanTypeOK
    <2> QED BY <2>1, <2>2, <2>4, <2>5, <2>6, <2>7
  <1> QED BY <1>1, <1>2

\* The two ends of a turn keep the types.
LEMMA TypeFinish ==
    ASSUME PlanTypeOK, NEW w \in Sends,
           SettleFinishes(w) \/ PollFindsIdle(w)
    PROVE  PlanTypeOK'
  <1>1. CASE SettleFinishes(w)
    <2> DEFINE s == [sched EXCEPT !.active = FALSE]
               h == [hist EXCEPT !.stuck = @ /\ sched.running]
    <2>1. s \in Scheds /\ h \in Hists /\ used \in Uses
      BY DEF PlanTypeOK, Scheds, Hists, Uses
    <2>2. CASE s.running
      <3>1. /\ sched' = s /\ hist' = h /\ consumer' = "free"
            /\ UNCHANGED <<tracker, cur, bound, file, gate, shown, pi, load,
                           believes, used>>
        BY <1>1, <2>2 DEF SettleFinishes
      <3> HIDE DEF s, h
      <3> QED BY <2>1, <3>1 DEF PlanTypeOK, Scheds, Hists
    <2>3. CASE ~s.running
      <3>1. Dispatch(s, h, used, w)
        BY <1>1, <2>3 DEF SettleFinishes
      <3> HIDE DEF s, h
      <3> QED BY <1>1, <2>1, <3>1, DispatchType
              DEF SettleFinishes, PlanTypeOK, Scheds, Pis, Hists, Uses
    <2> QED BY <2>2, <2>3
  <1>2. CASE PollFindsIdle(w)
    <2> DEFINE s == [sched EXCEPT !.running = FALSE, !.active = FALSE]
               h == [hist EXCEPT !.stuck = FALSE]
               u == [used EXCEPT !.lost = @ + 1]
    <2>1. s \in Scheds /\ h \in Hists
      BY DEF PlanTypeOK, Scheds, Hists
    <2>2. u \in Uses /\ u.faults = used.faults
      BY <1>2, SpendDef, PlanAssumption DEF PlanTypeOK, PollFindsIdle, Uses
    <2>3. Dispatch(s, h, u, w)
      BY <1>2 DEF PollFindsIdle
    <2> HIDE DEF s, h, u
    <2> QED BY <1>2, <2>1, <2>2, <2>3, DispatchType
            DEF PollFindsIdle, PlanTypeOK, Scheds, Pis, Hists, Uses
  <1> QED BY <1>1, <1>2

\* The settle handler keeps the types.
LEMMA TypeSettle ==
    ASSUME PlanTypeOK, NEW w \in Writes, Settle(w)
    PROVE  PlanTypeOK'
  <1>1. tracker' \in Trackers
    BY TrackerTypes DEF Settle, PlanTypeOK
  <1>2. /\ gate' \in [active : BOOLEAN, session : Sessions]
        /\ file' \in [Sessions -> Trackers]
    BY <1>1, SyncType, PersistType DEF Settle, PlanTypeOK
  <1>3. hist' \in Hists /\ used' \in Uses
    <2>1. hist \in Hists /\ used \in Uses
      BY DEF PlanTypeOK, Hists, Uses
    <2>2. [hist EXCEPT !.stuck = @ \/ (w # "ok" /\ sched.active)] \in Hists
      BY <2>1 DEF Hists
    <2> QED BY <2>1, <2>2, OutcomeType DEF Settle
  <1>4. pi' \in Pis /\ sched' \in Scheds
    <2>1. /\ pi' = [pi EXCEPT !.settled = @ - 1] /\ pi.settled > 0
          /\ sched' = [sched EXCEPT !.running = FALSE]
      BY DEF Settle
    <2>2. pi' \in Pis
      BY <2>1 DEF PlanTypeOK, Pis
    <2>3. sched' \in Scheds
      BY <2>1 DEF PlanTypeOK, Scheds
    <2> QED BY <2>2, <2>3
  <1>5. consumer' = consumer \/ consumer' = "settling"
    BY DEF Settle
  <1> QED BY <1>1, <1>2, <1>3, <1>4, <1>5
          DEF Settle, PlanTypeOK, Hists, Uses, Pis, Scheds

\* The approval dialogue keeps the types.
LEMMA TypeApproval ==
    ASSUME PlanTypeOK,
           \/ \E w \in Writes : AskApproval(w) \/ Approved(w)
           \/ \E answered \in BOOLEAN : Rejected(answered)
    PROVE  PlanTypeOK'
  <1>0. hist \in Hists /\ used \in Uses
    BY DEF PlanTypeOK, Hists, Uses
  <1>1. ASSUME NEW w \in Writes, AskApproval(w) PROVE PlanTypeOK'
    <2>1. /\ gate' \in [active : BOOLEAN, session : Sessions]
          /\ file' \in [Sessions -> Trackers]
      BY <1>1, TrackerTypes, SyncType, PersistType DEF AskApproval, PlanTypeOK
    <2>2. hist' \in Hists /\ used' \in Uses
      BY <1>0, <1>1, OutcomeType DEF AskApproval
    <2>3. /\ tracker' \in Trackers
          /\ consumer' = consumer
             \/ consumer' = "approval"
      BY <1>1, TrackerTypes DEF AskApproval, PlanTypeOK
    <2> QED BY <1>1, <2>1, <2>2, <2>3 DEF AskApproval, PlanTypeOK, Hists, Uses
  <1>2. ASSUME NEW w \in Writes, Approved(w) PROVE PlanTypeOK'
    <2>1. tracker' \in Trackers
      BY <1>2, TrackerTypes DEF Approved, PlanTypeOK
    <2>2. /\ gate' \in [active : BOOLEAN, session : Sessions]
          /\ file' \in [Sessions -> Trackers]
      BY <1>2, <2>1, SyncType, PersistType DEF Approved
    <2>3. hist' \in Hists /\ used' \in Uses
      <3>1. [hist EXCEPT !.dropped = @ \/ Astray] \in Hists
        BY <1>0, TextType DEF Hists
      <3> QED BY <1>0, <1>2, <3>1, OutcomeType DEF Approved
    <2> QED BY <1>2, <2>1, <2>2, <2>3 DEF Approved, PlanTypeOK, Hists, Uses
  <1>3. ASSUME NEW answered \in BOOLEAN, Rejected(answered) PROVE PlanTypeOK'
    <2>1. tracker' \in Trackers
      BY <1>3, TrackerTypes DEF Rejected, PlanTypeOK
    <2>2. file' \in [Sessions -> Trackers]
      BY <1>3, <2>1 DEF Rejected, PlanTypeOK
    <2> QED BY <1>3, <2>1, <2>2 DEF Rejected, PlanTypeOK
  <1> QED BY <1>1, <1>2, <1>3

\* Steps of Pi keep the types.
LEMMA TypePi ==
    ASSUME PlanTypeOK, PiTurn \/ TurnEnds \/ \E s \in Sessions : PiExits(s)
    PROVE  PlanTypeOK'
  <1>1. CASE PiTurn
    <2>1. pi' \in Pis /\ sched' \in Scheds
      BY <1>1 DEF PiTurn, PlanTypeOK, Pis, Scheds
    <2> QED BY <1>1, <2>1 DEF PiTurn, PlanTypeOK, Pis, Scheds
  <1>2. CASE TurnEnds
    <2>1. pi' = [pi EXCEPT !.busy = FALSE, !.settled = @ + 1] /\ pi.settled < 2
      BY <1>2 DEF TurnEnds
    <2>2. pi' \in Pis
      <3>1. pi \in Pis
        BY DEF PlanTypeOK, Pis
      <3>2. pi.settled + 1 \in 0 .. 2
        BY <2>1, <3>1 DEF Pis
      <3> QED BY <2>1, <3>1, <3>2 DEF Pis
    <2> QED BY <1>2, <2>2 DEF TurnEnds, PlanTypeOK, Pis
  <1>3. ASSUME NEW s \in Sessions, PiExits(s) PROVE PlanTypeOK'
    <2>1. used' \in Uses
      BY <1>3, SpendDef, PlanAssumption DEF PiExits, PlanTypeOK, Uses
    <2>2. hist' \in Hists
      BY <1>3 DEF PiExits, PlanTypeOK, Hists
    <2>3. sched' \in Scheds /\ pi' \in Pis
      <3>1. /\ sched' = [running |-> FALSE, active |-> FALSE, queued |-> FALSE]
            /\ pi' = [busy |-> FALSE, settled |-> 0, open |-> s]
        BY <1>3 DEF PiExits
      <3> QED BY <3>1 DEF Scheds, Pis
    <2> QED BY <1>3, <2>1, <2>2, <2>3
            DEF PiExits, PlanTypeOK, Uses, Hists, Scheds, Pis
  <1> QED BY <1>1, <1>2, <1>3

\* Exchanging the tracker keeps its type.
LEMMA TakeType ==
    ASSUME PlanTypeOK, NEW s \in Sessions, NEW h \in Hists, TakeTracker(s, h)
    PROVE  cur' \in Sessions /\ tracker' \in Trackers /\ hist' \in Hists
  <1>1. file[s] \in Trackers
    BY DEF PlanTypeOK
  <1>2. file[s].awaiting \in BOOLEAN
    BY <1>1 DEF Trackers
  <1>3. hist' \in Hists
    <2> DEFINE b == file[s].awaiting
    <2>1. hist' = [h EXCEPT !.restored = @ \/ b] /\ b \in BOOLEAN
      BY <1>2 DEF TakeTracker
    <2> HIDE DEF b
    <2> QED BY <2>1 DEF Hists
  <1> QED BY <1>1, <1>3, TrackerTypes DEF TakeTracker

\* Replacing the bootstrap keeps the types.
LEMMA RebindType ==
    ASSUME PlanTypeOK, NEW s \in Sessions, Rebind(s)
    PROVE  bound' \in Sessions /\ sched' \in Scheds
  BY DEF PlanTypeOK, Rebind, Scheds

\* The steps of load_session, new_session, fork and clone keep the types.
LEMMA TypeSwitch ==
    ASSUME PlanTypeOK,
           \/ \E s \in Sessions, op \in {"load", "new", "branch"} : PiSwitches(op, s)
           \/ LoadSwitched \/ LoadCurrent \/ BranchSwitched
           \/ NewSwitched \/ NewTracker
    PROVE  PlanTypeOK'
  <1>0. /\ hist \in Hists /\ used \in Uses /\ load \in Loads /\ load.to \in Sessions
        /\ pi \in Pis /\ sched \in Scheds /\ bound \in Sessions
    BY DEF PlanTypeOK, Hists, Uses, Loads, Pis, Scheds
  <1>1. Spend("loads") => [used EXCEPT !.loads = @ + 1] \in Uses
    BY <1>0, SpendDef, PlanAssumption DEF Uses
  <1>2. [load EXCEPT !.pc = "ending"] \in Loads /\ Idle \in Loads
        /\ [load EXCEPT !.pc = "publishing"] \in Loads
    BY <1>0, PlanAssumption DEF Loads, Idle
  <1>3. ASSUME NEW s \in Sessions, NEW op \in {"load", "new", "branch"},
               PiSwitches(op, s)
        PROVE  PlanTypeOK'
    <2>1. pi' \in Pis
      <3> DEFINE n == IF pi.busy THEN 1 ELSE pi.settled
      <3>1. n \in 0 .. 2
        BY <1>0 DEF Pis
      <3>2. pi' = [busy |-> FALSE, settled |-> n, open |-> s]
        BY <1>3 DEF PiSwitches
      <3> HIDE DEF n
      <3> QED BY <3>1, <3>2 DEF Pis
    <2>2. load' \in Loads
      BY <1>3 DEF PiSwitches, Loads
    <2>3. believes' \in [Sessions -> {"nothing", "plan", "normal"}]
      BY <1>0, <1>3 DEF PiSwitches, PlanTypeOK, Pis
    <2>4. hist' \in Hists
      <3> DEFINE b == believes[pi.open] = "plan"
      <3>1. hist' = hist \/ hist' = [hist EXCEPT !.dropped = @ \/ b]
        BY <1>3 DEF PiSwitches
      <3>2. b \in BOOLEAN
        OBVIOUS
      <3> HIDE DEF b
      <3> QED BY <1>0, <3>1, <3>2 DEF Hists
    <2>5. used' \in Uses
      BY <1>1, <1>3 DEF PiSwitches
    <2> QED BY <1>3, <2>1, <2>2, <2>3, <2>4, <2>5
            DEF PiSwitches, PlanTypeOK, Pis, Hists, Uses, Loads
  <1>4. CASE LoadSwitched
    <2>1. /\ cur' \in Sessions /\ tracker' \in Trackers /\ hist' \in Hists
          /\ bound' \in Sessions /\ sched' \in Scheds
      BY <1>0, <1>4, TakeType, RebindType DEF LoadSwitched
    <2> QED BY <1>2, <1>4, <2>1
            DEF LoadSwitched, PlanTypeOK, Hists, Scheds, Loads
  <1>5. CASE LoadCurrent
    <2>1. cur' \in Sessions /\ tracker' \in Trackers /\ hist' \in Hists
      BY <1>0, <1>5, TakeType DEF LoadCurrent
    <2>2. load' \in Loads /\ used' \in Uses
      BY <1>0, <1>1, <1>5 DEF LoadCurrent, Loads
    <2> QED BY <1>5, <2>1, <2>2
            DEF LoadCurrent, PlanTypeOK, Hists, Uses, Loads
  <1>6. CASE BranchSwitched
    <2>1. [hist EXCEPT !.unsynced = TRUE] \in Hists
      BY <1>0 DEF Hists
    <2>2. /\ cur' \in Sessions /\ tracker' \in Trackers /\ hist' \in Hists
          /\ bound' \in Sessions /\ sched' \in Scheds
      BY <1>0, <1>6, <2>1, TakeType, RebindType DEF BranchSwitched
    <2> QED BY <1>2, <1>6, <2>2
            DEF BranchSwitched, PlanTypeOK, Hists, Scheds, Loads
  <1>7. CASE NewSwitched
    <2>1. bound' \in Sessions /\ sched' \in Scheds
      BY <1>0, <1>7, RebindType DEF NewSwitched
    <2> QED BY <1>2, <1>7, <2>1 DEF NewSwitched, PlanTypeOK, Scheds, Loads
  <1>8. CASE NewTracker
    <2>1. /\ cur' \in Sessions /\ tracker' \in Trackers /\ load' \in Loads
          /\ UNCHANGED <<bound, file, gate, shown, sched, pi, consumer, believes,
                         hist, used>>
      <3>1. Fresh \in Trackers
        BY DEF Fresh, Trackers, States
      <3> QED BY <1>0, <1>2, <1>8, <3>1 DEF NewTracker
    <2> QED BY <2>1 DEF PlanTypeOK, Loads
  <1> QED BY <1>3, <1>4, <1>5, <1>6, <1>7, <1>8

\* The ends of these requests, and a restart, keep the types.
LEMMA TypeEnds ==
    ASSUME PlanTypeOK,
           \/ \E w \in Writes : LoadEnds(w) \/ NewCancelled(w)
           \/ \E replaced \in BOOLEAN : LoadFails(replaced)
           \/ Restart
    PROVE  PlanTypeOK'
  <1>0. /\ hist \in Hists /\ used \in Uses /\ load \in Loads /\ load.to \in Sessions
        /\ bound \in Sessions
    BY DEF PlanTypeOK, Hists, Uses, Loads
  <1>1. Spend("loads") => /\ [used EXCEPT !.loads = @ + 1] \in Uses
                          /\ [used EXCEPT !.loads = @ + 1].faults = used.faults
    BY <1>0, SpendDef, PlanAssumption DEF Uses
  <1>2. Idle \in Loads
    BY PlanAssumption DEF Loads, Idle
  <1>3. ASSUME NEW w \in Writes, LoadEnds(w) PROVE PlanTypeOK'
    <2>1. /\ gate' \in [active : BOOLEAN, session : Sessions]
          /\ file' \in [Sessions -> Trackers]
      BY <1>3, SyncType, PersistType DEF LoadEnds, PlanTypeOK
    <2>2. hist' \in Hists /\ used' \in Uses
      <3>1. [hist EXCEPT !.unsynced = FALSE] \in Hists
        BY <1>0 DEF Hists
      <3> QED BY <1>0, <1>3, <3>1, OutcomeType DEF LoadEnds
    <2> QED BY <1>2, <1>3, <2>1, <2>2
            DEF LoadEnds, ModeOf, PlanTypeOK, Hists, Uses, Loads
  <1>4. ASSUME NEW w \in Writes, NewCancelled(w) PROVE PlanTypeOK'
    <2>1. hist' \in Hists /\ used' \in Uses
      <3> DEFINE b == believes[bound] = "plan"
      <3>1. [hist EXCEPT !.dropped = @ \/ b, !.unsynced = FALSE] \in Hists
        <4>1. b \in BOOLEAN
          OBVIOUS
        <4> HIDE DEF b
        <4> QED BY <1>0, <4>1 DEF Hists
      <3> QED BY <1>0, <1>1, <1>4, <3>1, OutcomeType DEF NewCancelled
    <2>2. /\ file' \in [Sessions -> Trackers]
          /\ gate' \in [active : BOOLEAN, session : Sessions]
          /\ shown' \in {"default", "plan"}
      BY <1>0, <1>4, TrackerTypes DEF NewCancelled, PlanTypeOK
    <2> QED BY <1>0, <1>4, <2>1, <2>2, TrackerTypes
            DEF NewCancelled, PlanTypeOK, Hists, Uses
  <1>5. ASSUME NEW replaced \in BOOLEAN, LoadFails(replaced)
        PROVE  PlanTypeOK'
    <2>1. used' \in Uses
      BY <1>0, <1>5, SpendDef, PlanAssumption DEF LoadFails, Uses
    <2>2. hist' \in Hists
      BY <1>0, <1>5 DEF LoadFails, Hists
    <2>3. bound' \in Sessions /\ sched' \in Scheds
      BY <1>0, <1>5, RebindType DEF LoadFails, PlanTypeOK, Scheds
    <2> QED BY <1>2, <1>5, <2>1, <2>2, <2>3
            DEF LoadFails, PlanTypeOK, Uses, Hists, Scheds, Loads
  <1>6. CASE Restart
    <2>1. [hist EXCEPT !.stuck = FALSE] \in Hists
      BY <1>0 DEF Hists
    <2>2. cur' \in Sessions /\ tracker' \in Trackers /\ hist' \in Hists
      BY <1>0, <1>6, <2>1, TakeType DEF Restart
    <2>3. used' \in Uses /\ load' \in Loads
      BY <1>0, <1>1, <1>6 DEF Restart, Loads
    <2>4. sched' \in Scheds /\ pi' \in Pis
      <3>1. /\ sched' = [running |-> FALSE, active |-> FALSE, queued |-> FALSE]
            /\ pi' = [busy |-> FALSE, settled |-> 0, open |-> bound]
        BY <1>6 DEF Restart
      <3> QED BY <1>0, <3>1 DEF Scheds, Pis
    <2> QED BY <1>6, <2>2, <2>3, <2>4
            DEF Restart, PlanTypeOK, Hists, Uses, Scheds, Pis, Loads
  <1> QED BY <1>3, <1>4, <1>5, <1>6

\* Every reachable state of plan mode has its type: no handler, with whatever
\* outcome of its writes, leaves a field or a file undefined.
THEOREM PlanTypeCorrect == PlanSpec => []PlanTypeOK
  <1>1. PlanTypeOK /\ [PlanNext]_vars => PlanTypeOK'
    <2> SUFFICES ASSUME PlanTypeOK, [PlanNext]_vars PROVE PlanTypeOK'
      OBVIOUS
    <2>1. CASE PlanNext
      BY <2>1, TypeToggle, TypePrompt, TypeQueued, TypeFinish, TypeSettle,
         TypeApproval, TypePi, TypeSwitch, TypeEnds DEF PlanNext
    <2>2. CASE UNCHANGED vars
      BY <2>2 DEF vars, PlanTypeOK
    <2> QED BY <2>1, <2>2
  <1> QED BY <1>1, TypeInit, PTL DEF PlanSpec

-----------------------------------------------------------------------------
(* What the steps do to the history.                                       *)

\* Counting an outcome adds only the fault to the history.
LEMMA OutcomeHist ==
    ASSUME NEW w, NEW h \in Hists, NEW u, Outcome(w, h, u)
    PROVE  /\ hist'.fault <=> h.fault \/ w \in Writes \ {"ok"}
           /\ hist'.dropped <=> h.dropped
           /\ hist'.stuck <=> h.stuck
           /\ hist'.restored <=> h.restored
           /\ hist'.misled <=> h.misled
           /\ hist'.unsynced <=> h.unsynced
  BY DEF Outcome, Hists

\* The handlers that record nothing but a failing write.
LEMMA QuietHist ==
    ASSUME PlanTypeOK, NEW w \in Writes,
           LeavePlan(w) \/ PromptQueued(w) \/ AskApproval(w)
    PROVE  /\ hist'.fault <=> hist.fault \/ w # "ok"
           /\ hist'.dropped <=> hist.dropped
           /\ hist'.stuck <=> hist.stuck
           /\ hist'.restored <=> hist.restored
           /\ hist'.misled <=> hist.misled
           /\ hist'.unsynced <=> hist.unsynced
  <1>1. hist \in Hists
    BY DEF PlanTypeOK, Hists
  <1>2. \E u : Outcome(w, hist, u)
    BY DEF LeavePlan, PromptQueued, AskApproval
  <1> QED BY <1>1, <1>2, OutcomeHist

\* An approval may reach the wrong session.
LEMMA ApprovedHist ==
    ASSUME PlanTypeOK, NEW w \in Writes, Approved(w)
    PROVE  /\ hist'.fault <=> hist.fault \/ w # "ok"
           /\ hist'.dropped <=> hist.dropped \/ Astray
           /\ hist'.stuck <=> hist.stuck
           /\ hist'.restored <=> hist.restored
           /\ hist'.misled <=> hist.misled
           /\ hist'.unsynced <=> hist.unsynced
  <1> DEFINE h == [hist EXCEPT !.dropped = @ \/ Astray]
  <1>1. /\ h \in Hists
        /\ h.fault <=> hist.fault
        /\ h.dropped <=> hist.dropped \/ Astray
        /\ h.stuck <=> hist.stuck
        /\ h.restored <=> hist.restored
        /\ h.misled <=> hist.misled
        /\ h.unsynced <=> hist.unsynced
    BY TextType DEF PlanTypeOK, Hists
  <1>2. \E u : Outcome(w, h, u)
    BY DEF Approved
  <1> HIDE DEF h
  <1> QED BY <1>1, <1>2, OutcomeHist

\* The end of a load, of a new session and of one that Pi has cancelled: only
\* the last may leave a model behind that believes in plan mode.
LEMMA EndsHist ==
    ASSUME PlanTypeOK, NEW w \in Writes, LoadEnds(w) \/ NewCancelled(w)
    PROVE  /\ hist'.fault <=> hist.fault \/ w # "ok"
           /\ LoadEnds(w) => (hist'.dropped <=> hist.dropped)
           /\ hist.dropped => hist'.dropped
           /\ NewCancelled(w) /\ believes[bound] = "plan" => hist'.dropped
           /\ hist'.stuck <=> hist.stuck
           /\ hist'.restored <=> hist.restored
           /\ hist'.misled <=> hist.misled
  <1>1. ASSUME NEW b \in BOOLEAN, NEW h,
               h = [hist EXCEPT !.dropped = @ \/ b, !.unsynced = FALSE]
        PROVE  /\ h \in Hists
               /\ h.fault <=> hist.fault
               /\ h.dropped <=> hist.dropped \/ b
               /\ h.stuck <=> hist.stuck
               /\ h.restored <=> hist.restored
               /\ h.misled <=> hist.misled
    BY <1>1 DEF PlanTypeOK, Hists
  <1>2. CASE NewCancelled(w)
    <2> DEFINE b == believes[bound] = "plan"
               h == [hist EXCEPT !.dropped = @ \/ b, !.unsynced = FALSE]
    <2>1. b \in BOOLEAN /\ \E u : Outcome(w, h, u)
      BY <1>2 DEF NewCancelled
    <2>2. ~LoadEnds(w)
      BY <1>2 DEF NewCancelled, LoadEnds
    <2>3. believes[bound] = "plan" => b
      OBVIOUS
    <2> HIDE DEF b
    <2>4. /\ h \in Hists
          /\ h.fault <=> hist.fault
          /\ h.dropped <=> hist.dropped \/ b
          /\ h.stuck <=> hist.stuck
          /\ h.restored <=> hist.restored
          /\ h.misled <=> hist.misled
      BY <1>1, <2>1
    <2> HIDE DEF h
    <2> QED BY <2>1, <2>2, <2>3, <2>4, OutcomeHist
  <1>3. CASE LoadEnds(w)
    <2> DEFINE h == [hist EXCEPT !.unsynced = FALSE]
    <2>1. \E u : Outcome(w, h, u)
      BY <1>3 DEF LoadEnds
    <2>2. ~NewCancelled(w)
      BY <1>3 DEF NewCancelled, LoadEnds
    <2>3. /\ h \in Hists
          /\ h.fault <=> hist.fault
          /\ h.dropped <=> hist.dropped
          /\ h.stuck <=> hist.stuck
          /\ h.restored <=> hist.restored
          /\ h.misled <=> hist.misled
      BY DEF PlanTypeOK, Hists
    <2> HIDE DEF h
    <2> QED BY <2>1, <2>2, <2>3, OutcomeHist
  <1> QED BY <1>2, <1>3

\* Exchanging the tracker records a flag that its snapshot has restored.
LEMMA TakeHist ==
    ASSUME PlanTypeOK, NEW s \in Sessions, NEW h \in Hists, TakeTracker(s, h)
    PROVE  /\ hist'.fault <=> h.fault
           /\ hist'.dropped <=> h.dropped
           /\ hist'.stuck <=> h.stuck
           /\ hist'.restored <=> h.restored \/ file[s].awaiting
           /\ hist'.misled <=> h.misled
           /\ hist'.unsynced <=> h.unsynced
  <1> DEFINE b == file[s].awaiting
  <1>1. b \in BOOLEAN
    BY DEF PlanTypeOK, Trackers
  <1>2. hist' = [h EXCEPT !.restored = @ \/ b]
    BY DEF TakeTracker
  <1>3. /\ hist'.fault <=> h.fault
        /\ hist'.dropped <=> h.dropped
        /\ hist'.stuck <=> h.stuck
        /\ hist'.restored <=> h.restored \/ b
        /\ hist'.misled <=> h.misled
        /\ hist'.unsynced <=> h.unsynced
    <2> HIDE DEF b
    <2> QED BY <1>1, <1>2 DEF Hists
  <1> QED BY <1>3

\* The steps that exchange the tracker for a session's snapshot.
Exchanges(s) ==
    \/ LoadSwitched /\ s = load.to
    \/ BranchSwitched /\ s = load.to
    \/ LoadCurrent /\ s = bound
    \/ Restart /\ s = bound

\* Every step that exchanges the tracker does so for some session.
LEMMA ExchangesNext ==
    LoadSwitched \/ BranchSwitched \/ LoadCurrent \/ Restart
        => \E s : Exchanges(s)
  BY DEF Exchanges

\* What these steps have in common.
LEMMA ExchangeHist ==
    ASSUME PlanTypeOK, NEW s, Exchanges(s)
    PROVE  /\ s \in Sessions
           /\ cur' = s /\ tracker' = FromSnapshot(file[s])
           /\ UNCHANGED <<file, believes>>
           /\ hist'.fault <=> hist.fault
           /\ hist'.dropped <=> hist.dropped
           /\ hist'.stuck => hist.stuck
           /\ ~Restart => (hist'.stuck <=> hist.stuck)
           /\ hist'.restored <=> hist.restored \/ file[s].awaiting
           /\ hist'.misled <=> hist.misled
           /\ BranchSwitched => hist'.unsynced
  <1>0. hist \in Hists /\ load.to \in Sessions /\ bound \in Sessions
    BY DEF PlanTypeOK, Hists
  <1>1. s \in Sessions
    BY <1>0 DEF Exchanges
  <1>2. CASE (LoadSwitched \/ LoadCurrent) /\ TakeTracker(s, hist)
    <2>1. UNCHANGED <<file, believes>> /\ ~BranchSwitched
      BY <1>2 DEF LoadSwitched, LoadCurrent, BranchSwitched
    <2> QED BY <1>0, <1>1, <1>2, <2>1, TakeHist DEF TakeTracker
  <1>3. CASE BranchSwitched /\ s = load.to
    <2> DEFINE h == [hist EXCEPT !.unsynced = TRUE]
    <2>1. /\ h \in Hists
          /\ h.fault <=> hist.fault
          /\ h.dropped <=> hist.dropped
          /\ h.stuck <=> hist.stuck
          /\ h.restored <=> hist.restored
          /\ h.misled <=> hist.misled
          /\ h.unsynced
      BY <1>0 DEF Hists
    <2>2. TakeTracker(s, h) /\ UNCHANGED <<file, believes>>
      BY <1>3 DEF BranchSwitched
    <2> HIDE DEF h
    <2> QED BY <1>1, <2>1, <2>2, TakeHist DEF TakeTracker
  <1>4. CASE Restart /\ s = bound
    <2> DEFINE h == [hist EXCEPT !.stuck = FALSE]
    <2>1. /\ h \in Hists
          /\ h.fault <=> hist.fault
          /\ h.dropped <=> hist.dropped
          /\ ~h.stuck
          /\ h.restored <=> hist.restored
          /\ h.misled <=> hist.misled
      BY <1>0 DEF Hists
    <2>2. TakeTracker(s, h) /\ UNCHANGED <<file, believes>>
      BY <1>4 DEF Restart
    <2>3. ~BranchSwitched
      BY <1>4 DEF Restart, BranchSwitched, Idle
    <2> HIDE DEF h
    <2> QED BY <1>1, <1>4, <2>1, <2>2, <2>3, TakeHist DEF TakeTracker
  <1>5. /\ LoadSwitched /\ s = load.to => TakeTracker(s, hist)
        /\ LoadCurrent /\ s = bound => TakeTracker(s, hist)
    BY DEF LoadSwitched, LoadCurrent
  <1> QED BY <1>2, <1>3, <1>4, <1>5 DEF Exchanges

\* A switch inside Pi may copy what a model believes.
LEMMA SwitchHist ==
    ASSUME PlanTypeOK, NEW s \in Sessions, NEW op, PiSwitches(op, s)
    PROVE  /\ hist'.fault <=> hist.fault
           /\ hist.dropped => hist'.dropped
           /\ op = "branch" /\ believes[pi.open] = "plan" => hist'.dropped
           /\ hist'.stuck <=> hist.stuck
           /\ hist'.restored <=> hist.restored
           /\ hist'.misled <=> hist.misled
  <1> DEFINE b == believes[pi.open] = "plan"
  <1>1. \/ hist' = hist /\ op # "branch"
        \/ hist' = [hist EXCEPT !.dropped = @ \/ b]
    BY DEF PiSwitches
  <1>2. b \in BOOLEAN /\ (believes[pi.open] = "plan" => b)
    OBVIOUS
  <1> HIDE DEF b
  <1> QED BY <1>1, <1>2 DEF PlanTypeOK, Hists

\* Entering plan mode drops a reminder that was still waiting.
LEMMA EnterHist ==
    ASSUME PlanTypeOK, NEW w \in Writes, EnterPlan(w)
    PROVE  /\ hist'.fault <=> hist.fault \/ w # "ok"
           /\ hist'.dropped <=> hist.dropped \/ tracker.exitReminder
           /\ hist'.stuck <=> hist.stuck
           /\ hist'.restored <=> hist.restored
           /\ hist'.misled <=> hist.misled
           /\ hist'.unsynced <=> hist.unsynced
  <1> DEFINE h == [hist EXCEPT !.dropped = @ \/ tracker.exitReminder]
  <1>1. /\ h \in Hists
        /\ h.fault <=> hist.fault
        /\ h.dropped <=> hist.dropped \/ tracker.exitReminder
        /\ h.stuck <=> hist.stuck
        /\ h.restored <=> hist.restored
        /\ h.misled <=> hist.misled
        /\ h.unsynced <=> hist.unsynced
    BY DEF PlanTypeOK, Hists
  <1>2. \E u : Outcome(w, h, u)
    BY DEF EnterPlan
  <1> HIDE DEF h
  <1> QED BY <1>1, <1>2, OutcomeHist

\* A reminder that is put into a text that Pi does not get.
Discarded == tracker.exitReminder /\ ~Reminded(tracker).exitReminder

\* A text that is not sent drops the reminder it contains.
LEMMA UnsentHist ==
    ASSUME NEW h \in Hists
    PROVE  /\ Unsent(h) \in Hists
           /\ Unsent(h).fault <=> h.fault
           /\ Unsent(h).dropped <=> h.dropped \/ Discarded
           /\ Unsent(h).stuck <=> h.stuck
           /\ Unsent(h).restored <=> h.restored
           /\ Unsent(h).misled <=> h.misled
           /\ Unsent(h).unsynced <=> h.unsynced
  BY DEF Unsent, Hists, Discarded

\* What a prompt that runs at once records.
LEMMA PromptHist ==
    ASSUME PlanTypeOK, NEW w \in Sends, Prompt(w)
    PROVE  /\ hist'.fault <=> hist.fault \/ w \notin {"ok", "refused"}
           /\ hist'.dropped <=> \/ hist.dropped
                                \/ w = "ok" /\ Astray
                                \/ w # "ok" /\ Discarded
           /\ hist'.stuck <=> hist.stuck \/ w \notin {"ok", "refused"}
           /\ hist'.restored <=> hist.restored
           /\ hist'.misled <=> IF w = "ok" THEN Misled ELSE hist.misled
           /\ hist'.unsynced <=> hist.unsynced
  <1>0. hist \in Hists
    BY DEF PlanTypeOK, Hists
  <1> DEFINE u == [used EXCEPT !.prompts = @ + 1]
  <1>1. CASE w = "ok"
    <2> DEFINE h == [hist EXCEPT !.misled = Misled, !.dropped = @ \/ Astray]
    <2>1. /\ h \in Hists
          /\ h.fault <=> hist.fault
          /\ h.dropped <=> hist.dropped \/ Astray
          /\ h.stuck <=> hist.stuck
          /\ h.restored <=> hist.restored
          /\ h.misled <=> Misled
          /\ h.unsynced <=> hist.unsynced
      <3>1. ASSUME NEW m \in BOOLEAN, NEW d \in BOOLEAN,
                   NEW k, k = [hist EXCEPT !.misled = m, !.dropped = @ \/ d]
            PROVE  /\ k \in Hists
                   /\ k.fault <=> hist.fault
                   /\ k.dropped <=> hist.dropped \/ d
                   /\ k.stuck <=> hist.stuck
                   /\ k.restored <=> hist.restored
                   /\ k.misled <=> m
                   /\ k.unsynced <=> hist.unsynced
        BY <1>0, <3>1 DEF Hists
      <3> QED BY <3>1, TextType
    <2>2. Outcome(w, h, u)
      BY <1>1 DEF Prompt
    <2> HIDE DEF h, u
    <2> QED BY <1>1, <2>1, <2>2, OutcomeHist DEF Writes
  <1>2. CASE w = "refused"
    <2>1. Outcome(w, Unsent(hist), u)
      BY <1>2 DEF Prompt
    <2> HIDE DEF u
    <2> QED BY <1>0, <1>2, <2>1, OutcomeHist, UnsentHist DEF Writes
  <1>3. CASE w \notin {"ok", "refused"}
    <2> DEFINE h == [Unsent(hist) EXCEPT !.stuck = TRUE]
    <2>1. /\ h \in Hists
          /\ h.fault <=> Unsent(hist).fault
          /\ h.dropped <=> Unsent(hist).dropped
          /\ h.stuck
          /\ h.restored <=> Unsent(hist).restored
          /\ h.misled <=> Unsent(hist).misled
          /\ h.unsynced <=> Unsent(hist).unsynced
      <3>1. ASSUME NEW k \in Hists, NEW g, g = [k EXCEPT !.stuck = TRUE]
            PROVE  /\ g \in Hists
                   /\ g.fault <=> k.fault
                   /\ g.dropped <=> k.dropped
                   /\ g.stuck
                   /\ g.restored <=> k.restored
                   /\ g.misled <=> k.misled
                   /\ g.unsynced <=> k.unsynced
        BY <3>1 DEF Hists
      <3> QED BY <1>0, <3>1, UnsentHist
    <2>2. Outcome(w, h, u)
      BY <1>3 DEF Prompt
    <2> HIDE DEF h, u
    <2> QED BY <1>0, <1>3, <2>1, <2>2, OutcomeHist, UnsentHist DEF Writes, Sends
  <1> QED BY <1>1, <1>2, <1>3

\* What a prompt from the queue records.
LEMMA DispatchHist ==
    ASSUME PlanTypeOK, NEW w \in Sends, NEW s, NEW h \in Hists, NEW u,
           s.queued, Dispatch(s, h, u, w)
    PROVE  /\ hist'.fault <=> h.fault \/ w \notin {"ok", "refused"}
           /\ hist'.dropped <=> \/ h.dropped
                                \/ w = "refused" /\ Discarded
                                \/ w # "refused" /\ (Unrecorded(w) \/ Astray)
           /\ hist'.stuck <=> h.stuck
           /\ hist'.restored <=> h.restored
           /\ hist'.misled <=> IF w = "refused" THEN h.misled ELSE Misled
           /\ hist'.unsynced <=> h.unsynced
  <1>1. CASE w = "refused"
    <2>1. Outcome(w, Unsent(h), u)
      BY <1>1 DEF Dispatch
    <2> QED BY <1>1, <2>1, OutcomeHist, UnsentHist DEF Writes
  <1>2. CASE w # "refused"
    <2> DEFINE g == [h EXCEPT !.misled = Misled,
                              !.dropped = @ \/ Unrecorded(w) \/ Astray]
    <2>1. /\ g \in Hists
          /\ g.fault <=> h.fault
          /\ g.dropped <=> h.dropped \/ Unrecorded(w) \/ Astray
          /\ g.stuck <=> h.stuck
          /\ g.restored <=> h.restored
          /\ g.misled <=> Misled
          /\ g.unsynced <=> h.unsynced
      <3>1. ASSUME NEW m \in BOOLEAN, NEW d \in BOOLEAN, NEW e \in BOOLEAN,
                   NEW k, k = [h EXCEPT !.misled = m, !.dropped = @ \/ d \/ e]
            PROVE  /\ k \in Hists
                   /\ k.fault <=> h.fault
                   /\ k.dropped <=> h.dropped \/ d \/ e
                   /\ k.stuck <=> h.stuck
                   /\ k.restored <=> h.restored
                   /\ k.misled <=> m
                   /\ k.unsynced <=> h.unsynced
        BY <3>1 DEF Hists
      <3> QED BY <3>1, TextType
    <2>2. Outcome(w, g, u)
      BY <1>2 DEF Dispatch
    <2> HIDE DEF g
    <2> QED BY <1>2, <2>1, <2>2, OutcomeHist DEF Writes, Sends
  <1> QED BY <1>1, <1>2

-----------------------------------------------------------------------------
(* Busy for a reason.                                                      *)

\* The flag of a running turn alone never rests on the settle handler.
RunningForAReason == sched.running => pi.busy \/ pi.settled > 0 \/ hist.stuck

BusyInv == RunningForAReason /\ BusyForAReason

\* Steps that leave the scheduler and Pi alone keep the reasons.
LEMMA QuietBusy ==
    ASSUME PlanTypeOK, BusyInv, sched'.running <=> sched.running,
           sched'.active <=> sched.active, pi' = pi,
           hist'.stuck <=> hist.stuck,
           consumer = "settling" => consumer' = "settling"
    PROVE  BusyInv'
  BY DEF BusyInv, RunningForAReason, BusyForAReason, Busy

\* Sending the next row leaves the scheduler idle or Pi working.
LEMMA DispatchBusy ==
    ASSUME PlanTypeOK, NEW w \in Sends, NEW s \in Scheds, NEW h \in Hists,
           NEW u, Dispatch(s, h, u, w), ~s.running, ~s.active
    PROVE  BusyInv'
  <1>1. CASE ~s.queued
    <2>1. sched' = s
      BY <1>1 DEF Dispatch
    <2> QED BY <2>1 DEF BusyInv, RunningForAReason, BusyForAReason, Busy
  <1>2. CASE s.queued /\ w = "refused"
    <2>1. sched' = [s EXCEPT !.queued = FALSE]
      BY <1>2 DEF Dispatch
    <2>2. ~sched'.running /\ ~sched'.active
      BY <2>1 DEF Scheds
    <2> QED BY <2>2 DEF BusyInv, RunningForAReason, BusyForAReason, Busy
  <1>3. CASE s.queued /\ w # "refused"
    <2>1. pi' = [pi EXCEPT !.busy = TRUE]
      BY <1>3 DEF Dispatch
    <2>2. pi'.busy
      BY <2>1 DEF PlanTypeOK
    <2> QED BY <2>2 DEF BusyInv, RunningForAReason, BusyForAReason, Busy
  <1> QED BY <1>1, <1>2, <1>3

\* Every step of plan mode keeps BusyInv.
LEMMA BusyNext ==
    ASSUME PlanTypeOK, BusyInv, PlanNext
    PROVE  BusyInv'
  <1>0. hist \in Hists /\ sched \in Scheds /\ pi \in Pis
    BY DEF PlanTypeOK, Hists, Scheds, Pis
  <1>1. ASSUME NEW w \in Writes, EnterPlan(w) \/ LeavePlan(w)
        PROVE  BusyInv'
    <2>1. UNCHANGED <<sched, pi, consumer>>
      BY <1>1 DEF EnterPlan, LeavePlan, SetMode
    <2> QED BY <1>1, <2>1, QuietHist, EnterHist, QuietBusy
  <1>2. ASSUME NEW w \in Writes, PromptQueued(w) PROVE BusyInv'
    <2>1. /\ sched'.running <=> sched.running
          /\ sched'.active <=> sched.active
      BY <1>0, <1>2 DEF PromptQueued, Scheds
    <2>2. UNCHANGED <<pi, consumer>>
      BY <1>2 DEF PromptQueued
    <2> QED BY <1>2, <2>1, <2>2, QuietHist, QuietBusy
  <1>3. ASSUME NEW w \in Writes, Settle(w) PROVE BusyInv'
    <2>1. /\ ~sched'.running
          /\ sched'.active <=> sched.active
      BY <1>0, <1>3 DEF Settle, Scheds
    <2>2. CASE tracker.state = "ExitPending" /\ w # "ok"
      <3> DEFINE h == [hist EXCEPT !.stuck = @ \/ (w # "ok" /\ sched.active)]
      <3>1. Outcome(w, h, used)
        BY <1>3, <2>2 DEF Settle
      <3>2. h \in Hists /\ (sched.active => h.stuck)
        BY <1>0, <2>2 DEF Hists
      <3>3. sched.active => hist'.stuck
        <4> HIDE DEF h
        <4> QED BY <3>1, <3>2, OutcomeHist
      <3> QED BY <2>1, <3>3
              DEF BusyInv, RunningForAReason, BusyForAReason, Busy
    <2>3. CASE ~(tracker.state = "ExitPending" /\ w # "ok")
      <3>1. consumer' = "settling"
        BY <1>3, <2>3 DEF Settle, PlanTypeOK
      <3> QED BY <2>1, <3>1
              DEF BusyInv, RunningForAReason, BusyForAReason, Busy
    <2> QED BY <2>2, <2>3
  <1>4. ASSUME NEW w \in Writes,
               AskApproval(w) \/ Approved(w) \/ LoadEnds(w) \/ NewCancelled(w)
        PROVE  BusyInv'
    <2>1. UNCHANGED <<sched, pi>>
      BY <1>4 DEF AskApproval, Approved, LoadEnds, NewCancelled
    <2>2. consumer = "settling" => consumer' = "settling"
      BY <1>4 DEF AskApproval, Approved, LoadEnds, NewCancelled
    <2> QED BY <1>4, <2>1, <2>2, QuietHist, ApprovedHist, EndsHist, QuietBusy
  <1>5. ASSUME NEW w \in Sends, Prompt(w) PROVE BusyInv'
    <2>1. CASE w = "ok"
      <3>1. pi'.busy
        BY <1>0, <1>5, <2>1 DEF Prompt, Pis
      <3> QED BY <3>1 DEF BusyInv, RunningForAReason, BusyForAReason, Busy
    <2>2. CASE w = "refused"
      <3>1. UNCHANGED <<sched, pi, consumer>>
        BY <1>5, <2>2 DEF Prompt
      <3> QED BY <1>5, <2>2, <3>1, PromptHist, QuietBusy
    <2>3. CASE w \notin {"ok", "refused"}
      <3>1. hist'.stuck
        BY <1>5, <2>3, PromptHist
      <3> QED BY <3>1 DEF BusyInv, RunningForAReason, BusyForAReason, Busy
    <2> QED BY <2>1, <2>2, <2>3
  <1>6. ASSUME NEW w \in Sends, SettleFinishes(w) PROVE BusyInv'
    <2> DEFINE s == [sched EXCEPT !.active = FALSE]
               h == [hist EXCEPT !.stuck = @ /\ sched.running]
    <2>1. /\ s \in Scheds /\ ~s.active /\ (s.running <=> sched.running)
          /\ h \in Hists /\ (h.stuck <=> hist.stuck /\ sched.running)
      BY <1>0 DEF Scheds, Hists
    <2>2. CASE sched.running
      <3>1. sched' = s /\ hist' = h /\ pi' = pi
        BY <1>6, <2>1, <2>2 DEF SettleFinishes
      <3> HIDE DEF s, h
      <3> QED BY <2>1, <2>2, <3>1
              DEF BusyInv, RunningForAReason, BusyForAReason, Busy
    <2>3. CASE ~sched.running
      <3>1. Dispatch(s, h, used, w)
        BY <1>6, <2>1, <2>3 DEF SettleFinishes
      <3> HIDE DEF s, h
      <3> QED BY <2>1, <2>3, <3>1, DispatchBusy
    <2> QED BY <2>2, <2>3
  <1>7. ASSUME NEW w \in Sends, PollFindsIdle(w) PROVE BusyInv'
    <2> DEFINE s == [sched EXCEPT !.running = FALSE, !.active = FALSE]
               h == [hist EXCEPT !.stuck = FALSE]
               u == [used EXCEPT !.lost = @ + 1]
    <2>1. s \in Scheds /\ ~s.running /\ ~s.active /\ h \in Hists
      BY <1>0 DEF Scheds, Hists
    <2>2. Dispatch(s, h, u, w)
      BY <1>7 DEF PollFindsIdle
    <2> HIDE DEF s, h, u
    <2> QED BY <2>1, <2>2, DispatchBusy
  <1>8. CASE PiTurn
    <2>1. pi'.busy
      BY <1>0, <1>8 DEF PiTurn, Pis
    <2> QED BY <2>1 DEF BusyInv, RunningForAReason, BusyForAReason, Busy
  <1>9. CASE TurnEnds
    <2>1. pi'.settled > 0
      BY <1>0, <1>9 DEF TurnEnds, Pis
    <2> QED BY <2>1 DEF BusyInv, RunningForAReason, BusyForAReason, Busy
  <1>10. CASE Restart \/ \E s \in Sessions : PiExits(s)
    <2>1. ~sched'.running /\ ~sched'.active
      BY <1>10 DEF PiExits, Restart
    <2> QED BY <2>1 DEF BusyInv, RunningForAReason, BusyForAReason, Busy
  <1>11. ASSUME NEW answered \in BOOLEAN, Rejected(answered) PROVE BusyInv'
    BY <1>11, QuietBusy DEF Rejected
  <1>12. ASSUME NEW s \in Sessions, NEW op, PiSwitches(op, s) PROVE BusyInv'
    <2>1. UNCHANGED <<sched, consumer>> /\ (hist'.stuck <=> hist.stuck)
      BY <1>12, SwitchHist DEF PiSwitches
    <2>2. pi.busy \/ pi.settled > 0 => pi'.settled > 0
      BY <1>0, <1>12 DEF PiSwitches, Pis
    <2> QED BY <2>1, <2>2
            DEF BusyInv, RunningForAReason, BusyForAReason, Busy
  <1>13. ASSUME NEW s, Exchanges(s), ~Restart PROVE BusyInv'
    <2>1. (hist'.stuck <=> hist.stuck) /\ UNCHANGED <<pi, consumer>>
      BY <1>13, ExchangeHist
         DEF Exchanges, LoadSwitched, LoadCurrent, BranchSwitched
    <2>2. \/ UNCHANGED sched
          \/ ~sched'.running /\ (sched'.active <=> sched.active)
      BY <1>0, <1>13 DEF Exchanges, LoadSwitched, LoadCurrent, BranchSwitched,
                         Rebind, Scheds
    <2> QED BY <2>1, <2>2
            DEF BusyInv, RunningForAReason, BusyForAReason, Busy
  <1>14. CASE NewSwitched \/ NewTracker \/ \E replaced \in BOOLEAN : LoadFails(replaced)
    <2>1. (hist'.stuck <=> hist.stuck) /\ UNCHANGED <<pi, consumer>>
      BY <1>0, <1>14 DEF NewSwitched, NewTracker, LoadFails, Hists
    <2>2. \/ UNCHANGED sched
          \/ ~sched'.running /\ (sched'.active <=> sched.active)
      BY <1>0, <1>14 DEF NewSwitched, NewTracker, LoadFails, Rebind, Scheds
    <2> QED BY <2>1, <2>2
            DEF BusyInv, RunningForAReason, BusyForAReason, Busy
  <1> QED BY <1>1, <1>2, <1>3, <1>4, <1>5, <1>6, <1>7, <1>8, <1>9, <1>10,
             <1>11, <1>12, <1>13, <1>14, ExchangesNext DEF PlanNext

\* The adapter is busy only while Pi works, a settle event is on its way or
\* being handled, or a failed write has left a prompt behind: no interleaving
\* of prompts, settle events, polls and session changes makes it busy for ever.
THEOREM PlanBusyForAReason == PlanSpec => []BusyForAReason
  <1>1. PlanInit => BusyInv
    BY DEF PlanInit, BusyInv, RunningForAReason, BusyForAReason, Busy
  <1>2. PlanTypeOK /\ BusyInv /\ [PlanNext]_vars => BusyInv'
    <2> SUFFICES ASSUME PlanTypeOK, BusyInv, [PlanNext]_vars PROVE BusyInv'
      OBVIOUS
    <2>1. CASE UNCHANGED vars
      BY <2>1 DEF vars, BusyInv, RunningForAReason, BusyForAReason, Busy
    <2> QED BY <2>1, BusyNext
  <1>3. BusyInv => BusyForAReason
    BY DEF BusyInv
  <1> QED BY <1>1, <1>2, <1>3, PlanTypeCorrect, PTL DEF PlanSpec

-----------------------------------------------------------------------------
(* The dialogue's flag.                                                    *)

\* The flag is set in Active only.
AwaitsInPlan(t) == t.awaiting => t.state = "Active"

AwaitInv ==
    /\ AwaitsInPlan(tracker)
    /\ \A s \in Sessions : AwaitsInPlan(file[s])
    /\ AwaitingIsCleared

\* Every operation of the tracker keeps the flag inside Active.
LEMMA TrackerAwaits ==
    ASSUME NEW t \in Trackers, AwaitsInPlan(t)
    PROVE  /\ AwaitsInPlan(EnterPending(t))
           /\ EnterPending(t).awaiting => t.awaiting
           /\ \A b \in BOOLEAN : ~UserExit(t, b).awaiting
           /\ AwaitsInPlan(CompleteDeferredExit(t))
           /\ CompleteDeferredExit(t).awaiting <=> t.awaiting
           /\ ~DeactivateApproved(t).awaiting
           /\ AwaitsInPlan(FromSnapshot(t))
           /\ FromSnapshot(t).awaiting <=> t.awaiting
           /\ AwaitsInPlan(Reminded(t))
           /\ Reminded(t).awaiting <=> t.awaiting
  <1>1. AwaitsInPlan(EnterPending(t)) /\ (EnterPending(t).awaiting => t.awaiting)
    BY DEF AwaitsInPlan, Trackers, States, EnterPending
  <1>2. \A b \in BOOLEAN : ~UserExit(t, b).awaiting
    BY DEF Trackers, States, UserExit
  <1>3. /\ AwaitsInPlan(CompleteDeferredExit(t))
        /\ CompleteDeferredExit(t).awaiting <=> t.awaiting
    BY DEF AwaitsInPlan, Trackers, States, CompleteDeferredExit
  <1>4. ~DeactivateApproved(t).awaiting
    BY DEF AwaitsInPlan, Trackers, States, DeactivateApproved
  <1>5. AwaitsInPlan(FromSnapshot(t)) /\ (FromSnapshot(t).awaiting <=> t.awaiting)
    BY DEF AwaitsInPlan, Trackers, States, FromSnapshot
  <1>6. AwaitsInPlan(Reminded(t)) /\ (Reminded(t).awaiting <=> t.awaiting)
    BY DEF AwaitsInPlan, Trackers, States, Reminded
  <1> QED BY <1>1, <1>2, <1>3, <1>4, <1>5, <1>6

\* A step that writes at most the new tracker into the session's file, opens
\* no dialogue's flag and ends no dialogue.
LEMMA QuietAwait ==
    ASSUME PlanTypeOK, AwaitInv, AwaitsInPlan(tracker)',
           file' = file \/ file' = [file EXCEPT ![cur] = tracker'],
           \/ ~tracker'.awaiting
           \/ /\ tracker.awaiting /\ (hist'.restored <=> hist.restored)
              /\ consumer = "approval" => consumer' = "approval"
    PROVE  AwaitInv'
  <1>1. \A s \in Sessions : AwaitsInPlan(file'[s])
    BY DEF AwaitInv, AwaitsInPlan, PlanTypeOK
  <1>2. AwaitingIsCleared'
    BY DEF AwaitInv, AwaitingIsCleared, AwaitingIsOutstanding
  <1> QED BY <1>1, <1>2 DEF AwaitInv, AwaitsInPlan

\* Sending the next row keeps AwaitInv.
LEMMA DispatchAwait ==
    ASSUME PlanTypeOK, AwaitInv, NEW w \in Sends, NEW s \in Scheds,
           NEW h \in Hists, NEW u, Dispatch(s, h, u, w),
           h.restored <=> hist.restored,
           consumer = "approval" => consumer' = "approval"
    PROVE  AwaitInv'
  <1>0. tracker \in Trackers /\ AwaitsInPlan(tracker)
    BY DEF PlanTypeOK, AwaitInv
  <1>1. CASE s.queued
    <2>1. /\ tracker' = Reminded(tracker)
          /\ file' = file \/ file' = [file EXCEPT ![cur] = tracker']
      BY <1>1 DEF Dispatch, Persist
    <2>2. AwaitsInPlan(tracker)' /\ (tracker'.awaiting <=> tracker.awaiting)
      BY <1>0, <2>1, TrackerAwaits DEF AwaitsInPlan
    <2>3. hist'.restored <=> hist.restored
      BY <1>1, DispatchHist
    <2> QED BY <2>1, <2>2, <2>3, QuietAwait
  <1>2. CASE ~s.queued
    <2>1. tracker' = tracker /\ file' = file /\ hist' = h
      BY <1>2 DEF Dispatch
    <2>2. AwaitsInPlan(tracker)'
      BY <1>0, <2>1 DEF AwaitsInPlan
    <2> QED BY <2>1, <2>2, QuietAwait
  <1> QED BY <1>1, <1>2

\* Every step of plan mode keeps AwaitInv.
LEMMA AwaitNext ==
    ASSUME PlanTypeOK, AwaitInv, PlanNext
    PROVE  AwaitInv'
  <1>0. /\ hist \in Hists /\ tracker \in Trackers /\ AwaitsInPlan(tracker)
        /\ \A s \in Sessions : file[s] \in Trackers /\ AwaitsInPlan(file[s])
        /\ cur \in Sessions /\ sched \in Scheds
    BY DEF PlanTypeOK, AwaitInv, Hists, Scheds
  <1>1. ASSUME NEW w \in Writes, EnterPlan(w) PROVE AwaitInv'
    <2>1. /\ tracker' = EnterPending(tracker) /\ UNCHANGED consumer
          /\ file' = file \/ file' = [file EXCEPT ![cur] = tracker']
      BY <1>1 DEF EnterPlan, SetMode, Persist
    <2>2. AwaitsInPlan(tracker)' /\ (tracker'.awaiting => tracker.awaiting)
      BY <1>0, <2>1, TrackerAwaits DEF AwaitsInPlan
    <2> QED BY <1>1, <2>1, <2>2, EnterHist, QuietAwait
  <1>2. ASSUME NEW w \in Writes, LeavePlan(w) PROVE AwaitInv'
    <2>1. /\ tracker' = IF tracker.state = "Inactive" THEN tracker
                        ELSE UserExit(tracker, sched.active)
          /\ UNCHANGED consumer
          /\ file' = file \/ file' = [file EXCEPT ![cur] = tracker']
      BY <1>2 DEF LeavePlan, SetMode, Persist
    <2>2. sched.active \in BOOLEAN
      BY <1>0 DEF Scheds
    <2>3. AwaitsInPlan(tracker)' /\ (tracker'.awaiting => tracker.awaiting)
      BY <1>0, <2>1, <2>2, TrackerAwaits DEF AwaitsInPlan
    <2> QED BY <1>2, <2>1, <2>3, QuietHist, QuietAwait
  <1>3. ASSUME NEW w \in Writes, PromptQueued(w) \/ LoadEnds(w) PROVE AwaitInv'
    <2>1. /\ UNCHANGED <<tracker, consumer>>
          /\ file' = file \/ file' = [file EXCEPT ![cur] = tracker']
      BY <1>3 DEF PromptQueued, LoadEnds, Persist
    <2>2. AwaitsInPlan(tracker)'
      BY <1>0, <2>1 DEF AwaitsInPlan
    <2> QED BY <1>3, <2>1, <2>2, QuietHist, EndsHist, QuietAwait
  <1>4. ASSUME NEW w \in Writes, Settle(w) PROVE AwaitInv'
    <2>1. /\ tracker' = CompleteDeferredExit(tracker) /\ consumer = "free"
          /\ file' = file \/ file' = [file EXCEPT ![cur] = tracker']
      BY <1>4 DEF Settle, Persist
    <2>2. AwaitsInPlan(tracker)' /\ (tracker'.awaiting => tracker.awaiting)
      BY <1>0, <2>1, TrackerAwaits DEF AwaitsInPlan
    <2>3. hist'.restored <=> hist.restored
      <3> DEFINE h == [hist EXCEPT !.stuck = @ \/ (w # "ok" /\ sched.active)]
      <3>1. hist' = hist \/ Outcome(w, h, used)
        BY <1>4 DEF Settle
      <3>2. h \in Hists /\ (h.restored <=> hist.restored)
        BY <1>0 DEF Hists
      <3> HIDE DEF h
      <3> QED BY <3>1, <3>2, OutcomeHist
    <2> QED BY <2>1, <2>2, <2>3, QuietAwait
  <1>5. ASSUME NEW w \in Writes, AskApproval(w) PROVE AwaitInv'
    <2> DEFINE asking == [tracker EXCEPT !.awaiting = TRUE]
    <2>1. /\ \/ tracker' = tracker
             \/ tracker' = asking /\ consumer' = "approval"
          /\ file' = file \/ file' = [file EXCEPT ![cur] = asking]
          /\ tracker.state = "Active" /\ ~tracker.awaiting
      <3>1. /\ tracker.state = "Active" /\ ~tracker.awaiting
            /\ Persist(w, asking)
        BY <1>5 DEF AskApproval
      <3>2. CASE w = "ok"
        <4>1. tracker' = asking /\ consumer' = "approval"
          BY <1>5, <3>2 DEF AskApproval
        <4> QED BY <3>1, <4>1 DEF Persist
      <3>3. CASE w # "ok"
        <4>1. tracker' = tracker
          BY <1>5, <3>3 DEF AskApproval
        <4> QED BY <3>1, <4>1 DEF Persist
      <3> QED BY <3>2, <3>3
    <2>2. AwaitsInPlan(asking) /\ AwaitsInPlan(tracker)'
      BY <1>0, <2>1 DEF AwaitsInPlan, Trackers
    <2> HIDE DEF asking
    <2>3. \A s \in Sessions : AwaitsInPlan(file'[s])
      BY <1>0, <2>1, <2>2 DEF AwaitsInPlan, PlanTypeOK
    <2>4. AwaitingIsCleared'
      BY <2>1 DEF AwaitingIsCleared, AwaitingIsOutstanding
    <2> QED BY <2>2, <2>3, <2>4 DEF AwaitInv, AwaitsInPlan
  <1>6. ASSUME NEW w \in Writes, Approved(w) PROVE AwaitInv'
    <2>1. /\ tracker' = DeactivateApproved(tracker)
          /\ file' = file \/ file' = [file EXCEPT ![cur] = tracker']
      BY <1>6 DEF Approved, Persist
    <2>2. ~tracker'.awaiting
      BY <1>0, <2>1, TrackerAwaits
    <2> QED BY <2>1, <2>2, QuietAwait DEF AwaitsInPlan
  <1>7. ASSUME NEW answered \in BOOLEAN, Rejected(answered) PROVE AwaitInv'
    <2>1. /\ ~tracker'.awaiting
          /\ file' = file \/ file' = [file EXCEPT ![cur] = tracker']
      BY <1>0, <1>7 DEF Rejected, Trackers
    <2> QED BY <2>1, QuietAwait DEF AwaitsInPlan
  <1>8. ASSUME NEW w \in Sends, Prompt(w) PROVE AwaitInv'
    <2>1. /\ tracker' = Reminded(tracker) /\ UNCHANGED consumer
          /\ file' = file \/ file' = [file EXCEPT ![cur] = tracker']
      BY <1>8 DEF Prompt, Persist
    <2>2. AwaitsInPlan(tracker)' /\ (tracker'.awaiting <=> tracker.awaiting)
      BY <1>0, <2>1, TrackerAwaits DEF AwaitsInPlan
    <2> QED BY <1>8, <2>1, <2>2, PromptHist, QuietAwait
  <1>9. ASSUME NEW w \in Sends, SettleFinishes(w) PROVE AwaitInv'
    <2> DEFINE s == [sched EXCEPT !.active = FALSE]
               h == [hist EXCEPT !.stuck = @ /\ sched.running]
    <2>1. /\ s \in Scheds /\ (s.running <=> sched.running)
          /\ h \in Hists /\ (h.restored <=> hist.restored)
      BY <1>0 DEF Scheds, Hists
    <2>2. consumer # "approval"
      BY <1>9 DEF SettleFinishes
    <2>3. CASE sched.running
      <3>1. UNCHANGED <<tracker, file>> /\ hist' = h
        BY <1>9, <2>1, <2>3 DEF SettleFinishes
      <3> HIDE DEF s, h
      <3>2. AwaitsInPlan(tracker)'
        BY <1>0, <3>1 DEF AwaitsInPlan
      <3> QED BY <2>1, <2>2, <3>1, <3>2, QuietAwait
    <2>4. CASE ~sched.running
      <3>1. Dispatch(s, h, used, w)
        BY <1>9, <2>1, <2>4 DEF SettleFinishes
      <3> HIDE DEF s, h
      <3> QED BY <2>1, <2>2, <3>1, DispatchAwait
    <2> QED BY <2>3, <2>4
  <1>10. ASSUME NEW w \in Sends, PollFindsIdle(w) PROVE AwaitInv'
    <2> DEFINE s == [sched EXCEPT !.running = FALSE, !.active = FALSE]
               h == [hist EXCEPT !.stuck = FALSE]
               u == [used EXCEPT !.lost = @ + 1]
    <2>1. s \in Scheds /\ h \in Hists /\ (h.restored <=> hist.restored)
      BY <1>0 DEF Scheds, Hists
    <2>2. Dispatch(s, h, u, w) /\ UNCHANGED consumer
      BY <1>10 DEF PollFindsIdle
    <2> HIDE DEF s, h, u
    <2> QED BY <2>1, <2>2, DispatchAwait
  <1>11. CASE \/ PiTurn \/ TurnEnds \/ NewSwitched
              \/ \E s \in Sessions : PiExits(s)
              \/ \E s \in Sessions, op \in {"load", "new", "branch"} :
                     PiSwitches(op, s)
              \/ \E replaced \in BOOLEAN : LoadFails(replaced)
    <2>1. UNCHANGED <<tracker, file, consumer>>
      BY <1>11 DEF PiTurn, TurnEnds, NewSwitched, PiExits, PiSwitches, LoadFails
    <2>2. hist'.restored <=> hist.restored
      BY <1>0, <1>11, SwitchHist
         DEF PiTurn, TurnEnds, NewSwitched, PiExits, LoadFails, Hists
    <2>3. AwaitsInPlan(tracker)'
      BY <1>0, <2>1 DEF AwaitsInPlan
    <2> QED BY <2>1, <2>2, <2>3, QuietAwait
  <1>12. ASSUME NEW s, Exchanges(s) PROVE AwaitInv'
    <2>1. /\ s \in Sessions
          /\ tracker' = FromSnapshot(file[s]) /\ file' = file
          /\ file[s].awaiting => hist'.restored
      BY <1>12, ExchangeHist
    <2>2. AwaitsInPlan(tracker)' /\ (tracker'.awaiting <=> file[s].awaiting)
      BY <1>0, <2>1, TrackerAwaits DEF AwaitsInPlan
    <2>3. AwaitingIsCleared'
      BY <2>1, <2>2 DEF AwaitingIsCleared, AwaitingIsOutstanding
    <2> QED BY <1>0, <2>1, <2>2, <2>3 DEF AwaitInv, AwaitsInPlan
  <1>13. CASE NewTracker \/ \E w \in Writes : NewCancelled(w)
    <2>1. /\ ~tracker'.awaiting
          /\ \A s \in Sessions : file'[s] = file[s] \/ ~file'[s].awaiting
      <3>1. tracker' = Fresh
        BY <1>13 DEF NewTracker, NewCancelled
      <3>2. file' = file \/ file' = [file EXCEPT ![bound] = Fresh]
        BY <1>13 DEF NewTracker, NewCancelled
      <3> QED BY <1>0, <3>1, <3>2 DEF Fresh, PlanTypeOK
    <2>2. \A s \in Sessions : AwaitsInPlan(file'[s])
      BY <1>0, <2>1 DEF AwaitsInPlan
    <2>3. AwaitsInPlan(tracker') /\ AwaitingIsCleared'
      BY <2>1 DEF AwaitsInPlan, AwaitingIsCleared, AwaitingIsOutstanding
    <2> QED BY <2>2, <2>3 DEF AwaitInv, AwaitsInPlan
  <1>14. LoadSwitched \/ BranchSwitched \/ LoadCurrent \/ Restart => AwaitInv'
    BY <1>12, ExchangesNext
  <1> QED BY <1>1, <1>2, <1>3, <1>4, <1>5, <1>6, <1>7, <1>8, <1>9,
             <1>10, <1>11, <1>13, <1>14 DEF PlanNext

\* A flag that was not restored from a snapshot is cleared by the dialogue
\* that set it (request_plan_approval), whatever interleaves with it.
THEOREM PlanAwaitingIsCleared == PlanSpec => []AwaitingIsCleared
  <1>1. PlanInit => AwaitInv
    BY DEF PlanInit, Fresh, AwaitInv, AwaitsInPlan, AwaitingIsCleared,
           AwaitingIsOutstanding
  <1>2. PlanTypeOK /\ AwaitInv /\ [PlanNext]_vars => AwaitInv'
    <2> SUFFICES ASSUME PlanTypeOK, AwaitInv, [PlanNext]_vars PROVE AwaitInv'
      OBVIOUS
    <2>1. CASE UNCHANGED vars
      BY <2>1 DEF vars, AwaitInv, AwaitsInPlan, AwaitingIsCleared,
                  AwaitingIsOutstanding
    <2> QED BY <2>1, AwaitNext
  <1>3. AwaitInv => AwaitingIsCleared
    BY DEF AwaitInv
  <1> QED BY <1>1, <1>2, <1>3, PlanTypeCorrect, PTL DEF PlanSpec

-----------------------------------------------------------------------------
(* What is published.                                                      *)

\* What PublishedState says of a clean state.
Published == /\ gate = [active |-> tracker.state = "Active", session |-> cur]
             /\ shown = ModeOf(tracker)

\* How the operations of the tracker change what the pager is to show.
LEMMA TrackerModes ==
    ASSUME NEW t \in Trackers
    PROVE  /\ EnterPending(t) # t => ModeOf(EnterPending(t)) = "plan"
           /\ \A b \in BOOLEAN : t.state # "Inactive" =>
                  ModeOf(UserExit(t, b)) = "default"
           /\ ModeOf(CompleteDeferredExit(t)) = ModeOf(t)
           /\ t.state = "ExitPending" => ModeOf(t) = "default"
           /\ t.state # "ExitPending" => CompleteDeferredExit(t) = t
           /\ t.state = "Active" => ModeOf(DeactivateApproved(t)) = "default"
           /\ t.state # "Active" => DeactivateApproved(t) = t
           /\ ModeOf(Reminded(t)) = ModeOf(t)
  <1>1. EnterPending(t) # t => ModeOf(EnterPending(t)) = "plan"
    BY DEF Trackers, States, EnterPending, ModeOf
  <1>2. \A b \in BOOLEAN : t.state # "Inactive" =>
            ModeOf(UserExit(t, b)) = "default"
    BY DEF Trackers, States, UserExit, ModeOf
  <1>3. /\ ModeOf(CompleteDeferredExit(t)) = ModeOf(t)
        /\ t.state = "ExitPending" => ModeOf(t) = "default"
        /\ t.state # "ExitPending" => CompleteDeferredExit(t) = t
    BY DEF Trackers, States, CompleteDeferredExit, ModeOf
  <1>4. /\ t.state = "Active" => ModeOf(DeactivateApproved(t)) = "default"
        /\ t.state # "Active" => DeactivateApproved(t) = t
    BY DEF Trackers, States, DeactivateApproved, ModeOf
  <1>5. ModeOf(Reminded(t)) = ModeOf(t)
    BY DEF Trackers, States, Reminded, ModeOf
  <1> QED BY <1>1, <1>2, <1>3, <1>4, <1>5

\* Sending the next row publishes the tracker.
LEMMA DispatchPublished ==
    ASSUME PlanTypeOK, Published, NEW w \in Sends, NEW s, NEW h \in Hists,
           NEW u, Dispatch(s, h, u, w), UNCHANGED <<cur, shown>>,
           ~hist'.fault
    PROVE  Published'
  <1>1. CASE s.queued
    <2>1. w \in {"ok", "refused"}
      BY <1>1, DispatchHist
    <2>2. /\ tracker' = Reminded(tracker)
          /\ gate' = [active |-> tracker'.state = "Active", session |-> cur]
      BY <1>1, <2>1 DEF Dispatch, SyncAlways
    <2>3. ModeOf(tracker') = ModeOf(tracker)
      BY <2>2, TrackerModes DEF PlanTypeOK
    <2> QED BY <2>2, <2>3 DEF Published, ModeOf
  <1>2. CASE ~s.queued
    BY <1>2 DEF Dispatch, Published, ModeOf
  <1> QED BY <1>1, <1>2

\* Every step of plan mode keeps PublishedState.
LEMMA PublishedNext ==
    ASSUME PlanTypeOK, PublishedState, PlanNext
    PROVE  PublishedState'
  <1> SUFFICES ASSUME Clean', ~hist'.unsynced PROVE Published'
    BY DEF PublishedState, Published
  <1>0. /\ load'.op = "none" /\ ~hist'.fault /\ hist \in Hists
        /\ tracker \in Trackers /\ sched \in Scheds /\ load \in Loads
    BY DEF Clean, PlanTypeOK, Hists, Scheds, Loads
  <1>p. load.op = "none" /\ ~hist.fault /\ ~hist.unsynced => Published
    BY DEF PublishedState, Published, Clean
  <1>1. ASSUME NEW w \in Writes, EnterPlan(w) PROVE Published'
    <2>1. w = "ok" /\ Published
      BY <1>0, <1>1, <1>p, EnterHist DEF EnterPlan, SetMode
    <2>2. /\ tracker' = EnterPending(tracker) /\ cur' = cur
          /\ \/ UNCHANGED <<tracker, gate, shown>>
             \/ /\ shown' = "plan" /\ tracker' # tracker
                /\ gate' = [active |-> tracker'.state = "Active", session |-> cur]
      BY <1>1, <2>1 DEF EnterPlan, SetMode, Sync
    <2> QED BY <1>0, <2>1, <2>2, TrackerModes DEF Published, ModeOf
  <1>2. ASSUME NEW w \in Writes, LeavePlan(w) PROVE Published'
    <2>1. w = "ok" /\ Published
      BY <1>0, <1>2, <1>p, QuietHist DEF LeavePlan, SetMode
    <2>2. sched.active \in BOOLEAN
      BY <1>0 DEF Scheds
    <2>3. CASE tracker.state = "Inactive"
      <3>1. UNCHANGED <<tracker, cur, gate, shown>>
        BY <1>2, <2>3 DEF LeavePlan, SetMode
      <3> QED BY <2>1, <3>1 DEF Published, ModeOf
    <2>4. CASE tracker.state # "Inactive"
      <3>1. /\ tracker' = UserExit(tracker, sched.active)
            /\ shown' = "default" /\ cur' = cur
            /\ gate' = [active |-> tracker'.state = "Active", session |-> cur]
        BY <1>2, <2>1, <2>4 DEF LeavePlan, SetMode, Sync
      <3>2. ModeOf(tracker') = "default"
        BY <1>0, <2>2, <2>4, <3>1, TrackerModes
      <3> QED BY <3>1, <3>2 DEF Published, ModeOf
    <2> QED BY <2>3, <2>4
  <1>3. ASSUME NEW w \in Writes, PromptQueued(w) PROVE Published'
    <2>1. w = "ok" /\ Published
      BY <1>0, <1>3, <1>p, QuietHist DEF PromptQueued
    <2> QED BY <1>3, <2>1 DEF PromptQueued, Sync, Published, ModeOf
  <1>4. ASSUME NEW w \in Writes, Settle(w) PROVE Published'
    <2>0. /\ ~hist.fault /\ ~hist.unsynced
          /\ tracker.state = "ExitPending" => w = "ok"
      <3> DEFINE h == [hist EXCEPT !.stuck = @ \/ (w # "ok" /\ sched.active)]
      <3>1. IF tracker.state = "ExitPending" THEN Outcome(w, h, used)
            ELSE hist' = hist
        BY <1>4 DEF Settle
      <3>2. /\ h \in Hists /\ (h.fault <=> hist.fault)
            /\ h.unsynced <=> hist.unsynced
        BY <1>0 DEF Hists
      <3> HIDE DEF h
      <3> QED BY <1>0, <3>1, <3>2, OutcomeHist
    <2>1. Published
      BY <1>0, <1>4, <1>p, <2>0 DEF Settle
    <2>2. CASE tracker.state = "ExitPending"
      <3>1. /\ tracker' = CompleteDeferredExit(tracker)
            /\ shown' = "default" /\ cur' = cur
            /\ gate' = [active |-> tracker'.state = "Active", session |-> cur]
        BY <1>4, <2>0, <2>2 DEF Settle, Sync
      <3>2. ModeOf(tracker') = "default"
        BY <1>0, <2>2, <3>1, TrackerModes
      <3> QED BY <3>1, <3>2 DEF Published, ModeOf
    <2>3. CASE tracker.state # "ExitPending"
      <3>1. UNCHANGED <<tracker, cur, gate, shown>>
        BY <1>0, <1>4, <2>3, TrackerModes DEF Settle
      <3> QED BY <2>1, <3>1 DEF Published, ModeOf
    <2> QED BY <2>2, <2>3
  <1>5. ASSUME NEW w \in Writes, AskApproval(w) PROVE Published'
    <2>1. w = "ok" /\ Published
      BY <1>0, <1>5, <1>p, QuietHist DEF AskApproval
    <2>2. /\ UNCHANGED <<cur, shown>> /\ tracker.state = "Active"
          /\ tracker' = [tracker EXCEPT !.awaiting = TRUE]
          /\ gate' = [active |-> tracker.state = "Active", session |-> cur]
      BY <1>5, <2>1 DEF AskApproval, Sync
    <2>3. tracker'.state = tracker.state
      BY <1>0, <2>2 DEF Trackers
    <2> QED BY <2>1, <2>2, <2>3 DEF Published, ModeOf
  <1>6. ASSUME NEW w \in Writes, Approved(w) PROVE Published'
    <2>1. w = "ok" /\ Published
      BY <1>0, <1>6, <1>p, ApprovedHist DEF Approved
    <2>2. /\ tracker' = DeactivateApproved(tracker) /\ cur' = cur
          /\ shown' = IF tracker.state = "Active" THEN "default" ELSE shown
          /\ gate' = [active |-> tracker'.state = "Active", session |-> cur]
      BY <1>6, <2>1 DEF Approved, SyncAlways
    <2>3. CASE tracker.state = "Active"
      BY <1>0, <2>2, <2>3, TrackerModes DEF Published
    <2>4. CASE tracker.state # "Active"
      BY <1>0, <2>1, <2>2, <2>4, TrackerModes DEF Published
    <2> QED BY <2>3, <2>4
  <1>7. ASSUME NEW answered \in BOOLEAN, Rejected(answered) PROVE Published'
    <2>1. /\ UNCHANGED <<cur, gate, shown, load, hist>>
          /\ tracker'.state = tracker.state
      BY <1>0, <1>7 DEF Rejected, Trackers
    <2> QED BY <1>0, <1>p, <2>1 DEF Published, ModeOf
  <1>8. ASSUME NEW w \in Sends, Prompt(w) PROVE Published'
    <2>1. w \in {"ok", "refused"} /\ Published
      BY <1>0, <1>8, <1>p, PromptHist DEF Prompt
    <2>2. /\ tracker' = Reminded(tracker) /\ UNCHANGED <<cur, shown>>
          /\ gate' = [active |-> tracker'.state = "Active", session |-> cur]
      BY <1>8, <2>1 DEF Prompt, Sync
    <2>3. ModeOf(tracker') = ModeOf(tracker)
      BY <1>0, <2>2, TrackerModes
    <2> QED BY <2>1, <2>2, <2>3 DEF Published
  <1>9. ASSUME NEW w \in Sends, SettleFinishes(w) PROVE Published'
    <2> DEFINE s == [sched EXCEPT !.active = FALSE]
               h == [hist EXCEPT !.stuck = @ /\ sched.running]
    <2>1. /\ h \in Hists /\ (h.fault <=> hist.fault)
          /\ h.unsynced <=> hist.unsynced
      BY <1>0 DEF Hists
    <2>2. UNCHANGED <<cur, shown, load>>
      BY <1>9 DEF SettleFinishes
    <2>3. CASE s.running
      <3>1. UNCHANGED <<tracker, gate>> /\ hist' = h
        BY <1>9, <2>3 DEF SettleFinishes
      <3> HIDE DEF s, h
      <3> QED BY <1>0, <1>p, <2>1, <2>2, <3>1 DEF Published, ModeOf
    <2>4. CASE ~s.running
      <3>1. Dispatch(s, h, used, w)
        BY <1>9, <2>4 DEF SettleFinishes
      <3> HIDE DEF s, h
      <3>2. Published
        BY <1>0, <1>p, <2>1, <2>2, <3>1, DispatchHist DEF Dispatch
      <3> QED BY <1>0, <2>1, <2>2, <3>1, <3>2, DispatchPublished
    <2> QED BY <2>3, <2>4
  <1>10. ASSUME NEW w \in Sends, PollFindsIdle(w) PROVE Published'
    <2> DEFINE s == [sched EXCEPT !.running = FALSE, !.active = FALSE]
               h == [hist EXCEPT !.stuck = FALSE]
               u == [used EXCEPT !.lost = @ + 1]
    <2>1. /\ h \in Hists /\ (h.fault <=> hist.fault)
          /\ h.unsynced <=> hist.unsynced
      BY <1>0 DEF Hists
    <2>2. Dispatch(s, h, u, w) /\ UNCHANGED <<cur, shown, load>>
      BY <1>10 DEF PollFindsIdle
    <2> HIDE DEF s, h, u
    <2>3. Published
      BY <1>0, <1>p, <2>1, <2>2, DispatchHist DEF Dispatch
    <2> QED BY <1>0, <2>1, <2>2, <2>3, DispatchPublished
  <1>11. CASE PiTurn \/ TurnEnds \/ \E s \in Sessions : PiExits(s)
    <2>1. UNCHANGED <<tracker, cur, gate, shown, load>>
      BY <1>11 DEF PiTurn, TurnEnds, PiExits
    <2>2. ~hist.fault /\ ~hist.unsynced
      BY <1>0, <1>11 DEF PiTurn, TurnEnds, PiExits, Hists
    <2> QED BY <1>0, <1>p, <2>1, <2>2 DEF Published, ModeOf
  <1>12. ASSUME NEW w \in Writes, LoadEnds(w) PROVE Published'
    <2>1. w = "ok"
      BY <1>0, <1>12, EndsHist
    <2> QED BY <1>12, <2>1 DEF LoadEnds, Sync, Published, ModeOf
  <1>13. ASSUME NEW w \in Writes, NewCancelled(w) PROVE Published'
    <2>1. w = "ok"
      BY <1>0, <1>13, EndsHist
    <2>2. /\ tracker' = Fresh /\ cur' = bound /\ shown' = "default"
          /\ gate' = [active |-> FALSE, session |-> bound]
      BY <1>13, <2>1 DEF NewCancelled
    <2>3. tracker'.state = "Inactive" /\ (tracker'.state = "Active") = FALSE
      BY <2>2 DEF Fresh
    <2> QED BY <2>2, <2>3 DEF Published, ModeOf
  <1>14. ~BranchSwitched
    <2> SUFFICES ASSUME BranchSwitched PROVE FALSE
      OBVIOUS
    <2>1. Exchanges(load.to)
      BY DEF Exchanges
    <2> QED BY <2>1, ExchangeHist
  <1>15. \A replaced \in BOOLEAN : ~LoadFails(replaced)
    BY <1>0 DEF LoadFails, Hists
  <1>16. ~LoadSwitched /\ ~LoadCurrent /\ ~NewSwitched /\ ~NewTracker /\ ~Restart
    BY <1>0 DEF LoadSwitched, LoadCurrent, NewSwitched, NewTracker, Restart, Loads
  <1>17. \A s \in Sessions, op \in {"load", "new", "branch"} : ~PiSwitches(op, s)
    BY <1>0 DEF PiSwitches
  <1> QED BY <1>1, <1>2, <1>3, <1>4, <1>5, <1>6, <1>7, <1>8, <1>9, <1>10,
             <1>11, <1>12, <1>13, <1>14, <1>15, <1>16, <1>17 DEF PlanNext

\* Without failing writes, the write gate in Pi and the mode on the screen
\* agree with the tracker in every state between two requests, unless a fork
\* or a clone (rebind_after_session_branch) has exchanged the tracker since the
\* last session was loaded or made.
THEOREM PlanPublishedState == PlanSpec => []PublishedState
  <1>1. PlanInit => PublishedState
    <2> SUFFICES ASSUME PlanInit PROVE PublishedState
      OBVIOUS
    <2>1. tracker.state = "Inactive"
      BY DEF PlanInit, Fresh
    <2>2. (tracker.state = "Active") = FALSE
      BY <2>1
    <2>3. gate = [active |-> tracker.state = "Active", session |-> cur]
      BY <2>2 DEF PlanInit
    <2> QED BY <2>1, <2>3 DEF PlanInit, PublishedState, ModeOf
  <1>2. PlanTypeOK /\ PublishedState /\ [PlanNext]_vars => PublishedState'
    <2> SUFFICES ASSUME PlanTypeOK, PublishedState, [PlanNext]_vars
                 PROVE  PublishedState'
      OBVIOUS
    <2>1. CASE UNCHANGED vars
      BY <2>1 DEF vars, PublishedState, Clean, ModeOf
    <2> QED BY <2>1, PublishedNext
  <1> QED BY <1>1, <1>2, PlanTypeCorrect, PTL DEF PlanSpec

-----------------------------------------------------------------------------
(* The session that new_session is about to open.                          *)

\* Until its tracker is exchanged nobody writes its snapshot, and its model is
\* in plan mode only when a prompt reached it with another session's tracker.
TargetIsFresh ==
    load.op = "new" /\ load.pc # "ending" =>
        /\ load.to # cur /\ file[load.to] = Fresh
        /\ ~hist.dropped => believes[load.to] # "plan"

\* What all steps do that belong to no request about sessions: they write the
\* snapshot of the tracker's session only, and tell another model of plan mode
\* only when that is remembered.
StaysHome ==
    /\ cur' = cur /\ load' = load
    /\ hist.dropped => hist'.dropped
    /\ \A s \in Sessions :
           s # cur => /\ file'[s] = file[s]
                      /\ ~hist'.dropped /\ believes'[s] = "plan" =>
                             believes[s] = "plan"

\* A step that tells the models nothing.
LEMMA QuietHome ==
    ASSUME PlanTypeOK, cur' = cur, load' = load, believes' = believes,
           hist.dropped => hist'.dropped,
           NEW t, file' = file \/ file' = [file EXCEPT ![cur] = t]
    PROVE  StaysHome
  BY DEF PlanTypeOK, StaysHome

\* A step that tells the model of Pi's session something.
LEMMA ToldHome ==
    ASSUME PlanTypeOK, cur' = cur, load' = load,
           NEW m, believes' = [believes EXCEPT ![pi.open] = m],
           hist.dropped \/ Astray => hist'.dropped,
           NEW t, file' = file \/ file' = [file EXCEPT ![cur] = t]
    PROVE  StaysHome
  BY DEF PlanTypeOK, StaysHome, Astray

\* Sending the next row.
LEMMA DispatchHome ==
    ASSUME PlanTypeOK, NEW w \in Sends, NEW s, NEW h \in Hists, NEW u,
           Dispatch(s, h, u, w), cur' = cur, load' = load,
           h.dropped <=> hist.dropped
    PROVE  StaysHome
  <1>1. CASE s.queued /\ w = "refused"
    <2>1. /\ believes' = believes
          /\ file' = file \/ file' = [file EXCEPT ![cur] = tracker']
      BY <1>1 DEF Dispatch, Persist
    <2>2. hist.dropped => hist'.dropped
      BY <1>1, DispatchHist
    <2> QED BY <2>1, <2>2, QuietHome
  <1>2. CASE s.queued /\ w # "refused"
    <2>1. /\ believes' = [believes EXCEPT ![pi.open] = Told]
          /\ file' = file \/ file' = [file EXCEPT ![cur] = tracker']
      BY <1>2 DEF Dispatch, Persist
    <2>2. hist.dropped \/ Astray => hist'.dropped
      BY <1>2, DispatchHist
    <2> QED BY <2>1, <2>2, ToldHome
  <1>3. CASE ~s.queued
    <2>1. UNCHANGED <<file, believes>> /\ hist' = h
      BY <1>3 DEF Dispatch
    <2> QED BY <2>1, QuietHome
  <1> QED BY <1>1, <1>2, <1>3

\* The steps of set_session_mode, prompt, the events and the dialogue.
LEMMA HomeSteps ==
    ASSUME PlanTypeOK,
           \/ \E w \in Writes : \/ EnterPlan(w) \/ LeavePlan(w)
                                \/ PromptQueued(w) \/ Settle(w)
                                \/ AskApproval(w) \/ Approved(w)
           \/ \E w \in Sends : Prompt(w) \/ SettleFinishes(w) \/ PollFindsIdle(w)
           \/ PiTurn \/ TurnEnds
           \/ \E answered \in BOOLEAN : Rejected(answered)
           \/ \E s \in Sessions : PiExits(s)
    PROVE  StaysHome
  <1>0. hist \in Hists /\ sched \in Scheds
    BY DEF PlanTypeOK, Hists, Scheds
  <1>1. ASSUME NEW w \in Writes,
               EnterPlan(w) \/ LeavePlan(w) \/ PromptQueued(w) \/ AskApproval(w)
        PROVE  StaysHome
    <2>1. UNCHANGED <<cur, load, believes>>
      BY <1>1 DEF EnterPlan, LeavePlan, SetMode, PromptQueued, AskApproval
    <2>2. \E t : file' = file \/ file' = [file EXCEPT ![cur] = t]
      BY <1>1 DEF EnterPlan, LeavePlan, SetMode, PromptQueued, AskApproval,
                  Persist
    <2>3. hist.dropped => hist'.dropped
      BY <1>1, QuietHist, EnterHist
    <2> QED BY <2>1, <2>2, <2>3, QuietHome
  <1>2. ASSUME NEW w \in Writes, Settle(w) PROVE StaysHome
    <2>1. /\ UNCHANGED <<cur, load, believes>>
          /\ file' = file \/ file' = [file EXCEPT ![cur] = tracker']
      BY <1>2 DEF Settle, Persist
    <2>2. hist.dropped => hist'.dropped
      <3> DEFINE h == [hist EXCEPT !.stuck = @ \/ (w # "ok" /\ sched.active)]
      <3>1. hist' = hist \/ Outcome(w, h, used)
        BY <1>2 DEF Settle
      <3>2. h \in Hists /\ (h.dropped <=> hist.dropped)
        BY <1>0 DEF Hists
      <3> HIDE DEF h
      <3> QED BY <3>1, <3>2, OutcomeHist
    <2> QED BY <2>1, <2>2, QuietHome
  <1>3. ASSUME NEW w \in Writes, Approved(w) PROVE StaysHome
    <2>1. /\ UNCHANGED <<cur, load>>
          /\ believes' = [believes EXCEPT ![pi.open] = "normal"]
          /\ file' = file \/ file' = [file EXCEPT ![cur] = tracker']
      BY <1>3 DEF Approved, Persist
    <2> QED BY <1>3, <2>1, ApprovedHist, ToldHome
  <1>4. ASSUME NEW w \in Sends, Prompt(w) PROVE StaysHome
    <2>1. /\ UNCHANGED <<cur, load>>
          /\ file' = file \/ file' = [file EXCEPT ![cur] = tracker']
          /\ IF w = "ok" THEN believes' = [believes EXCEPT ![pi.open] = Told]
             ELSE believes' = believes
      BY <1>4 DEF Prompt, Persist
    <2> QED BY <1>4, <2>1, PromptHist, QuietHome, ToldHome
  <1>5. ASSUME NEW w \in Sends, SettleFinishes(w) PROVE StaysHome
    <2> DEFINE s == [sched EXCEPT !.active = FALSE]
               h == [hist EXCEPT !.stuck = @ /\ sched.running]
    <2>1. h \in Hists /\ (h.dropped <=> hist.dropped)
      BY <1>0 DEF Hists
    <2>2. UNCHANGED <<cur, load>>
      BY <1>5 DEF SettleFinishes
    <2>3. CASE s.running
      <3>1. UNCHANGED <<tracker, file, believes>> /\ hist' = h
        BY <1>5, <2>3 DEF SettleFinishes
      <3> HIDE DEF s, h
      <3> QED BY <2>1, <2>2, <3>1, QuietHome
    <2>4. CASE ~s.running
      <3>1. Dispatch(s, h, used, w)
        BY <1>5, <2>4 DEF SettleFinishes
      <3> HIDE DEF s, h
      <3> QED BY <2>1, <2>2, <3>1, DispatchHome
    <2> QED BY <2>3, <2>4
  <1>6. ASSUME NEW w \in Sends, PollFindsIdle(w) PROVE StaysHome
    <2> DEFINE s == [sched EXCEPT !.running = FALSE, !.active = FALSE]
               h == [hist EXCEPT !.stuck = FALSE]
               u == [used EXCEPT !.lost = @ + 1]
    <2>1. h \in Hists /\ (h.dropped <=> hist.dropped)
      BY <1>0 DEF Hists
    <2>2. Dispatch(s, h, u, w) /\ UNCHANGED <<cur, load>>
      BY <1>6 DEF PollFindsIdle
    <2> HIDE DEF s, h, u
    <2> QED BY <2>1, <2>2, DispatchHome
  <1>7. CASE PiTurn \/ TurnEnds \/ \E s \in Sessions : PiExits(s)
    <2>1. UNCHANGED <<cur, load, file, believes>>
      BY <1>7 DEF PiTurn, TurnEnds, PiExits
    <2>2. hist.dropped => hist'.dropped
      BY <1>0, <1>7 DEF PiTurn, TurnEnds, PiExits, Hists
    <2> QED BY <2>1, <2>2, QuietHome
  <1>8. ASSUME NEW answered \in BOOLEAN, Rejected(answered) PROVE StaysHome
    <2>1. /\ UNCHANGED <<cur, load, believes, hist>>
          /\ file' = file \/ file' = [file EXCEPT ![cur] = tracker']
      BY <1>8 DEF Rejected
    <2> QED BY <2>1, QuietHome
  <1> QED BY <1>1, <1>2, <1>3, <1>4, <1>5, <1>6, <1>7, <1>8

\* Every step of plan mode keeps TargetIsFresh.
LEMMA TargetNext ==
    ASSUME PlanTypeOK, TargetIsFresh, PlanNext
    PROVE  TargetIsFresh'
  <1>0. load \in Loads
    BY DEF PlanTypeOK, Loads
  <1>1. CASE StaysHome
    BY <1>0, <1>1 DEF StaysHome, TargetIsFresh, Loads
  <1>2. ASSUME NEW s \in Sessions, NEW op \in {"load", "new", "branch"},
               PiSwitches(op, s)
        PROVE  TargetIsFresh'
    <2>1. load' = [op |-> op, pc |-> "reading", to |-> s] /\ UNCHANGED <<cur, file>>
      BY <1>2 DEF PiSwitches
    <2>2. op = "new" => Untouched(s) /\ believes' = believes
      BY <1>2 DEF PiSwitches
    <2> QED BY <2>1, <2>2 DEF TargetIsFresh, Untouched
  <1>3. CASE NewSwitched
    <2>1. /\ load' = [load EXCEPT !.pc = "publishing"]
          /\ load.op = "new" /\ load.pc = "reading"
          /\ UNCHANGED <<cur, file, believes, hist>>
      BY <1>3 DEF NewSwitched
    <2> QED BY <1>0, <2>1 DEF TargetIsFresh, Loads
  <1>4. CASE \/ LoadSwitched \/ LoadCurrent \/ BranchSwitched \/ NewTracker
             \/ Restart \/ \E replaced \in BOOLEAN : LoadFails(replaced)
             \/ \E w \in Writes : LoadEnds(w) \/ NewCancelled(w)
    <2>1. CASE LoadSwitched \/ BranchSwitched \/ NewTracker
      <3>1. load' = [load EXCEPT !.pc = "ending"] \/ load' = Idle
        BY <2>1 DEF LoadSwitched, BranchSwitched, NewTracker
      <3> QED BY <1>0, <3>1 DEF TargetIsFresh, Idle, Loads
    <2>2. CASE LoadCurrent \/ Restart
      <3>1. load' = [op |-> "load", pc |-> "ending", to |-> bound]
        BY <2>2 DEF LoadCurrent, Restart
      <3> QED BY <3>1 DEF TargetIsFresh
    <2>3. CASE \/ \E replaced \in BOOLEAN : LoadFails(replaced)
               \/ \E w \in Writes : LoadEnds(w) \/ NewCancelled(w)
      <3>1. load' = Idle \/ (load' = load /\ load.op = "none")
        BY <2>3 DEF LoadFails, LoadEnds, NewCancelled
      <3> QED BY <3>1 DEF TargetIsFresh, Idle
    <2> QED BY <1>4, <2>1, <2>2, <2>3
  <1> QED BY <1>1, <1>2, <1>3, <1>4, HomeSteps DEF PlanNext

\* TargetIsFresh is an invariant.
LEMMA TargetCorrect == PlanSpec => []TargetIsFresh
  <1>1. PlanInit => TargetIsFresh
    BY DEF PlanInit, Idle, TargetIsFresh
  <1>2. PlanTypeOK /\ TargetIsFresh /\ [PlanNext]_vars => TargetIsFresh'
    <2> SUFFICES ASSUME PlanTypeOK, TargetIsFresh, [PlanNext]_vars
                 PROVE  TargetIsFresh'
      OBVIOUS
    <2>1. CASE UNCHANGED vars
      BY <2>1 DEF vars, TargetIsFresh
    <2> QED BY <2>1, TargetNext
  <1> QED BY <1>1, <1>2, PlanTypeCorrect, PTL DEF PlanSpec

-----------------------------------------------------------------------------
(* What a restart restores.                                                *)

\* Restored to the same state and the same reminder.
Alike(a, b) == /\ FromSnapshot(a).state = FromSnapshot(b).state
               /\ FromSnapshot(a).exitReminder = FromSnapshot(b).exitReminder

\* The same while a session is being loaded.
SnapshotIsCurrent == ~hist.fault => Alike(file[cur], tracker)

\* Snapshots that are restored alike: a tracker and its own restoration, and
\* two trackers that differ in the flag.
LEMMA AlikeFacts ==
    ASSUME NEW t \in Trackers
    PROVE  /\ Alike(t, t)
           /\ Alike(t, FromSnapshot(t))
           /\ \A b \in BOOLEAN : \A u :
                  Alike(u, t) <=> Alike(u, [t EXCEPT !.awaiting = b])
  <1>1. Alike(t, t)
    BY DEF Alike
  <1>2. Alike(t, FromSnapshot(t))
    BY DEF Alike, Trackers, States, FromSnapshot
  <1>3. \A b \in BOOLEAN : \A u :
            Alike(u, t) <=> Alike(u, [t EXCEPT !.awaiting = b])
    <2> SUFFICES ASSUME NEW b \in BOOLEAN, NEW u
                 PROVE  Alike(u, t) <=> Alike(u, [t EXCEPT !.awaiting = b])
      OBVIOUS
    <2>1. Alike(t, [t EXCEPT !.awaiting = b])
      BY DEF Alike, Trackers, States, FromSnapshot
    <2> QED BY <2>1 DEF Alike
  <1> QED BY <1>1, <1>2, <1>3

\* The snapshot of the open session is written, or neither it nor the tracker
\* changes.
LEMMA WrittenIsCurrent ==
    ASSUME PlanTypeOK, SnapshotIsCurrent, cur' = cur, tracker' \in Trackers,
           ~hist'.fault => ~hist.fault,
           ~hist'.fault => \/ file' = [file EXCEPT ![cur] = tracker']
                           \/ UNCHANGED <<file, tracker>>
    PROVE  SnapshotIsCurrent'
  <1>1. CASE file' = [file EXCEPT ![cur] = tracker']
    <2>1. file'[cur'] = tracker'
      BY <1>1 DEF PlanTypeOK
    <2> QED BY <2>1, AlikeFacts DEF SnapshotIsCurrent
  <1>2. CASE UNCHANGED <<file, tracker>>
    BY <1>2 DEF SnapshotIsCurrent, Alike
  <1>3. CASE hist'.fault
    BY <1>3 DEF SnapshotIsCurrent
  <1> QED BY <1>1, <1>2, <1>3

\* Sending the next row keeps the snapshot current.
LEMMA DispatchCurrent ==
    ASSUME PlanTypeOK, SnapshotIsCurrent, NEW w \in Sends, NEW s,
           NEW h \in Hists, NEW u, Dispatch(s, h, u, w), cur' = cur,
           h.fault <=> hist.fault, tracker' \in Trackers
    PROVE  SnapshotIsCurrent'
  <1>1. CASE s.queued
    <2>1. hist'.fault <=> hist.fault \/ w \notin {"ok", "refused"}
      BY <1>1, DispatchHist
    <2>2. w \in {"ok", "refused"} => file' = [file EXCEPT ![cur] = tracker']
      BY <1>1 DEF Dispatch, Persist
    <2> QED BY <2>1, <2>2, WrittenIsCurrent
  <1>2. CASE ~s.queued
    <2>1. UNCHANGED <<file, tracker>> /\ hist' = h
      BY <1>2 DEF Dispatch
    <2> QED BY <2>1, WrittenIsCurrent
  <1> QED BY <1>1, <1>2

\* Every step of plan mode keeps the snapshot current.
LEMMA CurrentNext ==
    ASSUME PlanTypeOK, PlanTypeOK', TargetIsFresh, SnapshotIsCurrent, PlanNext
    PROVE  SnapshotIsCurrent'
  <1>0. /\ hist \in Hists /\ sched \in Scheds
        /\ tracker \in Trackers /\ tracker' \in Trackers
        /\ \A s \in Sessions : file[s] \in Trackers
        /\ cur \in Sessions
    BY DEF PlanTypeOK, Hists, Scheds
  <1>1. ASSUME NEW w \in Writes,
               \/ EnterPlan(w) \/ LeavePlan(w) \/ PromptQueued(w) \/ Approved(w)
               \/ AskApproval(w) \/ LoadEnds(w)
        PROVE  SnapshotIsCurrent'
    <2>1. hist'.fault <=> hist.fault \/ w # "ok"
      BY <1>1, QuietHist, EnterHist, ApprovedHist, EndsHist
    <2>2. cur' = cur
      BY <1>1 DEF EnterPlan, LeavePlan, SetMode, PromptQueued, Approved,
                  AskApproval, LoadEnds
    <2>3. w = "ok" => \/ file' = [file EXCEPT ![cur] = tracker']
                      \/ UNCHANGED <<file, tracker>>
      <3>1. CASE EnterPlan(w) \/ LeavePlan(w)
        BY <3>1 DEF EnterPlan, LeavePlan, SetMode, Persist
      <3>2. CASE PromptQueued(w) \/ Approved(w) \/ LoadEnds(w)
        BY <3>2 DEF PromptQueued, Approved, LoadEnds, Persist
      <3>3. CASE AskApproval(w)
        BY <3>3 DEF AskApproval, Persist
      <3> QED BY <1>1, <3>1, <3>2, <3>3
    <2> QED BY <1>0, <2>1, <2>2, <2>3, WrittenIsCurrent
  <1>2. ASSUME NEW w \in Writes, Settle(w) PROVE SnapshotIsCurrent'
    <2> DEFINE h == [hist EXCEPT !.stuck = @ \/ (w # "ok" /\ sched.active)]
    <2>1. h \in Hists /\ (h.fault <=> hist.fault)
      BY <1>0 DEF Hists
    <2>2. CASE tracker.state = "ExitPending"
      <3>1. /\ Outcome(w, h, used) /\ cur' = cur
            /\ w = "ok" => file' = [file EXCEPT ![cur] = tracker']
        BY <1>2, <2>2 DEF Settle, Persist
      <3> HIDE DEF h
      <3> QED BY <1>0, <2>1, <3>1, OutcomeHist, WrittenIsCurrent
    <2>3. CASE tracker.state # "ExitPending"
      <3>1. UNCHANGED <<file, tracker, hist, cur>>
        BY <1>0, <1>2, <2>3, TrackerModes DEF Settle
      <3> QED BY <1>0, <3>1, WrittenIsCurrent
    <2> QED BY <2>2, <2>3
  <1>3. ASSUME NEW answered \in BOOLEAN, Rejected(answered)
        PROVE  SnapshotIsCurrent'
    <2>1. /\ tracker' = [tracker EXCEPT !.awaiting = FALSE]
          /\ UNCHANGED <<cur, hist>>
          /\ file' = [file EXCEPT ![cur] = tracker'] \/ file' = file
      BY <1>3 DEF Rejected
    <2>2. CASE file' = file
      BY <1>0, <2>1, <2>2, AlikeFacts DEF SnapshotIsCurrent
    <2> QED BY <1>0, <2>1, <2>2, WrittenIsCurrent
  <1>4. ASSUME NEW w \in Sends, Prompt(w) PROVE SnapshotIsCurrent'
    <2>1. /\ cur' = cur
          /\ w \in {"ok", "refused"} => file' = [file EXCEPT ![cur] = tracker']
      BY <1>4 DEF Prompt, Persist
    <2> QED BY <1>0, <1>4, <2>1, PromptHist, WrittenIsCurrent
  <1>5. ASSUME NEW w \in Sends, SettleFinishes(w) PROVE SnapshotIsCurrent'
    <2> DEFINE s == [sched EXCEPT !.active = FALSE]
               h == [hist EXCEPT !.stuck = @ /\ sched.running]
    <2>1. h \in Hists /\ (h.fault <=> hist.fault)
      BY <1>0 DEF Hists
    <2>2. CASE s.running
      <3>1. UNCHANGED <<tracker, file, cur>> /\ hist' = h
        BY <1>5, <2>2 DEF SettleFinishes
      <3> HIDE DEF s, h
      <3> QED BY <1>0, <2>1, <3>1, WrittenIsCurrent
    <2>3. CASE ~s.running
      <3>1. Dispatch(s, h, used, w) /\ cur' = cur
        BY <1>5, <2>3 DEF SettleFinishes
      <3> HIDE DEF s, h
      <3> QED BY <1>0, <2>1, <3>1, DispatchCurrent
    <2> QED BY <2>2, <2>3
  <1>6. ASSUME NEW w \in Sends, PollFindsIdle(w) PROVE SnapshotIsCurrent'
    <2> DEFINE s == [sched EXCEPT !.running = FALSE, !.active = FALSE]
               h == [hist EXCEPT !.stuck = FALSE]
               u == [used EXCEPT !.lost = @ + 1]
    <2>1. h \in Hists /\ (h.fault <=> hist.fault)
      BY <1>0 DEF Hists
    <2>2. Dispatch(s, h, u, w) /\ cur' = cur
      BY <1>6 DEF PollFindsIdle
    <2> HIDE DEF s, h, u
    <2> QED BY <1>0, <2>1, <2>2, DispatchCurrent
  <1>7. CASE \/ PiTurn \/ TurnEnds \/ NewSwitched
             \/ \E s \in Sessions : PiExits(s)
             \/ \E s \in Sessions, op \in {"load", "new", "branch"} :
                    PiSwitches(op, s)
             \/ \E replaced \in BOOLEAN : LoadFails(replaced)
    <2>1. UNCHANGED <<tracker, cur, file>>
      BY <1>7 DEF PiTurn, TurnEnds, NewSwitched, PiExits, PiSwitches, LoadFails
    <2>2. ~hist'.fault => ~hist.fault
      BY <1>0, <1>7, SwitchHist
         DEF PiTurn, TurnEnds, NewSwitched, PiExits, LoadFails, Hists
    <2> QED BY <1>0, <2>1, <2>2, WrittenIsCurrent
  <1>8. ASSUME NEW s, Exchanges(s) PROVE SnapshotIsCurrent'
    <2>1. /\ s \in Sessions /\ cur' = s /\ file' = file
          /\ tracker' = FromSnapshot(file[s])
      BY <1>8, ExchangeHist
    <2> QED BY <1>0, <2>1, AlikeFacts DEF SnapshotIsCurrent
  <1>9. CASE NewTracker
    <2>1. /\ cur' = load.to /\ tracker' = Fresh /\ file' = file
          /\ file[load.to] = Fresh
      BY <1>9 DEF NewTracker, TargetIsFresh
    <2> QED BY <1>0, <2>1, AlikeFacts DEF SnapshotIsCurrent
  <1>10. ASSUME NEW w \in Writes, NewCancelled(w) PROVE SnapshotIsCurrent'
    <2>1. CASE w = "ok"
      <3>1. /\ cur' = bound /\ tracker' = Fresh
            /\ file' = [file EXCEPT ![bound] = Fresh]
        BY <1>10, <2>1 DEF NewCancelled
      <3>2. file'[cur'] = tracker'
        BY <3>1 DEF PlanTypeOK
      <3> QED BY <1>0, <3>2, AlikeFacts DEF SnapshotIsCurrent
    <2>2. CASE w # "ok"
      <3>1. hist'.fault
        BY <1>10, <2>2, EndsHist
      <3> QED BY <3>1 DEF SnapshotIsCurrent
    <2> QED BY <2>1, <2>2
  <1>11. LoadSwitched \/ BranchSwitched \/ LoadCurrent \/ Restart
         => SnapshotIsCurrent'
    BY <1>8, ExchangesNext
  <1> QED BY <1>1, <1>2, <1>3, <1>4, <1>5, <1>6, <1>7, <1>9, <1>10, <1>11
          DEF PlanNext

\* Without failing writes, a restart at any moment comes up in the state the
\* tracker itself would collapse to.
THEOREM PlanRestartIsFaithful == PlanSpec => []RestartIsFaithful
  <1>1. PlanInit => SnapshotIsCurrent
    BY PlanAssumption DEF PlanInit, SnapshotIsCurrent, Alike
  <1>2. /\ PlanTypeOK /\ PlanTypeOK' /\ TargetIsFresh /\ SnapshotIsCurrent
        /\ [PlanNext]_vars
        => SnapshotIsCurrent'
    <2> SUFFICES ASSUME PlanTypeOK, PlanTypeOK', TargetIsFresh,
                        SnapshotIsCurrent, [PlanNext]_vars
                 PROVE  SnapshotIsCurrent'
      OBVIOUS
    <2>1. CASE UNCHANGED vars
      BY <2>1 DEF vars, SnapshotIsCurrent, Alike
    <2> QED BY <2>1, CurrentNext
  <1>3. SnapshotIsCurrent => RestartIsFaithful
    BY DEF SnapshotIsCurrent, RestartIsFaithful, Alike, Clean
  <1> QED BY <1>1, <1>2, <1>3, PlanTypeCorrect, TargetCorrect, PTL DEF PlanSpec

-----------------------------------------------------------------------------
(* The exit reminder.                                                      *)

\* A tracker that will not let a model that believes in plan mode go on
\* believing in it outside plan mode.
Remembers(t) == \/ t.state \in {"Active", "ExitPending"}
                \/ t.state = "Inactive" /\ t.exitReminder

ExitInv ==
    ~hist.dropped => /\ ~hist.misled
                     /\ believes[cur] = "plan" => Remembers(tracker)
                     /\ \A s \in Sessions :
                            believes[s] = "plan" => Remembers(file[s])

\* Which operations of the tracker keep the announcement of the exit.
LEMMA TrackerRemembers ==
    ASSUME NEW t \in Trackers
    PROVE  /\ ReminderText(t, "plan") = "plan" /\ Remembers(t) =>
                  Reminded(t).state \in {"Active", "ExitPending"}
           /\ \A b : ReminderText(t, b) = "plan" /\ b # "plan" =>
                  Reminded(t).state = "Active"
           /\ ReminderText(t, "plan") = "plan" /\ t.state \notin {"Pending", "Active"}
                  => Reminded(t) = t
           /\ Remembers(t) /\ ~(t.exitReminder /\ ~Reminded(t).exitReminder)
                  => Remembers(Reminded(t))
           /\ Remembers(t) =>
                /\ ~t.exitReminder => Remembers(EnterPending(t))
                /\ \A b \in BOOLEAN : Remembers(UserExit(t, b))
                /\ Remembers(CompleteDeferredExit(t))
                /\ Remembers(FromSnapshot(t))
                /\ \A b \in BOOLEAN : Remembers([t EXCEPT !.awaiting = b])
  <1>1. /\ ReminderText(t, "plan") = "plan" /\ Remembers(t) =>
               Reminded(t).state \in {"Active", "ExitPending"}
        /\ ReminderText(t, "plan") = "plan" /\ t.state \notin {"Pending", "Active"}
               => Reminded(t) = t
    BY DEF Trackers, States, ReminderText, Reminded, Remembers
  <1>2. \A b : ReminderText(t, b) = "plan" /\ b # "plan" =>
            Reminded(t).state = "Active"
    BY DEF Trackers, States, ReminderText, Reminded
  <1>3. Remembers(t) /\ ~(t.exitReminder /\ ~Reminded(t).exitReminder)
            => Remembers(Reminded(t))
    BY DEF Trackers, States, Reminded, Remembers
  <1>4. Remembers(t) /\ ~t.exitReminder => Remembers(EnterPending(t))
    BY DEF Trackers, States, EnterPending, Remembers
  <1>5. Remembers(t) => \A b \in BOOLEAN : Remembers(UserExit(t, b))
    BY DEF Trackers, States, UserExit, Remembers
  <1>6. Remembers(t) => Remembers(CompleteDeferredExit(t))
    BY DEF Trackers, States, CompleteDeferredExit, Remembers
  <1>7. Remembers(t) => Remembers(FromSnapshot(t))
    BY DEF Trackers, States, FromSnapshot, Remembers
  <1>8. Remembers(t) =>
            \A b \in BOOLEAN : Remembers([t EXCEPT !.awaiting = b])
    BY DEF Trackers, States, Remembers
  <1> QED BY <1>1, <1>2, <1>3, <1>4, <1>5, <1>6, <1>7, <1>8

\* Steps that tell the model nothing: it is enough that the new tracker
\* remembers what the old one did.
LEMMA QuietExit ==
    ASSUME PlanTypeOK, ExitInv, cur' = cur, believes' = believes,
           ~hist'.dropped => ~hist.dropped /\ (hist'.misled <=> hist.misled),
           ~hist'.dropped /\ Remembers(tracker) => Remembers(tracker'),
           file' = file \/ file' = [file EXCEPT ![cur] = tracker']
    PROVE  ExitInv'
  <1> SUFFICES ASSUME ~hist'.dropped
               PROVE  /\ ~hist'.misled
                      /\ believes[cur] = "plan" => Remembers(tracker')
                      /\ \A s \in Sessions :
                             believes[s] = "plan" => Remembers(file'[s])
    BY DEF ExitInv, Remembers
  <1>1. ~hist'.misled /\ (believes[cur] = "plan" => Remembers(tracker'))
    BY DEF ExitInv
  <1>2. ASSUME NEW s \in Sessions, believes[s] = "plan"
        PROVE  Remembers(file'[s])
    <2>1. file'[s] = file[s] \/ (s = cur /\ file'[s] = tracker')
      BY DEF PlanTypeOK
    <2> QED BY <1>1, <1>2, <2>1 DEF ExitInv
  <1> QED BY <1>1, <1>2

\* A prompt that reaches the model; one that reaches another session than the
\* tracker's is remembered.
LEMMA ToldExit ==
    ASSUME PlanTypeOK, ExitInv, NEW w \in Sends, cur' = cur,
           tracker' = Reminded(tracker), Persist(w, tracker'),
           believes' = [believes EXCEPT ![pi.open] = Told],
           hist'.misled <=> Misled,
           ~hist'.dropped => ~hist.dropped /\ ~Unrecorded(w) /\ ~Astray
    PROVE  ExitInv'
  <1> SUFFICES ASSUME ~hist'.dropped
               PROVE  /\ ~hist'.misled
                      /\ believes'[cur] = "plan" => Remembers(tracker')
                      /\ \A s \in Sessions :
                             believes'[s] = "plan" => Remembers(file'[s])
    BY DEF ExitInv, Remembers
  <1>a. pi.open = cur
    BY DEF Astray
  <1>0. /\ tracker \in Trackers /\ cur \in Sessions
        /\ believes'[cur] = Told
        /\ \A s \in Sessions : s # cur => believes'[s] = believes[s]
    BY <1>a DEF PlanTypeOK
  <1>1. ~hist.dropped /\ ~Unrecorded(w)
    OBVIOUS
  <1>2. Told = "plan" => tracker'.state \in {"Active", "ExitPending"}
    <2>1. CASE believes[cur] = "plan"
      BY <1>0, <1>1, <1>a, <2>1, TrackerRemembers DEF ExitInv, Told
    <2>2. CASE believes[cur] # "plan"
      BY <1>0, <1>a, <2>2, TrackerRemembers DEF Told
    <2> QED BY <2>1, <2>2
  <1>3. ~hist'.misled
    BY <1>2 DEF Misled
  <1>4. Told = "plan" => Remembers(file'[cur])
    <2> SUFFICES ASSUME Told = "plan" PROVE Remembers(file'[cur])
      OBVIOUS
    <2>1. CASE w # "no snapshot"
      <3>1. file'[cur] = tracker'
        BY <2>1 DEF Persist, PlanTypeOK
      <3> QED BY <1>2, <3>1 DEF Remembers
    <2>2. CASE w = "no snapshot"
      <3>1. file' = file
        BY <2>2 DEF Persist
      <3>2. CASE tracker.state \in {"Pending", "Active"}
        BY <1>1, <2>2, <3>1, <3>2 DEF Unrecorded, Remembers
      <3>3. CASE tracker.state \notin {"Pending", "Active"}
        <4>1. believes[cur] = "plan"
          BY <1>a, <3>3, TrackerRemembers DEF Told, ReminderText
        <4> QED BY <1>0, <1>1, <3>1, <4>1 DEF ExitInv
      <3> QED BY <3>2, <3>3
    <2> QED BY <2>1, <2>2
  <1>5. ASSUME NEW s \in Sessions, s # cur, believes[s] = "plan"
        PROVE  Remembers(file'[s])
    <2>1. file'[s] = file[s]
      BY <1>5 DEF Persist, PlanTypeOK
    <2> QED BY <1>1, <1>5, <2>1 DEF ExitInv
  <1> QED BY <1>0, <1>2, <1>3, <1>4, <1>5 DEF Remembers

\* Sending the next row keeps ExitInv.
LEMMA DispatchExit ==
    ASSUME PlanTypeOK, ExitInv, NEW w \in Sends, NEW s, NEW h \in Hists,
           NEW u, Dispatch(s, h, u, w), cur' = cur,
           h.dropped <=> hist.dropped, h.misled <=> hist.misled
    PROVE  ExitInv'
  <1>0. tracker \in Trackers
    BY DEF PlanTypeOK
  <1>1. CASE s.queued /\ w = "refused"
    <2>1. /\ tracker' = Reminded(tracker) /\ believes' = believes
          /\ file' = [file EXCEPT ![cur] = tracker']
      BY <1>1 DEF Dispatch, Persist
    <2>2. /\ hist'.dropped <=> hist.dropped \/ Discarded
          /\ hist'.misled <=> hist.misled
      BY <1>1, DispatchHist
    <2>3. ~hist'.dropped /\ Remembers(tracker) => Remembers(tracker')
      BY <1>0, <2>1, <2>2, TrackerRemembers DEF Discarded
    <2> QED BY <2>1, <2>2, <2>3, QuietExit
  <1>2. CASE s.queued /\ w # "refused"
    <2>1. /\ tracker' = Reminded(tracker) /\ Persist(w, tracker')
          /\ believes' = [believes EXCEPT ![pi.open] = Told]
      BY <1>2 DEF Dispatch
    <2>2. /\ hist'.dropped <=> hist.dropped \/ Unrecorded(w) \/ Astray
          /\ hist'.misled <=> Misled
      BY <1>2, DispatchHist
    <2> QED BY <2>1, <2>2, ToldExit
  <1>3. CASE ~s.queued
    <2>1. UNCHANGED <<tracker, file, believes>> /\ hist' = h
      BY <1>3 DEF Dispatch
    <2> QED BY <2>1, QuietExit DEF Remembers
  <1> QED BY <1>1, <1>2, <1>3

\* Every step of plan mode keeps ExitInv.
LEMMA ExitNext ==
    ASSUME PlanTypeOK, TargetIsFresh, ExitInv, PlanNext
    PROVE  ExitInv'
  <1>0. /\ hist \in Hists /\ sched \in Scheds /\ tracker \in Trackers
        /\ \A s \in Sessions : file[s] \in Trackers
        /\ cur \in Sessions
    BY DEF PlanTypeOK, Hists, Scheds
  <1>1. ASSUME NEW w \in Writes, EnterPlan(w) PROVE ExitInv'
    <2>1. /\ tracker' = EnterPending(tracker) /\ UNCHANGED <<cur, believes>>
          /\ file' = file \/ file' = [file EXCEPT ![cur] = tracker']
      BY <1>1 DEF EnterPlan, SetMode, Persist
    <2>2. /\ hist'.dropped <=> hist.dropped \/ tracker.exitReminder
          /\ hist'.misled <=> hist.misled
      BY <1>1, EnterHist
    <2>3. ~hist'.dropped /\ Remembers(tracker) => Remembers(tracker')
      BY <1>0, <2>1, <2>2, TrackerRemembers
    <2> QED BY <2>1, <2>2, <2>3, QuietExit
  <1>2. ASSUME NEW w \in Writes, LeavePlan(w) PROVE ExitInv'
    <2>1. /\ tracker' = IF tracker.state = "Inactive" THEN tracker
                        ELSE UserExit(tracker, sched.active)
          /\ UNCHANGED <<cur, believes>>
          /\ file' = file \/ file' = [file EXCEPT ![cur] = tracker']
      BY <1>2 DEF LeavePlan, SetMode, Persist
    <2>2. sched.active \in BOOLEAN
      BY <1>0 DEF Scheds
    <2>3. Remembers(tracker) => Remembers(tracker')
      BY <1>0, <2>1, <2>2, TrackerRemembers
    <2> QED BY <1>2, <2>1, <2>3, QuietHist, QuietExit
  <1>3. ASSUME NEW w \in Writes, PromptQueued(w) \/ LoadEnds(w) PROVE ExitInv'
    <2>1. /\ UNCHANGED <<tracker, cur, believes>>
          /\ file' = file \/ file' = [file EXCEPT ![cur] = tracker']
      BY <1>3 DEF PromptQueued, LoadEnds, Persist
    <2> QED BY <1>3, <2>1, QuietHist, EndsHist, QuietExit
  <1>4. ASSUME NEW w \in Writes, Settle(w) PROVE ExitInv'
    <2>1. /\ tracker' = CompleteDeferredExit(tracker)
          /\ UNCHANGED <<cur, believes>>
          /\ file' = file \/ file' = [file EXCEPT ![cur] = tracker']
      BY <1>4 DEF Settle, Persist
    <2>2. (hist'.dropped <=> hist.dropped) /\ (hist'.misled <=> hist.misled)
      <3> DEFINE h == [hist EXCEPT !.stuck = @ \/ (w # "ok" /\ sched.active)]
      <3>1. hist' = hist \/ Outcome(w, h, used)
        BY <1>4 DEF Settle
      <3>2. /\ h \in Hists
            /\ h.dropped <=> hist.dropped
            /\ h.misled <=> hist.misled
        BY <1>0 DEF Hists
      <3> HIDE DEF h
      <3> QED BY <3>1, <3>2, OutcomeHist
    <2> QED BY <1>0, <2>1, <2>2, TrackerRemembers, QuietExit
  <1>5. ASSUME NEW w \in Writes, AskApproval(w) PROVE ExitInv'
    <2> DEFINE asking == [tracker EXCEPT !.awaiting = TRUE]
    <2>1. /\ tracker.state = "Active" /\ Persist(w, asking)
          /\ UNCHANGED <<cur, believes>>
          /\ tracker' = tracker \/ tracker' = asking
      BY <1>5 DEF AskApproval
    <2>2. Remembers(asking) /\ Remembers(tracker')
      BY <1>0, <2>1, TrackerRemembers DEF Remembers
    <2> HIDE DEF asking
    <2>3. \A s \in Sessions : file'[s] = file[s] \/ file'[s] = asking
      BY <2>1 DEF Persist, PlanTypeOK
    <2> QED BY <1>5, <2>1, <2>2, <2>3, QuietHist DEF ExitInv, Remembers
  <1>6. ASSUME NEW w \in Writes, Approved(w) PROVE ExitInv'
    <2>1. /\ believes' = [believes EXCEPT ![pi.open] = "normal"] /\ cur' = cur
          /\ file' = file \/ file' = [file EXCEPT ![cur] = tracker']
      BY <1>6 DEF Approved, Persist
    <2>2. /\ hist'.dropped <=> hist.dropped \/ Astray
          /\ hist'.misled <=> hist.misled
      BY <1>6, ApprovedHist
    <2>3. CASE pi.open = cur
      <3>1. /\ believes'[cur] = "normal"
            /\ \A s \in Sessions :
                   s # cur => believes'[s] = believes[s] /\ file'[s] = file[s]
        BY <2>1, <2>3 DEF PlanTypeOK
      <3> QED BY <2>1, <2>2, <3>1 DEF ExitInv, Remembers
    <2>4. CASE pi.open # cur
      BY <2>2, <2>4 DEF Astray, ExitInv
    <2> QED BY <2>3, <2>4
  <1>7. ASSUME NEW answered \in BOOLEAN, Rejected(answered) PROVE ExitInv'
    <2>1. /\ tracker' = [tracker EXCEPT !.awaiting = FALSE]
          /\ UNCHANGED <<cur, believes, hist>>
          /\ file' = file \/ file' = [file EXCEPT ![cur] = tracker']
      BY <1>7 DEF Rejected
    <2> QED BY <1>0, <2>1, TrackerRemembers, QuietExit
  <1>8. ASSUME NEW w \in Sends, Prompt(w) PROVE ExitInv'
    <2>1. /\ tracker' = Reminded(tracker) /\ Persist(w, tracker') /\ cur' = cur
          /\ IF w = "ok" THEN believes' = [believes EXCEPT ![pi.open] = Told]
             ELSE believes' = believes
      BY <1>8 DEF Prompt
    <2>2. CASE w = "ok"
      BY <1>8, <2>1, <2>2, PromptHist, ToldExit DEF Unrecorded
    <2>3. CASE w # "ok"
      <3>1. /\ hist'.dropped <=> hist.dropped \/ Discarded
            /\ hist'.misled <=> hist.misled
        BY <1>8, <2>3, PromptHist
      <3>2. ~hist'.dropped /\ Remembers(tracker) => Remembers(tracker')
        BY <1>0, <2>1, <3>1, TrackerRemembers DEF Discarded
      <3> QED BY <2>1, <2>3, <3>1, <3>2, QuietExit DEF Persist
    <2> QED BY <2>2, <2>3
  <1>9. ASSUME NEW w \in Sends, SettleFinishes(w) PROVE ExitInv'
    <2> DEFINE s == [sched EXCEPT !.active = FALSE]
               h == [hist EXCEPT !.stuck = @ /\ sched.running]
    <2>1. /\ h \in Hists
          /\ h.dropped <=> hist.dropped
          /\ h.misled <=> hist.misled
      BY <1>0 DEF Hists
    <2>2. CASE s.running
      <3>1. UNCHANGED <<tracker, file, cur, believes>> /\ hist' = h
        BY <1>9, <2>2 DEF SettleFinishes
      <3> HIDE DEF s, h
      <3> QED BY <2>1, <3>1, QuietExit
    <2>3. CASE ~s.running
      <3>1. Dispatch(s, h, used, w) /\ cur' = cur
        BY <1>9, <2>3 DEF SettleFinishes
      <3> HIDE DEF s, h
      <3> QED BY <2>1, <3>1, DispatchExit
    <2> QED BY <2>2, <2>3
  <1>10. ASSUME NEW w \in Sends, PollFindsIdle(w) PROVE ExitInv'
    <2> DEFINE s == [sched EXCEPT !.running = FALSE, !.active = FALSE]
               h == [hist EXCEPT !.stuck = FALSE]
               u == [used EXCEPT !.lost = @ + 1]
    <2>1. /\ h \in Hists
          /\ h.dropped <=> hist.dropped
          /\ h.misled <=> hist.misled
      BY <1>0 DEF Hists
    <2>2. Dispatch(s, h, u, w) /\ cur' = cur
      BY <1>10 DEF PollFindsIdle
    <2> HIDE DEF s, h, u
    <2> QED BY <2>1, <2>2, DispatchExit
  <1>11. CASE \/ PiTurn \/ TurnEnds \/ NewSwitched
              \/ \E s \in Sessions : PiExits(s)
              \/ \E replaced \in BOOLEAN : LoadFails(replaced)
    <2>1. UNCHANGED <<tracker, cur, file, believes>>
      BY <1>11 DEF PiTurn, TurnEnds, NewSwitched, PiExits, LoadFails
    <2>2. (hist'.dropped <=> hist.dropped) /\ (hist'.misled <=> hist.misled)
      BY <1>0, <1>11 DEF PiTurn, TurnEnds, NewSwitched, PiExits, LoadFails, Hists
    <2> QED BY <2>1, <2>2, QuietExit
  <1>12. ASSUME NEW s, Exchanges(s) PROVE ExitInv'
    <2>1. /\ s \in Sessions /\ tracker' = FromSnapshot(file[s]) /\ cur' = s
          /\ UNCHANGED <<file, believes>>
          /\ hist'.dropped <=> hist.dropped
          /\ hist'.misled <=> hist.misled
      BY <1>12, ExchangeHist
    <2>2. Remembers(file[s]) => Remembers(tracker')
      BY <1>0, <2>1, TrackerRemembers
    <2> QED BY <2>1, <2>2 DEF ExitInv, Remembers
  <1>13. CASE NewTracker
    <2>1. /\ cur' = load.to /\ UNCHANGED <<file, believes, hist>>
          /\ ~hist.dropped => believes[load.to] # "plan"
      BY <1>13 DEF NewTracker, TargetIsFresh
    <2> QED BY <2>1 DEF ExitInv, Remembers
  <1>14. ASSUME NEW w \in Writes, NewCancelled(w) PROVE ExitInv'
    <2>1. /\ hist.dropped => hist'.dropped
          /\ hist'.misled <=> hist.misled
          /\ believes[bound] = "plan" => hist'.dropped
      BY <1>14, EndsHist
    <2>2. /\ cur' = bound /\ believes' = believes
          /\ file' = file \/ file' = [file EXCEPT ![bound] = Fresh]
      BY <1>14 DEF NewCancelled
    <2>3. \A s \in Sessions : s # bound => file'[s] = file[s]
      BY <2>2 DEF PlanTypeOK
    <2> QED BY <2>1, <2>2, <2>3 DEF ExitInv, Remembers
  <1>15. ASSUME NEW s \in Sessions, NEW op, PiSwitches(op, s) PROVE ExitInv'
    <2>1. UNCHANGED <<tracker, cur, file>>
      BY <1>15 DEF PiSwitches
    <2>2. /\ hist.dropped => hist'.dropped
          /\ hist'.misled <=> hist.misled
          /\ op = "branch" /\ believes[pi.open] = "plan" => hist'.dropped
      BY <1>15, SwitchHist
    <2>3. CASE op # "branch"
      <3>1. believes' = believes
        BY <1>15, <2>3 DEF PiSwitches
      <3> QED BY <2>1, <2>2, <3>1 DEF ExitInv, Remembers
    <2>4. CASE op = "branch"
      <3>1. \A r \in Sessions :
                believes'[r] = believes[r] \/ believes'[r] = believes[pi.open]
        BY <1>15, <2>4 DEF PiSwitches, PlanTypeOK
      <3> QED BY <1>0, <2>1, <2>2, <2>4, <3>1 DEF ExitInv, Remembers
    <2> QED BY <2>3, <2>4
  <1>16. LoadSwitched \/ BranchSwitched \/ LoadCurrent \/ Restart => ExitInv'
    BY <1>12, ExchangesNext
  <1> QED BY <1>1, <1>2, <1>3, <1>4, <1>5, <1>6, <1>7, <1>8, <1>9, <1>10,
             <1>11, <1>13, <1>14, <1>15, <1>16 DEF PlanNext

\* A model that works outside plan mode has been told that it left, across
\* sessions, restarts and faults, but for what hist.dropped remembers: a
\* reminder that was lost on the way, an activation that was never recorded, a
\* prompt or an approval that reached another session than the tracker's, a
\* fork or clone of a model in plan mode, and a cancelled new_session that
\* resets the tracker of one.
THEOREM PlanExitIsAnnouncedOnce == PlanSpec => []ExitIsAnnouncedOnce
  <1>1. PlanInit => ExitInv
    BY PlanAssumption DEF PlanInit, ExitInv
  <1>2. PlanTypeOK /\ TargetIsFresh /\ ExitInv /\ [PlanNext]_vars => ExitInv'
    <2> SUFFICES ASSUME PlanTypeOK, TargetIsFresh, ExitInv, [PlanNext]_vars
                 PROVE  ExitInv'
      OBVIOUS
    <2>1. CASE UNCHANGED vars
      BY <2>1 DEF vars, ExitInv, Remembers
    <2> QED BY <2>1, ExitNext
  <1>3. ExitInv => ExitIsAnnouncedOnce
    BY DEF ExitInv, ExitIsAnnouncedOnce
  <1> QED BY <1>1, <1>2, <1>3, PlanTypeCorrect, TargetCorrect, PTL DEF PlanSpec
==============================================================================
