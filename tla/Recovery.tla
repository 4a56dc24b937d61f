------------------------------ MODULE Recovery ------------------------------
(***************************************************************************)
(* Crash recovery of the Pi connection (pi_adapter/recovery.rs) on top of  *)
(* the connection itself: the exit event that starts a recovery round, the *)
(* storm guard, the attempts of a round (respawn, bootstrap, re-attach of  *)
(* the session that was open before), and the watchdog that kills a child  *)
(* which stopped answering.                                                *)
(*                                                                         *)
(* A round is a task of its own: nothing stops a second one from starting  *)
(* while the first still retries.  The tasks that respawn are the rounds,  *)
(* the one that kills is the watchdog.                                     *)
(*                                                                         *)
(* A round's own RPC requests are modelled by what RpcService grants: each *)
(* goes to the child attached when it is issued and is answered only by    *)
(* that child while it lives.  It may fail at any time: its child is gone, *)
(* a deadline passes, or the child answers with an error.                  *)
(*                                                                         *)
(* The exit event is read by the sole event consumer, which also waits,    *)
(* without a timeout, for the user's answer to a plan approval dialogue    *)
(* (tools.rs: request_plan_approval inside handle_tool_start).             *)
(***************************************************************************)
EXTENDS PiRpc

CONSTANTS
    MaxAttempts,      \* RESTART_BACKOFF.len()
    MaxRecoveries,    \* MAX_RECOVERIES_PER_WINDOW
    MaxMisses,        \* HEARTBEAT_MAX_MISSES
    MaxSlides,        \* bound: recoveries that leave the sliding window
    Brief             \* bound: the rounds that give up after one attempt

ASSUME RecoveryAssumption ==
    /\ MaxAttempts \in Nat \ {0}
    /\ MaxRecoveries \in Nat
    /\ MaxMisses \in Nat \ {0}
    /\ MaxSlides \in Nat
    /\ Brief \subseteq Respawners

VARIABLES
    round,     \* [Respawners -> one recover_rpc_connection task]
    recent,    \* recoveries inside the current window (RpcRecoveryTracker)
    slides,    \* recoveries that have left the window (bound)
    misses,    \* consecutive heartbeat misses
    bound,     \* session in AdapterState.bootstrap: 0 is the original one,
               \* g the fresh session generation g starts with
    opened,    \* [Gens -> session the child has open, 0 once it is dead]
    told,      \* the user was told, of the attached child, that automatic
               \* recovery has ended
    asking,    \* the event consumer waits for the user's approval
    slipped    \* adapter and child may have come to different sessions since a
               \* round last began alone (history)

recVars == <<round, recent, slides, misses, bound, opened, told, asking, slipped>>
vars == <<rpcVars, recVars>>

Sessions == 0 .. MaxGen
Off == [pc |-> "off", attempt |-> 0, saved |-> 0, req |-> 0, got |-> 0,
        restored |-> FALSE]
RoundPcs == {"off", "backoff", "respawn", "load", "loaded", "switch",
             "reload", "finish"}

RecTypeOK ==
    /\ TypeOK
    /\ round \in [Respawners -> [pc : RoundPcs, attempt : 0 .. MaxAttempts,
                                 saved : Sessions, req : 0 .. MaxGen,
                                 got : Sessions, restored : BOOLEAN]]
    /\ recent \in 0 .. MaxRecoveries
    /\ slides \in 0 .. MaxSlides
    /\ misses \in 0 .. MaxMisses
    /\ bound \in Sessions
    /\ opened \in [Gens -> Sessions]
    /\ told \in BOOLEAN
    /\ asking \in BOOLEAN
    /\ slipped \in BOOLEAN

\* At start-up the first child has the original session open.
RecInit ==
    /\ RpcInit
    /\ round = [c \in Respawners |-> Off]
    /\ recent = 0
    /\ slides = 0
    /\ misses = 0
    /\ bound = 0
    /\ opened = [g \in Gens |-> IF g = 1 THEN 0 ELSE g]
    /\ told = FALSE
    /\ asking = FALSE
    /\ slipped = FALSE

-----------------------------------------------------------------------------
(* The adapter_process_exit event and the storm guard.                     *)

ActiveRound(c) == round[c].pc # "off"
NoRound == \A c \in Respawners : ~ActiveRound(c)

\* A tool call of the child asks for the plan's approval: the consumer waits,
\* whatever follows in the channel.
DialogueOpens ==
    /\ ~asking
    /\ asking' = TRUE
    /\ UNCHANGED <<rpcVars, round, recent, slides, misses, bound, opened, told,
                   slipped>>

\* The user answers, or never does.
DialogueCloses ==
    /\ asking
    /\ asking' = FALSE
    /\ UNCHANGED <<rpcVars, round, recent, slides, misses, bound, opened, told,
                   slipped>>

\* The user sees that no automatic restart will follow.
Tell == told' = (told \/ proc[attached] = "dead")

\* A deliberate teardown starts no round.
ExitIntentional ==
    /\ ~asking
    /\ events # << >>
    /\ Head(events).kind = "exit" /\ Head(events).intentional
    /\ ConsumeEvent
    /\ UNCHANGED recVars

\* Mutant: no storm guard.
RoundBeginsUnguarded(c) ==
    /\ ~asking
    /\ events # << >>
    /\ Head(events).kind = "exit" /\ ~Head(events).intentional
    /\ round[c].pc = "off"
    /\ round' = [round EXCEPT ![c] = [Off EXCEPT !.pc = "backoff",
                                                 !.attempt = 1]]
    /\ slipped' = ~NoRound
    /\ ConsumeEvent
    /\ UNCHANGED <<recent, slides, misses, bound, opened, told, asking>>

\* A crash starts a round, if the guard's window has room for it.  A round is a
\* task: there is one for every crash that the guard lets through, so that with
\* MaxRecoveries + MaxSlides tasks no event waits for one.
RoundBegins(c) ==
    /\ ~asking
    /\ events # << >>
    /\ Head(events).kind = "exit" /\ ~Head(events).intentional
    /\ recent < MaxRecoveries
    /\ round[c].pc = "off"
    /\ round' = [round EXCEPT ![c] = [Off EXCEPT !.pc = "backoff",
                                                 !.attempt = 1]]
    /\ recent' = recent + 1
    /\ slipped' = ~NoRound
    /\ ConsumeEvent
    /\ UNCHANGED <<slides, misses, bound, opened, told, asking>>

RecoveryPaused ==
    /\ ~asking
    /\ events # << >>
    /\ Head(events).kind = "exit" /\ ~Head(events).intentional
    /\ recent = MaxRecoveries
    /\ Tell
    /\ ConsumeEvent
    /\ UNCHANGED <<round, recent, slides, misses, bound, opened, asking, slipped>>

\* try_begin drops the starts that are older than RECOVERY_WINDOW.
WindowSlides ==
    /\ recent > 0 /\ slides < MaxSlides
    /\ recent' = recent - 1
    /\ slides' = slides + 1
    /\ UNCHANGED <<rpcVars, round, misses, bound, opened, told, asking, slipped>>

-----------------------------------------------------------------------------
(* One attempt: respawn_and_rebind.                                        *)

SetRound(c, r) == round' = [round EXCEPT ![c] = r]

Attempts(c) == IF c \in Brief THEN 1 ELSE MaxAttempts

\* The attempt is over but for publish_bootstrap and the replay.
Finishing(c, restored) ==
    [Off EXCEPT !.pc = "finish", !.attempt = round[c].attempt,
                !.restored = restored]

\* Mutant: one attempt too many.
AttemptFailsOnceMore(c) ==
    IF round[c].attempt <= Attempts(c)
    THEN /\ SetRound(c, [Off EXCEPT !.pc = "backoff",
                                    !.attempt = round[c].attempt + 1])
         /\ UNCHANGED told
    ELSE SetRound(c, Off) /\ Tell

\* Mutant: a failed attempt is not counted, so the round never gives up.
AttemptFailsForever(c) ==
    /\ SetRound(c, [Off EXCEPT !.pc = "backoff", !.attempt = round[c].attempt])
    /\ UNCHANGED told

\* Mutant: the last failed attempt ends the round without the notice.
GivesUpSilently(c) ==
    /\ UNCHANGED told
    /\ IF round[c].attempt < Attempts(c)
       THEN SetRound(c, [Off EXCEPT !.pc = "backoff",
                                    !.attempt = round[c].attempt + 1])
       ELSE SetRound(c, Off)

\* The attempt returned Err: back off and retry, or give up for good.
AttemptFails(c) ==
    IF round[c].attempt < Attempts(c)
    THEN /\ SetRound(c, [Off EXCEPT !.pc = "backoff",
                                    !.attempt = round[c].attempt + 1])
         /\ UNCHANGED told
    ELSE SetRound(c, Off) /\ Tell

\* The back-off ends: the session to return to is read before respawn().
AttemptKills(c) ==
    /\ round[c].pc = "backoff"
    /\ RespawnKill(c)
    /\ SetRound(c, [round[c] EXCEPT !.pc = "respawn", !.saved = bound])
    /\ UNCHANGED <<recent, slides, misses, bound, opened, told, asking, slipped>>

\* respawn() attached a child; its get_state goes out in the same step.
AttemptAttaches(c) ==
    /\ \/ round[c].pc = "backoff" /\ call[c].pc = "idle"
       \/ round[c].pc = "respawn" /\ call[c].pc = "resolved"
    /\ AttachOk(c)
    /\ SetRound(c, [round[c] EXCEPT !.pc = "load", !.req = attached',
                       !.saved = IF round[c].pc = "backoff" THEN bound ELSE @])
    /\ told' = FALSE
    /\ UNCHANGED <<recent, slides, misses, bound, opened, asking, slipped>>

\* respawn() could not start a process.
AttemptSpawnFails(c) ==
    /\ \/ round[c].pc = "backoff" /\ call[c].pc = "idle"
       \/ round[c].pc = "respawn" /\ call[c].pc = "resolved"
    /\ AttachFails(c)
    /\ AttemptFails(c)
    /\ UNCHANGED <<recent, slides, misses, bound, opened, asking, slipped>>

\* The child a round talks to answers get_state with its open session.
LoadAnswered(c) ==
    /\ round[c].pc = "load"
    /\ proc[round[c].req] = "alive"
    /\ SetRound(c, [round[c] EXCEPT !.pc = "loaded",
                                    !.got = opened[round[c].req]])
    /\ UNCHANGED <<rpcVars, recent, slides, misses, bound, opened, told, asking, slipped>>

\* get_state, or one of the requests after it, fails.  The last attempt leaves
\* its child, alive or not, with the session it came up with.
LoadFails(c) ==
    /\ round[c].pc \in {"load", "loaded"}
    /\ AttemptFails(c)
    /\ slipped' = (slipped \/ round[c].attempt >= Attempts(c))
    /\ UNCHANGED <<rpcVars, recent, slides, misses, bound, opened, asking>>

\* Models and commands are in as well: replace_bootstrap, then, if the old
\* session file is still there, switch_session on the attached child.
LoadDone(c) ==
    /\ round[c].pc = "loaded"
    /\ bound' = round[c].got
    /\ \E exists \in BOOLEAN :
          /\ round[c].saved = 0 => exists
          /\ SetRound(c, IF exists
                         THEN [Off EXCEPT !.pc = "switch",
                                          !.attempt = round[c].attempt,
                                          !.saved = round[c].saved,
                                          !.req = attached]
                         ELSE Finishing(c, FALSE))
    /\ UNCHANGED <<rpcVars, recent, slides, misses, opened, told, asking, slipped>>

\* The child opens the session; PiBootstrap::load goes to the attached child.
SwitchAnswered(c) ==
    /\ round[c].pc = "switch"
    /\ proc[round[c].req] = "alive"
    /\ opened' = [opened EXCEPT ![round[c].req] = round[c].saved]
    /\ SetRound(c, [round[c] EXCEPT !.pc = "reload", !.req = attached])
    /\ UNCHANGED <<rpcVars, recent, slides, misses, bound, told, asking, slipped>>

\* The switch was refused, cancelled, or lost with the child: the round goes on
\* without it.
SwitchRefused(c) ==
    /\ round[c].pc = "switch"
    /\ SetRound(c, Finishing(c, FALSE))
    /\ UNCHANGED <<rpcVars, recent, slides, misses, bound, opened, told, asking, slipped>>

\* The deadline passes while the child lives, which opens the session or not.
SwitchUnanswered(c) ==
    /\ round[c].pc = "switch"
    /\ proc[round[c].req] = "alive"
    /\ opened' \in {opened, [opened EXCEPT ![round[c].req] = round[c].saved]}
    /\ slipped' = TRUE
    /\ SetRound(c, Finishing(c, FALSE))
    /\ UNCHANGED <<rpcVars, recent, slides, misses, bound, told, asking>>

\* Pi has switched, and the reload fails: the error ends switch_session() and
\* the adapter keeps the fresh session.
ReloadFails(c) ==
    /\ round[c].pc = "reload"
    /\ SetRound(c, Finishing(c, FALSE))
    /\ slipped' = TRUE
    /\ UNCHANGED <<rpcVars, recent, slides, misses, bound, opened, told, asking>>

\* Mutant: the restored session is not written to the adapter state.
ReloadForgets(c) ==
    /\ round[c].pc = "reload"
    /\ proc[round[c].req] = "alive"
    /\ SetRound(c, Finishing(c, opened[round[c].req] = round[c].saved))
    /\ UNCHANGED <<rpcVars, recent, slides, misses, bound, opened, told, asking, slipped>>

\* The reloaded state must name the expected session.
ReloadAnswered(c) ==
    /\ round[c].pc = "reload"
    /\ proc[round[c].req] = "alive"
    /\ LET same == opened[round[c].req] = round[c].saved
       IN  /\ bound' = IF same THEN round[c].saved ELSE bound
           /\ SetRound(c, Finishing(c, same))
    /\ UNCHANGED <<rpcVars, recent, slides, misses, opened, told, asking, slipped>>

\* publish_bootstrap and the final notification.
RoundEnds(c) ==
    /\ round[c].pc = "finish"
    /\ SetRound(c, Off)
    /\ UNCHANGED <<rpcVars, recent, slides, misses, bound, opened, told, asking, slipped>>

\* replay_subagents failed after the session was restored.
ReplayFails(c) ==
    /\ round[c].pc = "finish"
    /\ round[c].restored
    /\ AttemptFails(c)
    /\ UNCHANGED <<rpcVars, recent, slides, misses, bound, opened, asking, slipped>>

-----------------------------------------------------------------------------
(* The watchdog: only deadlines count, everything else resets the counter. *)

\* The watchdog waits for its kill like any other caller.
Watching == \A k \in Killers : call[k].pc = "idle"

HeartbeatMissed ==
    /\ Watching
    /\ misses < MaxMisses
    /\ misses' = misses + 1
    /\ UNCHANGED <<rpcVars, round, recent, slides, bound, opened, told, asking, slipped>>

HeartbeatReset ==
    /\ Watching
    /\ misses \in 1 .. (MaxMisses - 1)
    /\ misses' = 0
    /\ UNCHANGED <<rpcVars, round, recent, slides, bound, opened, told, asking, slipped>>

\* Enough misses in a row: kill_unresponsive(), not marked intentional.
WatchdogKills(k) ==
    /\ misses = MaxMisses
    /\ misses' = 0
    /\ \/ KillChild(k, FALSE)
       \/ ~ControlOpen /\ UNCHANGED rpcVars
    /\ UNCHANGED <<round, recent, slides, bound, opened, told, asking, slipped>>

-----------------------------------------------------------------------------
RoundStep(c) ==
    \/ AttemptKills(c) \/ AttemptAttaches(c) \/ AttemptSpawnFails(c)
    \/ LoadAnswered(c) \/ LoadFails(c) \/ LoadDone(c)
    \/ SwitchAnswered(c) \/ SwitchRefused(c) \/ SwitchUnanswered(c)
    \/ ReloadAnswered(c) \/ ReloadFails(c)
    \/ RoundEnds(c) \/ ReplayFails(c)

EventStep == \/ ExitIntentional \/ RecoveryPaused
             \/ \E c \in Respawners : RoundBegins(c)

\* A child that dies has no session open any more.
ConnectionStep ==
    /\ ExitStep
    /\ opened' = [g \in Gens |-> IF proc'[g] = "dead" THEN 0 ELSE opened[g]]
    /\ UNCHANGED <<round, recent, slides, misses, bound, told, asking, slipped>>

RecNext ==
    \/ ConnectionStep
    \/ EventStep
    \/ DialogueOpens \/ DialogueCloses
    \/ WindowSlides
    \/ \E c \in Respawners : RoundStep(c)
    \/ HeartbeatMissed \/ HeartbeatReset
    \/ \E k \in Killers : WatchdogKills(k)

\* Every task is polled; the awaits of a round end because respawn() returns
\* and its requests have deadlines; the event loop takes event after event, in
\* their order, whenever the user lets it: a dialogue belongs to an event ahead
\* in the channel, so that the next event is taken if it is free ever again.
\* The user owes no answer.
RecFairness ==
    /\ TaskFairness
    /\ SF_vars(EventStep)
    /\ \A c \in Respawners : WF_vars(RoundStep(c))

RecSafeSpec == RecInit /\ [][RecNext]_vars
RecSpec == RecSafeSpec /\ RecFairness

-----------------------------------------------------------------------------
(* Properties.                                                             *)

ExitQueued == \E i \in 1 .. Len(events) : events[i].kind = "exit"

\* A dead connection is never silent: while the attached child is dead, its
\* exit is still on its way, or a round is at work, or the user has been told
\* that automatic recovery has ended.  Intentional kills count: a round that
\* kills the child of another round owns the replacement.
NeverSilentlyDisconnected ==
    proc[attached] = "dead" =>
        \/ coord[attached] # "done"
        \/ ExitQueued
        \/ ~NoRound
        \/ told

\* When recovery has come to rest with a live child, the adapter is bound to
\* the session that this child has open (replace_bootstrap and switch_session
\* agree with Pi).  Since the last round that began alone, nothing must have
\* slipped: a second round began beside it, a deadline passed on a switch that
\* the child may yet carry out, the reload failed after the switch, or the
\* round gave up on a child it could not load.  Neither a refused switch, nor a
\* missing session file, a failed replay, or any crash or kill is an excuse.
Rested == NoRound /\ ~ExitQueued /\ proc[attached] = "alive"
BoundToOpenSession == Rested /\ ~slipped => bound = opened[attached]

\* The storm guard bounds the damage: no more children are started than the
\* admitted rounds have attempts.
RespawnsBounded ==
    generation <= 1 + MaxAttempts * (MaxRecoveries + slides)

\* A crash ends in a live child or in the notice that recovery has ended, if
\* the event consumer is not left waiting for the user for ever.
CrashIsResolved ==
    []<>~asking =>
        ((proc[attached] = "dead") ~>
            (proc[attached] = "alive" \/ told))

=============================================================================
