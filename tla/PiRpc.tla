------------------------------- MODULE PiRpc -------------------------------
(***************************************************************************)
(* The JSONL connection between the adapter and its Pi child process       *)
(* (crates/codegen/pi-grok-adapter/src/pi_rpc.rs).                         *)
(*                                                                         *)
(* Every spawned child has a generation.  A generation owns five tasks and *)
(* pipes of its own: the operating-system process, the writer task that    *)
(* empties the command channel into stdin, the stdout reader, and the exit *)
(* coordinator, which alone waits for the process and fails the requests   *)
(* it leaves behind.  The pending map, the event channel and the current   *)
(* endpoints (writer and child control) are shared by all generations.     *)
(*                                                                         *)
(* Requests, calls and the event loop run on the one thread of the         *)
(* adapter's LocalSet: between the two lock-protected steps of a request   *)
(* only the tasks that attach_child() spawned, and the child, can move.    *)
(*                                                                         *)
(* The child itself is external: it may answer, stay silent or exit.       *)
(***************************************************************************)
EXTENDS Integers, FiniteSets, Sequences

CONSTANTS
    Requests,     \* request ids ("pi-grok-<n>"), each issued at most once
    Unbounded,    \* the requests without a deadline ("bash", "compact")
    Droppable,    \* the requests whose future a caller may drop: those of
                  \* PiBootstrap::load under RESTART_BOOTSTRAP_DEADLINE
    Respawners,   \* tasks that call respawn() (recovery rounds)
    Killers,      \* tasks that call kill() or kill_unresponsive()
    MaxGen        \* bound on the generation counter

ASSUME RequestsAssumption == Unbounded \cup Droppable \subseteq Requests
ASSUME MaxGenAssumption == MaxGen \in Nat \ {0}
ASSUME CallersAssumption == Respawners \cap Killers = {}

Gens == 1 .. MaxGen
Callers == Respawners \cup Killers

VARIABLES
    generation,   \* shared.generation
    attached,     \* generation whose writer and control are in RpcShared
    proc,         \* [Gens -> process state]
    coord,        \* [Gens -> exit coordinator's position]
    intent,       \* [Gens -> ChildExit.intentional]
    stdinOpen,    \* [Gens -> the writer task still receives]
    outbox,       \* [Gens -> commands in the writer channel]
    inbox,        \* [Gens -> commands the child has read and not answered]
    stdout,       \* [Gens -> responses in the pipe, not yet read]
    pending,      \* [Requests -> generation stamp, 0 when not in the map]
    status,       \* [Requests -> what the caller of request() sees]
    target,       \* [Requests -> generation it was written to] (history)
    call,         \* [Callers -> position inside kill_child / respawn]
    events        \* shared event channel, in order

rpcVars == <<generation, attached, proc, coord, intent, stdinOpen, outbox,
             inbox, stdout, pending, status, target, call, events>>

ProcStates == {"unborn", "alive", "dead"}
CoordStates == {"none", "watch", "reap", "drain", "done"}
Resolved == {"ok", "exit", "timeout", "closed"}
Statuses == {"new", "stamped", "waiting", "dropped"} \cup Resolved
ExitEvents == [kind : {"exit"}, intentional : BOOLEAN]
LateEvents == [kind : {"late"}, req : Requests]
CallStates == [pc : {"idle", "await", "resolved"}, gen : 0 .. MaxGen,
               intentional : BOOLEAN]
Idle == [pc |-> "idle", gen |-> 0, intentional |-> FALSE]

TypeOK ==
    /\ generation \in Gens
    /\ attached \in Gens
    /\ proc \in [Gens -> ProcStates]
    /\ coord \in [Gens -> CoordStates]
    /\ intent \in [Gens -> BOOLEAN]
    /\ stdinOpen \in [Gens -> BOOLEAN]
    /\ outbox \in [Gens -> SUBSET Requests]
    /\ inbox \in [Gens -> SUBSET Requests]
    /\ stdout \in [Gens -> SUBSET Requests]
    /\ pending \in [Requests -> 0 .. MaxGen]
    /\ status \in [Requests -> Statuses]
    /\ target \in [Requests -> 0 .. MaxGen]
    /\ call \in [Callers -> CallStates]
    /\ events \in Seq(ExitEvents \cup LateEvents)

(***************************************************************************)
(* spawn(): the first child is attached as generation 1.                   *)
(***************************************************************************)
RpcInit ==
    /\ generation = 1
    /\ attached = 1
    /\ proc = [g \in Gens |-> IF g = 1 THEN "alive" ELSE "unborn"]
    /\ coord = [g \in Gens |-> IF g = 1 THEN "watch" ELSE "none"]
    /\ intent = [g \in Gens |-> FALSE]
    /\ stdinOpen = [g \in Gens |-> g = 1]
    /\ outbox = [g \in Gens |-> {}]
    /\ inbox = [g \in Gens |-> {}]
    /\ stdout = [g \in Gens |-> {}]
    /\ pending = [r \in Requests |-> 0]
    /\ status = [r \in Requests |-> "new"]
    /\ target = [r \in Requests |-> 0]
    /\ call = [c \in Callers |-> Idle]
    /\ events = << >>

-----------------------------------------------------------------------------
(* Requests: request_inner, and the tasks that own the pipes.              *)

\* request_inner: the entry goes into the map with the current generation.
\* The command is not sent yet, and the map's lock is free again.
Request(r) ==
    /\ status[r] = "new"
    /\ pending' = [pending EXCEPT ![r] = generation]
    /\ status' = [status EXCEPT ![r] = "stamped"]
    /\ UNCHANGED <<generation, attached, proc, coord, intent, stdinOpen,
                   outbox, inbox, stdout, target, call, events>>

\* Then the command goes to the current writer.  An exit coordinator may have
\* failed the entry in between: its answer is in the channel that the caller
\* now waits on.  A writer whose task has ended refuses the command, and the
\* entry is removed.
Send(r) ==
    /\ status[r] = "stamped"
    /\ target' = [target EXCEPT ![r] = attached]
    /\ IF stdinOpen[attached]
       THEN /\ outbox' = [outbox EXCEPT ![attached] = @ \cup {r}]
            /\ status' = [status EXCEPT ![r] = IF pending[r] # 0 THEN "waiting"
                                                                 ELSE "exit"]
            /\ UNCHANGED pending
       ELSE /\ pending' = [pending EXCEPT ![r] = 0]
            /\ status' = [status EXCEPT ![r] = "closed"]
            /\ UNCHANGED outbox
    /\ UNCHANGED <<generation, attached, proc, coord, intent, stdinOpen,
                   inbox, stdout, call, events>>

\* Mutant: the timed-out caller leaves its entry behind.
TimeoutLeavesEntry(r) ==
    /\ status[r] = "waiting" /\ r \notin Unbounded
    /\ status' = [status EXCEPT ![r] = "timeout"]
    /\ UNCHANGED <<generation, attached, proc, coord, intent, stdinOpen,
                   outbox, inbox, stdout, pending, target, call, events>>

\* Mutant: every request has a deadline.
TimeoutForAll(r) ==
    /\ status[r] = "waiting"
    /\ pending' = [pending EXCEPT ![r] = 0]
    /\ status' = [status EXCEPT ![r] = "timeout"]
    /\ UNCHANGED <<generation, attached, proc, coord, intent, stdinOpen,
                   outbox, inbox, stdout, target, call, events>>

\* The deadline of request_timeout (or of request_with_deadline) passes first.
RequestTimeout(r) ==
    /\ status[r] = "waiting"
    /\ r \notin Unbounded
    /\ pending' = [pending EXCEPT ![r] = 0]
    /\ status' = [status EXCEPT ![r] = "timeout"]
    /\ UNCHANGED <<generation, attached, proc, coord, intent, stdinOpen,
                   outbox, inbox, stdout, target, call, events>>

\* The caller is dropped at its await, by a deadline around the whole of it:
\* its entry stays in the map.
CallerDropped(r) ==
    /\ status[r] = "waiting"
    /\ r \in Droppable
    /\ status' = [status EXCEPT ![r] = "dropped"]
    /\ UNCHANGED <<generation, attached, proc, coord, intent, stdinOpen,
                   outbox, inbox, stdout, pending, target, call, events>>

\* The writer task writes one command; the first write after the process is
\* gone fails, and the task ends with whatever the channel still holds.
WriterStep(g, r) ==
    /\ r \in outbox[g]
    /\ IF proc[g] = "alive"
       THEN /\ outbox' = [outbox EXCEPT ![g] = @ \ {r}]
            /\ inbox' = [inbox EXCEPT ![g] = @ \cup {r}]
            /\ UNCHANGED stdinOpen
       ELSE /\ outbox' = [outbox EXCEPT ![g] = {}]
            /\ stdinOpen' = [stdinOpen EXCEPT ![g] = FALSE]
            /\ UNCHANGED inbox
    /\ UNCHANGED <<generation, attached, proc, coord, intent, stdout,
                   pending, status, target, call, events>>

\* Mutant: only a response of the newest child completes its request.
ReaderIgnoresOldChild(g, r) ==
    /\ r \in stdout[g]
    /\ stdout' = [stdout EXCEPT ![g] = @ \ {r}]
    /\ IF pending[r] = generation
       THEN /\ pending' = [pending EXCEPT ![r] = 0]
            /\ status' = [status EXCEPT ![r] = "ok"]
            /\ UNCHANGED events
       ELSE /\ events' = Append(events, [kind |-> "late", req |-> r])
            /\ UNCHANGED <<pending, status>>
    /\ UNCHANGED <<generation, attached, proc, coord, intent, stdinOpen,
                   outbox, inbox, target, call>>

\* What an answer makes of a caller: it is resolved when it waits; one whose
\* entry is stamped, or that was dropped, does not see the answer now.
Told(r, outcome) == IF status[r] = "waiting" THEN outcome ELSE status[r]

\* A response line takes the request's entry out of the map, or is forwarded
\* like any other line when there is none.  Death of the child does not empty
\* the pipe, so this may happen after the exit.
ReaderStep(g, r) ==
    /\ r \in stdout[g]
    /\ stdout' = [stdout EXCEPT ![g] = @ \ {r}]
    /\ IF pending[r] # 0
       THEN /\ pending' = [pending EXCEPT ![r] = 0]
            /\ status' = [status EXCEPT ![r] = Told(r, "ok")]
            /\ UNCHANGED events
       ELSE /\ events' = Append(events, [kind |-> "late", req |-> r])
            /\ UNCHANGED <<pending, status>>
    /\ UNCHANGED <<generation, attached, proc, coord, intent, stdinOpen,
                   outbox, inbox, target, call>>

-----------------------------------------------------------------------------
(* The Pi process (external).                                              *)

ChildAnswers(g, r) ==
    /\ proc[g] = "alive"
    /\ r \in inbox[g]
    /\ inbox' = [inbox EXCEPT ![g] = @ \ {r}]
    /\ stdout' = [stdout EXCEPT ![g] = @ \cup {r}]
    /\ UNCHANGED <<generation, attached, proc, coord, intent, stdinOpen,
                   outbox, pending, status, target, call, events>>

\* A crash, a normal exit, or the effect of start_kill().
ChildDies(g) ==
    /\ proc[g] = "alive"
    /\ proc' = [proc EXCEPT ![g] = "dead"]
    /\ inbox' = [inbox EXCEPT ![g] = {}]
    /\ UNCHANGED <<generation, attached, coord, intent, stdinOpen, outbox,
                   stdout, pending, status, target, call, events>>

-----------------------------------------------------------------------------
(* The exit coordinator of generation g.                                   *)

\* What becomes of the kill_child() calls that wait on g once its control
\* receiver is gone: their done channel is answered or dropped, and both
\* end the await.
ReleaseCallers(g) ==
    call' = [c \in Callers |->
                IF call[c].pc = "await" /\ call[c].gen = g
                THEN IF c \in Respawners
                     THEN [pc |-> "resolved", gen |-> g,
                           intentional |-> call[c].intentional]
                     ELSE Idle
                ELSE call[c]]

\* Kill received: start_kill(), then wait().
CoordKill(g, c) ==
    /\ coord[g] = "watch"
    /\ call[c].pc = "await" /\ call[c].gen = g
    /\ coord' = [coord EXCEPT ![g] = "reap"]
    /\ intent' = [intent EXCEPT ![g] = call[c].intentional]
    /\ UNCHANGED <<generation, attached, proc, stdinOpen, outbox, inbox,
                   stdout, pending, status, target, call, events>>

\* Mutant: the exit found by the poll answers nobody.
ReapsSilently(g) ==
    /\ coord[g] \in {"watch", "reap"} /\ proc[g] = "dead"
    /\ coord' = [coord EXCEPT ![g] = "drain"]
    /\ UNCHANGED <<generation, attached, proc, intent, stdinOpen, outbox,
                   inbox, stdout, pending, status, target, call, events>>

\* wait() returns: after a Kill the sender is told; an exit found by the
\* 25 ms poll (or after the control sender was dropped) is not intentional.
CoordReaps(g) ==
    /\ coord[g] \in {"watch", "reap"}
    /\ proc[g] = "dead"
    /\ coord' = [coord EXCEPT ![g] = "drain"]
    /\ ReleaseCallers(g)
    /\ UNCHANGED <<generation, attached, proc, intent, stdinOpen, outbox,
                   inbox, stdout, pending, status, target, events>>

\* The entries of a set of requests are failed: who waits is told.
FailEntries(S) ==
    /\ pending' = [r \in Requests |-> IF r \in S THEN 0 ELSE pending[r]]
    /\ status' = [r \in Requests |->
                     IF r \in S THEN Told(r, "exit") ELSE status[r]]

\* Mutant: the stamps are not looked at.
FailAllPending(g) == FailEntries({r \in Requests : pending[r] # 0})

\* Mutant: only the entries of older generations.
FailOlderPending(g) ==
    FailEntries({r \in Requests : pending[r] # 0 /\ pending[r] < g})

\* fail_pending: every entry stamped with this generation or an older one.
FailPending(g) ==
    FailEntries({r \in Requests : pending[r] # 0 /\ pending[r] <= g})

\* stderr has drained (or two seconds have passed): fail the requests, then
\* announce the exit.  The task ends, and its note of the kill with it.
CoordFinishes(g) ==
    /\ coord[g] = "drain"
    /\ coord' = [coord EXCEPT ![g] = "done"]
    /\ intent' = [intent EXCEPT ![g] = FALSE]
    /\ FailPending(g)
    /\ events' = Append(events, [kind |-> "exit", intentional |-> intent[g]])
    /\ UNCHANGED <<generation, attached, proc, stdinOpen, outbox, inbox,
                   stdout, target, call>>

-----------------------------------------------------------------------------
(* kill_child and respawn.                                                 *)

\* The exit coordinator of the attached child still owns the control
\* receiver, so that a Kill sent now is accepted.
ControlOpen == coord[attached] \in {"watch", "reap"}

\* Mutant: the kill is sent and not waited for.
KillDoesNotWait(c, intentional) ==
    /\ call[c].pc = "idle"
    /\ ControlOpen
    /\ call' = [call EXCEPT ![c] = [pc |-> "resolved", gen |-> attached,
                                    intentional |-> intentional]]
    /\ UNCHANGED <<generation, attached, proc, coord, intent, stdinOpen,
                   outbox, inbox, stdout, pending, status, target, events>>

\* kill_child(), up to its only await.
KillChild(c, intentional) ==
    /\ call[c].pc = "idle"
    /\ ControlOpen
    /\ call' = [call EXCEPT ![c] = [pc |-> "await", gen |-> attached,
                                    intentional |-> intentional]]
    /\ UNCHANGED <<generation, attached, proc, coord, intent, stdinOpen,
                   outbox, inbox, stdout, pending, status, target, events>>

\* kill() and kill_unresponsive(); with the control closed they do nothing.
Kill(c) == \E intentional \in BOOLEAN : KillChild(c, intentional)

\* respawn() begins with kill().await.
RespawnKill(c) == generation < MaxGen /\ KillChild(c, TRUE)

\* The rest of respawn() has no await: it runs when done_rx has resolved, or
\* in one go with the call when the Kill could not be sent.
RespawnMayAttach(c) ==
    /\ generation < MaxGen
    /\ \/ call[c].pc = "resolved"
       \/ call[c].pc = "idle" /\ ~ControlOpen

\* attach_child succeeds: a new process and its tasks, endpoints swapped.
AttachOk(c) ==
    LET g == generation + 1 IN
    /\ RespawnMayAttach(c)
    /\ generation' = g
    /\ attached' = g
    /\ proc' = [proc EXCEPT ![g] = "alive"]
    /\ coord' = [coord EXCEPT ![g] = "watch"]
    /\ stdinOpen' = [stdinOpen EXCEPT ![g] = TRUE]
    /\ call' = [call EXCEPT ![c] = Idle]
    /\ UNCHANGED <<intent, outbox, inbox, stdout, pending, status, target,
                   events>>

\* attach_child fails: the generation stays bumped, the old endpoints stay.
AttachFails(c) ==
    /\ RespawnMayAttach(c)
    /\ generation' = generation + 1
    /\ call' = [call EXCEPT ![c] = Idle]
    /\ UNCHANGED <<attached, proc, coord, intent, stdinOpen, outbox, inbox,
                   stdout, pending, status, target, events>>

-----------------------------------------------------------------------------
\* The adapter's event loop takes the next event.
ConsumeEvent ==
    /\ events # << >>
    /\ events' = Tail(events)
    /\ UNCHANGED <<generation, attached, proc, coord, intent, stdinOpen,
                   outbox, inbox, stdout, pending, status, target, call>>

RequestStep == \E r \in Requests :
                   Request(r) \/ RequestTimeout(r) \/ CallerDropped(r)

SendStep == \E r \in Requests : Send(r)

PipeStep == \E g \in Gens, r \in Requests :
                WriterStep(g, r) \/ ReaderStep(g, r) \/ ChildAnswers(g, r)

ExitStep == \E g \in Gens :
                \/ ChildDies(g)
                \/ \E c \in Callers : CoordKill(g, c)
                \/ CoordReaps(g)
                \/ CoordFinishes(g)

CallStep == \/ \E c \in Killers : Kill(c)
            \/ \E c \in Respawners :
                   RespawnKill(c) \/ AttachOk(c) \/ AttachFails(c)

\* No request is between its two steps, which follow one another without an
\* await: the thread of the requests, calls and events is free.
LocalSetFree == \A r \in Requests : status[r] # "stamped"

RpcNext == \/ LocalSetFree /\ (RequestStep \/ CallStep \/ ConsumeEvent)
           \/ SendStep
           \/ PipeStep
           \/ ExitStep

RpcSafeSpec == RpcInit /\ [][RpcNext]_rpcVars

\* The runtime polls every task that can run.  A child owes nothing, except
\* that it dies once it has been sent SIGKILL.
TaskFairness ==
    /\ WF_rpcVars(SendStep)
    /\ \A g \in Gens, r \in Requests : /\ WF_rpcVars(WriterStep(g, r))
                                       /\ WF_rpcVars(ReaderStep(g, r))
    /\ \A g \in Gens :
           /\ WF_rpcVars(\E c \in Callers : CoordKill(g, c))
           /\ WF_rpcVars(coord[g] = "reap" /\ ChildDies(g))
           /\ WF_rpcVars(CoordReaps(g))
           /\ WF_rpcVars(CoordFinishes(g))

RpcSpec == RpcSafeSpec /\ TaskFairness

-----------------------------------------------------------------------------
(* Properties.                                                             *)

Alive == {g \in Gens : proc[g] = "alive"}

\* Whoever waits has its entry in the pending map, and an entry belongs to a
\* caller that waits, is about to send, or was dropped at its await (nothing
\* removes the entry then but the response or the exit): whichever of
\* response, deadline and exit coordinator comes first, no caller is left
\* without its entry and no entry stays behind a caller that was answered.
\* The stamp lies between the generation the command was written to and the
\* newest one.
PendingMatchesCallers ==
    \A r \in Requests :
        /\ status[r] = "waiting" => pending[r] # 0
        /\ pending[r] # 0 => /\ status[r] \in {"stamped", "waiting", "dropped"}
                             /\ target[r] <= pending[r]
                             /\ pending[r] <= generation

\* fail_pending never reaches a request that the attached child may still
\* answer: a request failed by an exit was written to a child that is dead,
\* or that a later respawn has already replaced.
ExitFailsOnlyLostRequests ==
    \A r \in Requests :
        status[r] = "exit" =>
            proc[target[r]] = "dead" \/ target[r] < attached

\* respawn(): "Defensive teardown so two Pi children can never coexist".  The
\* teardown covers the child that was attached when it began, no later one.
OneChild == \A g, h \in Alive : g = h

\* What the teardown does give: a live child is replaced only by a respawn()
\* that has waited for the end of an older child, while another respawn()
\* attached this one.  A respawn() that overlaps no other never does it, even
\* when the coordinator is reaping, the control is closed, or a spawn failed.
TeardownIsAwaited ==
    [][attached' # attached /\ proc[attached] = "alive" =>
          \E c \in Respawners : /\ call[c].pc = "resolved"
                                /\ call[c].gen < attached
                                /\ call'[c] = Idle]_rpcVars

\* A response is handed on as an event only when its caller has been told
\* something else before: the reader never drops the answer of a caller that
\* still waits, even when it drains the pipe of a dead child.
LateResponsesAreStale ==
    \A i \in 1 .. Len(events) :
        events[i].kind = "late" =>
            status[events[i].req] \in {"exit", "timeout", "dropped"}

\* fail_pending: "Fail every pending request that was issued to child
\* `generation`": nobody waits for ever for a command that was written to a
\* child whose exit coordinator has finished.
AbandonedRequestsFail ==
    \A r \in Requests :
        (status[r] = "waiting" /\ coord[target[r]] = "done")
            ~> (status[r] # "waiting")

\* kill_child() always returns: the coordinator answers or drops the done
\* channel of every Kill it accepted, also of the ones it never reads because
\* the child exited by itself or another Kill came first.
KillReturns ==
    \A c \in Callers : call[c].pc = "await" ~> call[c].pc # "await"

\* Whoever waits, without a deadline too, or is about to send, while the child
\* of its stamp is dead and its coordinator has not finished, is answered.
OutstandingRequestsFail ==
    \A r \in Requests, g \in Gens :
        (/\ status[r] \in {"stamped", "waiting"}
         /\ pending[r] = g
         /\ proc[g] = "dead"
         /\ coord[g] # "done") ~> (status[r] \in Resolved \cup {"dropped"})

(* The abstract service: a child counts as gone when it is dead, was never *)
(* attached because spawning it failed, or has been replaced.              *)
Gone == {g \in Gens : proc[g] = "dead" \/ g < attached}

\* Between its two steps a request has not reached the service.
Served == [r \in Requests |-> IF status[r] = "stamped" THEN "new" ELSE status[r]]

Service == INSTANCE RpcService WITH status <- Served, child <- target,
                                    current <- attached, gone <- Gone

\* The connection implements the service its users rely on, across crashes,
\* failed spawns and overlapping respawns.
ImplementsService == Service!SvcSpec

=============================================================================
