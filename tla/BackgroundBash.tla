--------------------------- MODULE BackgroundBash ---------------------------
(***************************************************************************)
(* Background Bash tasks: the Pi extension that owns the shells            *)
(* (extensions/pi-grok-bash) and the adapter's mirror of what the pager    *)
(* has been told about them (background_bash_bridge.rs, pi_adapter/tools.rs). *)
(*                                                                         *)
(* The start of a task is read off the tool result.  Its end is reported   *)
(* twice, by a status line that nothing suppresses and by a conversation   *)
(* message that may come much later or never, and a third time by the      *)
(* adapter itself when the Pi process has exited.  A shell may end before  *)
(* its own tool result is out.                                             *)
(*                                                                         *)
(* The adapter's only event consumer also waits, without a timeout, for the *)
(* user's answer to a plan approval dialogue (tools.rs:                    *)
(* request_plan_approval inside handle_tool_start).                        *)
(*                                                                         *)
(* Task ids are ordinals ("bash-1", "bash-2", ...) counted from 1 in every *)
(* Pi process.  The lines the adapter reads do not say which process wrote *)
(* them; here they carry it as history.                                    *)
(***************************************************************************)
EXTENDS Integers, Sequences

CONSTANTS
    MaxChild,    \* bound on Pi processes
    MaxTask      \* bound on the tasks of one process

ASSUME BashAssumption == MaxChild \in Nat \ {0} /\ MaxTask \in Nat

Children == 1 .. MaxChild
Ids == 1 .. MaxTask
BashTasks == Children \X Ids

VARIABLES
    child,        \* the newest Pi process
    up,           \* is it alive
    shell,        \* [BashTasks -> state of the shell]
    reported,     \* tasks whose tool result is out
    message,      \* tasks whose completion message is still to be sent
    out,          \* [Children -> unread lines in the process's stdout]
    exit,         \* [Children -> its adapter_process_exit]
    events,       \* the adapter's event channel
    asking,       \* the event consumer waits for the user's approval
    mirror,       \* background_bash_tasks: [Ids -> state, owning process]
    ended         \* [BashTasks -> task_completed notifications sent] (history)

bashVars == <<child, up, shell, reported, message, out, exit, events,
              asking, mirror, ended>>
extVars == <<child, up, shell, reported, message, out>>

ShellStates == {"none", "foreground", "background", "ended", "finished"}
Lines == [kind : {"started", "status", "message"}, child : Children, id : Ids]
             \cup [kind : {"exit"}, child : Children, id : {0}]
Absent == [state |-> "absent", owner |-> 0]
Entries == {Absent} \cup [state : {"running", "completed"}, owner : Children]

BashTypeOK ==
    /\ child \in Children
    /\ up \in BOOLEAN
    /\ shell \in [BashTasks -> ShellStates]
    /\ reported \subseteq BashTasks
    /\ message \subseteq BashTasks
    /\ out \in [Children -> Seq(Lines)]
    /\ exit \in [Children -> {"none", "announced", "handled"}]
    /\ events \in Seq(Lines)
    /\ asking \in BOOLEAN
    /\ mirror \in [Ids -> Entries]
    /\ ended \in [BashTasks -> Nat]

BashInit ==
    /\ child = 1 /\ up = TRUE
    /\ shell = [t \in BashTasks |-> "none"]
    /\ reported = {} /\ message = {}
    /\ out = [c \in Children |-> << >>]
    /\ exit = [c \in Children |-> "none"]
    /\ events = << >>
    /\ asking = FALSE
    /\ mirror = [k \in Ids |-> Absent]
    /\ ended = [t \in BashTasks |-> 0]

-----------------------------------------------------------------------------
(* The extension, inside the Pi process.                                   *)

Line(kind, c, k) == [kind |-> kind, child |-> c, id |-> k]
Write(kind, k) == out' = [out EXCEPT ![child] = Append(@, Line(kind, child, k))]
Now(k) == shell[<<child, k>>]
SetShell(k, s) == shell' = [shell EXCEPT ![<<child, k>>] = s]
AdapterUnchanged ==
    UNCHANGED <<exit, events, asking, mirror, ended>>

\* startTask: the next ordinal, in the background at once or not.
Launch(k, how) ==
    /\ up /\ Now(k) = "none"
    /\ \A j \in 1 .. (k - 1) : Now(j) # "none"
    /\ SetShell(k, how)
    /\ UNCHANGED <<child, up, reported, message, out>> /\ AdapterUnchanged

\* promote(): the user's request or the timer moves it to the background.
Promote(k) ==
    /\ up /\ Now(k) = "foreground"
    /\ SetShell(k, "background")
    /\ UNCHANGED <<child, up, reported, message, out>> /\ AdapterUnchanged

\* The tool call of a background task returns.
ToolEnds(k) ==
    /\ up /\ Now(k) \in {"background", "ended"}
    /\ <<child, k>> \notin reported
    /\ reported' = reported \cup {<<child, k>>}
    /\ Write("started", k)
    /\ UNCHANGED <<child, up, shell, message>> /\ AdapterUnchanged

\* finishTask: the status line, then the message unless the task was killed.
\* A task that ends in the foreground is an ordinary tool call.
ShellEnds(k) ==
    /\ up
    /\ \/ /\ Now(k) = "background"
          /\ SetShell(k, "ended")
          /\ Write("status", k)
          /\ \E killed \in BOOLEAN :
                message' = IF killed THEN message
                           ELSE message \cup {<<child, k>>}
       \/ /\ Now(k) = "foreground"
          /\ SetShell(k, "finished")
          /\ UNCHANGED <<out, message>>
    /\ UNCHANGED <<child, up, reported>> /\ AdapterUnchanged

\* Pi sends the message at a turn boundary; it may never come to that.
Deliver(k) ==
    /\ up /\ <<child, k>> \in message
    /\ message' = message \ {<<child, k>>}
    /\ Write("message", k)
    /\ UNCHANGED <<child, up, shell, reported>> /\ AdapterUnchanged

\* The process dies with its shells; recovery starts another one, perhaps
\* before the exit of this one is announced.
PiDies ==
    /\ up
    /\ up' = FALSE
    /\ UNCHANGED <<child, shell, reported, message, out>> /\ AdapterUnchanged

PiRestarts ==
    /\ ~up /\ child < MaxChild
    /\ child' = child + 1
    /\ up' = TRUE
    /\ UNCHANGED <<shell, reported, message, out>> /\ AdapterUnchanged

-----------------------------------------------------------------------------
(* The connection: stdout reader and exit coordinator of process c.        *)

Gone(c) == c < child \/ (c = child /\ ~up)

ReadLine(c) ==
    /\ out[c] # << >>
    /\ events' = Append(events, Head(out[c]))
    /\ out' = [out EXCEPT ![c] = Tail(@)]
    /\ UNCHANGED <<child, up, shell, reported, message, exit, asking,
                   mirror, ended>>

AnnounceExit(c) ==
    /\ Gone(c) /\ exit[c] = "none"
    /\ exit' = [exit EXCEPT ![c] = "announced"]
    /\ events' = Append(events, Line("exit", c, 0))
    /\ UNCHANGED <<extVars, asking, mirror, ended>>

-----------------------------------------------------------------------------
(* The adapter's event consumer.                                           *)

\* record_background_bash for a start: a known id keeps its entry.
RecordStarted(e) ==
    /\ mirror' = [mirror EXCEPT ![e.id] =
                     IF @ = Absent THEN [state |-> "running", owner |-> e.child]
                     ELSE @]
    /\ UNCHANGED ended

\* Mutant: every terminal state is forwarded.
RecordEveryEnd(e) ==
    /\ mirror' = [mirror EXCEPT ![e.id] =
                     IF @ = Absent THEN [state |-> "completed", owner |-> e.child]
                     ELSE [@ EXCEPT !.state = "completed"]]
    /\ ended' = [ended EXCEPT ![<<e.child, e.id>>] = @ + 1]

\* Mutant: a task that ended before it was registered has no owner.
RecordWithoutOwner(e) ==
    /\ mirror' = [mirror EXCEPT ![e.id] = [@ EXCEPT !.state = "completed"]]
    /\ ended' = [ended EXCEPT ![<<e.child, e.id>>] = @ + 1]

\* ... for an end: the first one is forwarded, any other is dropped.
RecordCompleted(e) ==
    IF mirror[e.id].state = "completed"
    THEN UNCHANGED <<mirror, ended>>
    ELSE /\ mirror' = [mirror EXCEPT ![e.id] =
                          [state |-> "completed",
                           owner |-> IF @ = Absent THEN e.child ELSE @.owner]]
         /\ ended' = [ended EXCEPT ![<<e.child, e.id>>] = @ + 1]

Running == {k \in Ids : mirror[k].state = "running"}

\* Mutant: the rows of a process that has exited are left alone.
DrainNothing == UNCHANGED <<mirror, ended>>

\* drain_running_background_bash: the adapter ends what still runs.
DrainRunning ==
    /\ mirror' = [k \in Ids |-> IF k \in Running
                                THEN [state |-> "completed",
                                      owner |-> mirror[k].owner]
                                ELSE mirror[k]]
    /\ ended' = [t \in BashTasks |->
                    IF t[2] \in Running /\ mirror[t[2]].owner = t[1]
                    THEN ended[t] + 1 ELSE ended[t]]

\* handle_event: while the adapter cancels, tool results and messages are
\* dropped; the status line is an extension_ui_request and is not.  The user
\* cancels at any time and a settle ends it, so that each event may meet
\* AdapterState.cancelling in either state.
HandleEvent ==
    /\ ~asking
    /\ events # << >>
    /\ events' = Tail(events)
    /\ LET e == Head(events) IN
       \/ /\ e.kind \in {"started", "message"}
          /\ UNCHANGED <<mirror, ended, exit>>
       \/ /\ e.kind = "started"
          /\ RecordStarted(e)
          /\ UNCHANGED exit
       \/ /\ e.kind \in {"message", "status"}
          /\ RecordCompleted(e)
          /\ UNCHANGED exit
       \/ /\ e.kind = "exit"
          /\ DrainRunning
          /\ exit' = [exit EXCEPT ![e.child] = "handled"]
    /\ UNCHANGED <<extVars, asking>>

\* A tool call asks for the plan's approval, and the consumer waits for it.
DialogueOpens ==
    /\ ~asking
    /\ asking' = TRUE
    /\ UNCHANGED <<extVars, exit, events, mirror, ended>>

\* The user answers, or never does.
DialogueCloses ==
    /\ asking
    /\ asking' = FALSE
    /\ UNCHANGED <<extVars, exit, events, mirror, ended>>

-----------------------------------------------------------------------------
BashNext ==
    \/ \E k \in Ids :
           \/ \E how \in {"foreground", "background"} : Launch(k, how)
           \/ Promote(k) \/ ToolEnds(k) \/ ShellEnds(k) \/ Deliver(k)
    \/ PiDies \/ PiRestarts
    \/ \E c \in Children : ReadLine(c) \/ AnnounceExit(c)
    \/ HandleEvent
    \/ DialogueOpens \/ DialogueCloses

BashSafeSpec == BashInit /\ [][BashNext]_bashVars

\* The adapter's tasks are polled; a shell, Pi and the user owe nothing.  The
\* consumer takes event after event in their order: a dialogue belongs to an
\* event ahead in the channel, so that the next one is handled if the consumer
\* is free ever again.
BashSpec ==
    /\ BashSafeSpec
    /\ \A c \in Children : WF_bashVars(ReadLine(c)) /\ WF_bashVars(AnnounceExit(c))
    /\ SF_bashVars(HandleEvent)

-----------------------------------------------------------------------------
(* Properties.                                                             *)

\* "Terminal state arrives on two independent channels ... so only the first
\* one may be forwarded": the pager gets at most one task_completed for a
\* task, also when Pi exits between the two or when lines of a dead process
\* are still read after its exit.
TerminalOnce == \A t \in BashTasks : ended[t] <= 1

\* No other process has used the id of task <<c, k>>.
Sole(c, k) == \A d \in Children \ {c} : shell[<<d, k>>] = "none"

\* "a terminal state is projected exactly once, and ... tasks orphaned by a Pi
\* restart can still be settled": a task that is mirrored as running when its
\* shell has ended or its process is gone is ended for the pager, unless the
\* mirror learnt of it only after that exit, or another process reuses its id,
\* or the event consumer is left waiting for the user for ever.
RunningTasksSettle ==
    []<>~asking =>
        \A c \in Children, k \in Ids :
            (/\ mirror[k] = [state |-> "running", owner |-> c]
             /\ shell[<<c, k>>] = "ended" \/ Gone(c)
             /\ exit[c] # "handled"
             /\ Sole(c, k)) ~> (ended[<<c, k>>] > 0 \/ ~Sole(c, k))

\* "a terminal state is projected exactly once": every background task whose
\* shell has ended is ended for the pager, if its process lives.
EndsAreProjected ==
    \A t \in BashTasks :
        (shell[t] = "ended" /\ ~Gone(t[1])) ~> (ended[t] > 0 \/ Gone(t[1]))

=============================================================================
