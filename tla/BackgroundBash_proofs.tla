----------------------- MODULE BackgroundBash_proofs -----------------------
(***************************************************************************)
(* Proofs about BackgroundBash: its types, and that no task is ended twice *)
(* for the pager, for any number of processes and tasks.                   *)
(*                                                                         *)
(* TerminalOnce alone is not inductive: nothing in it says that a task     *)
(* whose entry is still open has not been ended yet.  OpenIsUnended says   *)
(* it, about all tasks with the id, because the entry does not know from   *)
(* which process a line comes.                                             *)
(***************************************************************************)
EXTENDS BackgroundBash, TLAPS

\* An id that is not completed in the mirror has never been ended.
OpenIsUnended ==
    \A t \in BashTasks : mirror[t[2]].state # "completed" => ended[t] = 0

BashInv == BashTypeOK /\ OpenIsUnended /\ TerminalOnce

\* What a line looks like, and that reading and writing lines keeps channels
\* sequences of lines.
LEMMA LineType ==
    ASSUME NEW c \in Children
    PROVE  /\ \A kind \in {"started", "status", "message"}, k \in Ids :
                  Line(kind, c, k) \in Lines
           /\ Line("exit", c, 0) \in Lines
  BY DEF Line, Lines

LEMMA ChannelType ==
    ASSUME NEW s \in Seq(Lines)
    PROVE  /\ \A e \in Lines : Append(s, e) \in Seq(Lines)
           /\ s # << >> => Head(s) \in Lines /\ Tail(s) \in Seq(Lines)
  <1>1. \A e \in Lines : Append(s, e) \in Seq(Lines)
    OBVIOUS
  <1>2. s # << >> => Head(s) \in Lines /\ Tail(s) \in Seq(Lines)
    OBVIOUS
  <1> QED BY <1>1, <1>2

\* The initial state satisfies the invariant.
LEMMA InitBash == BashInit => BashInv
  <1> SUFFICES ASSUME BashInit PROVE BashInv
    OBVIOUS
  <1> USE BashAssumption DEF BashInit
  <1>1. BashTypeOK
    <2>1. child \in Children
      BY DEF Children
    <2>2. out \in [Children -> Seq(Lines)] /\ events \in Seq(Lines)
      OBVIOUS
    <2> QED BY <2>1, <2>2 DEF BashTypeOK, Entries, ShellStates, Absent
  <1>2. OpenIsUnended /\ TerminalOnce
    BY DEF OpenIsUnended, TerminalOnce
  <1> QED BY <1>1, <1>2 DEF BashInv

\* The extension writes a line of its own process and leaves the rest alone.
LEMMA WriteType ==
    ASSUME BashTypeOK, NEW kind \in {"started", "status", "message"},
           NEW k \in Ids, Write(kind, k)
    PROVE  out' \in [Children -> Seq(Lines)]
  <1>1. Line(kind, child, k) \in Lines
    BY BashAssumption, LineType DEF BashTypeOK, Ids
  <1>2. Append(out[child], Line(kind, child, k)) \in Seq(Lines)
    BY <1>1, ChannelType DEF BashTypeOK
  <1> QED BY <1>2 DEF Write, BashTypeOK

\* What the extension and the connection do keeps the invariant: they do not
\* touch the mirror, so only types are at stake.
LEMMA PiSteps ==
    ASSUME BashInv,
           \/ \E k \in Ids :
                  \/ \E how \in {"foreground", "background"} : Launch(k, how)
                  \/ Promote(k) \/ ToolEnds(k) \/ ShellEnds(k) \/ Deliver(k)
           \/ PiDies \/ PiRestarts
           \/ \E c \in Children : ReadLine(c) \/ AnnounceExit(c)
           \/ DialogueOpens \/ DialogueCloses
    PROVE  BashInv'
  <1> USE BashAssumption DEF BashInv
  <1>1. UNCHANGED <<mirror, ended>>
    BY DEF Launch, Promote, ToolEnds, ShellEnds, Deliver, PiDies, PiRestarts,
           ReadLine, AnnounceExit, DialogueOpens, DialogueCloses,
           AdapterUnchanged
  <1>2. OpenIsUnended' /\ TerminalOnce'
    BY <1>1 DEF OpenIsUnended, TerminalOnce
  <1>3. BashTypeOK'
    <2>1. ASSUME NEW k \in Ids, NEW how \in {"foreground", "background"},
                 Launch(k, how)
          PROVE  BashTypeOK'
      BY <2>1 DEF Launch, SetShell, AdapterUnchanged, BashTypeOK, ShellStates
    <2>2. ASSUME NEW k \in Ids, Promote(k) PROVE BashTypeOK'
      BY <2>2 DEF Promote, SetShell, AdapterUnchanged, BashTypeOK, ShellStates
    <2>3. ASSUME NEW k \in Ids, ToolEnds(k) PROVE BashTypeOK'
      <3>1. out' \in [Children -> Seq(Lines)]
        BY <2>3, WriteType DEF ToolEnds
      <3>2. <<child, k>> \in BashTasks
        BY DEF BashTypeOK, BashTasks
      <3> QED BY <2>3, <3>1, <3>2 DEF ToolEnds, AdapterUnchanged, BashTypeOK
    <2>4. ASSUME NEW k \in Ids, ShellEnds(k) PROVE BashTypeOK'
      <3>1. out' \in [Children -> Seq(Lines)]
        BY <2>4, WriteType DEF ShellEnds, BashTypeOK
      <3>2. message' \subseteq BashTasks
        BY <2>4 DEF ShellEnds, BashTypeOK, BashTasks
      <3>3. shell' \in [BashTasks -> ShellStates]
        BY <2>4 DEF ShellEnds, SetShell, BashTypeOK, ShellStates
      <3> QED BY <2>4, <3>1, <3>2, <3>3
              DEF ShellEnds, AdapterUnchanged, BashTypeOK
    <2>5. ASSUME NEW k \in Ids, Deliver(k) PROVE BashTypeOK'
      <3>1. out' \in [Children -> Seq(Lines)]
        BY <2>5, WriteType DEF Deliver
      <3> QED BY <2>5, <3>1 DEF Deliver, AdapterUnchanged, BashTypeOK
    <2>6. CASE PiDies
      BY <2>6 DEF PiDies, AdapterUnchanged, BashTypeOK
    <2>7. CASE PiRestarts
      BY <2>7 DEF PiRestarts, AdapterUnchanged, BashTypeOK, Children
    <2>8. ASSUME NEW c \in Children, ReadLine(c) PROVE BashTypeOK'
      <3>1. Head(out[c]) \in Lines /\ Tail(out[c]) \in Seq(Lines)
        BY <2>8, ChannelType DEF ReadLine, BashTypeOK
      <3>2. Append(events, Head(out[c])) \in Seq(Lines)
        BY <3>1, ChannelType DEF BashTypeOK
      <3> QED BY <2>8, <3>1, <3>2 DEF ReadLine, BashTypeOK
    <2>9. ASSUME NEW c \in Children, AnnounceExit(c) PROVE BashTypeOK'
      <3>1. Line("exit", c, 0) \in Lines
        BY LineType
      <3>2. Append(events, Line("exit", c, 0)) \in Seq(Lines)
        BY <3>1, ChannelType DEF BashTypeOK
      <3> QED BY <2>9, <3>2 DEF AnnounceExit, extVars, BashTypeOK
    <2>10. CASE DialogueOpens \/ DialogueCloses
      BY <2>10 DEF DialogueOpens, DialogueCloses, extVars, BashTypeOK
    <2> QED BY <2>1, <2>2, <2>3, <2>4, <2>5, <2>6, <2>7, <2>8, <2>9, <2>10
  <1> QED BY <1>2, <1>3

\* The mirror's part of the invariant.
MirrorPart ==
    /\ mirror \in [Ids -> Entries]
    /\ ended \in [BashTasks -> Nat]
    /\ OpenIsUnended
    /\ TerminalOnce

\* Recording a start: a known id keeps its entry.
LEMMA StartedKeeps ==
    ASSUME MirrorPart, NEW e \in Lines, e.id \in Ids, RecordStarted(e)
    PROVE  MirrorPart'
  BY DEF RecordStarted, MirrorPart, OpenIsUnended, TerminalOnce, Entries,
         Absent, Lines, BashTasks

\* Recording an end: the first one finds every task with that id unended.
LEMMA CompletedKeeps ==
    ASSUME MirrorPart, NEW e \in Lines, e.id \in Ids, RecordCompleted(e)
    PROVE  MirrorPart'
  <1>1. CASE mirror[e.id].state = "completed"
    BY <1>1 DEF RecordCompleted, MirrorPart, OpenIsUnended, TerminalOnce
  <1>2. CASE mirror[e.id].state # "completed"
    <2>1. \A c \in Children : ended[<<c, e.id>>] = 0
      BY <1>2 DEF MirrorPart, OpenIsUnended, BashTasks
    <2>2. mirror' \in [Ids -> Entries]
      BY <1>2 DEF RecordCompleted, MirrorPart, Entries, Absent, Lines
    <2>3. ended' \in [BashTasks -> Nat]
      <3>1. <<e.child, e.id>> \in BashTasks
        BY DEF Lines, BashTasks
      <3>2. ended[<<e.child, e.id>>] + 1 \in Nat
        BY <3>1 DEF MirrorPart
      <3> QED BY <1>2, <3>2 DEF RecordCompleted, MirrorPart
    <2>4. TerminalOnce'
      BY <1>2, <2>1 DEF RecordCompleted, MirrorPart, TerminalOnce, Lines,
                        BashTasks
    <2>5. OpenIsUnended'
      BY <1>2 DEF RecordCompleted, MirrorPart, OpenIsUnended, Lines, BashTasks
    <2> QED BY <2>2, <2>3, <2>4, <2>5 DEF MirrorPart
  <1> QED BY <1>1, <1>2

\* Draining ends each running entry once, for its owner.
LEMMA DrainKeeps ==
    ASSUME MirrorPart, DrainRunning
    PROVE  MirrorPart'
  <1>1. mirror' \in [Ids -> Entries]
    BY DEF DrainRunning, Running, MirrorPart, Entries, Absent
  <1>2. ended' \in [BashTasks -> Nat]
    BY DEF DrainRunning, MirrorPart
  <1>3. \A t \in BashTasks : t[2] \in Running => ended[t] = 0
    BY DEF MirrorPart, OpenIsUnended, Running
  <1>4. TerminalOnce'
    BY <1>3 DEF DrainRunning, MirrorPart, TerminalOnce
  <1>5. OpenIsUnended'
    BY DEF DrainRunning, Running, MirrorPart, OpenIsUnended, BashTasks
  <1> QED BY <1>1, <1>2, <1>4, <1>5 DEF MirrorPart

\* Handling an event keeps the invariant: the mirror's part by the lemmas
\* above, the rest because the event consumer only removes the head.
LEMMA EventStep ==
    ASSUME BashInv, HandleEvent
    PROVE  BashInv'
  <1> DEFINE e == Head(events)
  <1>1. MirrorPart
    BY DEF BashInv, BashTypeOK, MirrorPart
  <1>2. e \in Lines /\ Tail(events) \in Seq(Lines)
    BY ChannelType DEF BashInv, BashTypeOK, HandleEvent
  <1>3. e.kind \in {"started", "status", "message"} => e.id \in Ids
    BY <1>2 DEF Lines
  <1>4. e.child \in Children
    BY <1>2 DEF Lines
  <1>5. MirrorPart'
    <2>1. CASE UNCHANGED <<mirror, ended>>
      BY <1>1, <2>1 DEF MirrorPart, OpenIsUnended, TerminalOnce
    <2>2. CASE e.kind = "started" /\ RecordStarted(e)
      BY <1>1, <1>2, <1>3, <2>2, StartedKeeps
    <2>3. CASE e.kind \in {"status", "message"} /\ RecordCompleted(e)
      BY <1>1, <1>2, <1>3, <2>3, CompletedKeeps
    <2>4. CASE DrainRunning
      BY <1>1, <2>4, DrainKeeps
    <2> QED BY <2>1, <2>2, <2>3, <2>4 DEF HandleEvent
  <1>6. events' \in Seq(Lines)
    BY <1>2 DEF HandleEvent
  <1>7. exit' \in [Children -> {"none", "announced", "handled"}]
    BY <1>4 DEF HandleEvent, BashInv, BashTypeOK
  <1>8. UNCHANGED <<extVars, asking>>
    BY DEF HandleEvent
  <1> QED BY <1>5, <1>6, <1>7, <1>8
          DEF BashInv, BashTypeOK, MirrorPart, extVars

\* BashInv is inductive.
LEMMA StepBash == BashInv /\ [BashNext]_bashVars => BashInv'
  <1> SUFFICES ASSUME BashInv, [BashNext]_bashVars PROVE BashInv'
    OBVIOUS
  <1>1. CASE HandleEvent
    BY <1>1, EventStep
  <1>2. CASE UNCHANGED bashVars
    BY <1>2 DEF bashVars, BashInv, BashTypeOK, OpenIsUnended, TerminalOnce
  <1>3. CASE BashNext /\ ~HandleEvent
    BY <1>3, PiSteps DEF BashNext
  <1> QED BY <1>1, <1>2, <1>3

\* The variables keep their types; in particular every entry of the mirror
\* that is not absent belongs to a process.
THEOREM BashTypeCorrect == BashSafeSpec => []BashTypeOK
  <1>1. BashInv => BashTypeOK
    BY DEF BashInv
  <1> QED BY <1>1, InitBash, StepBash, PTL DEF BashSafeSpec

\* record_background_bash and drain_running_background_bash together forward
\* at most one task_completed per task, whatever the order of status lines,
\* messages, exits and lines of dead processes.
THEOREM EndedOnce == BashSafeSpec => []TerminalOnce
  <1>1. BashInv => TerminalOnce
    BY DEF BashInv
  <1> QED BY <1>1, InitBash, StepBash, PTL DEF BashSafeSpec

=============================================================================
