--------------------------- MODULE MirrorMachine ---------------------------
(***************************************************************************)
(* Every sequence of calls that the adapter makes on its QueueMirror, with *)
(* Pi's own arrays beside it.  One action per call (or per group of calls  *)
(* a handler makes without an await).  Pi changes its arrays at will; the  *)
(* mirror sees the arrays of an update event, and not of every change,     *)
(* because updates are suppressed while the adapter cancels.               *)
(***************************************************************************)
EXTENDS QueueMirror, FiniteSets

CONSTANTS
    ClientIds,     \* prompt ids minted by the pager
    Texts,         \* prompt texts; different prompts may share one
    MaxArray,      \* bound on the length of each of Pi's arrays
    MaxSeq,        \* bound on generated ids
    MaxVersion     \* bound on edits of a row

ASSUME MirrorBounds == /\ MaxArray \in Nat
                       /\ MaxSeq \in Nat
                       /\ MaxVersion \in Nat

\* An id of the pager is never one that the mirror generates.
ASSUME ClientIdAssumption == \A id \in ClientIds : id \notin Nat

VARIABLES
    m,          \* the mirror
    steering,   \* Pi's steering array (texts)
    followUp    \* Pi's follow-up array (texts)

mirrorVars == <<m, steering, followUp>>

Rows == [id : ClientIds \cup (Nat \ {0}), text : Texts, lane : Lanes,
         origin : Origins, ver : Nat]

MirrorTypeOK ==
    /\ m.local \in Seq(Rows) /\ m.pi \in Seq(Rows)
    /\ m.reserved \in Seq(Rows) /\ m.parked \in Seq(Rows)
    /\ m.running \in Rows \cup {NoRow}
    /\ m.seq \in Nat
    /\ steering \in Seq(Texts) /\ followUp \in Seq(Texts)

MirrorInit == m = EmptyMirror /\ steering = << >> /\ followUp = << >>

Seen == IdsOf(m.local) \cup IdsOf(m.pi) \cup IdsOf(m.reserved)
            \cup IdsOf(m.parked) \cup {m.running.id}
PiUnchanged == UNCHANGED <<steering, followUp>>

\* prompt() while busy; the pager mints a new id for every prompt.
QueueClient(id, text, lane) ==
    /\ id \notin Seen
    /\ m' = EnqueueLocal(m, Row(id, text, lane, "Client"))
    /\ PiUnchanged

\* enqueue_extension_message()
QueueExtension(text, lane) ==
    /\ m.seq < MaxSeq
    /\ m' = EnqueueGenerated(m, text, lane, "Extension")
    /\ PiUnchanged

\* prompt() while idle: the prompt is pinned to the running slot.
RunDirectly(id, text) ==
    /\ m.running = NoRow /\ id \notin Seen
    /\ m' = SetRunningPrimary(m, id, text, "Client")
    /\ PiUnchanged

\* dispatch_next_queued() while idle.
Dispatch ==
    /\ m.running = NoRow /\ m.local # << >>
    /\ m' = SetRunning(PopNextLocal(m), Head(m.local))
    /\ PiUnchanged

\* x.ai/queue/remove
RemoveRow(id, ver) ==
    LET i == LocalIndex(m, id, ver) IN
    /\ i # 0
    /\ m' = TakeLocal(m, i)
    /\ PiUnchanged

\* x.ai/queue/edit
EditRow(id, text) ==
    /\ \E i \in DOMAIN m.local :
           m.local[i].id = id /\ m.local[i].ver < MaxVersion
    /\ m' = EditLocal(m, id, text)
    /\ PiUnchanged

\* x.ai/queue/reorder
ReorderRows(order) == m' = ReorderLocal(m, order) /\ PiUnchanged

\* interject_local_queue() while a turn runs: the row leaves the local queue
\* with a reservation, and Pi puts its text, perhaps rewritten, into an array.
InterjectRow(id, text) ==
    LET i == LocalIndex(m, id, AnyVersion) IN
    /\ i # 0
    /\ Len(steering) < MaxArray
    /\ m' = Reserve(TakeLocal(m, i), [m.local[i] EXCEPT !.lane = "Steering"])
    /\ steering' = Append(steering, text)
    /\ UNCHANGED followUp

\* interject_local_queue() while idle or cancelling puts the row back in front.
InterjectBack(id) ==
    LET i == LocalIndex(m, id, AnyVersion) IN
    /\ i # 0
    /\ m' = PushFrontLocal(TakeLocal(m, i), m.local[i])
    /\ PiUnchanged

\* A steer that Pi refused.
ReleaseRow(id) ==
    /\ HasRow(m.reserved, id)
    /\ m' = ReleaseReservation(m, id)
    /\ PiUnchanged

\* Pi queues a message of its own, delivers a steer, or starts a follow-up.
PiQueues(text) ==
    \/ /\ Len(followUp) < MaxArray
       /\ followUp' = Append(followUp, text)
       /\ UNCHANGED <<m, steering>>
    \/ /\ Len(steering) < MaxArray
       /\ steering' = Append(steering, text)
       /\ UNCHANGED <<m, followUp>>

PiDequeues ==
    \/ steering # << >> /\ steering' = Tail(steering) /\ UNCHANGED <<m, followUp>>
    \/ followUp # << >> /\ followUp' = Tail(followUp) /\ UNCHANGED <<m, steering>>

\* queue_update
Update ==
    /\ m' = ApplyQueueUpdate(m, steering, followUp)
    /\ m'.seq <= MaxSeq
    /\ PiUnchanged

\* agent_start while no prompt is active
TurnStarts ==
    /\ m.running = NoRow
    /\ m' = PromoteParkedRunning(m)
    /\ PiUnchanged

\* agent_settled
TurnSettles == m' = ClearRunning(m) /\ PiUnchanged

\* cancel and adapter_process_exit
DropAll == m' = ClearMirror(ClearRunning(ClearLocal(m))) /\ PiUnchanged

MirrorNext ==
    \/ \E id \in ClientIds, text \in Texts :
           \/ \E lane \in Lanes : QueueClient(id, text, lane)
           \/ RunDirectly(id, text)
    \/ \E text \in Texts, lane \in Lanes : QueueExtension(text, lane)
    \/ Dispatch
    \/ \E id \in IdsOf(m.local) :
           \/ \E ver \in 0 .. MaxVersion : RemoveRow(id, ver)
           \/ \E text \in Texts : EditRow(id, text) \/ InterjectRow(id, text)
           \/ InterjectBack(id)
    \/ \E order \in UNION {[1 .. n -> IdsOf(m.local)] : n \in 1 .. 2} :
           ReorderRows(order)
    \/ \E id \in IdsOf(m.reserved) : ReleaseRow(id)
    \/ \E text \in Texts : PiQueues(text)
    \/ PiDequeues \/ Update \/ TurnStarts \/ TurnSettles \/ DropAll

MirrorSpec == MirrorInit /\ [][MirrorNext]_mirrorVars

-----------------------------------------------------------------------------
(* Properties.                                                             *)

\* An id names one row: no id is in two places of the mirror at once, so the
\* pager never sees a queue row that is also running, and a completion never
\* has two addressees.
IdsAreUnique ==
    LET all == m.local \o m.pi \o m.reserved \o m.parked
                   \o (IF m.running = NoRow THEN << >> ELSE <<m.running>>)
    IN  Distinct(all)

\* After an update the mirrored rows are Pi's arrays, lane by lane and in order.
UpdateMirrorsPi ==
    [][m'.pi # m.pi /\ m'.pi # << >> =>
          /\ Len(m'.pi) = Len(steering) + Len(followUp)
          /\ \A i \in DOMAIN m'.pi :
                IF i <= Len(steering)
                THEN m'.pi[i].lane = "Steering" /\ m'.pi[i].text = steering[i]
                ELSE /\ m'.pi[i].lane = "FollowUp"
                     /\ m'.pi[i].text = followUp[i - Len(steering)]
      ]_mirrorVars

\* A message that Pi still holds keeps its row: if Pi's array holds a text at
\* least as often as the mirror did, every row with that text survives the
\* update under its id, however the other rows come and go.
Occurrences(rows, lane, text) ==
    Cardinality({i \in DOMAIN rows :
                    rows[i].lane = lane /\ rows[i].text = text})
RowsKeepTheirIds ==
    [][\A i \in DOMAIN m.pi :
          (/\ m'.pi # << >>
           /\ Occurrences(m'.pi, m.pi[i].lane, m.pi[i].text)
                >= Occurrences(m.pi, m.pi[i].lane, m.pi[i].text))
          => m.pi[i].id \in IdsOf(m'.pi)]_mirrorVars

\* Nothing steals the running slot: a row leaves it only when the slot is
\* cleared, so its settle finds the row that started the turn.
SlotIsNotStolen ==
    [][m.running # NoRow => m'.running \in {m.running, NoRow}]_mirrorVars

\* A follow-up that Pi starts is never forgotten: until the adapter drops
\* everything, the only follow-up that leaves the mirror is the one whose turn
\* has settled; all others stay a queue row, parked, or running.
PiTurns(q) == {q.pi[i].id : i \in {j \in DOMAIN q.pi : q.pi[j].lane = "FollowUp"}}
                  \cup IdsOf(q.parked) \cup {q.running.id}
StartedTurnsAreKept ==
    [][m' # ClearMirror(m) => PiTurns(m) \ PiTurns(m') \subseteq
                                 IF m'.running = NoRow THEN {m.running.id}
                                 ELSE {NoRow.id}]_mirrorVars

=============================================================================
