---------------------------- MODULE QueueMirror ----------------------------
(***************************************************************************)
(* The adapter's queue of prompts (queue_bridge.rs) as operators on a      *)
(* mirror m, one for each method of QueueMirror:                           *)
(*                                                                         *)
(*   local     rows the adapter holds until it dispatches them             *)
(*   pi        rows of Pi's own steering / follow-up arrays                *)
(*   reserved  rows on their way into Pi's arrays, which keep their id     *)
(*   parked    Pi follow-ups that started while the slot was taken         *)
(*   running   the row that owns the running slot, or NoRow                *)
(*   seq       counter behind generated ids                                *)
(*                                                                         *)
(* A row's execution and display text and its images are one `text`.  The  *)
(* ids a client chooses are arbitrary values that are no numbers, the      *)
(* generated ids ("pi-queue-<n>", "pi-extension-queue-<n>") are n.         *)
(***************************************************************************)
EXTENDS Integers, SequencesExt

NoRow == [id |-> 0, text |-> "none", lane |-> "none", origin |-> "none",
          ver |-> 0]

Lanes == {"Steering", "FollowUp"}
Origins == {"Client", "Extension", "Pi"}

Row(id, text, lane, origin) ==
    [id |-> id, text |-> text, lane |-> lane, origin |-> origin, ver |-> 0]

EmptyMirror == [local |-> << >>, pi |-> << >>, reserved |-> << >>,
                parked |-> << >>, running |-> NoRow, seq |-> 0]

IdsOf(rows) == {rows[i].id : i \in DOMAIN rows}
Distinct(rows) == \A i, j \in DOMAIN rows : rows[i].id = rows[j].id => i = j
HasRow(rows, id) == \E i \in DOMAIN rows : rows[i].id = id

\* Vec::retain: the rows at the given indices, in order.
Retain(rows, indices) ==
    FoldLeftDomain(LAMBDA acc, i : IF i \in indices THEN Append(acc, rows[i])
                                   ELSE acc,
                   << >>, rows)
Without(rows, ids) == Retain(rows, {i \in DOMAIN rows : rows[i].id \notin ids})
InLane(rows, lane) == Retain(rows, {i \in DOMAIN rows : rows[i].lane = lane})

-----------------------------------------------------------------------------
(* Rows the adapter holds.                                                 *)

NextId(m) == m.seq + 1

\* A row with a known id is replaced in place and keeps its version.
EnqueueLocal(m, row) ==
    IF HasRow(m.local, row.id)
    THEN [m EXCEPT !.local = [i \in DOMAIN m.local |->
             IF m.local[i].id = row.id THEN [row EXCEPT !.ver = m.local[i].ver]
                                       ELSE m.local[i]]]
    ELSE [m EXCEPT !.local = Append(m.local, row)]

\* enqueue_local(None, ...): the id is generated.
EnqueueGenerated(m, text, lane, origin) ==
    EnqueueLocal([m EXCEPT !.seq = NextId(m)],
                 Row(NextId(m), text, lane, origin))

\* take_local finds the row by id and, if the caller names one, version.
AnyVersion == -1
LocalIndex(m, id, ver) ==
    SelectInSeq(m.local, LAMBDA e : e.id = id /\ ver \in {AnyVersion, e.ver})
TakeLocal(m, i) == [m EXCEPT !.local = RemoveAt(m.local, i)]

PopNextLocal(m) == [m EXCEPT !.local = Tail(m.local)]

\* Oldest local row in a lane (0 if there is none).
NextLocalInLane(m, lane) == SelectInSeq(m.local, LAMBDA e : e.lane = lane)

PushFrontLocal(m, row) ==
    [m EXCEPT !.local = <<row>> \o Without(m.local, {row.id})]

EditLocal(m, id, text) ==
    [m EXCEPT !.local = [i \in DOMAIN m.local |->
        IF m.local[i].id = id
        THEN [m.local[i] EXCEPT !.text = text, !.ver = @ + 1]
        ELSE m.local[i]]]

\* The row named next moves from the remaining rows to the chosen ones; an
\* unknown id or a repetition is skipped.
ChooseRow(acc, id) ==
    LET i == SelectInSeq(acc.rest, LAMBDA e : e.id = id)
    IN  IF i = 0 THEN acc
        ELSE [chosen |-> Append(acc.chosen, acc.rest[i]),
              rest |-> RemoveAt(acc.rest, i)]

\* The rows named in `order` come first, in that order, and the rows left over
\* keep their order.
ReorderLocal(m, order) ==
    LET acc == FoldLeft(ChooseRow, [chosen |-> << >>, rest |-> m.local], order)
    IN  IF Len(m.local) < 2 THEN m
        ELSE [m EXCEPT !.local = acc.chosen \o acc.rest]

ClearLocal(m) == [m EXCEPT !.local = << >>]

-----------------------------------------------------------------------------
(* Reservations and the running slot.                                      *)

\* A reservation has no version of its own.
Reserve(m, row) ==
    [m EXCEPT !.reserved = Append(Without(m.reserved, {row.id}),
                                  [row EXCEPT !.ver = 0])]

ReleaseReservation(m, id) ==
    [m EXCEPT !.reserved = Without(m.reserved, {id})]

SetRunning(m, row) == [m EXCEPT !.running = row]

SetRunningPrimary(m, id, text, origin) ==
    SetRunning(m, Row(id, text, "FollowUp", origin))

ClearRunning(m) == [m EXCEPT !.reserved = << >>, !.running = NoRow]

ClearMirror(m) == [EmptyMirror EXCEPT !.seq = m.seq]

-----------------------------------------------------------------------------
(* Pi's queue_update.                                                      *)

\* Mutant: a previous row may be matched twice.
MatchRowTwice(acc, text, lane) ==
    LET p == SelectInSeq(acc.prev, LAMBDA e : e.lane = lane /\ e.text = text)
    IN  IF p # 0 THEN [acc EXCEPT !.next = Append(@, acc.prev[p])]
        ELSE [acc EXCEPT !.next = Append(@, Row(acc.seq + 1, text, lane, "Pi")),
                         !.seq = @ + 1]

\* Mutant: only follow-ups are matched with the previous rows.
MatchFollowUpsOnly(acc, text, lane) ==
    LET p == SelectInSeq(acc.prev, LAMBDA e : /\ lane = "FollowUp"
                                              /\ e.lane = lane /\ e.text = text)
    IN  IF p # 0
        THEN [acc EXCEPT !.next = Append(@, acc.prev[p]),
                         !.prev = RemoveAt(@, p)]
        ELSE [acc EXCEPT !.next = Append(@, Row(acc.seq + 1, text, lane, "Pi")),
                         !.seq = @ + 1]

\* One desired row: the first previous row with its lane and text that is not
\* used yet, else a reservation (same lane and text, else same lane), else a
\* new row of Pi's own.
MatchRow(acc, text, lane) ==
    LET p == SelectInSeq(acc.prev, LAMBDA e : e.lane = lane /\ e.text = text)
        exact == SelectInSeq(acc.reserved,
                             LAMBDA e : e.lane = lane /\ e.text = text)
        r == IF exact # 0 THEN exact
             ELSE SelectInSeq(acc.reserved, LAMBDA e : e.lane = lane)
    IN  IF p # 0
        THEN [acc EXCEPT !.next = Append(@, acc.prev[p]),
                         !.prev = RemoveAt(@, p)]
        ELSE IF r # 0
        THEN [acc EXCEPT !.next = Append(@, [acc.reserved[r] EXCEPT
                                                 !.text = text]),
                         !.reserved = RemoveAt(@, r)]
        ELSE [acc EXCEPT !.next = Append(@, Row(acc.seq + 1, text, lane, "Pi")),
                         !.seq = @ + 1]

\* The desired rows, for one of Pi's arrays.
Desired(texts, lane) ==
    [i \in DOMAIN texts |-> [text |-> texts[i], lane |-> lane]]

\* The rows for Pi's arrays, one desired row after the other.
MatchArrays(m, desired) ==
    FoldLeft(LAMBDA acc, d : MatchRow(acc, d.text, d.lane),
             [prev |-> m.pi, next |-> << >>, reserved |-> m.reserved,
              seq |-> m.seq],
             desired)

\* Mutant: the follow-ups are put in front.
UpdateSwapsLanes(m, steering, followUp) ==
    LET acc == MatchArrays(m, Desired(followUp, "FollowUp")
                              \o Desired(steering, "Steering"))
    IN  [m EXCEPT !.pi = acc.next, !.seq = acc.seq, !.reserved = acc.reserved]

\* Mutant: a started follow-up takes the running slot in any case.
UpdateStealsSlot(m, steering, followUp) ==
    LET acc == MatchArrays(m, Desired(steering, "Steering")
                              \o Desired(followUp, "FollowUp"))
        left == InLane(acc.prev, "FollowUp")
    IN  [m EXCEPT !.pi = acc.next, !.seq = acc.seq, !.reserved = acc.reserved,
                  !.running = IF left = << >> THEN @ ELSE Head(left)]

\* Mutant: a follow-up that starts while the slot is taken is not parked.
UpdateForgetsStarted(m, steering, followUp) ==
    LET acc == MatchArrays(m, Desired(steering, "Steering")
                              \o Desired(followUp, "FollowUp"))
        left == InLane(acc.prev, "FollowUp")
    IN  [m EXCEPT !.pi = acc.next, !.seq = acc.seq, !.reserved = acc.reserved,
                  !.running = IF m.running = NoRow /\ left # << >>
                              THEN Head(left) ELSE @]

\* A follow-up that left Pi's arrays has started executing: it takes the
\* running slot if that is free, otherwise it is parked.
ApplyQueueUpdate(m, steering, followUp) ==
    LET acc == MatchArrays(m, Desired(steering, "Steering")
                              \o Desired(followUp, "FollowUp"))
        left == InLane(acc.prev, "FollowUp")
        promote == m.running = NoRow /\ left # << >>
    IN  [m EXCEPT
            !.pi = acc.next,
            !.seq = acc.seq,
            !.reserved = Without(acc.reserved, IdsOf(acc.next)),
            !.running = IF promote THEN Head(left) ELSE @,
            !.parked = @ \o (IF promote THEN Tail(left) ELSE left)]

\* agent_start with a free slot claims the newest parked row that is not in a
\* queue again; the requeued ones it meets on the way are dropped.
PromoteParkedRunning(m) ==
    LET queued == IdsOf(m.pi) \cup IdsOf(m.local)
        i == SelectLastInSeq(m.parked, LAMBDA e : e.id \notin queued)
    IN  IF m.running # NoRow THEN m
        ELSE IF i = 0 THEN [m EXCEPT !.parked = << >>]
        ELSE [m EXCEPT !.running = m.parked[i],
                       !.parked = SubSeq(m.parked, 1, i - 1)]

\* snapshot(): what the pager and the continuation guards see.
SteeringCount(m) ==
    Len(InLane(m.pi \o m.local, "Steering"))
FollowUpCount(m) ==
    Len(m.pi) + Len(m.local) + Len(m.parked) - SteeringCount(m)

=============================================================================
