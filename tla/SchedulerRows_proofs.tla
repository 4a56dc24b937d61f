------------------------ MODULE SchedulerRows_proofs -------------------------
(***************************************************************************)
(* Proofs about the rows that PromptScheduler keeps in the mirror, about   *)
(* what is told to the pager of them, and about the goal they continue.    *)
(*                                                                         *)
(*   Tallied      the mirror is a good mirror whatever happens (Sound):    *)
(*                its lists hold rows, no id twice, generated ids are not  *)
(*                above its counter, the counter is within its bound, and  *)
(*                the prompts that have not been made have no row;         *)
(*   Unrefreshed  no state is loaded before Pi has announced a change;     *)
(*   Ledger       for each row, the prompt_complete messages that were     *)
(*                sent and those that a task still owes are at most one,   *)
(*                and none for a row that is still held;                   *)
(*   Shown        when Pi has nothing queued, the mirror shows nothing of  *)
(*                Pi's or an unread queue_update is about to say so;       *)
(*   NoDeadlines  without a cancel, no cancel runs out of time;            *)
(*   Pursued      somebody will go on with an active goal: the end of a    *)
(*                turn is ahead, a turn is going on, a continuation is     *)
(*                about to be queued or is queued;                         *)
(*   Accounted    the tasks that hold a continuation are tasks that end    *)
(*                turns, and the host's record is one of its guard's;      *)
(*   Metered      what was queued, what is about to be and what the guard  *)
(*                still lets pass is bounded, and a late record of an      *)
(*                earlier goal gives back at most one window.              *)
(***************************************************************************)
EXTENDS PromptScheduler_proofs, FiniteSetTheorems

-----------------------------------------------------------------------------
(* The books: the mirror, and the prompt_complete messages that were sent. *)

\* The mirror of b is q, and its count of messages is e.
Books(b, q, e) == IsAdapter(b) /\ b.mirror = q /\ b.ended = e

\* What becomes of the mirror m in a step that neither drops everything, nor
\* loads the state, nor brings a prompt of the client or arrays of Pi.
Alters(q, m) ==
    \/ q = m
    \/ \E i \in DOMAIN m.local :
           \/ q = Reserve(TakeLocal(m, i), [m.local[i] EXCEPT !.lane = "Steering"])
           \/ q = PushFrontLocal(TakeLocal(m, i), m.local[i])
    \/ \E ids : q = [m EXCEPT !.local = Without(m.local, ids)]
    \/ /\ m.running = NoRow /\ m.local # << >>
       /\ q = SetRunning(PopNextLocal(m), Head(m.local))
    \/ q = ClearRunning(m)
    \/ \E id : \/ q = ReleaseReservation(m, id)
               \/ q = ClearRunning(ReleaseReservation(m, id))
    \/ q = PromoteParkedRunning(m)
    \/ \E text \in HostTexts, lane \in RowLanes :
           m.seq < MaxSeq /\ q = EnqueueGenerated(m, text, lane, "Extension")

\* The messages after complete_server_turn.
Announced(e, row) ==
    IF row = NoRow \/ row.origin = "Client" THEN e ELSE [e EXCEPT ![row.id] = @ + 1]

\* The end of the turn of `row` is announced (NoRow: of none).
Announces(b, a, row) == \E q : Alters(q, a.mirror) /\ Books(b, q, Announced(a.ended, row))
Files(b, a) == \E q : Alters(q, a.mirror) /\ Books(b, q, a.ended)

\* Pi's arrays come: the steering texts s and the follow-ups f.
Shows(b, a, s, f) ==
    /\ IsSeq(s) /\ IsSeq(f) /\ b.mirror.seq <= MaxSeq
    /\ Books(b, ApplyQueueUpdate(a.mirror, s, f), a.ended)

\* The prompt p comes: it waits, or it has the slot.
Opens(b, a, p, lane) ==
    \/ Books(b, EnqueueLocal(a.mirror, Row(p, p, lane, "Client")), a.ended)
    \/ /\ a.mirror.running = NoRow
       /\ Books(b, SetRunning(a.mirror, Row(p, p, "FollowUp", "Client")), a.ended)

\* Everything is dropped, and the end of the running turn announced.
Drops(b, a) == Books(b, ClearMirror(ClearRunning(ClearLocal(a.mirror))),
                     Announced(a.ended, a.mirror.running))

\* Nothing is written.
LEMMA FilesNothing ==
    ASSUME NEW a, NEW b, Books(b, a.mirror, a.ended)
    PROVE  Files(b, a)
BY DEF Files, Alters

\* Most of the adapter's methods write nothing.
LEMMA StillBooks ==
    ASSUME NEW a, IsAdapter(a)
    PROVE  /\ \A reason : Books(FinishPrompts(a, reason), a.mirror, a.ended)
           /\ \A ids, reason : Books(FinishQueuedEntries(a, ids, reason), a.mirror, a.ended)
           /\ \A id, reason : Books(TakeActivePrompt(a, id, reason), a.mirror, a.ended)
           /\ \A id : Books(ActivateQueuedClient(a, id), a.mirror, a.ended)
           /\ \A x : Books([a EXCEPT !.host = x], a.mirror, a.ended)
           /\ \A id : Books(RecordContinuation(a, id), a.mirror, a.ended)
<1>1. ASSUME NEW reason PROVE Books(FinishPrompts(a, reason), a.mirror, a.ended)
  BY DEF FinishPrompts, Books, IsAdapter, AdapterFields
<1>2. ASSUME NEW ids, NEW reason
      PROVE  Books(FinishQueuedEntries(a, ids, reason), a.mirror, a.ended)
  BY DEF FinishQueuedEntries, Books, IsAdapter, AdapterFields
<1>3. ASSUME NEW id, NEW reason
      PROVE  Books(TakeActivePrompt(a, id, reason), a.mirror, a.ended)
  <2>1. \/ TakeActivePrompt(a, id, reason) = a
        \/ TakeActivePrompt(a, id, reason) =
              [a EXCEPT !.active = @ \ {id}, !.started = @ \ {id}, !.outcome[id] = reason]
    BY DEF TakeActivePrompt
  <2> QED BY <2>1 DEF Books, IsAdapter, AdapterFields
<1>4. ASSUME NEW id PROVE Books(ActivateQueuedClient(a, id), a.mirror, a.ended)
  BY DEF ActivateQueuedClient, Books, IsAdapter, AdapterFields
<1>5. ASSUME NEW x PROVE Books([a EXCEPT !.host = x], a.mirror, a.ended)
  BY DEF Books, IsAdapter, AdapterFields
<1>6. ASSUME NEW id PROVE Books(RecordContinuation(a, id), a.mirror, a.ended)
  <2>1. PICK x : RecordContinuation(a, id) = [a EXCEPT !.host = x]
    <3> DEFINE h == IF a.host.id = id THEN a.host ELSE [NoGoal EXCEPT !.id = id]
               x == [h EXCEPT !.sends = h.sends + 1, !.armed = @ \/ h.sends + 1 >= LoopLimit]
    <3>1. RecordContinuation(a, id) = [a EXCEPT !.host = x]
      BY DEF RecordContinuation
    <3> HIDE DEF x
    <3> QED BY <3>1
  <2> QED BY <1>5, <2>1
<1> QED BY <1>1, <1>2, <1>3, <1>4, <1>5, <1>6

\* complete_server_turn counts a message for the row.
LEMMA CompleteBooks ==
    ASSUME NEW a, IsAdapter(a), NEW row, NEW b, b = CompleteServerTurn(a, row)
    PROVE  Books(b, a.mirror, Announced(a.ended, row))
<1>1. CASE row = NoRow \/ row.origin = "Client"
  BY <1>1 DEF CompleteServerTurn, Books, Announced
<1>2. CASE ~(row = NoRow \/ row.origin = "Client")
  <2>1. b = [a EXCEPT !.ended[row.id] = @ + 1]
    BY <1>2 DEF CompleteServerTurn, SendServerPromptComplete
  <2>2. IsAdapter(b) /\ b.mirror = a.mirror /\ b.ended = [a.ended EXCEPT ![row.id] = @ + 1]
    BY <2>1 DEF IsAdapter, AdapterFields
  <2> QED BY <1>2, <2>2 DEF Books, Announced
<1> QED BY <1>1, <1>2

\* Everything is dropped.
LEMMA DropBooks ==
    ASSUME NEW a, IsAdapter(a), NEW b, b = DropEverything(a)
    PROVE  Drops(b, a)
<1> DEFINE q == ClearMirror(ClearRunning(ClearLocal(a.mirror)))
           gone == IdsOf(a.mirror.local)
           c == [a EXCEPT !.mirror = q]
           reason == "Cancelled"
           d == FinishQueuedEntries(c, gone, reason)
           e == FinishPrompts(d, reason)
           run == a.mirror.running
           f == CompleteServerTurn(e, run)
<1>1. b = f
  BY DEF DropEverything
<1> HIDE DEF q, gone
<1>2. Books(c, q, a.ended)
  BY DEF Books, IsAdapter, AdapterFields
<1> HIDE DEF c, reason
<1>3. Books(d, q, a.ended)
  BY <1>2, StillBooks DEF Books
<1> HIDE DEF d
<1>4. Books(e, q, a.ended)
  BY <1>3, StillBooks DEF Books
<1> HIDE DEF e, run
<1>5. Books(f, q, Announced(a.ended, run))
  BY <1>4, CompleteBooks DEF Books
<1> HIDE DEF f
<1> QED BY <1>1, <1>5 DEF Drops, q, run

\* The state is loaded: the mirror is empty.
LEMMA ReplaceBooks ==
    ASSUME NEW a, IsAdapter(a), NEW b, b = ReplaceBootstrap(a)
    PROVE  Books(b, EmptyMirror, a.ended)
<1> DEFINE reason == "Cancelled"
           w == a.waiting
           c == FinishQueuedEntries(a, w, reason)
           m == EmptyMirror
<1>1. b = [c EXCEPT !.mirror = m, !.agentRunning = FALSE, !.cancelling = FALSE]
  BY DEF ReplaceBootstrap
<1> HIDE DEF reason, w
<1>2. Books(c, a.mirror, a.ended)
  BY StillBooks
<1> HIDE DEF c, m
<1>3. Books(b, m, a.ended)
  BY <1>1, <1>2 DEF Books, IsAdapter, AdapterFields
<1> QED BY <1>3 DEF m

\* dispatch_next_queued: nothing is written, or the first row takes the slot.
LEMMA DispatchBooks ==
    ASSUME NEW o, NEW a, IsAdapter(a), DispatchNextQueued(o, a)
    PROVE  Files(ad', a)
<1>1. CASE AdapterBusy(a) \/ a.mirror.local = << >>
  <2>1. NothingDispatched(o, a)
    BY <1>1 DEF DispatchNextQueued
  <2>2. ad' = a \/ (\E x : ad' = [a EXCEPT !.host = x])
               \/ (\E id : ad' = RecordContinuation(a, id))
    <3>1. CASE MaybeContinueGoal(o, a)
      <4> DEFINE h == ApplyControl(a.host, pi.goal)
                 stops == /\ QueueIsEmpty(a.mirror) /\ pi.goal.status = "active"
                          /\ h.armed
                 x == IF stops THEN NoGoal ELSE h
      <4>1. ad' = IF ~QueueIsEmpty(a.mirror) THEN a ELSE [a EXCEPT !.host = x]
        BY <3>1 DEF MaybeContinueGoal
      <4> HIDE DEF x
      <4> QED BY <4>1
    <3>2. CASE ad' = IF task[o].then = "record"
                     THEN RecordContinuation(a, task[o].goal) ELSE a
      BY <3>2
    <3> QED BY <2>1, <3>1, <3>2 DEF NothingDispatched
  <2>3. Books(a, a.mirror, a.ended)
    BY DEF Books
  <2>4. Books(ad', a.mirror, a.ended)
    BY <2>2, <2>3, StillBooks
  <2> QED BY <2>4, FilesNothing
<1>2. CASE ~(AdapterBusy(a) \/ a.mirror.local = << >>)
  <2> DEFINE row == Head(a.mirror.local)
             id == row.id
             c == ActivateQueuedClient(a, id)
             r == SetRunning(PopNextLocal(a.mirror), row)
  <2>1. /\ a.mirror.local # << >> /\ a.mirror.running = NoRow
        /\ ad' = [c EXCEPT !.agentRunning = TRUE, !.mirror = SetRunning(PopNextLocal(@), row)]
    BY <1>2 DEF DispatchNextQueued, AdapterBusy
  <2>2. Alters(r, a.mirror)
    BY <2>1 DEF Alters
  <2> HIDE DEF id
  <2>3. Books(c, a.mirror, a.ended)
    BY StillBooks
  <2> HIDE DEF c, row
  <2>4. ad' = [c EXCEPT !.agentRunning = TRUE, !.mirror = r]
    BY <2>1, <2>3 DEF Books, IsAdapter, AdapterFields
  <2> HIDE DEF r
  <2>5. Books(ad', r, a.ended)
    BY <2>3, <2>4 DEF Books, IsAdapter, AdapterFields
  <2> QED BY <2>2, <2>5 DEF Files
<1> QED BY <1>1, <1>2

\* A row is steered: it becomes a reservation.
LEMMA SteerBooks ==
    ASSUME NEW o, NEW a, IsAdapter(a), NEW i \in DOMAIN a.mirror.local, Steer(o, a, i)
    PROVE  Files(ad', a)
<1> DEFINE row == a.mirror.local[i]
           id == row.id
           c == ActivateQueuedClient(a, id)
           new == [row EXCEPT !.lane = "Steering"]
           r == Reserve(TakeLocal(a.mirror, i), new)
<1>1. ad' = [c EXCEPT !.mirror = Reserve(TakeLocal(@, i), new)]
  BY DEF Steer
<1>2. Alters(r, a.mirror)
  BY DEF Alters
<1> HIDE DEF row, id, new
<1>3. Books(c, a.mirror, a.ended)
  BY StillBooks
<1> HIDE DEF c
<1>4. ad' = [c EXCEPT !.mirror = r]
  BY <1>1, <1>3 DEF Books, IsAdapter, AdapterFields
<1> HIDE DEF r
<1>5. Books(ad', r, a.ended)
  BY <1>3, <1>4 DEF Books, IsAdapter, AdapterFields
<1> QED BY <1>2, <1>5 DEF Files

\* Other fields, and a mirror that is altered.
LEMMA FieldBooks ==
    ASSUME NEW a, NEW m, NEW e, Books(a, m, e)
    PROVE  /\ \A x : Books([a EXCEPT !.bashRunning = x], m, e)
           /\ \A x : Books([a EXCEPT !.cancelling = x], m, e)
           /\ \A x, y : Books([a EXCEPT !.agentRunning = x, !.cancelling = y], m, e)
           /\ \A q : Books([a EXCEPT !.mirror = q], q, e)
           /\ \A x, q : Books([a EXCEPT !.agentRunning = x, !.mirror = q], q, e)
           /\ \A x, y, q : Books([a EXCEPT !.agentRunning = x, !.cancelling = y,
                                           !.mirror = q], q, e)
           /\ \A x, q : Books([a EXCEPT !.mirror = q, !.continued = x], q, e)
           /\ \A x, y, q : Books([a EXCEPT !.agentRunning = x, !.started = y,
                                           !.mirror = q], q, e)
BY DEF Books, IsAdapter, AdapterFields

\* The slot is cleared.
LEMMA ClearBooks ==
    ASSUME NEW a, IsAdapter(a),
           NEW b, b = [a EXCEPT !.agentRunning = FALSE, !.cancelling = FALSE,
                                !.mirror = ClearRunning(@)]
    PROVE  Books(b, ClearRunning(a.mirror), a.ended) /\ Files(b, a)
<1> DEFINE q == ClearRunning(a.mirror)
<1>1. Alters(q, a.mirror)
  BY DEF Alters
<1> HIDE DEF q
<1>2. [a EXCEPT !.agentRunning = FALSE, !.cancelling = FALSE, !.mirror = ClearRunning(@)]
         = [a EXCEPT !.agentRunning = FALSE, !.cancelling = FALSE, !.mirror = q]
  BY DEF q, IsAdapter, AdapterFields
<1>3. Books(a, a.mirror, a.ended)
  BY DEF Books
<1>4. Books(b, q, a.ended)
  BY <1>2, <1>3, FieldBooks
<1> QED BY <1>1, <1>4 DEF Files, q

\* prompt(): the prompt comes.
LEMMA PromptBooks ==
    ASSUME IsAdapter(ad), NEW p \in Clients, NEW lane, Prompt(p, lane)
    PROVE  Opens(ad', ad, p, lane)
<1> DEFINE q == EnqueueLocal(ad.mirror, Row(p, p, lane, "Client"))
           r == SetRunning(ad.mirror, Row(p, p, "FollowUp", "Client"))
<1>1. \/ ad' = [ad EXCEPT !.mirror = EnqueueLocal(@, Row(p, p, lane, "Client")),
                          !.waiting = @ \cup {p}, !.outcome[p] = "open"]
      \/ /\ ad.mirror.running = NoRow
         /\ ad' = [ad EXCEPT !.mirror = SetRunning(@, Row(p, p, "FollowUp", "Client")),
                             !.agentRunning = TRUE,
                             !.active = @ \cup {p}, !.outcome[p] = "open"]
  BY DEF Prompt, SetRunningPrimary, AdapterBusy
<1>2. \/ ad' = [ad EXCEPT !.mirror = q, !.waiting = @ \cup {p}, !.outcome[p] = "open"]
      \/ /\ ad.mirror.running = NoRow
         /\ ad' = [ad EXCEPT !.mirror = r, !.agentRunning = TRUE,
                             !.active = @ \cup {p}, !.outcome[p] = "open"]
  BY <1>1 DEF IsAdapter, AdapterFields
<1> HIDE DEF q, r
<1>3. \/ Books(ad', q, ad.ended)
      \/ ad.mirror.running = NoRow /\ Books(ad', r, ad.ended)
  BY <1>2 DEF Books, IsAdapter, AdapterFields
<1> QED BY <1>3 DEF Opens, q, r

\* x.ai/queue/interject: the row becomes a reservation, or comes first.
LEMMA InterjectBooks ==
    ASSUME Accounts(ad), NEW p, Interject(p)
    PROVE  Files(ad', ad)
<1> DEFINE i == LocalIndex(ad.mirror, p, AnyVersion)
           r == PushFrontLocal(TakeLocal(ad.mirror, i), ad.mirror.local[i])
<1>0. IsAdapter(ad) /\ ad.mirror.local \in Seq(Held)
  BY DEF Accounts, Queue
<1>1. i # 0 => i \in DOMAIN ad.mirror.local
  BY <1>0, LocalIndexFinds
<1>2. i # 0 /\ (\/ Steer(InterjectTask(p), ad, i)
                \/ ad' = [ad EXCEPT !.mirror = PushFrontLocal(TakeLocal(@, i), @.local[i])])
  BY DEF Interject
<1> HIDE DEF i
<1>3. CASE Steer(InterjectTask(p), ad, i)
  BY <1>0, <1>1, <1>2, <1>3, SteerBooks
<1>4. CASE ad' = [ad EXCEPT !.mirror = PushFrontLocal(TakeLocal(@, i), @.local[i])]
  <2>1. Alters(r, ad.mirror)
    BY <1>1, <1>2 DEF Alters
  <2>2. ad' = [ad EXCEPT !.mirror = r]
    BY <1>0, <1>4 DEF IsAdapter, AdapterFields
  <2>3. Books(ad, ad.mirror, ad.ended)
    BY <1>0 DEF Books
  <2> HIDE DEF r
  <2>4. Books(ad', r, ad.ended)
    BY <2>2, <2>3, FieldBooks
  <2> QED BY <2>1, <2>4 DEF Files
<1> QED BY <1>2, <1>3, <1>4

\* flush_pending_steering steers a row, or nothing.
LEMMA FlushBooks ==
    ASSUME Accounts(ad), FlushPendingSteering(ad)
    PROVE  Files(ad', ad)
<1> DEFINE i == NextLocalInLane(ad.mirror, "Steering")
<1>0. IsAdapter(ad) /\ ad.mirror.local \in Seq(Held)
  BY DEF Accounts, Queue
<1>1. i # 0 => i \in DOMAIN ad.mirror.local
  BY <1>0, LaneIndexFinds
<1>2. ad' = ad \/ (i # 0 /\ Steer(Consumer, ad, i))
  BY DEF FlushPendingSteering
<1>3. Files(ad, ad)
  BY <1>0, FilesNothing DEF Books
<1> HIDE DEF i
<1> QED BY <1>0, <1>1, <1>2, <1>3, SteerBooks

\* x.ai/queue/remove
LEMMA RemoveBooks ==
    ASSUME Accounts(ad), NEW ids, RemoveRows(ids)
    PROVE  Files(ad', ad)
<1> DEFINE c == FinishQueuedEntries(ad, ids, "Cancelled")
           q == [ad.mirror EXCEPT !.local = Without(ad.mirror.local, ids)]
<1>0. IsAdapter(ad) /\ IsMirror(ad.mirror)
  BY DEF Accounts, Queue
<1>1. ad' = [c EXCEPT !.mirror.local = Without(@, ids),
                      !.withdrawn = @ \/ ~(ids \subseteq Clients)]
  BY DEF RemoveRows
<1>2. Books(c, ad.mirror, ad.ended)
  BY <1>0, StillBooks
<1> HIDE DEF c
<1>3. "local" \in DOMAIN ad.mirror
  BY <1>0 DEF IsMirror, Mirror
<1>4. Books(ad', q, ad.ended)
  BY <1>1, <1>2, <1>3 DEF Books, IsAdapter, AdapterFields
<1>5. Alters(q, ad.mirror)
  BY DEF Alters
<1> HIDE DEF q
<1> QED BY <1>4, <1>5 DEF Files

\* A prompt, or a steered row, that Pi refused.
LEMMA RefusedBooks ==
    ASSUME IsAdapter(ad), NEW o, DirectFails(o) \/ SteerFails(o)
    PROVE  Files(ad', ad)
<1>1. CASE DirectFails(o)
  <2> DEFINE c == TakeActivePrompt(ad, o, "Error")
             q == ClearRunning(ReleaseReservation(ad.mirror, o))
  <2>1. ad' = [c EXCEPT !.agentRunning = FALSE,
                        !.mirror = ClearRunning(ReleaseReservation(@, o))]
    BY <1>1 DEF DirectFails
  <2>2. Books(c, ad.mirror, ad.ended)
    BY StillBooks
  <2> HIDE DEF c
  <2>3. ad' = [c EXCEPT !.agentRunning = FALSE, !.mirror = q]
    BY <2>1, <2>2 DEF Books, IsAdapter, AdapterFields
  <2>4. Alters(q, ad.mirror)
    BY DEF Alters
  <2> HIDE DEF q
  <2>5. Books(ad', q, ad.ended)
    BY <2>2, <2>3, FieldBooks
  <2> QED BY <2>4, <2>5 DEF Files
<1>2. CASE SteerFails(o)
  <2> DEFINE id == task[o].row.id
             c == TakeActivePrompt(ad, id, "Cancelled")
             q == ReleaseReservation(ad.mirror, id)
  <2>1. ad' = [c EXCEPT !.mirror = ReleaseReservation(@, id)]
    BY <1>2 DEF SteerFails
  <2>2. Books(c, ad.mirror, ad.ended)
    BY StillBooks
  <2> HIDE DEF c, id
  <2>3. ad' = [c EXCEPT !.mirror = q]
    BY <2>1, <2>2 DEF Books, IsAdapter, AdapterFields
  <2>4. Alters(q, ad.mirror)
    BY DEF Alters
  <2> HIDE DEF q
  <2>5. Books(ad', q, ad.ended)
    BY <2>2, <2>3, FieldBooks
  <2> QED BY <2>4, <2>5 DEF Files
<1> QED BY <1>1, <1>2

\* A dispatched row that Pi refused: the slot is freed, and a message sent to
\* its waiter or to the pager.
LEMMA DispatchFailsBooks ==
    ASSUME IsAdapter(ad), NEW o, DispatchFails(o)
    PROVE  /\ IsAdapter(ad') /\ ad'.mirror = ClearRunning(ad.mirror)
           /\ \/ ad'.ended = ad.ended
              \/ \E id : ad'.ended = [ad.ended EXCEPT ![id] = @ + 1]
<1> DEFINE row == task[o].row
           id == row.id
           c == TakeActivePrompt(ad, id, "Cancelled")
           q == ClearRunning(ad.mirror)
           a == [c EXCEPT !.agentRunning = FALSE, !.mirror = ClearRunning(@)]
<1>1. ad' = a \/ ad' = [a EXCEPT !.ended[id] = @ + 1]
  BY DEF DispatchFails, SendServerPromptComplete
<1>2. Books(c, ad.mirror, ad.ended)
  BY StillBooks
<1> HIDE DEF c, id
<1>3. a = [c EXCEPT !.agentRunning = FALSE, !.mirror = q]
  BY <1>2 DEF Books, IsAdapter, AdapterFields
<1> HIDE DEF a, q
<1>4. Books(a, q, ad.ended)
  BY <1>2, <1>3, FieldBooks
<1>5. CASE ad' = a
  BY <1>4, <1>5 DEF Books, q
<1>6. CASE ad' = [a EXCEPT !.ended[id] = @ + 1]
  <2>1. IsAdapter(ad') /\ ad'.mirror = a.mirror /\ ad'.ended = [a.ended EXCEPT ![id] = @ + 1]
    BY <1>4, <1>6 DEF Books, IsAdapter, AdapterFields
  <2> QED BY <1>4, <2>1 DEF Books, q
<1> QED BY <1>1, <1>5, <1>6

\* The end of a turn is announced, and the next row may be dispatched.
LEMMA TurnEndsBooks ==
    ASSUME IsAdapter(ad), NEW o, TurnEnds(o)
    PROVE  Announces(ad', ad, task[o].row)
<1> DEFINE row == task[o].row
           c == FinishPrompts(ad, "EndTurn")
           a == CompleteServerTurn(c, row)
           e == Announced(ad.ended, row)
<1>1. DispatchNextQueued(o, a) \/ ad' = a
  BY DEF TurnEnds
<1>2. Books(c, ad.mirror, ad.ended)
  BY StillBooks
<1> HIDE DEF c, row
<1>3. Books(a, ad.mirror, e)
  BY <1>2, CompleteBooks DEF Books
<1> HIDE DEF a
<1>4. Files(a, a)
  BY <1>3, FilesNothing DEF Books
<1>5. Files(ad', a)
  BY <1>1, <1>3, <1>4, DispatchBooks DEF Books
<1>6. \E q : Alters(q, ad.mirror) /\ Books(ad', q, e)
  BY <1>3, <1>5 DEF Files, Books
<1> QED BY <1>6 DEF Announces, e, row

\* A row with a generated id comes.
LEMMA GeneratedBooks ==
    ASSUME IsAdapter(ad), NEW text \in HostTexts, NEW lane \in RowLanes, ad.mirror.seq < MaxSeq
    PROVE  /\ Files([ad EXCEPT !.mirror = EnqueueGenerated(@, text, lane, "Extension")], ad)
           /\ \A x : Files([ad EXCEPT !.mirror = EnqueueGenerated(@, text, lane, "Extension"),
                                      !.continued = x], ad)
<1> DEFINE q == EnqueueGenerated(ad.mirror, text, lane, "Extension")
<1>1. Alters(q, ad.mirror)
  BY DEF Alters
<1>2. Books(ad, ad.mirror, ad.ended)
  BY DEF Books
<1>3. /\ [ad EXCEPT !.mirror = EnqueueGenerated(@, text, lane, "Extension")]
            = [ad EXCEPT !.mirror = q]
      /\ \A x : [ad EXCEPT !.mirror = EnqueueGenerated(@, text, lane, "Extension"),
                           !.continued = x]
            = [ad EXCEPT !.mirror = q, !.continued = x]
  BY DEF IsAdapter, AdapterFields
<1> HIDE DEF q
<1>4. /\ Books([ad EXCEPT !.mirror = q], q, ad.ended)
      /\ \A x : Books([ad EXCEPT !.mirror = q, !.continued = x], q, ad.ended)
  BY <1>2, FieldBooks
<1> QED BY <1>1, <1>3, <1>4 DEF Files

\* agent_start: a parked row may take the slot.
LEMMA AgentStartBooks ==
    ASSUME SchedInv, AgentStart
    PROVE  Files(ad', ad)
<1> DEFINE q == IF ad.active = {} THEN PromoteParkedRunning(ad.mirror) ELSE ad.mirror
<1>0. IsAdapter(ad) /\ Books(ad, ad.mirror, ad.ended)
  BY DEF SchedInv, Accounts, Books
<1>1. \/ ad' = ad
      \/ ad' = [ad EXCEPT !.agentRunning = TRUE, !.started = ad.active,
                          !.mirror = IF ad.active = {} THEN PromoteParkedRunning(@) ELSE @]
  BY DEF AgentStart
<1>2. \/ ad' = ad
      \/ ad' = [ad EXCEPT !.agentRunning = TRUE, !.started = ad.active, !.mirror = q]
  BY <1>0, <1>1 DEF IsAdapter, AdapterFields
<1>3. Alters(q, ad.mirror)
  BY DEF Alters
<1> HIDE DEF q
<1>4. Books([ad EXCEPT !.agentRunning = TRUE, !.started = ad.active, !.mirror = q],
            q, ad.ended)
  BY <1>0, FieldBooks
<1> QED BY <1>0, <1>2, <1>3, <1>4, FilesNothing DEF Files

\* queue_update: Pi's rows are matched with its arrays.
LEMMA UpdateBooks ==
    ASSUME SchedInv, QueueUpdate
    PROVE  \/ Files(ad', ad) /\ ad.cancelling
           \/ Shows(ad', ad, Head(events).steering, Head(events).followUp)
<1> DEFINE s == Head(events).steering
           f == Head(events).followUp
           q == ApplyQueueUpdate(ad.mirror, s, f)
<1>0. IsAdapter(ad) /\ Books(ad, ad.mirror, ad.ended)
  BY DEF SchedInv, Accounts, Books
<1>1. /\ NextEvent("queue_update") /\ ad'.mirror.seq <= MaxSeq
      /\ \/ ad' = ad /\ ad.cancelling
         \/ ad' = [ad EXCEPT !.mirror = ApplyQueueUpdate(@, s, f)]
  BY DEF QueueUpdate
<1>2. IsSeq(s) /\ IsSeq(f)
  BY <1>1, NextRead DEF Readable
<1> HIDE DEF s, f
<1>3. (ad' = ad /\ ad.cancelling) \/ ad' = [ad EXCEPT !.mirror = q]
  BY <1>0, <1>1 DEF IsAdapter, AdapterFields
<1>4. \A b : b.mirror.seq <= MaxSeq /\ Books(b, q, ad.ended) => Shows(b, ad, s, f)
  BY <1>2 DEF Shows
<1> HIDE DEF q
<1>5. Books([ad EXCEPT !.mirror = q], q, ad.ended)
  BY <1>0, FieldBooks
<1>6. CASE ad' = [ad EXCEPT !.mirror = q]
  <2>1. Books(ad', q, ad.ended)
    BY <1>5, <1>6
  <2> QED BY <1>1, <1>4, <2>1 DEF s, f
<1> QED BY <1>0, <1>3, <1>6, FilesNothing

\* enqueue_extension_message, or its barrier.
LEMMA ExtensionBooks ==
    ASSUME SchedInv, ExtensionMessage
    PROVE  Files(ad', ad)
<1> DEFINE text == "ext"
           lane == Head(events).lane
           b == [ad EXCEPT !.mirror = EnqueueGenerated(@, text, lane, "Extension")]
<1>0. IsAdapter(ad) /\ Books(ad, ad.mirror, ad.ended)
  BY DEF SchedInv, Accounts, Books
<1>1. /\ NextEvent("extension")
      /\ ad' = ad \/ (ad.mirror.seq < MaxSeq /\ ad' = b)
  BY DEF ExtensionMessage
<1>2. text \in HostTexts /\ lane \in RowLanes
  BY <1>1, NextRead DEF HostTexts, Readable
<1> HIDE DEF text, lane
<1>3. ad.mirror.seq < MaxSeq => Files(b, ad)
  BY <1>0, <1>2, GeneratedBooks
<1> HIDE DEF b
<1> QED BY <1>0, <1>1, <1>3, FilesNothing

\* A continuation of the goal, or its barrier.
LEMMA ContinueBooks ==
    ASSUME IsAdapter(ad), NEW o, ContinueGoal(o)
    PROVE  Files(ad', ad)
<1> DEFINE text == "goal"
           lane == "FollowUp"
           n == ad.continued + 1
           b == [ad EXCEPT !.mirror = EnqueueGenerated(@, text, lane, "Extension"),
                           !.continued = n]
           r == RecordContinuation(ad, task[o].goal)
<1>1. /\ ad.mirror.seq < MaxSeq
      /\ ad' = r \/ ad' = b
  BY DEF ContinueGoal
<1>2. text \in HostTexts /\ lane \in RowLanes
  BY DEF HostTexts, RowLanes, Lanes
<1> HIDE DEF text, lane, n
<1>3. Files(b, ad)
  BY <1>1, <1>2, GeneratedBooks
<1>4. Files(r, ad)
  BY StillBooks, FilesNothing
<1> HIDE DEF b, r
<1> QED BY <1>1, <1>3, <1>4

\* The books after a request of the client.
LEMMA ClientBooks ==
    ASSUME SchedInv, ClientStep
    PROVE  \/ Files(ad', ad)
           \/ Cancel /\ Drops(ad', ad)
           \/ \E p \in Clients, lane \in Lanes :
                  Prompt(p, lane) /\ Opens(ad', ad, p, lane)
<1>0. Accounts(ad) /\ IsAdapter(ad) /\ Books(ad, ad.mirror, ad.ended)
  BY DEF SchedInv, Accounts, Books
<1>1. ASSUME NEW p \in Clients, NEW lane \in Lanes, Prompt(p, lane)
      PROVE  Opens(ad', ad, p, lane)
  BY <1>0, <1>1, PromptBooks
<1>2. CASE Cancel
  <2> DEFINE d == DropEverything(ad)
  <2>1. ad' = [d EXCEPT !.cancelling = TRUE]
    BY <1>2 DEF Cancel
  <2>2. Drops(d, ad)
    BY <1>0, DropBooks
  <2> HIDE DEF d
  <2> QED BY <1>2, <2>1, <2>2, FieldBooks DEF Drops
<1>3. CASE BashStarts
  <2>1. ad' = [ad EXCEPT !.bashRunning = TRUE]
    BY <1>3 DEF BashStarts
  <2>2. Books(ad', ad.mirror, ad.ended)
    BY <1>0, <2>1, FieldBooks
  <2> QED BY <2>2, FilesNothing
<1> QED BY <1>0, <1>1, <1>2, <1>3, InterjectBooks, RemoveBooks DEF ClientStep

\* The books after a step of a task.
LEMMA TaskBooks ==
    ASSUME SchedInv, NEW o, TaskStep(o)
    PROVE  \/ Files(ad', ad)
           \/ TurnEnds(o) /\ Announces(ad', ad, task[o].row)
           \/ DispatchFails(o)
<1>0. Accounts(ad) /\ IsAdapter(ad) /\ Books(ad, ad.mirror, ad.ended)
  BY DEF SchedInv, Accounts, Books
<1>f. Files(ad, ad)
  BY <1>0, FilesNothing
<1>1. CASE UNCHANGED ad
  BY <1>1, <1>f
<1>2. CASE Kick(o)
  BY <1>0, <1>2, DispatchBooks DEF Kick
<1>3. CASE DispatchAccepted(o)
  <2>1. ad' = ad \/ ad' = RecordContinuation(ad, task[o].goal)
    BY <1>3 DEF DispatchAccepted
  <2>2. Books(ad', ad.mirror, ad.ended)
    BY <1>0, <2>1, StillBooks
  <2> QED BY <2>2, FilesNothing
<1>4. CASE SteerAccepted(o)
  <2>1. ad' = ad \/ FlushPendingSteering(ad)
    BY <1>4 DEF SteerAccepted
  <2> QED BY <1>0, <1>f, <2>1, FlushBooks
<1>5. CASE SteerFails(o)
  BY <1>0, <1>5, RefusedBooks
<1>6. CASE ProbeAnswered(o) \/ SettleConfirmed(o)
  <2> DEFINE b == [ad EXCEPT !.agentRunning = FALSE, !.cancelling = FALSE,
                             !.mirror = ClearRunning(@)]
  <2>1. ad' = ad \/ ad' = b
    BY <1>6 DEF ProbeAnswered, SettleConfirmed
  <2>2. Files(b, ad)
    BY <1>0, ClearBooks
  <2> HIDE DEF b
  <2> QED BY <1>f, <2>1, <2>2
<1>7. CASE TurnEnds(o)
  BY <1>0, <1>7, TurnEndsBooks
<1>8. CASE ContinueGoal(o)
  BY <1>0, <1>8, ContinueBooks
<1>9. CASE SettleGivesUp(o)
  <2> DEFINE b == [ad EXCEPT !.cancelling = FALSE]
  <2>1. ad' = ad \/ ad' = b
    BY <1>9 DEF SettleGivesUp
  <2>2. Books(b, ad.mirror, ad.ended)
    BY <1>0 DEF Books, IsAdapter, AdapterFields
  <2>3. Files(b, ad)
    BY <1>0, <2>2, FilesNothing
  <2> HIDE DEF b
  <2> QED BY <1>f, <2>1, <2>3
<1>10. CASE Dispatch(o) \/ SendSteer(o) \/ ProbeWakes(o) \/ SettlePolls(o) \/ SettleAgain(o)
  BY <1>1, <1>10 DEF Dispatch, SendSteer, ProbeWakes, SettlePolls, SettleAgain
<1> QED BY <1>2, <1>3, <1>4, <1>5, <1>6, <1>7, <1>8, <1>9, <1>10 DEF TaskStep

\* The books after a step of the consumer.
LEMMA ConsumerBooks ==
    ASSUME SchedInv, ConsumerStep
    PROVE  \/ Files(ad', ad)
           \/ ProcessExit /\ Drops(ad', ad)
           \/ Reloaded /\ Books(ad', EmptyMirror, ad.ended)
           \/ QueueUpdate /\ \E s, f : Shows(ad', ad, s, f)
<1>0. Accounts(ad) /\ IsAdapter(ad) /\ Books(ad, ad.mirror, ad.ended)
  BY DEF SchedInv, Accounts, Books
<1>f. Files(ad, ad)
  BY <1>0, FilesNothing
<1>1. CASE UNCHANGED ad
  BY <1>1, <1>f
<1>2. CASE SlotIsCleared
  BY <1>0, <1>2, ClearBooks DEF SlotIsCleared
<1>3. CASE MessageEnd
  <2>1. ad' = ad \/ FlushPendingSteering(ad)
    BY <1>3 DEF MessageEnd
  <2> QED BY <1>0, <1>f, <2>1, FlushBooks
<1>4. CASE GoalMessage
  <2> DEFINE h == ApplyControl(ad.host, pi.goal)
  <2>1. ad' = [ad EXCEPT !.host = h]
    BY <1>4 DEF GoalMessage
  <2> HIDE DEF h
  <2>2. Books(ad', ad.mirror, ad.ended)
    BY <1>0, <2>1, StillBooks
  <2> QED BY <2>2, FilesNothing
<1>5. CASE Reloaded
  <2>1. ad' = ad \/ ad' = ReplaceBootstrap(ad)
    BY <1>5 DEF Reloaded
  <2> QED BY <1>0, <1>f, <1>5, <2>1, ReplaceBooks
<1>6. CASE ProcessExit
  <2> DEFINE d == DropEverything(ad)
  <2>1. ad' = [d EXCEPT !.agentRunning = FALSE, !.cancelling = FALSE]
    BY <1>6 DEF ProcessExit
  <2>2. Drops(d, ad)
    BY <1>0, DropBooks
  <2> HIDE DEF d
  <2> QED BY <1>6, <2>1, <2>2, FieldBooks DEF Drops
<1>7. CASE AgentSettled \/ StateChanged
  BY <1>1, <1>7 DEF AgentSettled, StateChanged
<1> QED BY <1>2, <1>3, <1>4, <1>5, <1>6, <1>7, AgentStartBooks, UpdateBooks,
           ExtensionBooks DEF ConsumerStep

\* The books after the other steps.
LEMMA OtherBooks ==
    ASSUME SchedInv, \/ BashEnds \/ Respawn \/ Rebind \/ ContinuationExpires \/ PiStep
                     \/ \E p \in Clients : PromptStep(p)
    PROVE  \/ Files(ad', ad)
           \/ Rebind /\ Books(ad', EmptyMirror, ad.ended)
<1>0. Accounts(ad) /\ IsAdapter(ad) /\ Books(ad, ad.mirror, ad.ended)
  BY DEF SchedInv, Accounts, Books
<1>f. Files(ad, ad)
  BY <1>0, FilesNothing
<1>1. CASE UNCHANGED ad
  BY <1>1, <1>f
<1>2. CASE BashEnds
  <2>1. ad' = [ad EXCEPT !.bashRunning = FALSE]
    BY <1>2 DEF BashEnds
  <2>2. Books(ad', ad.mirror, ad.ended)
    BY <1>0, <2>1, FieldBooks
  <2> QED BY <2>2, FilesNothing
<1>3. CASE Respawn
  BY <1>1, <1>3 DEF Respawn
<1>4. CASE Rebind
  BY <1>0, <1>4, ReplaceBooks DEF Rebind
<1>5. CASE ContinuationExpires
  <2>1. ad' = [ad EXCEPT !.host.sends = @ - 1]
    BY <1>5 DEF ContinuationExpires
  <2>2. Books(ad', ad.mirror, ad.ended)
    BY <1>0, <2>1 DEF Books, IsAdapter, AdapterFields
  <2> QED BY <2>2, FilesNothing
<1>6. CASE PiStep
  <2>1. ad' = ad
    BY <1>6 DEF PiStep, PiReplies, PiAccepts, PiQueuesSteer, PiRefuses, PiAnswers,
         PiStartsTurn, PiQueuesFollowUp, PiEndsMessage, PiContinues, PiSettles,
         PiExtensionMessage, PiStateChanges, PiCrashes, PiSetsGoal, PiEditsGoal, WriteGoal
  <2> QED BY <1>1, <2>1
<1>7. ASSUME NEW p \in Clients, PromptStep(p) PROVE Files(ad', ad)
  <2>1. ASSUME DirectAccepted(p) PROVE Files(ad', ad)
    <3>1. ad' = ad
      BY <2>1 DEF DirectAccepted
    <3> QED BY <1>f, <3>1
  <2>2. CASE DirectFails(p)
    BY <1>0, <2>2, RefusedBooks
  <2> QED BY <1>7, <2>1, <2>2 DEF PromptStep
<1> QED BY <1>2, <1>3, <1>4, <1>5, <1>6, <1>7

-----------------------------------------------------------------------------
(* The mirror of the scheduler is good.                                    *)

\* The rows over the texts T.
RowsOver(T) ==
    {e \in [id : Clients \cup Nat, text : T, lane : RowLanes, origin : Origins,
            ver : Nat] : e.origin = "Client" <=> e.id \in Clients}

\* The mirror is good, whatever texts Pi's arrays have shown.
Sound(m) == \E T : Clients \cup HostTexts \subseteq T /\ GoodMirror(m, RowsOver(T))

\* What a change of the mirror keeps: its ids are old ones or new ones.
Grew(q, m) ==
    /\ Sound(q)
    /\ m.seq <= q.seq
    /\ m.seq <= MaxSeq => q.seq <= MaxSeq
    /\ AllIds(q) \subseteq AllIds(m) \cup Generated(m.seq, q.seq)

\* The rows are closed under what the operations do to them.
LEMMA RowsOverRows ==
    ASSUME NEW T, Clients \cup HostTexts \subseteq T
    PROVE  /\ IsRowSet(RowsOver(T), T)
           /\ NoRow \notin RowsOver(T)
           /\ \A row \in RowsOver(T) : Renewable(row, RowsOver(T))
           /\ \A p \in Clients, lane \in RowLanes :
                  /\ Row(p, p, lane, "Client") \in RowsOver(T)
                  /\ Row(p, p, lane, "Client").id = p
           /\ \A n \in Nat, text \in HostTexts, lane \in RowLanes :
                  /\ Row(n, text, lane, "Extension") \in RowsOver(T)
                  /\ Row(n, text, lane, "Extension").id = n
           /\ \A e \in RowsOver(T) :
                  /\ [[e EXCEPT !.lane = "Steering"] EXCEPT !.ver = 0] \in RowsOver(T)
                  /\ [[e EXCEPT !.lane = "Steering"] EXCEPT !.ver = 0].id = e.id
                  /\ [e EXCEPT !.lane = "Steering"].id = e.id
<1> DEFINE R == RowsOver(T)
<1>1. \A e \in R : e = [id |-> e.id, text |-> e.text, lane |-> e.lane,
                        origin |-> e.origin, ver |-> e.ver]
  BY DEF RowsOver
<1>2. \A e \in R, text \in T : [e EXCEPT !.text = text] \in R
  BY DEF RowsOver
<1>3. \A n \in Nat \ {0}, text \in T, lane \in Lanes : Row(n, text, lane, "Pi") \in R
  BY ClientAssumption DEF RowsOver, Row, Origins, RowLanes
<1>4. NoRow \notin R
  BY DEF RowsOver, NoRow, Origins
<1>5. ASSUME NEW row \in R, NEW e \in R
      PROVE  [row EXCEPT !.ver = e.ver] \in R /\ [row EXCEPT !.ver = e.ver].id = row.id
  BY DEF RowsOver
<1>6. ASSUME NEW p \in Clients, NEW lane \in RowLanes
      PROVE  Row(p, p, lane, "Client") \in R /\ Row(p, p, lane, "Client").id = p
  BY DEF Row, RowsOver, Origins
<1>7. ASSUME NEW n \in Nat, NEW text \in HostTexts, NEW lane \in RowLanes
      PROVE  /\ Row(n, text, lane, "Extension") \in R
             /\ Row(n, text, lane, "Extension").id = n
  BY ClientAssumption DEF Row, RowsOver, Origins
<1>8. ASSUME NEW e \in R
      PROVE  /\ [[e EXCEPT !.lane = "Steering"] EXCEPT !.ver = 0] \in R
             /\ [[e EXCEPT !.lane = "Steering"] EXCEPT !.ver = 0].id = e.id
             /\ [e EXCEPT !.lane = "Steering"].id = e.id
  BY DEF RowsOver, RowLanes, Lanes
<1> HIDE DEF R
<1>9. IsRowSet(R, T)
  BY <1>1, <1>2, <1>3 DEF IsRowSet
<1>10. \A row \in R : Renewable(row, R)
  BY <1>5 DEF Renewable
<1> QED BY <1>4, <1>6, <1>7, <1>8, <1>9, <1>10 DEF R

\* With more texts the rows are still rows.
LEMMA MoreRows ==
    ASSUME NEW S, NEW T, S \subseteq T, NEW m, GoodMirror(m, RowsOver(S))
    PROVE  GoodMirror(m, RowsOver(T))
<1>1. RowsOver(S) \subseteq RowsOver(T)
  BY DEF RowsOver
<1>2. RowsTyped(m, RowsOver(T))
  BY <1>1, SeqMore DEF GoodMirror, RowsTyped
<1> QED BY <1>2 DEF GoodMirror

\* What the lemmas about good mirrors ask for.
LEMMA GoodParts ==
    ASSUME NEW R, NEW m, GoodMirror(m, R)
    PROVE  /\ IsMirror(m) /\ RowsTyped(m, R)
           /\ m.local \in Seq(R) /\ m.pi \in Seq(R)
           /\ m.reserved \in Seq(R) /\ m.parked \in Seq(R)
           /\ m.running \in R \cup {NoRow} /\ m.seq \in Nat
           /\ Distinct(m.local) /\ Distinct(m.pi)
           /\ Distinct(m.reserved) /\ Distinct(m.parked)
BY DEF GoodMirror, RowsTyped, UniqueIds

\* A good mirror whose ids are old ones.
LEMMA GrewLess ==
    ASSUME NEW T, Clients \cup HostTexts \subseteq T, NEW m, NEW q,
           GoodMirror(m, RowsOver(T)), GoodMirror(q, RowsOver(T)),
           q.seq = m.seq, AllIds(q) \subseteq AllIds(m)
    PROVE  Grew(q, m)
<1>1. Sound(q) /\ m.seq \in Nat
  BY DEF Sound, GoodMirror, RowsTyped
<1> QED BY <1>1 DEF Grew

\* The ids of a mirror with given parts.
LEMMA IdsOfParts ==
    ASSUME NEW l, NEW p, NEW r, NEW k, NEW run, NEW s, NEW q,
           q = Mirror(l, p, r, k, run, s)
    PROVE  /\ AllIds(q) = IdsOf(l) \cup IdsOf(p) \cup IdsOf(r) \cup IdsOf(k)
                            \cup (IF run = NoRow THEN {} ELSE {run.id})
           /\ q.seq = s
<1>1. /\ q.local = l /\ q.pi = p /\ q.reserved = r /\ q.parked = k
      /\ q.running = run /\ q.seq = s
  BY MirrorFields
<1> QED BY <1>1 DEF AllIds, Slot

\* Rows of the local queue leave it or change their order.
LEMMA GrewLocal ==
    ASSUME NEW T, Clients \cup HostTexts \subseteq T, NEW m, GoodMirror(m, RowsOver(T)),
           NEW l \in Seq(RowsOver(T)), IdsOf(l) \subseteq IdsOf(m.local), Distinct(l),
           NEW q, q = Mirror(l, m.pi, m.reserved, m.parked, m.running, m.seq)
    PROVE  Grew(q, m)
<1> DEFINE R == RowsOver(T)
<1>1. GoodMirror(q, R)
  <2> HIDE DEF R
  <2> QED BY GoodLocal DEF R
<1>2. AllIds(q) \subseteq AllIds(m) /\ q.seq = m.seq
  BY IdsOfParts DEF AllIds, Slot
<1> QED BY <1>1, <1>2, GrewLess

\* Reservations or parked rows are dropped, the slot is cleared or taken by one
\* of them.
LEMMA GrewDrop ==
    ASSUME NEW T, Clients \cup HostTexts \subseteq T, NEW m, GoodMirror(m, RowsOver(T)),
           NEW r \in Seq(RowsOver(T)), IdsOf(r) \subseteq IdsOf(m.reserved), Distinct(r),
           NEW k \in Seq(RowsOver(T)), IdsOf(k) \subseteq IdsOf(m.parked), Distinct(k),
           NEW run \in RowsOver(T) \cup {NoRow},
           \/ run = NoRow \/ run = m.running
           \/ run.id \in IdsOf(m.parked) /\ run.id \notin IdsOf(k),
           NEW q, q = Mirror(m.local, m.pi, r, k, run, m.seq)
    PROVE  Grew(q, m)
<1> DEFINE R == RowsOver(T)
<1>0. NoRow \notin R
  BY RowsOverRows
<1>1. GoodMirror(q, R)
  <2> HIDE DEF R
  <2> QED BY <1>0, GoodDrop DEF R
<1>2. (IF run = NoRow THEN {} ELSE {run.id}) \subseteq Slot(m) \cup IdsOf(m.parked)
  BY DEF Slot
<1>3. AllIds(q) \subseteq AllIds(m) /\ q.seq = m.seq
  BY <1>2, IdsOfParts DEF AllIds
<1> QED BY <1>1, <1>3, GrewLess

\* A row leaves the local queue for a reservation.
LEMMA GrewReserve ==
    ASSUME NEW T, Clients \cup HostTexts \subseteq T, NEW m, GoodMirror(m, RowsOver(T)),
           NEW i \in DOMAIN m.local,
           NEW q, q = Reserve(TakeLocal(m, i), [m.local[i] EXCEPT !.lane = "Steering"])
    PROVE  Grew(q, m)
<1> DEFINE R == RowsOver(T)
           e == m.local[i]
           l == RemoveAt(m.local, i)
           d == TakeLocal(m, i)
           row == [e EXCEPT !.lane = "Steering"]
           new == [row EXCEPT !.ver = 0]
           w == Without(m.reserved, {row.id})
<1>1. /\ IsMirror(m) /\ m.local \in Seq(R) /\ m.reserved \in Seq(R)
      /\ Distinct(m.local) /\ Distinct(m.reserved)
  BY GoodParts
<1>2. e \in R /\ e.id \in IdsOf(m.local)
  BY <1>1 DEF IdsOf
<1>3. new \in R /\ new.id = e.id /\ row.id = e.id
  BY <1>2, RowsOverRows
<1> HIDE DEF R
<1>4. l \in Seq(R)
  BY <1>1, RemoveAtRow
<1>5. IdsOf(m.local) = {e.id} \cup IdsOf(l) /\ Distinct(l) /\ e.id \notin IdsOf(l)
  BY <1>1, RemoveIds
<1>6. d = Mirror(l, m.pi, m.reserved, m.parked, m.running, m.seq)
  BY <1>1, Operations
<1> HIDE DEF e, l, d, row, new
<1>7. /\ IsMirror(d) /\ d.local = l /\ d.pi = m.pi /\ d.reserved = m.reserved
      /\ d.parked = m.parked /\ d.running = m.running /\ d.seq = m.seq
  BY <1>6, MirrorFields
<1>8. w \in Seq(R) /\ IdsOf(w) = IdsOf(m.reserved) \ {e.id} /\ Distinct(w)
  BY <1>1, <1>3, WithoutIds
<1> DEFINE r == Append(w, new)
<1>9. q = Mirror(l, m.pi, r, m.parked, m.running, m.seq)
  <2>1. q = Reserve(d, row)
    BY DEF d, row, e
  <2>2. Reserve(d, row) = Mirror(d.local, d.pi, Append(Without(d.reserved, {row.id}),
                                 [row EXCEPT !.ver = 0]), d.parked, d.running, d.seq)
    BY <1>7, Operations
  <2> QED BY <1>7, <2>1, <2>2 DEF new
<1> HIDE DEF w
<1>10. /\ r \in Seq(R) /\ Distinct(r) /\ IdsOf(r) \subseteq IdsOf(m.reserved) \cup {e.id}
  <2>1. new.id \notin IdsOf(w)
    BY <1>3, <1>8
  <2>2. /\ r \in Seq(R) /\ Distinct(r) /\ IdsOf(r) = IdsOf(w) \cup {new.id}
    BY <1>3, <1>8, <2>1, AppendIds
  <2> QED BY <1>3, <1>8, <2>2
<1> HIDE DEF r
<1>11. GoodMirror(q, R)
  <2>1. IdsOf(l) \subseteq IdsOf(m.local) \ {e.id}
    BY <1>5
  <2>2. GoodMirror(m, R)
    BY DEF R
  <2>3. e.id \in IdsOf(m.local)
    BY <1>2
  <2> DEFINE x == e.id
  <2> HIDE DEF x
  <2> QED BY <1>4, <1>5, <1>9, <1>10, <2>1, <2>2, <2>3, GoodReserve DEF x
<1>12. AllIds(q) \subseteq AllIds(m) /\ q.seq = m.seq
  BY <1>2, <1>5, <1>9, <1>10, IdsOfParts DEF AllIds, Slot
<1> QED BY <1>11, <1>12, GrewLess DEF R

\* A row returns to the front of the local queue.
LEMMA GrewFront ==
    ASSUME NEW T, Clients \cup HostTexts \subseteq T, NEW m, GoodMirror(m, RowsOver(T)),
           NEW i \in DOMAIN m.local,
           NEW q, q = PushFrontLocal(TakeLocal(m, i), m.local[i])
    PROVE  Grew(q, m)
<1> DEFINE R == RowsOver(T)
           e == m.local[i]
           k == RemoveAt(m.local, i)
           d == TakeLocal(m, i)
<1>1. IsMirror(m) /\ m.local \in Seq(R) /\ Distinct(m.local)
  BY GoodParts
<1>2. e \in R /\ e.id \in IdsOf(m.local)
  BY <1>1 DEF IdsOf
<1> HIDE DEF R
<1>4. k \in Seq(R)
  BY <1>1, RemoveAtRow
<1>5. IdsOf(m.local) = {e.id} \cup IdsOf(k) /\ Distinct(k)
  BY <1>1, RemoveIds
<1>6. d = Mirror(k, m.pi, m.reserved, m.parked, m.running, m.seq)
  BY <1>1, Operations
<1>7. q = PushFrontLocal(d, e)
  OBVIOUS
<1> HIDE DEF e, k, d
<1>8. /\ IsMirror(d) /\ d.local = k /\ d.pi = m.pi /\ d.reserved = m.reserved
      /\ d.parked = m.parked /\ d.running = m.running /\ d.seq = m.seq
  BY <1>6, MirrorFields
<1>9. PICK l \in Seq(R) :
          /\ q = Mirror(l, m.pi, m.reserved, m.parked, m.running, m.seq)
          /\ IdsOf(l) = IdsOf(k) \cup {e.id}
          /\ Distinct(k) => Distinct(l)
  BY <1>2, <1>4, <1>7, <1>8, PushFrontIds
<1>10. IdsOf(l) \subseteq IdsOf(m.local) /\ Distinct(l) /\ l \in Seq(RowsOver(T))
  BY <1>5, <1>9 DEF R
<1> QED BY <1>9, <1>10, GrewLocal

\* The first row takes the free slot.
LEMMA GrewPop ==
    ASSUME NEW T, Clients \cup HostTexts \subseteq T, NEW m, GoodMirror(m, RowsOver(T)),
           m.running = NoRow, m.local # << >>,
           NEW q, q = SetRunning(PopNextLocal(m), Head(m.local))
    PROVE  Grew(q, m)
<1> DEFINE R == RowsOver(T)
           row == Head(m.local)
           l == Tail(m.local)
           n == PopNextLocal(m)
<1>0. NoRow \notin R
  BY RowsOverRows
<1>1. IsMirror(m) /\ m.local \in Seq(R) /\ Distinct(m.local)
  BY GoodParts
<1> HIDE DEF R
<1>3. /\ l \in Seq(R) /\ row \in R /\ row.id \in IdsOf(m.local)
      /\ IdsOf(l) \subseteq IdsOf(m.local) /\ Distinct(l) /\ row.id \notin IdsOf(l)
  BY <1>1, TailIds
<1>4. n = Mirror(l, m.pi, m.reserved, m.parked, m.running, m.seq)
  BY <1>1, Operations
<1>5. q = SetRunning(n, row)
  OBVIOUS
<1> HIDE DEF l, row, n
<1>6. /\ IsMirror(n) /\ n.local = l /\ n.pi = m.pi /\ n.reserved = m.reserved
      /\ n.parked = m.parked /\ n.seq = m.seq
  BY <1>4, MirrorFields
<1>7. q = Mirror(l, m.pi, m.reserved, m.parked, row, m.seq)
  BY <1>5, <1>6, Operations
<1>8. GoodMirror(m, R)
  BY DEF R
<1>9. GoodMirror(q, R)
  BY <1>0, <1>3, <1>7, <1>8, GoodRun
<1>10. AllIds(q) \subseteq AllIds(m) /\ q.seq = m.seq
  BY <1>3, <1>7, IdsOfParts DEF AllIds
<1> QED BY <1>9, <1>10, GrewLess DEF R

\* A generated row is queued.
LEMMA GrewGenerated ==
    ASSUME NEW T, Clients \cup HostTexts \subseteq T, NEW m, GoodMirror(m, RowsOver(T)),
           m.seq < MaxSeq, NEW text \in HostTexts, NEW lane \in RowLanes,
           NEW q, q = EnqueueGenerated(m, text, lane, "Extension")
    PROVE  Grew(q, m)
<1> DEFINE R == RowsOver(T)
           n == m.seq + 1
           row == Row(n, text, lane, "Extension")
           x == [m EXCEPT !.seq = n]
<1>1. IsMirror(m) /\ m.local \in Seq(R) /\ Distinct(m.local) /\ m.seq \in Nat
  BY GoodParts
<1>0. n \in Nat /\ n >= m.seq /\ ~(n <= m.seq) /\ n <= n /\ m.seq < n /\ n <= MaxSeq
  <2>1. MaxSeq \in Nat
    BY SchedulerBounds
  <2> QED BY <1>1, <2>1
<1>2. row \in R /\ row.id = n /\ Renewable(row, R)
  <2>1. row \in R /\ row.id = n
    BY <1>0, RowsOverRows
  <2> QED BY <2>1, RowsOverRows
<1>3. q = EnqueueLocal(x, row)
  BY DEF EnqueueGenerated, NextId
<1>4. GoodMirror(m, R)
  OBVIOUS
<1>5. n \notin AllIds(m)
  BY <1>0, <1>4 DEF GoodMirror, Behind
<1> HIDE DEF R, n, row
<1>6. /\ IsMirror(x) /\ x.local = m.local /\ x.pi = m.pi
      /\ x.reserved = m.reserved /\ x.parked = m.parked
      /\ x.running = m.running /\ x.seq = n
  BY <1>1, NumberedFields
<1> HIDE DEF x
<1>7. PICK l \in Seq(R) :
          /\ EnqueueLocal(x, row)
               = Mirror(l, x.pi, x.reserved, x.parked, x.running, x.seq)
          /\ IdsOf(l) = IdsOf(x.local) \cup {row.id}
          /\ Distinct(x.local) => Distinct(l)
  BY <1>1, <1>2, <1>6, EnqueueLocalIds
<1>8. /\ q = Mirror(l, m.pi, m.reserved, m.parked, m.running, n)
      /\ IdsOf(l) = IdsOf(m.local) \cup {n} /\ Distinct(l)
  BY <1>1, <1>2, <1>3, <1>6, <1>7
<1>9. GoodMirror(q, R)
  BY <1>0, <1>4, <1>5, <1>8, GoodNew
<1>10. AllIds(q) \subseteq AllIds(m) \cup {n} /\ q.seq = n
  BY <1>8, IdsOfParts DEF AllIds, Slot
<1>11. n \in Generated(m.seq, q.seq)
  BY <1>0, <1>10 DEF Generated
<1>12. Sound(q)
  BY <1>9 DEF Sound, R
<1> QED BY <1>0, <1>10, <1>11, <1>12 DEF Grew

\* A queue_update: Pi's arrays may show texts that are new.
LEMMA GrewUpdate ==
    ASSUME NEW T, Clients \cup HostTexts \subseteq T, NEW m, GoodMirror(m, RowsOver(T)),
           NEW s, IsSeq(s), NEW f, IsSeq(f),
           NEW q, q = ApplyQueueUpdate(m, s, f), q.seq <= MaxSeq
    PROVE  Grew(q, m)
<1>1. PICK S : s \in Seq(S)
  BY DEF IsSeq
<1>2. PICK F : f \in Seq(F)
  BY DEF IsSeq
<1> DEFINE U == T \cup S \cup F
           R == RowsOver(U)
           acc == UpdateAcc(m, s, f)
           left == Left(m, s, f)
<1>3. s \in Seq(U) /\ f \in Seq(U)
  BY <1>1, <1>2, SeqMore
<1>4. GoodMirror(m, R)
  BY MoreRows
<1>5. Clients \cup HostTexts \subseteq U
  OBVIOUS
<1> HIDE DEF U
<1>6. IsRowSet(R, U) /\ NoRow \notin R
  BY <1>5, RowsOverRows
<1> HIDE DEF R
<1>7. GoodMirror(q, R)
  BY <1>3, <1>4, <1>6, UpdateGood
<1>8. IsAcc(acc, R) /\ Owned(acc, m)
  BY <1>3, <1>4, <1>6, UpdateLoop DEF Loop
<1>9. RowsTyped(m, R) /\ IsMirror(m)
  BY <1>4, GoodParts
<1>10. /\ q.local = m.local /\ q.pi = acc.next /\ q.seq = acc.seq
       /\ q.reserved = Without(acc.reserved, IdsOf(acc.next))
  BY <1>9, UpdateParts, MirrorFields
<1>11. IdsOf(q.parked) \cup Slot(q) = IdsOf(m.parked) \cup Slot(m) \cup IdsOf(left)
  <2>1. acc.prev \in Seq(R) /\ Distinct(acc.prev)
    BY <1>8 DEF IsAcc, Owned, Unshared
  <2> QED BY <1>6, <1>9, <2>1, StartedRows
<1>12. IdsOf(q.reserved) \subseteq IdsOf(acc.reserved)
  BY <1>8, <1>10, WithoutIds DEF IsAcc, Owned, Unshared
<1>13. IdsOf(left) \subseteq IdsOf(acc.prev)
  BY <1>8, InLaneRows DEF Left, IsAcc
<1> HIDE DEF acc, left
<1>14. /\ acc.seq >= m.seq
       /\ AccIds(acc) \subseteq IdsOf(m.pi) \cup IdsOf(m.reserved) \cup Generated(m.seq, acc.seq)
  BY <1>8 DEF Owned
<1>15. AllIds(q) \subseteq AllIds(m) \cup Generated(m.seq, q.seq)
  BY <1>10, <1>11, <1>12, <1>13, <1>14 DEF AllIds, AccIds
<1>16. Sound(q)
  BY <1>5, <1>7 DEF Sound, R
<1>17. m.seq \in Nat /\ q.seq \in Nat
  BY <1>4, <1>7, GoodParts
<1>18. m.seq <= q.seq
  BY <1>10, <1>14, <1>17
<1> QED BY <1>15, <1>16, <1>18 DEF Grew

\* The newest parked row takes the free slot.
LEMMA GrewPromote ==
    ASSUME NEW T, Clients \cup HostTexts \subseteq T, NEW m, GoodMirror(m, RowsOver(T)),
           NEW q, q = PromoteParkedRunning(m)
    PROVE  Grew(q, m)
<1> DEFINE R == RowsOver(T)
           i == Len(m.parked)
           k == SubSeq(m.parked, 1, i - 1)
           row == m.parked[i]
<1>0. m.seq \in Nat /\ Sound(m)
  BY GoodParts DEF Sound
<1>1. CASE q = m
  BY <1>0, <1>1, GrewLess
<1>2. CASE q # m
  <2>1. m.running = NoRow
    BY <1>2 DEF PromoteParkedRunning
  <2>2. m.parked # << >>
    BY <1>2, <2>1, PromoteTakesNewest
  <2>3. i \in DOMAIN m.parked /\ q = Mirror(m.local, m.pi, m.reserved, k, row, m.seq)
    BY <2>1, <2>2, PromoteTakesNewest
  <2>4. /\ m.parked \in Seq(R) /\ m.reserved \in Seq(R)
        /\ Distinct(m.parked) /\ Distinct(m.reserved)
    BY GoodParts
  <2> HIDE DEF R, i
  <2>5. k \in Seq(R) /\ IdsOf(k) \subseteq IdsOf(m.parked) /\ Distinct(k) /\ row.id \notin IdsOf(k)
    BY <2>3, <2>4, PrefixIds
  <2>6. row \in R /\ row.id \in IdsOf(m.parked)
    BY <2>3, <2>4 DEF IdsOf
  <2> HIDE DEF k, row
  <2>7. IdsOf(m.reserved) \subseteq IdsOf(m.reserved)
    OBVIOUS
  <2> QED BY <2>3, <2>4, <2>5, <2>6, <2>7, GrewDrop DEF R
<1> QED BY <1>1, <1>2

\* The slot and the reservations are cleared, or one reservation.
LEMMA GrewClear ==
    ASSUME NEW T, Clients \cup HostTexts \subseteq T, NEW m, GoodMirror(m, RowsOver(T))
    PROVE  /\ Grew(ClearRunning(m), m)
           /\ \A id : Grew(ReleaseReservation(m, id), m)
           /\ \A id : Grew(ClearRunning(ReleaseReservation(m, id)), m)
<1> DEFINE R == RowsOver(T)
           none == << >>
<1>1. /\ IsMirror(m) /\ m.reserved \in Seq(R) /\ m.parked \in Seq(R)
      /\ Distinct(m.reserved) /\ Distinct(m.parked) /\ m.running \in R \cup {NoRow}
  BY GoodParts
<1>2. none \in Seq(R) /\ IdsOf(none) \subseteq IdsOf(m.reserved) /\ Distinct(none)
  BY NoRows
<1>3. ClearRunning(m) = Mirror(m.local, m.pi, none, m.parked, NoRow, m.seq)
  BY <1>1, Operations
<1> HIDE DEF none
<1>4. IdsOf(m.parked) \subseteq IdsOf(m.parked) /\ NoRow \in R \cup {NoRow}
  OBVIOUS
<1>5. Grew(ClearRunning(m), m)
  <2> DEFINE run == NoRow
  <2>1. run = NoRow /\ run \in RowsOver(T) \cup {NoRow}
    OBVIOUS
  <2> HIDE DEF run, R
  <2>2. ClearRunning(m) = Mirror(m.local, m.pi, none, m.parked, run, m.seq)
    BY <1>3, <2>1
  <2> QED BY <1>1, <1>2, <1>4, <2>1, <2>2, GrewDrop DEF R
<1>6. ASSUME NEW id
      PROVE  /\ Grew(ReleaseReservation(m, id), m)
             /\ ClearRunning(ReleaseReservation(m, id)) = ClearRunning(m)
  <2> DEFINE r == Without(m.reserved, {id})
             d == ReleaseReservation(m, id)
  <2>1. d = Mirror(m.local, m.pi, r, m.parked, m.running, m.seq)
    BY <1>1, Operations
  <2> HIDE DEF R
  <2>2. r \in Seq(R) /\ IdsOf(r) \subseteq IdsOf(m.reserved) /\ Distinct(r)
    BY <1>1, WithoutIds
  <2> HIDE DEF r, d
  <2>3. Grew(d, m)
    BY <1>1, <1>4, <2>1, <2>2, GrewDrop DEF R
  <2>4. /\ IsMirror(d) /\ d.local = m.local /\ d.pi = m.pi /\ d.parked = m.parked
        /\ d.seq = m.seq
    BY <2>1, MirrorFields
  <2>5. ClearRunning(d) = Mirror(d.local, d.pi, << >>, d.parked, NoRow, d.seq)
    BY <2>4, Operations
  <2>6. ClearRunning(d) = ClearRunning(m)
    BY <1>3, <2>4, <2>5 DEF none
  <2> QED BY <2>3, <2>6 DEF d
<1> QED BY <1>5, <1>6

\* Whatever alters the mirror leaves it good.
LEMMA AltersGrew ==
    ASSUME NEW m, Sound(m), NEW q, Alters(q, m)
    PROVE  Grew(q, m)
<1>0. PICK T : Clients \cup HostTexts \subseteq T /\ GoodMirror(m, RowsOver(T))
  BY DEF Sound
<1>1. CASE q = m
  BY <1>0, <1>1, GrewLess, GoodParts
<1>2. ASSUME NEW i \in DOMAIN m.local,
             \/ q = Reserve(TakeLocal(m, i), [m.local[i] EXCEPT !.lane = "Steering"])
             \/ q = PushFrontLocal(TakeLocal(m, i), m.local[i])
      PROVE  Grew(q, m)
  <2>1. ASSUME q = Reserve(TakeLocal(m, i), [m.local[i] EXCEPT !.lane = "Steering"])
        PROVE  Grew(q, m)
    BY <1>0, <2>1, GrewReserve
  <2>2. ASSUME q = PushFrontLocal(TakeLocal(m, i), m.local[i]) PROVE Grew(q, m)
    BY <1>0, <2>2, GrewFront
  <2> QED BY <1>2, <2>1, <2>2
<1>3. ASSUME NEW ids, q = [m EXCEPT !.local = Without(m.local, ids)] PROVE Grew(q, m)
  <2> DEFINE R == RowsOver(T)
             l == Without(m.local, ids)
  <2>1. IsMirror(m) /\ m.local \in Seq(R) /\ Distinct(m.local)
    BY <1>0, GoodParts
  <2> HIDE DEF R
  <2>2. l \in Seq(R) /\ IdsOf(l) \subseteq IdsOf(m.local) /\ Distinct(l)
    BY <2>1, WithoutIds
  <2>3. q = Mirror(l, m.pi, m.reserved, m.parked, m.running, m.seq)
    BY <1>3, <2>1, MirrorExcept
  <2> HIDE DEF l
  <2> QED BY <1>0, <2>2, <2>3, GrewLocal DEF R
<1>4. ASSUME m.running = NoRow, m.local # << >>,
             q = SetRunning(PopNextLocal(m), Head(m.local))
      PROVE  Grew(q, m)
  BY <1>0, <1>4, GrewPop
<1>5. ASSUME \/ q = ClearRunning(m)
             \/ \E id : \/ q = ReleaseReservation(m, id)
                        \/ q = ClearRunning(ReleaseReservation(m, id))
      PROVE  Grew(q, m)
  BY <1>0, <1>5, GrewClear
<1>6. ASSUME q = PromoteParkedRunning(m) PROVE Grew(q, m)
  BY <1>0, <1>6, GrewPromote
<1>7. ASSUME NEW text \in HostTexts, NEW lane \in RowLanes,
             m.seq < MaxSeq, q = EnqueueGenerated(m, text, lane, "Extension")
      PROVE  Grew(q, m)
  BY <1>0, <1>7, GrewGenerated
<1> QED BY <1>1, <1>2, <1>3, <1>4, <1>5, <1>6, <1>7 DEF Alters

\* Pi's arrays leave it good.
LEMMA ShowsGrew ==
    ASSUME NEW b, NEW a, Sound(a.mirror), NEW s, NEW f, Shows(b, a, s, f)
    PROVE  Grew(b.mirror, a.mirror) /\ b.ended = a.ended
<1>0. PICK T : Clients \cup HostTexts \subseteq T /\ GoodMirror(a.mirror, RowsOver(T))
  BY DEF Sound
<1> DEFINE m == a.mirror
           q == ApplyQueueUpdate(m, s, f)
<1>1. IsSeq(s) /\ IsSeq(f) /\ b.mirror = q /\ q.seq <= MaxSeq /\ b.ended = a.ended
  BY DEF Shows, Books
<1>2. GoodMirror(m, RowsOver(T))
  BY <1>0
<1> HIDE DEF m
<1>3. Grew(q, m)
  BY <1>0, <1>1, <1>2, GrewUpdate
<1> HIDE DEF q
<1> QED BY <1>1, <1>3 DEF m

-----------------------------------------------------------------------------
(* Which steps end a turn.                                                 *)

\* No prompt becomes new again, and no task begins to end a turn.
Unsettled == \A o \in Tasks : task'[o].pc = "settled" =>
                 task[o].pc = "settled" /\ task'[o].row = task[o].row
Ordinary == Fresh(ad', ad) /\ Unsettled

\* Task o, which ends a turn, goes on.
Leaves(o) == Ordinary /\ task[o].pc = "settled" /\ task'[o].pc # "settled"

\* Task o takes the slot's row in order to end its turn.
Takes(o) ==
    /\ Fresh(ad', ad)
    /\ ad'.mirror = ClearRunning(ad.mirror)
    /\ Moves(o, Settling(ad.mirror.running))

\* A task moves on.
LEMMA UnsettledMoves ==
    ASSUME DOMAIN task = Tasks, NEW o, NEW t, Moves(o, t), t.pc # "settled"
    PROVE  Unsettled /\ task'[o].pc # "settled"
BY OthersWait DEF Unsettled

\* A task goes on to other awaits.
LEMMA UnsettledGoes ==
    ASSUME DOMAIN task = Tasks, NEW o, NEW pcs, Goes(o, pcs), "settled" \notin pcs
    PROVE  Unsettled /\ task'[o].pc # "settled"
<1>1. PICK t : Moves(o, t) /\ t.pc # "settled"
  BY DEF Goes
<1> QED BY <1>1, UnsettledMoves

\* A task ends and leaves a probe.
LEMMA UnsettledSpawns ==
    ASSUME DOMAIN task = Tasks, NEW o \in Tasks, task[o].pc # "end", SpawnProbe(o)
    PROVE  Unsettled
<1>1. PICK n \in 1 .. MaxProbes :
               /\ ProbeTask(n) \in Tasks /\ task[ProbeTask(n)] = Done /\ ProbeTask(n) # o
               /\ DOMAIN task' = Tasks
               /\ task'[o] = Done /\ task'[ProbeTask(n)] = At("doze", NoRow)
               /\ \A q \in Tasks : q # o /\ q # ProbeTask(n) => task'[q] = task[q]
  BY Spawned
<1>2. Done.pc = "end" /\ At("doze", NoRow).pc = "doze"
  BY TaskStates
<1> QED BY <1>1, <1>2 DEF Unsettled

\* The tasks stay as they are.
LEMMA UnsettledStays ==
    ASSUME UNCHANGED task
    PROVE  Unsettled
BY DEF Unsettled

\* The client's requests.
LEMMA ClientOrdinary ==
    ASSUME SchedInv, Shape, ClientStep
    PROVE  Ordinary
<1>0. Accounts(ad) /\ IsAdapter(ad) /\ DOMAIN task = Tasks
  BY DEF SchedInv, Shape, Tasked, Accounts
<1>s. /\ \A pc, row : At(pc, row).pc = pc /\ Sent(pc, row).pc = pc
      /\ Done.pc = "end"
  BY TaskStates
<1>1. ASSUME NEW p \in Clients, NEW lane \in Lanes, Prompt(p, lane) PROVE Ordinary
  <2> DEFINE t == At("kick", NoRow)
             u == Sent("direct", NoRow)
  <2>1. /\ Alike(ad', ad) \/ Running(ad', ad)
        /\ Moves(PromptTask(p), t) \/ Moves(PromptTask(p), u)
    BY <1>0, <1>1, PromptFlags
  <2>2. t.pc = "kick" /\ u.pc = "direct"
    BY <1>s
  <2> HIDE DEF t, u
  <2>3. Unsettled
    BY <1>0, <2>1, <2>2, UnsettledMoves
  <2> QED BY <2>1, <2>3 DEF Ordinary, Alike, Running
<1>2. ASSUME NEW p \in Clients, Interject(p) PROVE Ordinary
  <2> DEFINE t == At("kick", NoRow)
  <2>1. Joined(ad', ad) \/ Alike(ad', ad)
    BY <1>0, <1>2, InterjectFlags
  <2>2. \/ \E x : Moves(InterjectTask(p), x) /\ x.pc = "steering"
        \/ Moves(InterjectTask(p), Done) \/ Moves(InterjectTask(p), t)
    BY <1>0, <1>2, InterjectFlags
  <2>3. t.pc = "kick" /\ Done.pc = "end"
    BY <1>s
  <2> HIDE DEF t
  <2>4. Unsettled
    BY <1>0, <2>2, <2>3, UnsettledMoves
  <2> QED BY <2>1, <2>4 DEF Ordinary, Alike, Joined
<1>3. CASE Cancel
  <2> DEFINE b == DropEverything(ad)
             o == SettleTask(spent'.cancel)
             t == At("poll", NoRow)
  <2>1. ad' = [b EXCEPT !.cancelling = TRUE] /\ task' = [task EXCEPT ![o] = t]
    BY <1>3 DEF Cancel
  <2>2. IsAdapter(b) /\ Fresh(b, ad)
    BY <1>0, DropFlags
  <2>3. t.pc = "poll"
    BY <1>s
  <2> HIDE DEF b, t, o
  <2>4. Fresh(ad', ad)
    BY <2>1, <2>2 DEF Fresh, IsAdapter, AdapterFields
  <2>5. Unsettled
    BY <1>0, <2>1, <2>3 DEF Unsettled
  <2> QED BY <2>4, <2>5 DEF Ordinary
<1>4. ASSUME NEW ids, RemoveRows(ids) PROVE Ordinary
  BY <1>0, <1>4, RemoveFlags, UnsettledStays DEF Ordinary, Alike
<1>5. CASE BashStarts
  <2> DEFINE t == Sent("bash", NoRow)
  <2>1. ad' = [ad EXCEPT !.bashRunning = TRUE] /\ Moves(BashTask, t)
    BY <1>5, TaskKinds DEF BashStarts, Moves
  <2>2. t.pc = "bash"
    BY <1>s
  <2> HIDE DEF t
  <2>3. Fresh(ad', ad)
    BY <1>0, <2>1 DEF Fresh, IsAdapter, AdapterFields
  <2> QED BY <1>0, <2>1, <2>2, <2>3, UnsettledMoves DEF Ordinary
<1> QED BY <1>1, <1>2, <1>3, <1>4, <1>5 DEF ClientStep

\* The steps of the prompts that went to Pi directly.
LEMMA PromptOrdinary ==
    ASSUME SchedInv, Shape, NEW p \in Clients, PromptStep(p)
    PROVE  Ordinary
<1>0. /\ Accounts(ad) /\ IsAdapter(ad) /\ DOMAIN task = Tasks /\ PromptTask(p) \in Tasks
      /\ ad.started \subseteq ad.active
  BY TaskKinds DEF SchedInv, Shape, Tasked, Steady, Accounts
<1>s. At("acked", NoRow).pc = "acked" /\ Done.pc = "end"
  BY TaskStates
<1>1. CASE DirectAccepted(p)
  <2>1. ad' = ad
    BY <1>1 DEF DirectAccepted
  <2>2. \/ Moves(PromptTask(p), At("acked", NoRow))
        \/ task[PromptTask(p)].pc = "acked" /\ SpawnProbe(PromptTask(p))
    BY <1>0, <1>1 DEF DirectAccepted, Moves
  <2>3. Unsettled
    BY <1>0, <1>s, <2>2, UnsettledMoves, UnsettledSpawns
  <2> QED BY <2>1, <2>3 DEF Ordinary, Fresh
<1>2. CASE DirectFails(p)
  <2>1. Modest(ad', ad)
    BY <1>0, <1>2, FailsFlags
  <2>2. Moves(PromptTask(p), Done)
    BY <1>0, <1>2 DEF DirectFails, Moves
  <2> QED BY <1>0, <1>s, <2>1, <2>2, UnsettledMoves DEF Ordinary, Modest
<1> QED BY <1>1, <1>2 DEF PromptStep

\* The steps of the tasks: one that ends a turn leaves, a probe may take one.
LEMMA TaskOrdinary ==
    ASSUME SchedInv, Shape, NEW o \in Tasks, TaskStep(o)
    PROVE  \/ Ordinary /\ ~TurnEnds(o)
           \/ TurnEnds(o) /\ Leaves(o)
           \/ ProbeAnswered(o) /\ Takes(o) /\ ad'.ended = ad.ended
<1>0. /\ Accounts(ad) /\ IsAdapter(ad) /\ Arrays(pi) /\ DOMAIN task = Tasks
      /\ ad.started \subseteq ad.active
  BY DEF SchedInv, Shape, Tasked, Steady, Accounts
<1>i. Fresh(ad, ad)
  BY DEF Fresh
<1>s. /\ \A pc, row : At(pc, row).pc = pc /\ Sent(pc, row).pc = pc
      /\ DOMAIN At("kick", NoRow) = TaskFields
      /\ Done.pc = "end" /\ Done.pc # "settled"
      /\ \A row : DOMAIN Sent("sent", row) = TaskFields
      /\ \A t : DOMAIN t = TaskFields => Onward(o, t).pc = t.pc
  BY TaskStates
<1>1. ASSUME Kick(o) PROVE Ordinary
  <2>1. Alike(ad', ad) \/ Running(ad', ad)
    BY <1>0, <1>1, DispatchFlags DEF Kick
  <2>2. Goes(o, {"end", "continue", "announce"})
    BY <1>0, <1>1, DispatchFlags DEF Kick, Goes
  <2>3. Unsettled
    BY <1>0, <2>2, UnsettledGoes
  <2> QED BY <2>1, <2>3 DEF Ordinary, Alike, Running
<1>2. ASSUME Dispatch(o) \/ SendSteer(o) PROVE Ordinary
  <2> DEFINE s == Sent("sent", task[o].row)
             t == Onward(o, s)
             u == Sent("steer", task[o].row)
  <2>1. /\ ad' = ad
        /\ Moves(o, t) \/ Moves(o, u)
    BY <1>2 DEF Dispatch, SendSteer, Moves
  <2>2. t.pc = "sent" /\ u.pc = "steer"
    BY <1>s
  <2> HIDE DEF t, u
  <2>3. Unsettled
    BY <1>0, <2>1, <2>2, UnsettledMoves
  <2> QED BY <1>i, <2>1, <2>3 DEF Ordinary
<1>3. ASSUME DispatchAccepted(o) PROVE Ordinary
  <2>1. /\ SpawnProbe(o) /\ task[o].pc = "sent"
        /\ ad' = ad \/ ad' = RecordContinuation(ad, task[o].goal)
    BY <1>3 DEF DispatchAccepted, Answered
  <2>2. Fresh(ad', ad)
    BY <1>0, <1>i, <2>1, RecordFlags DEF Flagged
  <2>3. Unsettled
    BY <1>0, <2>1, UnsettledSpawns
  <2> QED BY <2>2, <2>3 DEF Ordinary
<1>4. ASSUME DispatchFails(o) \/ SteerFails(o) PROVE Ordinary
  <2> DEFINE t == Onward(o, At("kick", NoRow))
  <2>1. Moves(o, t) \/ Moves(o, Done)
    BY <1>4 DEF DispatchFails, SteerFails, Moves
  <2>2. t.pc = "kick"
    BY <1>s
  <2>3. Modest(ad', ad)
    BY <1>0, <1>4, FailsFlags
  <2> HIDE DEF t
  <2>4. Unsettled
    BY <1>0, <1>s, <2>1, <2>2, UnsettledMoves
  <2> QED BY <2>3, <2>4 DEF Ordinary, Modest
<1>5. ASSUME SteerAccepted(o) PROVE Ordinary
  <2>1. \/ o = Consumer /\ FlushPendingSteering(ad)
        \/ ad' = ad /\ task' = [task EXCEPT ![o] = Done]
    BY <1>5 DEF SteerAccepted
  <2>2. \/ Joined(ad', ad) /\ \E t : Moves(o, t) /\ t.pc = "steering"
        \/ ad' = ad /\ Moves(o, Done)
    BY <1>0, <2>1, FlushFlags DEF Moves
  <2>3. Unsettled
    BY <1>0, <1>s, <2>2, UnsettledMoves
  <2> QED BY <1>i, <2>2, <2>3 DEF Ordinary, Joined
<1>6. ASSUME ProbeWakes(o) PROVE Ordinary
  <2> DEFINE t == Sent("ask", NoRow)
  <2>1. ad' = ad /\ (Moves(o, t) \/ Moves(o, Done))
    BY <1>6 DEF ProbeWakes, Moves
  <2>2. t.pc = "ask"
    BY <1>s
  <2> HIDE DEF t
  <2>3. Unsettled
    BY <1>0, <1>s, <2>1, <2>2, UnsettledMoves
  <2> QED BY <1>i, <2>1, <2>3 DEF Ordinary
<1>7. ASSUME ProbeAnswered(o) PROVE Ordinary \/ (Takes(o) /\ ad'.ended = ad.ended)
  <2> DEFINE b == [ad EXCEPT !.agentRunning = FALSE, !.cancelling = FALSE,
                             !.mirror = ClearRunning(@)]
  <2>1. \/ ad' = b /\ Moves(o, Settling(ad.mirror.running))
        \/ ad' = ad /\ Moves(o, Done)
    BY <1>7 DEF ProbeAnswered, Moves
  <2>2. Cleared(b, ad) /\ b.mirror = ClearRunning(ad.mirror)
    BY <1>0, ClearedFlags
  <2>3. b.ended = ad.ended
    BY <1>0, ClearBooks DEF Books
  <2> HIDE DEF b
  <2>4. CASE ad' = b /\ Moves(o, Settling(ad.mirror.running))
    BY <2>2, <2>3, <2>4 DEF Takes, Cleared
  <2>5. CASE ad' = ad /\ Moves(o, Done)
    BY <1>0, <1>i, <1>s, <2>5, UnsettledMoves DEF Ordinary
  <2> QED BY <2>1, <2>4, <2>5
<1>8. ASSUME TurnEnds(o) PROVE Leaves(o)
  <2>1. task[o].pc = "settled"
    BY <1>8 DEF TurnEnds
  <2>2. Emptied(ad', ad) \/ Seized(ad', ad)
    BY <1>0, <1>8, TurnEndsFlags
  <2>3. Goes(o, {"kick"}) \/ Goes(o, {"end", "continue"}) \/ Goes(o, {"announce"})
    BY <1>0, <1>8, TurnEndsFlags
  <2>4. Unsettled /\ task'[o].pc # "settled"
    BY <1>0, <2>3, UnsettledGoes
  <2> QED BY <2>1, <2>2, <2>4 DEF Leaves, Ordinary, Emptied, Seized, Flagged
<1>9. ASSUME ContinueGoal(o) PROVE Ordinary
  <2>1. Alike(ad', ad) /\ (Goes(o, {"kick"}) \/ Goes(o, {"end"}))
    BY <1>0, <1>9, ContinueFlags
  <2>2. Unsettled
    BY <1>0, <2>1, UnsettledGoes
  <2> QED BY <2>1, <2>2 DEF Ordinary, Alike
<1>10. ASSUME SettlePolls(o) \/ SettleAgain(o) PROVE Ordinary
  <2> DEFINE n == IF task[o].pc = "poll" THEN task[o].polls
                  ELSE IF task[o].reply = "idle" THEN task[o].polls + 1 ELSE 0
             s == Sent("ask", NoRow)
             a == At("poll", NoRow)
             t == [s EXCEPT !.polls = n]
             u == [a EXCEPT !.polls = n]
  <2>1. ad' = ad /\ (Moves(o, t) \/ Moves(o, u) \/ Moves(o, Done))
    BY <1>10 DEF SettlePolls, SettleAgain, Answered, Moves
  <2> HIDE DEF n
  <2>2. DOMAIN s = TaskFields /\ s.pc = "ask" /\ DOMAIN a = TaskFields /\ a.pc = "poll"
    BY TaskStates
  <2> HIDE DEF s, a
  <2>3. t.pc = "ask" /\ u.pc = "poll"
    BY <2>2 DEF TaskFields
  <2> HIDE DEF t, u
  <2>4. Unsettled
    BY <1>0, <1>s, <2>1, <2>3, UnsettledMoves
  <2> QED BY <1>i, <2>1, <2>4 DEF Ordinary
<1>11. ASSUME SettleConfirmed(o) \/ SettleGivesUp(o) PROVE Ordinary
  <2> DEFINE t == At("kick", NoRow)
             b == [ad EXCEPT !.agentRunning = FALSE, !.cancelling = FALSE,
                             !.mirror = ClearRunning(@)]
             c == [ad EXCEPT !.cancelling = FALSE]
  <2>1. ad' \in {ad, b, c} /\ (Moves(o, t) \/ Moves(o, Done))
    BY <1>11 DEF SettleConfirmed, SettleGivesUp, Moves
  <2>2. t.pc = "kick"
    BY <1>s
  <2> HIDE DEF t
  <2>3. Cleared(b, ad)
    BY <1>0, ClearedFlags
  <2> HIDE DEF b
  <2>4. Fresh(c, ad)
    BY <1>0 DEF Fresh, IsAdapter, AdapterFields
  <2> HIDE DEF c
  <2>5. Fresh(ad', ad)
    BY <1>i, <2>1, <2>3, <2>4 DEF Cleared
  <2>6. Unsettled
    BY <1>0, <1>s, <2>1, <2>2, UnsettledMoves
  <2> QED BY <2>5, <2>6 DEF Ordinary
<1>12. ASSUME ~TurnEnds(o), TurnEnds(o) PROVE FALSE
  BY <1>12
<1>13. ASSUME Ordinary, task[o].pc # "settled" PROVE Ordinary /\ ~TurnEnds(o)
  BY <1>13 DEF TurnEnds
<1>14. TurnEnds(o) \/ task[o].pc # "settled"
  BY DEF TaskStep, Kick, Dispatch, DispatchAccepted, DispatchFails, SendSteer, SteerAccepted,
         SteerFails, ProbeWakes, ProbeAnswered, ContinueGoal, SettlePolls, SettleConfirmed,
         SettleAgain, SettleGivesUp, Answered
<1> QED BY <1>1, <1>2, <1>3, <1>4, <1>5, <1>6, <1>7, <1>8, <1>9, <1>10, <1>11, <1>13, <1>14
        DEF TaskStep

\* The consumer: it takes the turn that agent_settled ends.
LEMMA ConsumerOrdinary ==
    ASSUME SchedInv, Shape, ConsumerStep
    PROVE  \/ Ordinary
           \/ SlotIsCleared /\ Takes(Consumer) /\ ad'.ended = ad.ended
<1>0. /\ Accounts(ad) /\ IsAdapter(ad) /\ DOMAIN task = Tasks
      /\ ad.started \subseteq ad.active
  BY DEF SchedInv, Shape, Tasked, Steady, Accounts
<1>i. Fresh(ad, ad)
  BY DEF Fresh
<1>s. /\ \A pc, row : At(pc, row).pc = pc /\ Sent(pc, row).pc = pc
      /\ Done.pc = "end" /\ Consumer \in Tasks
  BY TaskStates, TaskKinds
<1>1. ASSUME AgentStart \/ QueueUpdate PROVE Ordinary
  <2>1. UNCHANGED task
    BY <1>1 DEF AgentStart, QueueUpdate
  <2>2. ad' = ad \/ Begun(ad', ad) \/ Updated(ad', ad)
    BY <1>1, AgentStartFlags, UpdateFlags
  <2> QED BY <1>i, <2>1, <2>2, UnsettledStays DEF Ordinary, Begun, Updated
<1>2. ASSUME AgentSettled \/ StateChanged PROVE Ordinary
  <2> DEFINE t == At("stats", NoRow)
             u == Sent("load", NoRow)
  <2>1. ad' = ad /\ (Moves(Consumer, t) \/ Moves(Consumer, u))
    BY <1>2, <1>s DEF AgentSettled, StateChanged, Moves
  <2>2. t.pc = "stats" /\ u.pc = "load"
    BY <1>s
  <2> HIDE DEF t, u
  <2>3. Unsettled
    BY <1>0, <2>1, <2>2, UnsettledMoves
  <2> QED BY <1>i, <2>1, <2>3 DEF Ordinary
<1>3. ASSUME SlotIsCleared PROVE Takes(Consumer) /\ ad'.ended = ad.ended
  <2>1. /\ Moves(Consumer, Settling(ad.mirror.running))
        /\ ad' = [ad EXCEPT !.agentRunning = FALSE, !.cancelling = FALSE,
                            !.mirror = ClearRunning(@)]
    BY <1>3, <1>s DEF SlotIsCleared, Moves
  <2>2. Cleared(ad', ad) /\ ad'.mirror = ClearRunning(ad.mirror)
    BY <1>0, <2>1, ClearedFlags
  <2>3. ad'.ended = ad.ended
    BY <1>0, <2>1, ClearBooks DEF Books
  <2> QED BY <2>1, <2>2, <2>3 DEF Takes, Cleared
<1>4. ASSUME MessageEnd PROVE Ordinary
  <2>1. (ad' = ad /\ UNCHANGED task) \/ FlushPendingSteering(ad)
    BY <1>4 DEF MessageEnd
  <2>2. CASE ad' = ad /\ UNCHANGED task
    BY <1>i, <2>2, UnsettledStays DEF Ordinary
  <2>3. CASE FlushPendingSteering(ad)
    <3>1. \/ Joined(ad', ad) /\ \E t : Moves(Consumer, t) /\ t.pc = "steering"
          \/ ad' = ad /\ Moves(Consumer, Done)
      BY <1>0, <2>3, FlushFlags
    <3>2. Unsettled
      BY <1>0, <1>s, <3>1, UnsettledMoves
    <3> QED BY <1>i, <3>1, <3>2 DEF Ordinary, Joined
  <2> QED BY <2>1, <2>2, <2>3
<1>5. ASSUME ExtensionMessage PROVE Ordinary
  <2>1. Alike(ad', ad) /\ (Goes(Consumer, {"kick"}) \/ UNCHANGED task)
    BY <1>5, ExtensionFlags
  <2>2. Unsettled
    BY <1>0, <2>1, UnsettledGoes, UnsettledStays
  <2> QED BY <2>1, <2>2 DEF Ordinary, Alike
<1>6. ASSUME GoalMessage PROVE Ordinary
  <2> DEFINE h == ApplyControl(ad.host, pi.goal)
  <2>1. UNCHANGED task /\ ad' = [ad EXCEPT !.host = h]
    BY <1>6 DEF GoalMessage
  <2> HIDE DEF h
  <2>2. Flagged(ad', ad)
    BY <1>0, <2>1, RecordFlags
  <2> QED BY <2>1, <2>2, UnsettledStays DEF Ordinary, Flagged
<1>7. ASSUME Reloaded PROVE Ordinary
  <2>1. Moves(Consumer, Done) /\ ad' \in {ad, ReplaceBootstrap(ad)}
    BY <1>7, <1>s DEF Reloaded, Moves
  <2>2. Fresh(ad', ad)
    BY <1>0, <1>i, <2>1, ReplaceFlags DEF Cleared
  <2>3. Unsettled
    BY <1>0, <1>s, <2>1, UnsettledMoves
  <2> QED BY <2>2, <2>3 DEF Ordinary
<1>8. ASSUME ProcessExit PROVE Ordinary
  <2> DEFINE b == DropEverything(ad)
  <2>1. UNCHANGED task /\ ad' = [b EXCEPT !.agentRunning = FALSE, !.cancelling = FALSE]
    BY <1>8 DEF ProcessExit
  <2>2. IsAdapter(b) /\ Fresh(b, ad)
    BY <1>0, DropFlags
  <2> HIDE DEF b
  <2>3. Fresh(ad', ad)
    BY <2>1, <2>2 DEF Fresh, IsAdapter, AdapterFields
  <2> QED BY <2>1, <2>3, UnsettledStays DEF Ordinary
<1> QED BY <1>1, <1>2, <1>3, <1>4, <1>5, <1>6, <1>7, <1>8 DEF ConsumerStep

\* The other steps; a crash of Pi may fail what is in flight.
LEMMA OtherOrdinary ==
    ASSUME SchedInv, Shape, BashEnds \/ Respawn \/ Rebind \/ ContinuationExpires \/ PiStep
    PROVE  Ordinary \/ (PiCrashes /\ Fresh(ad', ad))
<1>0. /\ Accounts(ad) /\ IsAdapter(ad) /\ DOMAIN task = Tasks
      /\ \A o \in Tasks : Fit(o, task[o])
  BY DEF SchedInv, Shape, Tasked, Accounts
<1>i. Fresh(ad, ad)
  BY DEF Fresh
<1>1. ASSUME BashEnds PROVE Ordinary
  <2>1. Moves(BashTask, Done) /\ ad' = [ad EXCEPT !.bashRunning = FALSE]
    BY <1>1, TaskKinds DEF BashEnds, Moves
  <2>2. Fresh(ad', ad)
    BY <1>0, <2>1 DEF Fresh, IsAdapter, AdapterFields
  <2>3. Unsettled
    BY <1>0, <2>1, TaskStates, UnsettledMoves
  <2> QED BY <2>2, <2>3 DEF Ordinary
<1>2. ASSUME Respawn \/ Rebind PROVE Ordinary
  <2>1. UNCHANGED task /\ ad' \in {ad, ReplaceBootstrap(ad)}
    BY <1>2 DEF Respawn, Rebind
  <2>2. Fresh(ad', ad)
    BY <1>0, <1>i, <2>1, ReplaceFlags DEF Cleared
  <2> QED BY <2>1, <2>2, UnsettledStays DEF Ordinary
<1>3. ASSUME ContinuationExpires PROVE Ordinary
  <2> DEFINE h == [ad.host EXCEPT !.sends = @ - 1]
  <2>1. UNCHANGED task /\ ad' = [ad EXCEPT !.host = h]
    BY <1>3 DEF ContinuationExpires
  <2> HIDE DEF h
  <2>2. Flagged(ad', ad)
    BY <1>0, <2>1, RecordFlags
  <2> QED BY <2>1, <2>2, UnsettledStays DEF Ordinary, Flagged
<1>4. ASSUME PiStep PROVE Ordinary \/ (PiCrashes /\ Fresh(ad', ad))
  <2>1. ASSUME NEW o \in Tasks, PiReplies(o) PROVE Ordinary
    <3>1. ad' = ad /\ \E r : Reply(o, r)
      BY <2>1 DEF PiReplies, PiAccepts, PiQueuesSteer, PiRefuses, PiAnswers
    <3>2. PICK t : Moves(o, t) /\ t.pc = task[o].pc /\ t.row = task[o].row
      BY <1>0, <3>1, Replied DEF Fit
    <3>3. Unsettled
      BY <1>0, <3>2, OthersWait DEF Unsettled
    <3> QED BY <1>i, <3>1, <3>3 DEF Ordinary
  <2>2. ASSUME PiCrashes PROVE Fresh(ad', ad)
    BY <1>i, <2>2 DEF PiCrashes
  <2>3. CASE UNCHANGED <<ad, task>>
    BY <1>i, <2>3, UnsettledStays DEF Ordinary
  <2> QED BY <1>4, <2>1, <2>2, <2>3 DEF PiStep, PiStartsTurn, PiQueuesFollowUp, PiEndsMessage,
            PiContinues, PiSettles, PiExtensionMessage, PiStateChanges, PiSetsGoal,
            PiEditsGoal, WriteGoal
<1> QED BY <1>1, <1>2, <1>3, <1>4

-----------------------------------------------------------------------------
(* The mirror is good in every state.                                      *)

\* No row has the id of a prompt that has not come.
Unseen(outcome, m) == \A p \in Clients : outcome[p] = "new" => p \notin AllIds(m)

\* The mirror is good and its counter within its bound, and the messages are
\* counted for each row.
Fine(m) == Sound(m) /\ m.seq <= MaxSeq
Tallied == /\ Fine(ad.mirror) /\ Unseen(ad.outcome, ad.mirror)
           /\ ad.ended \in [RowIds -> Nat]

\* An empty mirror is good.
LEMMA Blank ==
    ASSUME NEW s \in Nat, NEW q, q = Mirror(<< >>, << >>, << >>, << >>, NoRow, s)
    PROVE  Sound(q) /\ AllIds(q) = {} /\ q.seq = s
<1> DEFINE none == << >>
           T == Clients \cup HostTexts
           R == RowsOver(T)
<1>1. none \in Seq(R) /\ IdsOf(none) = {} /\ Distinct(none)
  BY NoRows
<1> HIDE DEF R
<1>2. q = Mirror(none, none, none, none, NoRow, s)
  OBVIOUS
<1> HIDE DEF none, T
<1>3. /\ IsMirror(q) /\ q.local = none /\ q.pi = none /\ q.reserved = none
      /\ q.parked = none /\ q.running = NoRow /\ q.seq = s
  BY <1>2, MirrorFields
<1>4. Slot(q) = {}
  BY <1>3 DEF Slot
<1>5. AllIds(q) = {}
  BY <1>1, <1>3, <1>4 DEF AllIds
<1>6. GoodMirror(q, R)
  BY <1>1, <1>3, <1>4, <1>5 DEF GoodMirror, RowsTyped, UniqueIds, Behind
<1> QED BY <1>3, <1>5, <1>6 DEF Sound, R, T

\* What everything is dropped to, and what the loaded state begins with.
LEMMA BlankMirrors ==
    /\ Sound(EmptyMirror) /\ AllIds(EmptyMirror) = {} /\ EmptyMirror.seq = 0
    /\ \A m : Sound(m) =>
           /\ Sound(ClearMirror(ClearRunning(ClearLocal(m))))
           /\ AllIds(ClearMirror(ClearRunning(ClearLocal(m)))) = {}
           /\ ClearMirror(ClearRunning(ClearLocal(m))).seq = m.seq
<1>1. EmptyMirror = Mirror(<< >>, << >>, << >>, << >>, NoRow, 0)
  BY DEF EmptyMirror, Mirror
<1>2. ASSUME NEW m, Sound(m)
      PROVE  /\ Sound(ClearMirror(ClearRunning(ClearLocal(m))))
             /\ AllIds(ClearMirror(ClearRunning(ClearLocal(m)))) = {}
             /\ ClearMirror(ClearRunning(ClearLocal(m))).seq = m.seq
  <2> DEFINE a == ClearLocal(m)
             b == ClearRunning(a)
             c == ClearMirror(b)
  <2>1. IsMirror(m) /\ m.seq \in Nat
    BY <1>2, GoodParts DEF Sound
  <2>2. a = Mirror(<< >>, m.pi, m.reserved, m.parked, m.running, m.seq)
    BY <2>1, Operations
  <2> HIDE DEF a
  <2>3. IsMirror(a) /\ a.seq = m.seq
    BY <2>2, MirrorFields
  <2>4. b = Mirror(a.local, a.pi, << >>, a.parked, NoRow, a.seq)
    BY <2>3, Operations
  <2> HIDE DEF b
  <2>5. IsMirror(b) /\ b.seq = m.seq
    BY <2>3, <2>4, MirrorFields
  <2>6. c = Mirror(<< >>, << >>, << >>, << >>, NoRow, m.seq)
    BY <2>5, Operations
  <2> HIDE DEF c
  <2>7. Sound(c) /\ AllIds(c) = {} /\ c.seq = m.seq
    BY <2>1, <2>6, Blank
  <2> QED BY <2>7 DEF c, b, a
<1> QED BY <1>1, <1>2, Blank

\* A prompt comes.
LEMMA OpensGood ==
    ASSUME NEW m, Sound(m), NEW p \in Clients, p \notin AllIds(m), NEW lane \in RowLanes
    PROVE  /\ Sound(EnqueueLocal(m, Row(p, p, lane, "Client")))
           /\ EnqueueLocal(m, Row(p, p, lane, "Client")).seq = m.seq
           /\ AllIds(EnqueueLocal(m, Row(p, p, lane, "Client"))) \subseteq AllIds(m) \cup {p}
           /\ m.running = NoRow =>
                  /\ Sound(SetRunning(m, Row(p, p, "FollowUp", "Client")))
                  /\ SetRunning(m, Row(p, p, "FollowUp", "Client")).seq = m.seq
                  /\ AllIds(SetRunning(m, Row(p, p, "FollowUp", "Client")))
                        \subseteq AllIds(m) \cup {p}
<1>0. PICK T : Clients \cup HostTexts \subseteq T /\ GoodMirror(m, RowsOver(T))
  BY DEF Sound
<1> DEFINE R == RowsOver(T)
           row == Row(p, p, lane, "Client")
           run == Row(p, p, "FollowUp", "Client")
           q == EnqueueLocal(m, row)
           r == SetRunning(m, run)
<1>1. IsMirror(m) /\ m.local \in Seq(R) /\ Distinct(m.local) /\ m.seq \in Nat
  BY <1>0, GoodParts
<1>2. row \in R /\ row.id = p /\ Renewable(row, R) /\ NoRow \notin R
  <2>1. row \in R /\ row.id = p
    BY <1>0, RowsOverRows
  <2> QED BY <1>0, <2>1, RowsOverRows
<1>3. run \in R /\ run.id = p
  <2>1. "FollowUp" \in RowLanes
    BY DEF RowLanes, Lanes
  <2> QED BY <1>0, <2>1, RowsOverRows
<1>4. p \notin Nat /\ GoodMirror(m, R) /\ m.seq >= m.seq
  BY <1>0, <1>1, ClientAssumption
<1>5. q = EnqueueLocal(m, row) /\ r = SetRunning(m, run)
  OBVIOUS
<1> HIDE DEF R, row, run, q, r
<1>6. PICK l \in Seq(R) :
          /\ EnqueueLocal(m, row) = Mirror(l, m.pi, m.reserved, m.parked, m.running, m.seq)
          /\ IdsOf(l) = IdsOf(m.local) \cup {row.id}
          /\ Distinct(m.local) => Distinct(l)
  BY <1>1, <1>2, EnqueueLocalIds
<1>7. /\ q = Mirror(l, m.pi, m.reserved, m.parked, m.running, m.seq)
      /\ IdsOf(l) = IdsOf(m.local) \cup {p} /\ Distinct(l)
  BY <1>1, <1>2, <1>5, <1>6
<1>8. GoodMirror(q, R)
  BY <1>1, <1>4, <1>7, GoodNew
<1>9. AllIds(q) \subseteq AllIds(m) \cup {p} /\ q.seq = m.seq
  BY <1>7, IdsOfParts DEF AllIds, Slot
<1>10. ASSUME m.running = NoRow
       PROVE  GoodMirror(r, R) /\ AllIds(r) \subseteq AllIds(m) \cup {p} /\ r.seq = m.seq
  <2>1. r = Mirror(m.local, m.pi, m.reserved, m.parked, run, m.seq)
    BY <1>1, <1>5, Operations
  <2>2. run.id \notin AllIds(m) /\ run.id \notin Nat /\ run.id \notin IdsOf(m.local)
    BY <1>3, <1>4 DEF AllIds
  <2>3. GoodMirror(r, R)
    BY <1>1, <1>2, <1>3, <1>4, <1>10, <2>1, <2>2, GoodRun
  <2>4. AllIds(r) \subseteq AllIds(m) \cup {p} /\ r.seq = m.seq
    BY <1>3, <2>1, IdsOfParts DEF AllIds
  <2> QED BY <2>3, <2>4
<1> QED BY <1>0, <1>8, <1>9, <1>10 DEF Sound, R, q, r, row, run

\* The mirror after a change.
LEMMA StillFine ==
    ASSUME NEW m, Fine(m), NEW q, Grew(q, m), NEW old, Unseen(old, m),
           NEW new, \A p \in Clients : new[p] = "new" => old[p] = "new"
    PROVE  Fine(q) /\ Unseen(new, q)
<1>1. \A p \in Clients : p \notin Generated(m.seq, q.seq)
  BY ClientAssumption DEF Generated
<1> QED BY <1>1 DEF Fine, Grew, Unseen

\* The counts stay counts.
LEMMA StillCounts ==
    ASSUME NEW e \in [RowIds -> Nat]
    PROVE  /\ \A id : [e EXCEPT ![id] = @ + 1] \in [RowIds -> Nat]
           /\ \A row : Announced(e, row) \in [RowIds -> Nat]
<1>1. ASSUME NEW id PROVE [e EXCEPT ![id] = @ + 1] \in [RowIds -> Nat]
  <2> DEFINE f == [e EXCEPT ![id] = @ + 1]
             S == RowIds
  <2>1. e \in [S -> Nat]
    OBVIOUS
  <2> HIDE DEF S
  <2>2. DOMAIN f = S
    BY <2>1
  <2>3. \A x \in S : f[x] \in Nat
    BY <2>1
  <2>4. f = [x \in S |-> f[x]]
    BY <2>2
  <2> HIDE DEF f
  <2>5. f \in [S -> Nat]
    BY <2>3, <2>4
  <2> QED BY <2>5 DEF f, S
<1> QED BY <1>1 DEF Announced

\* What a step does to the books, other than to open a prompt.
Changes(b, a) ==
    \/ Files(b, a)
    \/ \E row : Announces(b, a, row)
    \/ /\ b.mirror = ClearRunning(a.mirror)
       /\ \/ b.ended = a.ended
          \/ \E id : b.ended = [a.ended EXCEPT ![id] = @ + 1]
    \/ Drops(b, a)
    \/ Books(b, EmptyMirror, a.ended)
    \/ \E s, f : Shows(b, a, s, f)

\* Such a step keeps the mirror good.
LEMMA TalliedChanges ==
    ASSUME Tallied, Fresh(ad', ad), Changes(ad', ad)
    PROVE  Tallied'
<1>0. /\ Sound(ad.mirror) /\ Fine(ad.mirror) /\ Unseen(ad.outcome, ad.mirror)
      /\ ad.ended \in [RowIds -> Nat]
      /\ \A p \in Clients : ad'.outcome[p] = "new" => ad.outcome[p] = "new"
  BY DEF Tallied, Fine, Fresh
<1>1. ASSUME NEW q, Alters(q, ad.mirror), ad'.mirror = q PROVE Fine(ad'.mirror) /\ Unseen(ad'.outcome, ad'.mirror)
  BY <1>0, <1>1, AltersGrew, StillFine
<1>2. ASSUME NEW q, Sound(q), AllIds(q) = {}, q.seq <= MaxSeq, ad'.mirror = q
      PROVE  Fine(ad'.mirror) /\ Unseen(ad'.outcome, ad'.mirror)
  BY <1>2 DEF Fine, Unseen
<1>3. CASE Files(ad', ad)
  BY <1>0, <1>1, <1>3 DEF Files, Books, Tallied
<1>4. CASE \E row : Announces(ad', ad, row)
  BY <1>0, <1>1, <1>4, StillCounts DEF Announces, Books, Tallied
<1>5. CASE /\ ad'.mirror = ClearRunning(ad.mirror)
           /\ \/ ad'.ended = ad.ended
              \/ \E id : ad'.ended = [ad.ended EXCEPT ![id] = @ + 1]
  <2> DEFINE q == ClearRunning(ad.mirror)
  <2>1. Alters(q, ad.mirror)
    BY DEF Alters
  <2>2. ad'.ended \in [RowIds -> Nat]
    <3>1. ASSUME NEW id, ad'.ended = [ad.ended EXCEPT ![id] = @ + 1]
          PROVE  ad'.ended \in [RowIds -> Nat]
      <4> DEFINE e == ad.ended
      <4>1. e \in [RowIds -> Nat] /\ ad'.ended = [e EXCEPT ![id] = @ + 1]
        BY <1>0, <3>1
      <4> HIDE DEF e
      <4> QED BY <4>1, StillCounts
    <3> QED BY <1>0, <1>5, <3>1
  <2> QED BY <1>1, <1>5, <2>1, <2>2 DEF Tallied
<1>6. CASE Drops(ad', ad)
  <2> DEFINE q == ClearMirror(ClearRunning(ClearLocal(ad.mirror)))
  <2>1. Sound(q) /\ AllIds(q) = {} /\ q.seq <= MaxSeq
    BY <1>0, BlankMirrors DEF Fine
  <2>2. ad'.mirror = q /\ ad'.ended \in [RowIds -> Nat]
    BY <1>0, <1>6, StillCounts DEF Drops, Books
  <2> QED BY <1>2, <2>1, <2>2 DEF Tallied
<1>7. CASE Books(ad', EmptyMirror, ad.ended)
  <2>1. MaxSeq \in Nat
    BY SchedulerBounds
  <2>2. Sound(EmptyMirror) /\ AllIds(EmptyMirror) = {} /\ EmptyMirror.seq <= MaxSeq
    BY <2>1, BlankMirrors
  <2> QED BY <1>0, <1>2, <1>7, <2>2 DEF Books, Tallied
<1>8. CASE \E s, f : Shows(ad', ad, s, f)
  <2>1. Grew(ad'.mirror, ad.mirror) /\ ad'.ended = ad.ended
    BY <1>0, <1>8, ShowsGrew
  <2> QED BY <1>0, <2>1, StillFine DEF Tallied
<1> QED BY <1>3, <1>4, <1>5, <1>6, <1>7, <1>8 DEF Changes

\* A prompt comes.
LEMMA TalliedOpens ==
    ASSUME SchedInv, Tallied, Fresh(ad', ad), NEW p \in Clients, NEW lane \in Lanes,
           Prompt(p, lane), Opens(ad', ad, p, lane)
    PROVE  Tallied'
<1>1. ad.outcome[p] = "new" /\ ad'.outcome[p] = "open"
  BY PromptFlags DEF SchedInv
<1>2. p \notin AllIds(ad.mirror) /\ Sound(ad.mirror) /\ ad.mirror.seq <= MaxSeq
  BY <1>1 DEF Tallied, Fine, Unseen
<1>3. lane \in RowLanes
  BY DEF RowLanes
<1>4. /\ Sound(ad'.mirror) /\ ad'.mirror.seq = ad.mirror.seq /\ ad'.ended = ad.ended
      /\ AllIds(ad'.mirror) \subseteq AllIds(ad.mirror) \cup {p}
  BY <1>2, <1>3, OpensGood DEF Opens, Books
<1>5. Unseen(ad'.outcome, ad'.mirror)
  BY <1>1, <1>4 DEF Unseen, Tallied, Fresh
<1> QED BY <1>2, <1>4, <1>5 DEF Tallied, Fine

\* The mirror is good in the first state.
LEMMA TalliedInitial == SchedInit => Tallied
<1> SUFFICES ASSUME SchedInit PROVE Tallied
  OBVIOUS
<1>1. MaxSeq \in Nat
  BY SchedulerBounds
<1>2. ad.mirror = EmptyMirror /\ ad.ended = [id \in RowIds |-> 0]
  BY DEF SchedInit, InitialState
<1>3. ad.ended \in [RowIds -> Nat]
  BY <1>2
<1> QED BY <1>1, <1>2, <1>3, BlankMirrors DEF Tallied, Fine, Unseen

\* Every step keeps the mirror good.
LEMMA TalliedInductive ==
    ASSUME SchedInv, Shape, Tallied, [SchedNext]_schedVars
    PROVE  Tallied'
<1>1. CASE UNCHANGED schedVars
  BY <1>1 DEF schedVars, Tallied
<1>2. CASE ClientStep
  <2>1. Fresh(ad', ad)
    BY <1>2, ClientOrdinary DEF Ordinary
  <2>2. \/ Changes(ad', ad)
        \/ \E p \in Clients, lane \in Lanes : Prompt(p, lane) /\ Opens(ad', ad, p, lane)
    BY <1>2, ClientBooks DEF Changes
  <2> QED BY <2>1, <2>2, TalliedChanges, TalliedOpens
<1>3. ASSUME NEW p \in Clients, PromptStep(p) PROVE Tallied'
  <2>1. Fresh(ad', ad)
    BY <1>3, PromptOrdinary DEF Ordinary
  <2>2. Changes(ad', ad)
    BY <1>3, OtherBooks DEF Changes
  <2> QED BY <2>1, <2>2, TalliedChanges
<1>4. ASSUME NEW o \in Tasks, TaskStep(o) PROVE Tallied'
  <2>1. Fresh(ad', ad)
    BY <1>4, TaskOrdinary DEF Ordinary, Leaves, Takes
  <2>2. IsAdapter(ad)
    BY DEF SchedInv, Accounts
  <2>3. Changes(ad', ad)
    BY <1>4, <2>2, TaskBooks, DispatchFailsBooks DEF Changes
  <2> QED BY <2>1, <2>3, TalliedChanges
<1>5. CASE ConsumerStep
  <2>1. Fresh(ad', ad)
    BY <1>5, ConsumerOrdinary DEF Ordinary, Takes
  <2>2. Changes(ad', ad)
    BY <1>5, ConsumerBooks DEF Changes
  <2> QED BY <2>1, <2>2, TalliedChanges
<1>6. CASE BashEnds \/ Respawn \/ Rebind \/ ContinuationExpires \/ PiStep
  <2>1. Fresh(ad', ad)
    BY <1>6, OtherOrdinary DEF Ordinary
  <2>2. Changes(ad', ad)
    BY <1>6, OtherBooks DEF Changes
  <2> QED BY <2>1, <2>2, TalliedChanges
<1> QED BY <1>1, <1>2, <1>3, <1>4, <1>5, <1>6 DEF SchedNext

-----------------------------------------------------------------------------
(* The unread events: how many, and of which kinds.                        *)

\* The kinds of events that do not make the adapter load the state.
Usual == {"agent_start", "agent_settled", "queue_update", "message_end", "extension",
          "goal", "exit"}

\* Events of the kinds K are sent, or one is read, or neither.
Arrives(K) == \E es : Kindly(es, K) /\ Emit(es)
Passes == UNCHANGED events \/ (events # << >> /\ events' = Tail(events))

\* A goal's file is announced.
LEMMA GoalArrives ==
    ASSUME NEW control, WriteGoal(control)
    PROVE  Arrives(Usual)
<1> DEFINE x == <<Event("goal")>>
           y == IF pi'.streaming = pi.streaming THEN << >> ELSE <<Event("agent_start")>>
<1>1. Emit(x \o y)
  BY DEF WriteGoal
<1>2. Event("goal").kind \in Usual /\ Event("agent_start").kind \in Usual
  BY EventKinds DEF Usual
<1> HIDE DEF Usual
<1>3. Kindly(x, Usual)
  BY <1>2, KindlyLists
<1>4. Kindly(y, Usual)
  <2>1. Kindly(<< >>, Usual) /\ Kindly(<<Event("agent_start")>>, Usual)
    BY <1>2, KindlyLists
  <2> QED BY <2>1
<1> HIDE DEF x, y
<1>5. Kindly(x \o y, Usual)
  BY <1>3, <1>4, KindlyLists
<1> QED BY <1>1, <1>5 DEF Arrives

\* What Pi sends.
LEMMA PiArrives ==
    ASSUME PiStep
    PROVE  \/ UNCHANGED events \/ Arrives(Usual)
           \/ PiStateChanges /\ Spend("refresh") /\ Arrives({"state_changed"})
<1>k. /\ \A kind : Event(kind).kind = kind
      /\ \A kind, lane : [Event(kind) EXCEPT !.lane = lane].kind = kind
      /\ ArraysEvent.kind = "queue_update"
  BY EventKinds
<1>u. /\ Event("agent_start").kind \in Usual /\ ArraysEvent.kind \in Usual
      /\ Event("message_end").kind \in Usual /\ Event("agent_settled").kind \in Usual
      /\ \A lane : [Event("extension") EXCEPT !.lane = lane].kind \in Usual
      /\ Event("exit").kind \in Usual
  BY <1>k DEF Usual
<1> HIDE DEF Usual
<1>e. ASSUME NEW e, e.kind \in Usual, Emit(<<e>>) PROVE Arrives(Usual)
  <2> DEFINE es == <<e>>
  <2>1. Kindly(es, Usual) /\ Emit(es)
    BY <1>e, KindlyLists
  <2> QED BY <2>1 DEF Arrives
<1>1. ASSUME NEW o, PiReplies(o) PROVE UNCHANGED events \/ Arrives(Usual)
  <2>1. \/ UNCHANGED events \/ Emit(<<Event("agent_start")>>) \/ Emit(<<ArraysEvent>>)
    BY <1>1 DEF PiReplies, PiAccepts, PiQueuesSteer, PiRefuses, PiAnswers
  <2> QED BY <1>e, <1>u, <2>1
<1>2. ASSUME PiStartsTurn \/ PiQueuesFollowUp \/ PiSettles \/ PiCrashes PROVE Arrives(Usual)
  <2>1. \/ Emit(<<Event("agent_start")>>) \/ Emit(<<ArraysEvent>>)
        \/ Emit(<<Event("agent_settled")>>) \/ Emit(<<Event("exit")>>)
    BY <1>2 DEF PiStartsTurn, PiQueuesFollowUp, PiSettles, PiCrashes
  <2> QED BY <1>e, <1>u, <2>1
<1>3. ASSUME PiExtensionMessage PROVE Arrives(Usual)
  <2>1. PICK lane \in Lanes : Emit(<<[Event("extension") EXCEPT !.lane = lane]>>)
    BY <1>3 DEF PiExtensionMessage
  <2> QED BY <1>e, <1>u, <2>1
<1>4. ASSUME PiEndsMessage PROVE Arrives(Usual)
  <2> DEFINE x == <<Event("message_end")>>
             y == IF pi.steering = << >> THEN << >> ELSE <<ArraysEvent>>
  <2>1. Emit(x \o y)
    BY <1>4 DEF PiEndsMessage
  <2>2. Kindly(x, Usual)
    BY <1>u, KindlyLists
  <2>3. Kindly(y, Usual)
    <3>1. Kindly(<< >>, Usual) /\ Kindly(<<ArraysEvent>>, Usual)
      BY <1>u, KindlyLists
    <3> QED BY <3>1
  <2> HIDE DEF x, y
  <2>4. Kindly(x \o y, Usual)
    BY <2>2, <2>3, KindlyLists
  <2> QED BY <2>1, <2>4 DEF Arrives
<1>5. ASSUME PiContinues PROVE Arrives(Usual)
  <2> DEFINE es == <<ArraysEvent, Event("agent_start")>>
  <2>1. Emit(es)
    BY <1>5 DEF PiContinues
  <2>2. Kindly(es, Usual)
    BY <1>u, KindlyLists
  <2> HIDE DEF es
  <2> QED BY <2>1, <2>2 DEF Arrives
<1>6. ASSUME PiStateChanges PROVE Spend("refresh") /\ Arrives({"state_changed"})
  <2> DEFINE e == Event("state_changed")
             K == {"state_changed"}
  <2>1. Spend("refresh") /\ Emit(<<e>>)
    BY <1>6 DEF PiStateChanges
  <2>2. e.kind \in K
    BY <1>k
  <2> HIDE DEF e, K
  <2>3. Kindly(<<e>>, K)
    BY <2>2, KindlyLists
  <2> QED BY <2>1, <2>3 DEF Arrives, K
<1>7. ASSUME PiSetsGoal \/ PiEditsGoal PROVE Arrives(Usual)
  BY <1>7, GoalArrives DEF PiSetsGoal, PiEditsGoal
<1> QED BY <1>1, <1>2, <1>3, <1>4, <1>5, <1>6, <1>7 DEF PiStep

\* Nobody else sends events.
LEMMA OthersPass ==
    ASSUME \/ ClientStep \/ ConsumerStep
           \/ \E p \in Clients : PromptStep(p)
           \/ \E o \in Tasks : TaskStep(o)
           \/ BashEnds \/ Respawn \/ Rebind \/ ContinuationExpires
    PROVE  Passes
<1>1. CASE ClientStep
  BY <1>1 DEF ClientStep, Prompt, Interject, Cancel, RemoveRows, BashStarts, Passes
<1>2. ASSUME NEW p, PromptStep(p) PROVE Passes
  BY <1>2 DEF PromptStep, DirectAccepted, DirectFails, Passes
<1>3. ASSUME NEW o, TaskStep(o) PROVE Passes
  BY <1>3 DEF TaskStep, Kick, Dispatch, DispatchAccepted, DispatchFails, SendSteer,
              SteerAccepted, SteerFails, ProbeWakes, ProbeAnswered, TurnEnds,
              ContinueGoal, SettlePolls, SettleConfirmed, SettleAgain, SettleGivesUp, Passes
<1>4. CASE ConsumerStep
  BY <1>4 DEF ConsumerStep, AgentStart, AgentSettled, SlotIsCleared, MessageEnd,
              QueueUpdate, ExtensionMessage, StateChanged, Reloaded, ProcessExit,
              GoalMessage, NextEvent, Passes
<1>5. CASE BashEnds \/ Respawn \/ Rebind \/ ContinuationExpires
  BY <1>5 DEF BashEnds, Respawn, Rebind, ContinuationExpires, Passes
<1> QED BY <1>1, <1>2, <1>3, <1>4, <1>5

\* How the unread events change in a step.
LEMMA EventsChange ==
    ASSUME [SchedNext]_schedVars
    PROVE  \/ Passes \/ Arrives(Usual)
           \/ PiStateChanges /\ Spend("refresh") /\ Arrives({"state_changed"})
<1>1. CASE UNCHANGED schedVars
  BY <1>1 DEF schedVars, Passes
<1>2. CASE SchedNext
  BY <1>2, OthersPass, PiArrives DEF SchedNext, Passes
<1> QED BY <1>1, <1>2

\* There are never more than MaxEvents.
LEMMA EventsBounded ==
    ASSUME Unread(events), Len(events) <= MaxEvents, [SchedNext]_schedVars
    PROVE  Len(events') <= MaxEvents
<1>1. PICK S : events \in Seq(S)
  BY DEF Unread, IsSeq
<1>0. MaxEvents \in Nat
  BY SchedulerBounds
<1>2. CASE Passes
  BY <1>0, <1>1, <1>2 DEF Passes
<1>3. ASSUME NEW K, Arrives(K) PROVE Len(events') <= MaxEvents
  <2>1. PICK es : Kindly(es, K) /\ Emit(es)
    BY <1>3 DEF Arrives
  <2>2. PICK T : es \in Seq(T)
    BY <2>1 DEF Kindly, IsSeq
  <2> DEFINE U == S \cup T
  <2>3. events \in Seq(U) /\ es \in Seq(U)
    BY <1>1, <2>2, SeqMore
  <2> HIDE DEF U
  <2>4. Len(events \o es) = Len(events) + Len(es)
    BY <2>3
  <2>5. Len(events) + Len(es) <= MaxEvents /\ events' = events \o es
    BY <2>1 DEF Emit
  <2> QED BY <2>4, <2>5
<1> QED BY <1>2, <1>3, EventsChange

-----------------------------------------------------------------------------
(* The types.                                                              *)

\* Type correctness: the flags of the prompts are about the prompts that are
\* there, the generated ids and the unread events stay within their bounds.
THEOREM SchedTypeCorrect == SchedSafeSpec => []SchedTypeOK
<1> DEFINE I == SchedInv /\ Shape /\ Tallied /\ Len(events) <= MaxEvents
<1>1. SchedInit => I
  <2> SUFFICES ASSUME SchedInit PROVE I
    OBVIOUS
  <2>1. events = << >> /\ MaxEvents \in Nat
    BY SchedulerBounds DEF SchedInit
  <2>2. Len(events) <= MaxEvents
    BY <2>1
  <2> QED BY <2>2, SchedInitial, ShapeInitial, TalliedInitial
<1>2. I /\ [SchedNext]_schedVars => I'
  <2> SUFFICES ASSUME I, [SchedNext]_schedVars PROVE I'
    OBVIOUS
  <2>1. Len(events)' <= MaxEvents
    BY EventsBounded DEF SchedInv
  <2> QED BY <2>1, SchedInductive, ShapeInductive, TalliedInductive
<1>3. I => SchedTypeOK
  <2> SUFFICES ASSUME I PROVE SchedTypeOK
    OBVIOUS
  <2>1. ad.mirror.seq \in Nat /\ ad.mirror.seq <= MaxSeq /\ MaxSeq \in Nat
    BY SchedulerBounds DEF SchedInv, Accounts, Queue, Tallied, Fine
  <2>2. ad.started \subseteq ad.active /\ DOMAIN task = Tasks
    BY DEF Shape, Steady, Tasked
  <2>3. /\ ad.active \subseteq Clients /\ ad.waiting \subseteq Clients
        /\ ad.outcome \in [Clients -> Outcomes]
    BY DEF SchedInv, Accounts, Balanced
  <2> QED BY <2>1, <2>2, <2>3 DEF SchedTypeOK, Tallied
<1> QED BY <1>1, <1>2, <1>3, PTL DEF SchedSafeSpec

-----------------------------------------------------------------------------
(* The consumer loads the state only when it is told that it has changed.  *)

\* The consumer does not begin to load the state.
Unloading == task'[Consumer].pc = "load" => task[Consumer].pc = "load"

\* A task moves on.
LEMMA UnloadingMoves ==
    ASSUME DOMAIN task = Tasks, NEW o, NEW t, Moves(o, t), t.pc # "load" \/ o # Consumer
    PROVE  Unloading
BY OthersWait, TaskKinds DEF Unloading

\* A task goes on to other awaits.
LEMMA UnloadingGoes ==
    ASSUME DOMAIN task = Tasks, NEW o, NEW pcs, Goes(o, pcs), "load" \notin pcs
    PROVE  Unloading
<1>1. PICK t : Moves(o, t) /\ t.pc # "load"
  BY DEF Goes
<1> QED BY <1>1, UnloadingMoves

\* A task ends and leaves a probe.
LEMMA UnloadingSpawns ==
    ASSUME DOMAIN task = Tasks, NEW o \in Tasks, task[o].pc # "end", SpawnProbe(o)
    PROVE  Unloading
<1>1. PICK n \in 1 .. MaxProbes :
               /\ ProbeTask(n) \in Tasks /\ task[ProbeTask(n)] = Done /\ ProbeTask(n) # o
               /\ DOMAIN task' = Tasks
               /\ task'[o] = Done /\ task'[ProbeTask(n)] = At("doze", NoRow)
               /\ \A q \in Tasks : q # o /\ q # ProbeTask(n) => task'[q] = task[q]
  BY Spawned
<1>2. Done.pc = "end" /\ At("doze", NoRow).pc = "doze" /\ Consumer \in Tasks
  BY TaskStates, TaskKinds
<1> QED BY <1>1, <1>2 DEF Unloading

\* The client, the prompts that go to Pi directly, and the Bash command have
\* tasks of their own.
LEMMA ClientUnloading ==
    ASSUME SchedInv, Shape, ClientStep \/ BashEnds \/ \E p \in Clients : PromptStep(p)
    PROVE  Unloading
<1>0. /\ Accounts(ad) /\ DOMAIN task = Tasks /\ Consumer \in Tasks
      /\ Consumer # BashTask
  BY TaskKinds DEF SchedInv, Shape, Tasked
<1>k. /\ \A p : PromptTask(p) # Consumer /\ InterjectTask(p) # Consumer
      /\ \A n : SettleTask(n) # Consumer
  BY TaskKinds
<1>1. ASSUME NEW p \in Clients, NEW lane \in Lanes, Prompt(p, lane) PROVE Unloading
  <2>1. \E t : Moves(PromptTask(p), t)
    BY <1>1, TaskKinds DEF Prompt, Moves
  <2> QED BY <1>0, <1>k, <2>1, UnloadingMoves
<1>2. ASSUME NEW p \in Clients, Interject(p) PROVE Unloading
  <2>1. \E t : Moves(InterjectTask(p), t)
    BY <1>0, <1>2, InterjectFlags
  <2> QED BY <1>0, <1>k, <2>1, UnloadingMoves
<1>3. CASE Cancel
  <2>1. \E o, t : o # Consumer /\ task' = [task EXCEPT ![o] = t]
    BY <1>3, <1>k DEF Cancel
  <2> QED BY <1>0, <2>1 DEF Unloading
<1>4. ASSUME NEW ids, RemoveRows(ids) PROVE Unloading
  BY <1>4 DEF RemoveRows, Unloading
<1>5. CASE BashStarts \/ BashEnds
  <2>1. \E t : Moves(BashTask, t)
    BY <1>5, TaskKinds DEF BashStarts, BashEnds, Moves
  <2> QED BY <1>0, <2>1, UnloadingMoves
<1>6. ASSUME NEW p \in Clients, PromptStep(p) PROVE Unloading
  <2>1. PromptTask(p) \in Tasks
    BY TaskKinds
  <2>2. \/ \E t : Moves(PromptTask(p), t)
        \/ task[PromptTask(p)].pc = "acked" /\ SpawnProbe(PromptTask(p))
    BY <1>6, <2>1 DEF PromptStep, DirectAccepted, DirectFails, Moves
  <2> QED BY <1>0, <1>k, <2>1, <2>2, UnloadingMoves, UnloadingSpawns
<1> QED BY <1>1, <1>2, <1>3, <1>4, <1>5, <1>6 DEF ClientStep

\* The steps of the tasks.
LEMMA TaskUnloading ==
    ASSUME SchedInv, Shape, NEW o \in Tasks, TaskStep(o)
    PROVE  Unloading
<1>0. /\ Accounts(ad) /\ IsAdapter(ad) /\ Arrays(pi) /\ DOMAIN task = Tasks
  BY DEF SchedInv, Shape, Tasked, Accounts
<1>s. /\ \A pc, row : At(pc, row).pc = pc /\ Sent(pc, row).pc = pc
      /\ DOMAIN At("kick", NoRow) = TaskFields
      /\ Done.pc = "end"
      /\ \A row : DOMAIN Sent("sent", row) = TaskFields /\ Settling(row).pc = "settled"
      /\ \A t : DOMAIN t = TaskFields => Onward(o, t).pc = t.pc
  BY TaskStates
<1>1. ASSUME Kick(o) PROVE Unloading
  <2>1. Goes(o, {"end", "continue", "announce"})
    BY <1>0, <1>1, DispatchFlags DEF Kick, Goes
  <2> QED BY <1>0, <2>1, UnloadingGoes
<1>2. ASSUME Dispatch(o) \/ SendSteer(o) PROVE Unloading
  <2> DEFINE s == Sent("sent", task[o].row)
             t == Onward(o, s)
             u == Sent("steer", task[o].row)
  <2>1. Moves(o, t) \/ Moves(o, u)
    BY <1>2 DEF Dispatch, SendSteer, Moves
  <2>2. t.pc = "sent" /\ u.pc = "steer"
    BY <1>s
  <2> HIDE DEF t, u
  <2> QED BY <1>0, <2>1, <2>2, UnloadingMoves
<1>3. ASSUME DispatchAccepted(o) PROVE Unloading
  <2>1. SpawnProbe(o) /\ task[o].pc = "sent"
    BY <1>3 DEF DispatchAccepted, Answered
  <2> QED BY <1>0, <2>1, UnloadingSpawns
<1>4. ASSUME DispatchFails(o) \/ SteerFails(o) PROVE Unloading
  <2> DEFINE t == Onward(o, At("kick", NoRow))
  <2>1. Moves(o, t) \/ Moves(o, Done)
    BY <1>4 DEF DispatchFails, SteerFails, Moves
  <2>2. t.pc = "kick"
    BY <1>s
  <2> HIDE DEF t
  <2> QED BY <1>0, <1>s, <2>1, <2>2, UnloadingMoves
<1>5. ASSUME SteerAccepted(o) PROVE Unloading
  <2>1. \/ o = Consumer /\ FlushPendingSteering(ad)
        \/ task' = [task EXCEPT ![o] = Done]
    BY <1>5 DEF SteerAccepted
  <2>2. (\E t : Moves(o, t) /\ t.pc = "steering") \/ Moves(o, Done)
    BY <1>0, <2>1, FlushFlags DEF Moves
  <2> QED BY <1>0, <1>s, <2>2, UnloadingMoves
<1>6. ASSUME ProbeWakes(o) \/ ProbeAnswered(o) PROVE Unloading
  <2> DEFINE t == Sent("ask", NoRow)
             u == Settling(ad.mirror.running)
  <2>1. Moves(o, t) \/ Moves(o, Done) \/ Moves(o, u)
    BY <1>6 DEF ProbeWakes, ProbeAnswered, Moves
  <2>2. t.pc = "ask" /\ u.pc = "settled"
    BY <1>s
  <2> HIDE DEF t, u
  <2> QED BY <1>0, <1>s, <2>1, <2>2, UnloadingMoves
<1>7. ASSUME TurnEnds(o) PROVE Unloading
  <2>1. Goes(o, {"kick"}) \/ Goes(o, {"end", "continue"}) \/ Goes(o, {"announce"})
    BY <1>0, <1>7, TurnEndsFlags
  <2> QED BY <1>0, <2>1, UnloadingGoes
<1>8. ASSUME ContinueGoal(o) PROVE Unloading
  <2>1. Goes(o, {"kick"}) \/ Goes(o, {"end"})
    BY <1>0, <1>8, ContinueFlags
  <2> QED BY <1>0, <2>1, UnloadingGoes
<1>9. ASSUME SettlePolls(o) \/ SettleAgain(o) PROVE Unloading
  <2> DEFINE n == IF task[o].pc = "poll" THEN task[o].polls
                  ELSE IF task[o].reply = "idle" THEN task[o].polls + 1 ELSE 0
             s == Sent("ask", NoRow)
             a == At("poll", NoRow)
             t == [s EXCEPT !.polls = n]
             u == [a EXCEPT !.polls = n]
  <2>1. Moves(o, t) \/ Moves(o, u) \/ Moves(o, Done)
    BY <1>9 DEF SettlePolls, SettleAgain, Answered, Moves
  <2> HIDE DEF n
  <2>2. DOMAIN s = TaskFields /\ s.pc = "ask" /\ DOMAIN a = TaskFields /\ a.pc = "poll"
    BY TaskStates
  <2> HIDE DEF s, a
  <2>3. t.pc = "ask" /\ u.pc = "poll"
    BY <2>2 DEF TaskFields
  <2> HIDE DEF t, u
  <2> QED BY <1>0, <1>s, <2>1, <2>3, UnloadingMoves
<1>10. ASSUME SettleConfirmed(o) \/ SettleGivesUp(o) PROVE Unloading
  <2> DEFINE t == At("kick", NoRow)
  <2>1. Moves(o, t) \/ Moves(o, Done)
    BY <1>10 DEF SettleConfirmed, SettleGivesUp, Moves
  <2>2. t.pc = "kick"
    BY <1>s
  <2> HIDE DEF t
  <2> QED BY <1>0, <1>s, <2>1, <2>2, UnloadingMoves
<1> QED BY <1>1, <1>2, <1>3, <1>4, <1>5, <1>6, <1>7, <1>8, <1>9, <1>10 DEF TaskStep

\* The consumer's other steps.
LEMMA ConsumerUnloading ==
    ASSUME SchedInv, Shape, ConsumerStep
    PROVE  Unloading \/ StateChanged
<1>0. Accounts(ad) /\ DOMAIN task = Tasks
  BY DEF SchedInv, Shape, Tasked
<1>s. /\ \A pc, row : At(pc, row).pc = pc /\ Sent(pc, row).pc = pc
      /\ Done.pc = "end" /\ Consumer \in Tasks
      /\ \A row : Settling(row).pc = "settled"
  BY TaskStates, TaskKinds
<1>1. ASSUME AgentStart \/ QueueUpdate \/ GoalMessage \/ ProcessExit PROVE Unloading
  BY <1>1 DEF AgentStart, QueueUpdate, GoalMessage, ProcessExit, Unloading
<1>2. ASSUME AgentSettled \/ SlotIsCleared \/ Reloaded PROVE Unloading
  <2> DEFINE t == At("stats", NoRow)
             u == Settling(ad.mirror.running)
  <2>1. Moves(Consumer, t) \/ Moves(Consumer, u) \/ Moves(Consumer, Done)
    BY <1>2, <1>s DEF AgentSettled, SlotIsCleared, Reloaded, Moves
  <2>2. t.pc = "stats" /\ u.pc = "settled"
    BY <1>s
  <2> HIDE DEF t, u
  <2> QED BY <1>0, <1>s, <2>1, <2>2, UnloadingMoves
<1>3. ASSUME MessageEnd PROVE Unloading
  <2>1. UNCHANGED task \/ FlushPendingSteering(ad)
    BY <1>3 DEF MessageEnd
  <2>2. CASE UNCHANGED task
    BY <2>2 DEF Unloading
  <2>3. CASE FlushPendingSteering(ad)
    <3>1. (\E t : Moves(Consumer, t) /\ t.pc = "steering") \/ Moves(Consumer, Done)
      BY <1>0, <2>3, FlushFlags
    <3> QED BY <1>0, <1>s, <3>1, UnloadingMoves
  <2> QED BY <2>1, <2>2, <2>3
<1>4. ASSUME ExtensionMessage PROVE Unloading
  <2>1. Goes(Consumer, {"kick"}) \/ UNCHANGED task
    BY <1>4, ExtensionFlags DEF SchedInv
  <2>2. CASE UNCHANGED task
    BY <2>2 DEF Unloading
  <2> QED BY <1>0, <2>1, <2>2, UnloadingGoes
<1> QED BY <1>1, <1>2, <1>3, <1>4 DEF ConsumerStep

\* The other steps: a request is answered, or fails, where it is.
LEMMA OtherUnloading ==
    ASSUME SchedInv, Shape, Respawn \/ Rebind \/ ContinuationExpires \/ PiStep
    PROVE  Unloading
<1>0. DOMAIN task = Tasks /\ Consumer \in Tasks /\ \A o \in Tasks : DOMAIN task[o] = TaskFields
  BY TaskKinds DEF Shape, Tasked, Fit
<1>1. ASSUME NEW o \in Tasks, PiReplies(o) PROVE Unloading
  <2>1. \E r : Reply(o, r)
    BY <1>1 DEF PiReplies, PiAccepts, PiQueuesSteer, PiRefuses, PiAnswers
  <2>2. PICK t : Moves(o, t) /\ t.pc = task[o].pc
    BY <1>0, <2>1, Replied
  <2> QED BY <1>0, <2>2, OthersWait DEF Unloading
<1>2. ASSUME PiCrashes PROVE Unloading
  <2> DEFINE c == task[Consumer]
  <2>1. task'[Consumer] = c \/ task'[Consumer] = [c EXCEPT !.reply = "err"]
    BY <1>0, <1>2 DEF PiCrashes
  <2>2. DOMAIN c = TaskFields
    BY <1>0
  <2>3. task'[Consumer].pc = c.pc
    BY <2>1, <2>2 DEF TaskFields
  <2> QED BY <2>3 DEF Unloading
<1>3. CASE UNCHANGED task
  BY <1>3 DEF Unloading
<1> QED BY <1>1, <1>2, <1>3 DEF Respawn, Rebind, ContinuationExpires, PiStep, PiStartsTurn,
          PiQueuesFollowUp, PiEndsMessage, PiContinues, PiSettles, PiExtensionMessage,
          PiStateChanges, PiSetsGoal, PiEditsGoal, WriteGoal

\* As long as Pi has announced no change of the state, none is read or loaded.
NoChange(es) == \A i \in DOMAIN es : es[i].kind # "state_changed"
Unrefreshed == spent.refresh = 0 => task[Consumer].pc # "load" /\ NoChange(events)

\* The events that are read or sent.
LEMMA NoChangeKept ==
    ASSUME NEW es, IsSeq(es), NoChange(es)
    PROVE  /\ es # << >> => NoChange(Tail(es)) /\ Head(es).kind # "state_changed"
           /\ \A new : Kindly(new, Usual) => NoChange(es \o new)
<1>1. PICK S : es \in Seq(S)
  BY DEF IsSeq
<1>2. ASSUME es # << >> PROVE NoChange(Tail(es)) /\ Head(es).kind # "state_changed"
  <2>1. /\ Len(es) \in Nat \ {0} /\ DOMAIN es = 1 .. Len(es) /\ Head(es) = es[1]
        /\ DOMAIN Tail(es) = 1 .. (Len(es) - 1)
        /\ \A i \in 1 .. (Len(es) - 1) : Tail(es)[i] = es[i + 1]
    BY <1>1, <1>2
  <2> QED BY <2>1 DEF NoChange
<1>3. ASSUME NEW new, Kindly(new, Usual) PROVE NoChange(es \o new)
  <2>1. PICK T : new \in Seq(T)
    BY <1>3 DEF Kindly, IsSeq
  <2> DEFINE U == S \cup T
             all == es \o new
  <2>2. es \in Seq(U) /\ new \in Seq(U)
    BY <1>1, <2>1, SeqMore
  <2> HIDE DEF U
  <2>3. /\ Len(es) \in Nat /\ Len(new) \in Nat
        /\ DOMAIN es = 1 .. Len(es) /\ DOMAIN new = 1 .. Len(new)
        /\ DOMAIN all = 1 .. (Len(es) + Len(new))
        /\ \A i \in 1 .. Len(es) : all[i] = es[i]
        /\ \A i \in 1 .. (Len(es) + Len(new)) : i > Len(es) => all[i] = new[i - Len(es)]
    BY <2>2
  <2> HIDE DEF all
  <2>4. \A i \in DOMAIN new : new[i].kind # "state_changed"
    BY <1>3 DEF Kindly, Usual
  <2>5. ASSUME NEW i \in DOMAIN all PROVE all[i].kind # "state_changed"
    <3>1. CASE i <= Len(es)
      BY <2>3, <3>1 DEF NoChange
    <3>2. CASE i > Len(es)
      <4>1. i - Len(es) \in DOMAIN new /\ all[i] = new[i - Len(es)]
        BY <2>3, <3>2
      <4> QED BY <2>4, <4>1
    <3> QED BY <2>3, <3>1, <3>2
  <2> QED BY <2>5 DEF all, NoChange
<1> QED BY <1>2, <1>3

\* Nothing is to be loaded in the first state.
LEMMA UnrefreshedInitial == SchedInit => Unrefreshed
<1> SUFFICES ASSUME SchedInit PROVE Unrefreshed
  OBVIOUS
<1>1. events = << >> /\ task[Consumer] = Done
  BY TaskKinds DEF SchedInit
<1>2. Done.pc = "end"
  BY TaskStates
<1>3. NoChange(events)
  BY <1>1 DEF NoChange
<1> QED BY <1>1, <1>2, <1>3 DEF Unrefreshed

\* Nothing is to be loaded until the state changes.
LEMMA UnrefreshedInductive ==
    ASSUME SchedInv, Shape, Unrefreshed, [SchedNext]_schedVars
    PROVE  Unrefreshed'
<1> SUFFICES ASSUME spent'.refresh = 0 PROVE task'[Consumer].pc # "load" /\ NoChange(events')
  BY DEF Unrefreshed
<1>1. Counted /\ Counted' /\ Grows
  BY SpentGrows DEF Shape
<1>2. spent.refresh = 0 /\ ~Spend("refresh")
  <2>1. "refresh" \in Kinds
    BY DEF Kinds
  <2>2. spent.refresh \in Nat /\ spent.refresh = 0
    BY <1>1, <2>1, SpentBefore
  <2>3. Spend("refresh") => spent'.refresh = spent.refresh + 1
    BY <1>1, <2>1, Spending
  <2> QED BY <2>2, <2>3
<1>3. task[Consumer].pc # "load" /\ NoChange(events) /\ IsSeq(events)
  BY <1>2 DEF Unrefreshed, SchedInv, Unread
<1>4. NoChange(events')
  <2>1. CASE Passes
    BY <1>3, <2>1, NoChangeKept DEF Passes
  <2>2. CASE Arrives(Usual)
    BY <1>3, <2>2, NoChangeKept DEF Arrives, Emit
  <2> QED BY <1>2, <2>1, <2>2, EventsChange
<1>5. ~StateChanged
  BY <1>3, NoChangeKept DEF StateChanged, NextEvent
<1>6. Unloading
  <2>1. CASE UNCHANGED schedVars
    BY <2>1 DEF schedVars, Unloading
  <2>2. CASE SchedNext
    BY <1>5, <2>2, ClientUnloading, TaskUnloading, ConsumerUnloading, OtherUnloading
       DEF SchedNext
  <2> QED BY <2>1, <2>2
<1> QED BY <1>3, <1>4, <1>6 DEF Unloading

-----------------------------------------------------------------------------
(* The end of each turn is announced once.                                 *)

\* Task o is about to announce the end of a turn that is not the client's.
Owes(o) == /\ task[o].pc = "settled" /\ task[o].row # NoRow
           /\ task[o].row.origin # "Client"

\* A generated id that is in use no more, and what happens to the mirror when
\* such ids stay out of use.
Gone(id, m) == id \in Nat /\ id <= m.seq /\ id \notin AllIds(m)
Buries(q, m) == \A id : Gone(id, m) => Gone(id, q)

\* The rows whose end is announced, or about to be, are gone, and each of them
\* is announced once, or about to be by one task.
Posted == \A id \in RowIds : ad.ended[id] <= 1 /\ (ad.ended[id] # 0 => Gone(id, ad.mirror))
Owing == \A o \in Tasks : Owes(o) =>
             /\ Gone(task[o].row.id, ad.mirror)
             /\ \A id \in RowIds : id = task[o].row.id => ad.ended[id] = 0
Apart == \A o, q \in Tasks :
             Owes(o) /\ Owes(q) /\ task[o].row.id = task[q].row.id => o = q
Ledger == Posted /\ Owing /\ Apart

\* A change of the mirror brings back no id.
LEMMA GrewBuries ==
    ASSUME NEW m, m.seq \in Nat, NEW q, Grew(q, m)
    PROVE  Buries(q, m)
<1>1. Sound(q) /\ m.seq <= q.seq /\ AllIds(q) \subseteq AllIds(m) \cup Generated(m.seq, q.seq)
  BY DEF Grew
<1>2. q.seq \in Nat
  BY <1>1, GoodParts DEF Sound
<1>3. ASSUME NEW id, Gone(id, m) PROVE Gone(id, q)
  <2>1. id \in Nat /\ id <= m.seq /\ id \notin AllIds(m)
    BY <1>3 DEF Gone
  <2>2. id \notin Generated(m.seq, q.seq)
    BY <2>1 DEF Generated
  <2> QED BY <1>1, <1>2, <2>1, <2>2 DEF Gone
<1> QED BY <1>3 DEF Buries

\* The row that has the slot is in use, and is gone when the slot is cleared
\* or everything is dropped.
LEMMA SlotGoes ==
    ASSUME NEW m, Sound(m), m.running # NoRow, m.running.origin # "Client"
    PROVE  /\ m.running.id \in Nat /\ m.running.id <= m.seq /\ m.running.id \in AllIds(m)
           /\ Gone(m.running.id, ClearRunning(m))
           /\ Gone(m.running.id, ClearMirror(ClearRunning(ClearLocal(m))))
<1>0. PICK T : Clients \cup HostTexts \subseteq T /\ GoodMirror(m, RowsOver(T))
  BY DEF Sound
<1> DEFINE run == m.running
           id == run.id
           q == ClearRunning(m)
           d == ClearMirror(ClearRunning(ClearLocal(m)))
<1>1. /\ IsMirror(m) /\ run \in RowsOver(T) \cup {NoRow}
      /\ UniqueIds(m) /\ Behind(AllIds(m), m.seq)
  BY <1>0, GoodParts DEF GoodMirror
<1>2. run \in RowsOver(T)
  BY <1>1
<1>3. id \in Nat
  BY <1>2 DEF RowsOver
<1>4. Slot(m) = {id}
  BY DEF Slot
<1>5. id \in AllIds(m)
  BY <1>4 DEF AllIds
<1>6. id <= m.seq
  BY <1>1, <1>3, <1>5 DEF Behind
<1>7. id \notin IdsOf(m.local) /\ id \notin IdsOf(m.pi) /\ id \notin IdsOf(m.parked)
  BY <1>1, <1>4 DEF UniqueIds
<1>8. q = Mirror(m.local, m.pi, << >>, m.parked, NoRow, m.seq)
  BY <1>1, Operations
<1>9. d.seq = m.seq /\ AllIds(d) = {}
  BY BlankMirrors
<1> HIDE DEF q, d, id
<1>10. IdsOf(<< >>) = {}
  BY NoRows
<1>11. id \notin AllIds(q) /\ q.seq = m.seq
  BY <1>7, <1>8, <1>10, IdsOfParts
<1>12. Gone(id, q) /\ Gone(id, d)
  BY <1>3, <1>6, <1>9, <1>11 DEF Gone
<1> QED BY <1>3, <1>5, <1>6, <1>12 DEF id, q, d

\* Who owes an end, owed it before.
LEMMA OwedBefore ==
    ASSUME Unsettled, NEW o \in Tasks, Owes(o)'
    PROVE  Owes(o) /\ task'[o].row = task[o].row
BY DEF Unsettled, Owes

\* A step that announces nothing and ends no turn.
LEMMA LedgerStays ==
    ASSUME Ledger, Unsettled, Buries(ad'.mirror, ad.mirror), ad'.ended = ad.ended
    PROVE  Ledger'
<1>1. Posted'
  BY DEF Ledger, Posted, Buries
<1>2. Owing'
  <2>1. ASSUME NEW o \in Tasks, Owes(o)'
        PROVE  /\ Gone(task'[o].row.id, ad'.mirror)
               /\ \A id \in RowIds : id = task'[o].row.id => ad'.ended[id] = 0
    <3>1. Owes(o) /\ task'[o].row = task[o].row
      BY <2>1, OwedBefore
    <3> QED BY <3>1 DEF Ledger, Owing, Buries
  <2> QED BY <2>1 DEF Owing
<1>3. Apart'
  BY OwedBefore DEF Ledger, Apart
<1> QED BY <1>1, <1>2, <1>3 DEF Ledger

\* A task takes the slot's row.
LEMMA LedgerTakes ==
    ASSUME Ledger, DOMAIN task = Tasks, Sound(ad.mirror), ad.mirror.seq \in Nat,
           NEW o, Takes(o), ad'.ended = ad.ended
    PROVE  Ledger'
<1> DEFINE m == ad.mirror
           run == m.running
           id == run.id
           t == Settling(run)
<1>1. ad'.mirror = ClearRunning(m) /\ Moves(o, t)
  BY DEF Takes
<1>2. /\ o \in Tasks /\ task'[o] = t
      /\ \A q \in Tasks : q # o => task'[q] = task[q]
  BY <1>1, OthersWait
<1>3. t.pc = "settled" /\ t.row = run
  BY TaskStates
<1> HIDE DEF t
<1>4. Buries(ad'.mirror, m)
  <2> DEFINE q == ClearRunning(m)
  <2>1. Alters(q, m)
    BY DEF Alters
  <2>2. Grew(q, m)
    BY <2>1, AltersGrew
  <2> QED BY <1>1, <2>2, GrewBuries
<1>5. ASSUME Owes(o)'
      PROVE  id \in AllIds(m) /\ Gone(id, ad'.mirror) /\ task'[o].row.id = id
  <2>1. run # NoRow /\ run.origin # "Client"
    BY <1>2, <1>3, <1>5 DEF Owes
  <2> QED BY <1>1, <1>2, <1>3, <2>1, SlotGoes
<1>6. ASSUME NEW q \in Tasks, q # o, Owes(q)'
      PROVE  Owes(q) /\ task'[q] = task[q] /\ Gone(task[q].row.id, m)
  <2>1. Owes(q) /\ task'[q] = task[q]
    BY <1>2, <1>6 DEF Owes
  <2> QED BY <2>1 DEF Ledger, Owing
<1>7. Posted'
  BY <1>4 DEF Ledger, Posted, Buries
<1>8. Owing'
  <2>1. ASSUME NEW q \in Tasks, Owes(q)'
        PROVE  /\ Gone(task'[q].row.id, ad'.mirror)
               /\ \A x \in RowIds : x = task'[q].row.id => ad'.ended[x] = 0
    <3>1. CASE q = o
      <4>1. id \in AllIds(m) /\ Gone(id, ad'.mirror) /\ task'[q].row.id = id
        BY <1>5, <2>1, <3>1
      <4>2. ~Gone(id, m)
        BY <4>1 DEF Gone
      <4> QED BY <4>1, <4>2 DEF Ledger, Posted
    <3>2. CASE q # o
      <4>1. Owes(q) /\ task'[q] = task[q] /\ Gone(task[q].row.id, m)
        BY <1>6, <2>1, <3>2
      <4> QED BY <1>4, <4>1 DEF Ledger, Owing, Buries
    <3> QED BY <3>1, <3>2
  <2> QED BY <2>1 DEF Owing
<1>9. Apart'
  <2>1. ASSUME NEW p \in Tasks, NEW q \in Tasks, Owes(p)', Owes(q)',
               task'[p].row.id = task'[q].row.id
        PROVE  p = q
    <3>1. CASE p # o /\ q # o
      <4>1. Owes(p) /\ Owes(q) /\ task'[p] = task[p] /\ task'[q] = task[q]
        BY <1>6, <2>1, <3>1
      <4> QED BY <2>1, <4>1 DEF Ledger, Apart
    <3>2. ASSUME NEW r \in Tasks, r # o, Owes(r)', Owes(o)',
                 task'[r].row.id = task'[o].row.id
          PROVE  FALSE
      <4>1. id \in AllIds(m) /\ task'[o].row.id = id
        BY <1>5, <3>2
      <4>2. Gone(task'[r].row.id, m)
        BY <1>6, <3>2
      <4> QED BY <3>2, <4>1, <4>2 DEF Gone
    <3> QED BY <2>1, <3>1, <3>2
  <2> QED BY <2>1 DEF Apart
<1> QED BY <1>7, <1>8, <1>9 DEF Ledger

\* One more message for the row id.
LEMMA OneMore ==
    ASSUME NEW e \in [RowIds -> Nat], NEW id
    PROVE  \A x \in RowIds : [e EXCEPT ![id] = @ + 1][x] = IF x = id THEN e[x] + 1 ELSE e[x]
<1> DEFINE S == RowIds
<1>1. e \in [S -> Nat]
  OBVIOUS
<1> HIDE DEF S
<1>2. \A x \in S : [e EXCEPT ![id] = @ + 1][x] = IF x = id THEN e[x] + 1 ELSE e[x]
  BY <1>1
<1> QED BY <1>2 DEF S

\* A task that ends a turn announces it.
LEMMA LedgerPays ==
    ASSUME Ledger, ad.ended \in [RowIds -> Nat], NEW o \in Tasks, Leaves(o),
           Buries(ad'.mirror, ad.mirror), ad'.ended = Announced(ad.ended, task[o].row)
    PROVE  Ledger'
<1> DEFINE row == task[o].row
           id == row.id
<1>0. Unsettled /\ task[o].pc = "settled" /\ task'[o].pc # "settled"
  BY DEF Leaves, Ordinary
<1>1. CASE row = NoRow \/ row.origin = "Client"
  BY <1>0, <1>1, LedgerStays DEF Announced
<1>2. CASE row # NoRow /\ row.origin # "Client"
  <2>1. Owes(o) /\ ~Owes(o)'
    BY <1>0, <1>2 DEF Owes
  <2>2. \A x \in RowIds : ad'.ended[x] = IF x = id THEN ad.ended[x] + 1 ELSE ad.ended[x]
    BY <1>2, OneMore DEF Announced
  <2>3. Gone(id, ad.mirror) /\ \A x \in RowIds : x = id => ad.ended[x] = 0
    BY <2>1 DEF Ledger, Owing
  <2>4. Posted'
    BY <2>2, <2>3 DEF Ledger, Posted, Buries
  <2>5. ASSUME NEW q \in Tasks, Owes(q)'
        PROVE  Owes(q) /\ task'[q].row = task[q].row /\ task[q].row.id # id
    <3>1. Owes(q) /\ task'[q].row = task[q].row
      BY <1>0, <2>5, OwedBefore
    <3>2. q # o
      BY <2>1, <2>5
    <3> QED BY <2>1, <3>1, <3>2 DEF Ledger, Apart
  <2>6. Owing'
    <3>1. ASSUME NEW q \in Tasks, Owes(q)'
          PROVE  /\ Gone(task'[q].row.id, ad'.mirror)
                 /\ \A x \in RowIds : x = task'[q].row.id => ad'.ended[x] = 0
      <4>1. Owes(q) /\ task'[q].row = task[q].row /\ task[q].row.id # id
        BY <2>5, <3>1
      <4> QED BY <2>2, <4>1 DEF Ledger, Owing, Buries
    <3> QED BY <3>1 DEF Owing
  <2>7. Apart'
    BY <2>5 DEF Ledger, Apart
  <2> QED BY <2>4, <2>6, <2>7 DEF Ledger
<1> QED BY <1>1, <1>2

\* Everything is dropped, and the end of the running turn announced.
LEMMA LedgerDrops ==
    ASSUME Ledger, ad.ended \in [RowIds -> Nat], Sound(ad.mirror), Unsettled,
           Drops(ad', ad)
    PROVE  Ledger'
<1> DEFINE m == ad.mirror
           run == m.running
           id == run.id
           d == ClearMirror(ClearRunning(ClearLocal(m)))
<1>0. ad'.mirror = d /\ ad'.ended = Announced(ad.ended, run)
  BY DEF Drops, Books
<1>1. Buries(ad'.mirror, m)
  <2>1. d.seq = m.seq /\ AllIds(d) = {}
    BY BlankMirrors
  <2> QED BY <1>0, <2>1 DEF Buries, Gone
<1> HIDE DEF d
<1>2. CASE run = NoRow \/ run.origin = "Client"
  BY <1>0, <1>1, <1>2, LedgerStays DEF Announced
<1>3. CASE run # NoRow /\ run.origin # "Client"
  <2>1. \A x \in RowIds : ad'.ended[x] = IF x = id THEN ad.ended[x] + 1 ELSE ad.ended[x]
    BY <1>0, <1>3, OneMore DEF Announced
  <2>2. id \in AllIds(m) /\ Gone(id, ad'.mirror)
    BY <1>0, <1>3, SlotGoes DEF d
  <2>3. ~Gone(id, m)
    BY <2>2 DEF Gone
  <2>4. \A x \in RowIds : x = id => ad.ended[x] = 0
    BY <2>3 DEF Ledger, Posted
  <2>5. Posted'
    BY <1>1, <2>1, <2>2, <2>4 DEF Ledger, Posted, Buries
  <2>6. Owing'
    <3>1. ASSUME NEW q \in Tasks, Owes(q)'
          PROVE  /\ Gone(task'[q].row.id, ad'.mirror)
                 /\ \A x \in RowIds : x = task'[q].row.id => ad'.ended[x] = 0
      <4>1. Owes(q) /\ task'[q].row = task[q].row
        BY <3>1, OwedBefore
      <4>2. Gone(task[q].row.id, m) /\ task[q].row.id # id
        BY <2>3, <4>1 DEF Ledger, Owing
      <4> QED BY <1>1, <2>1, <4>1, <4>2 DEF Ledger, Owing, Buries
    <3> QED BY <3>1 DEF Owing
  <2>7. Apart'
    BY OwedBefore DEF Ledger, Apart
  <2> QED BY <2>5, <2>6, <2>7 DEF Ledger
<1> QED BY <1>2, <1>3

\* The ledger is right while nothing fails and no state is loaded.
Unbroken == Calm /\ spent.refresh = 0
Booked == Unbroken => Ledger

\* A prompt of the client takes none of the generated ids.
LEMMA OpensBuries ==
    ASSUME SchedInv, Tallied, NEW p \in Clients, NEW lane \in Lanes, Prompt(p, lane),
           Opens(ad', ad, p, lane)
    PROVE  Buries(ad'.mirror, ad.mirror) /\ ad'.ended = ad.ended
<1>1. ad.outcome[p] = "new" /\ lane \in RowLanes /\ p \notin Nat
  BY PromptFlags, ClientAssumption DEF SchedInv, RowLanes
<1>2. p \notin AllIds(ad.mirror) /\ Sound(ad.mirror)
  BY <1>1 DEF Tallied, Fine, Unseen
<1>3. /\ ad'.mirror.seq = ad.mirror.seq /\ ad'.ended = ad.ended
      /\ AllIds(ad'.mirror) \subseteq AllIds(ad.mirror) \cup {p}
  BY <1>1, <1>2, OpensGood DEF Opens, Books
<1> QED BY <1>1, <1>3 DEF Buries, Gone

\* What is written to the mirror brings back no id.
LEMMA FilesBuries ==
    ASSUME Tallied
    PROVE  /\ Files(ad', ad) => Buries(ad'.mirror, ad.mirror) /\ ad'.ended = ad.ended
           /\ \A row : Announces(ad', ad, row) =>
                  /\ Buries(ad'.mirror, ad.mirror)
                  /\ ad'.ended = Announced(ad.ended, row)
<1>1. Sound(ad.mirror) /\ ad.mirror.seq \in Nat
  BY GoodParts DEF Tallied, Fine, Sound
<1>2. \A q : Alters(q, ad.mirror) => Buries(q, ad.mirror)
  BY <1>1, AltersGrew, GrewBuries
<1> QED BY <1>2 DEF Files, Announces, Books

\* While nothing fails, no dispatched prompt is refused, the child does not
\* exit, and its connection is not bound again.
LEMMA NothingBreaks ==
    ASSUME SchedInv, Shape, Healthy
    PROVE  /\ \A o \in Tasks : ~DispatchFails(o)
           /\ ~Rebind
           /\ ConsumerStep => ~ProcessExit
<1>1. ASSUME NEW o \in Tasks, DispatchFails(o) PROVE FALSE
  BY <1>1 DEF Healthy, Unfailed, DispatchFails, Answered
<1>2. ~Rebind
  BY DEF Healthy, Rebind
<1> QED BY <1>1, <1>2, ConsumerUnfailed

\* While nothing has been announced, no state is loaded.
LEMMA NothingLoads ==
    ASSUME Unrefreshed, spent.refresh = 0
    PROVE  ~Reloaded
BY DEF Unrefreshed, Reloaded, Answered

\* The ledger stays right.
LEMMA LedgerInductive ==
    ASSUME SchedInv, Shape, Tallied, Unrefreshed, Healthy, Ledger, spent.refresh = 0,
           [SchedNext]_schedVars, ~PiCrashes
    PROVE  Ledger'
<1>0. /\ DOMAIN task = Tasks /\ ad.ended \in [RowIds -> Nat] /\ Sound(ad.mirror)
      /\ IsAdapter(ad)
  BY DEF SchedInv, Accounts, Shape, Tasked, Tallied, Fine
<1>1. ad.mirror.seq \in Nat
  BY <1>0, GoodParts DEF Sound
<1>f. ASSUME Files(ad', ad), Unsettled PROVE Ledger'
  BY <1>f, FilesBuries, LedgerStays
<1>t. ASSUME NEW o, Takes(o), ad'.ended = ad.ended PROVE Ledger'
  BY <1>0, <1>1, <1>t, LedgerTakes
<1>2. CASE UNCHANGED schedVars
  BY <1>2 DEF schedVars, Ledger, Posted, Owing, Apart, Owes
<1>3. CASE ClientStep
  <2>1. Unsettled
    BY <1>3, ClientOrdinary DEF Ordinary
  <2>2. CASE Drops(ad', ad)
    BY <1>0, <2>1, <2>2, LedgerDrops
  <2>3. ASSUME NEW p \in Clients, NEW lane \in Lanes, Prompt(p, lane),
               Opens(ad', ad, p, lane)
        PROVE  Ledger'
    BY <2>1, <2>3, OpensBuries, LedgerStays
  <2> QED BY <1>3, <1>f, <2>1, <2>2, <2>3, ClientBooks
<1>4. ASSUME NEW p \in Clients, PromptStep(p) PROVE Ledger'
  <2>1. Unsettled
    BY <1>4, PromptOrdinary DEF Ordinary
  <2>2. Files(ad', ad)
    BY <1>4, OtherBooks, NothingBreaks
  <2> QED BY <1>f, <2>1, <2>2
<1>5. ASSUME NEW o \in Tasks, TaskStep(o) PROVE Ledger'
  <2>1. CASE Ordinary /\ ~TurnEnds(o)
    <3>1. Files(ad', ad)
      BY <1>5, <2>1, TaskBooks, NothingBreaks
    <3> QED BY <1>f, <2>1, <3>1 DEF Ordinary
  <2>2. CASE TurnEnds(o) /\ Leaves(o)
    <3>1. Announces(ad', ad, task[o].row)
      BY <1>0, <2>2, TurnEndsBooks
    <3>2. /\ Buries(ad'.mirror, ad.mirror)
          /\ ad'.ended = Announced(ad.ended, task[o].row)
      BY <3>1, FilesBuries
    <3> QED BY <1>0, <2>2, <3>2, LedgerPays
  <2>3. CASE ProbeAnswered(o) /\ Takes(o) /\ ad'.ended = ad.ended
    BY <1>t, <2>3
  <2> QED BY <1>5, <2>1, <2>2, <2>3, TaskOrdinary
<1>6. CASE ConsumerStep
  <2>1. CASE Ordinary
    <3>1. Files(ad', ad) \/ \E s, f : Shows(ad', ad, s, f)
      BY <1>6, ConsumerBooks, NothingBreaks, NothingLoads
    <3>2. ASSUME NEW s, NEW f, Shows(ad', ad, s, f) PROVE Ledger'
      <4>1. Buries(ad'.mirror, ad.mirror) /\ ad'.ended = ad.ended
        BY <1>0, <1>1, <3>2, ShowsGrew, GrewBuries
      <4> QED BY <2>1, <4>1, LedgerStays DEF Ordinary
    <3> QED BY <1>f, <2>1, <3>1, <3>2 DEF Ordinary
  <2>2. CASE Takes(Consumer) /\ ad'.ended = ad.ended
    BY <1>t, <2>2
  <2> QED BY <1>6, <2>1, <2>2, ConsumerOrdinary
<1>7. CASE BashEnds \/ Respawn \/ Rebind \/ ContinuationExpires \/ PiStep
  <2>1. Unsettled
    BY <1>7, OtherOrdinary DEF Ordinary
  <2>2. Files(ad', ad)
    BY <1>7, OtherBooks, NothingBreaks
  <2> QED BY <1>f, <2>1, <2>2
<1> QED BY <1>2, <1>3, <1>4, <1>5, <1>6, <1>7 DEF SchedNext

\* And so it does in every step, as long as nothing breaks.
LEMMA BookedInductive ==
    ASSUME SchedInv, Shape, Guarded, Tallied, Unrefreshed, Booked, [SchedNext]_schedVars
    PROVE  Booked'
<1> SUFFICES ASSUME Calm', spent'.refresh = 0 PROVE Ledger'
  BY DEF Booked, Unbroken
<1>1. Counted /\ Counted' /\ Grows
  BY SpentGrows DEF Shape
<1>2. {"error", "crash", "refresh"} \subseteq Kinds
  BY DEF Kinds
<1>3. /\ spent.error = 0 /\ spent.crash = 0 /\ spent.refresh = 0
      /\ spent'.crash = 0
  BY <1>1, <1>2, SpentBefore DEF Calm
<1>4. ~PiCrashes
  <2>1. Spend("crash") => spent'.crash = 1
    BY <1>1, <1>2, <1>3, Spending
  <2> QED BY <1>3, <2>1 DEF PiCrashes
<1>5. Healthy /\ Ledger
  BY <1>3 DEF Guarded, Calm, Booked, Unbroken
<1> QED BY <1>3, <1>4, <1>5, LedgerInductive

\* Nothing is booked in the first state.
LEMMA BookedInitial == SchedInit => Booked
<1> SUFFICES ASSUME SchedInit PROVE Ledger
  BY DEF Booked
<1>1. \A o \in Tasks : task[o] = Done
  BY DEF SchedInit
<1>2. \A o \in Tasks : ~Owes(o)
  BY <1>1, TaskStates DEF Owes
<1>3. ad.ended = [id \in RowIds |-> 0]
  BY DEF SchedInit, InitialState
<1>4. Posted
  BY <1>3 DEF Posted
<1> QED BY <1>2, <1>4 DEF Ledger, Owing, Apart

\* The end of a server turn is announced at most once for each row, as long as
\* Pi refuses nothing, does not exit, and no state is loaded again.
THEOREM SchedCompletedOnce ==
    SchedSafeSpec =>
        [](spent.error = 0 /\ spent.crash = 0 /\ spent.refresh = 0 => CompletedOnce)
<1> DEFINE I == SchedInv /\ Shape /\ Guarded /\ Tallied /\ Unrefreshed /\ Booked
<1>1. SchedInit => I
  BY SchedInitial, ShapeInitial, WatchedInitial, TalliedInitial, UnrefreshedInitial,
     BookedInitial DEF Guarded
<1>2. I /\ [SchedNext]_schedVars => I'
  BY SchedInductive, ShapeInductive, GuardedInductive, TalliedInductive,
     UnrefreshedInductive, BookedInductive
<1>3. I => (spent.error = 0 /\ spent.crash = 0 /\ spent.refresh = 0 => CompletedOnce)
  BY DEF Booked, Unbroken, Calm, Ledger, Posted, CompletedOnce
<1> QED BY <1>1, <1>2, <1>3, PTL DEF SchedSafeSpec

-----------------------------------------------------------------------------
(* Pi's rows: the mirror shows Pi's arrays once it has read their events.  *)

\* The mirror q has the rows of Pi, queued and parked, that m has.
PiAs(q, m) == IsMirror(q) /\ q.pi = m.pi /\ q.parked = m.parked

\* A mirror that differs in its other fields.
LEMMA PiAsFields ==
    ASSUME NEW m, IsMirror(m)
    PROVE  /\ \A l, r, run, s : PiAs(Mirror(l, m.pi, r, m.parked, run, s), m)
           /\ \A q, x : PiAs(q, m) /\ PiAs(x, q) => PiAs(x, m)
<1>1. ASSUME NEW l, NEW r, NEW run, NEW s
      PROVE  PiAs(Mirror(l, m.pi, r, m.parked, run, s), m)
  BY MirrorFields DEF PiAs
<1>2. \A q, x : PiAs(q, m) /\ PiAs(x, q) => PiAs(x, m)
  BY DEF PiAs
<1> QED BY <1>1, <1>2

\* The adapter's own operations leave Pi's rows alone.
LEMMA PiAsOperations ==
    ASSUME NEW m, IsMirror(m)
    PROVE  /\ \A row : PiAs(SetRunning(m, row), m) /\ PiAs(Reserve(m, row), m)
           /\ \A row : PiAs(PushFrontLocal(m, row), m) /\ PiAs(EnqueueLocal(m, row), m)
           /\ PiAs(PopNextLocal(m), m) /\ PiAs(ClearRunning(m), m)
           /\ \A i : PiAs(TakeLocal(m, i), m)
           /\ \A id : PiAs(ReleaseReservation(m, id), m)
           /\ \A x : PiAs([m EXCEPT !.local = x], m) /\ PiAs([m EXCEPT !.seq = x], m)
<1>1. ASSUME NEW x
      PROVE  /\ PiAs([m EXCEPT !.local = x], m)
             /\ PiAs([m EXCEPT !.reserved = x], m)
             /\ PiAs([m EXCEPT !.running = x], m)
             /\ PiAs([m EXCEPT !.seq = x], m)
  <2>1. PiAs([m EXCEPT !.local = x], m)
    BY MirrorExcept, PiAsFields
  <2>2. PiAs([m EXCEPT !.reserved = x], m)
    BY MirrorExcept, PiAsFields
  <2>3. PiAs([m EXCEPT !.running = x], m)
    BY MirrorExcept, PiAsFields
  <2>4. PiAs([m EXCEPT !.seq = x], m)
    BY MirrorExcept, PiAsFields
  <2> QED BY <2>1, <2>2, <2>3, <2>4
<1>2. \A row : PiAs(SetRunning(m, row), m)
  BY <1>1 DEF SetRunning
<1>3. \A row : PiAs(Reserve(m, row), m)
  BY <1>1 DEF Reserve
<1>4. \A row : PiAs(PushFrontLocal(m, row), m)
  BY <1>1 DEF PushFrontLocal
<1>5. \A row : PiAs(EnqueueLocal(m, row), m)
  BY <1>1 DEF EnqueueLocal
<1>6. PiAs(PopNextLocal(m), m) /\ \A i : PiAs(TakeLocal(m, i), m)
  BY <1>1 DEF PopNextLocal, TakeLocal
<1>7. PiAs(ClearRunning(m), m)
  BY Operations, PiAsFields
<1>8. \A id : PiAs(ReleaseReservation(m, id), m)
  BY <1>1 DEF ReleaseReservation
<1> QED BY <1>1, <1>2, <1>3, <1>4, <1>5, <1>6, <1>7, <1>8

\* The rows of Pi change with a queue_update only, the parked ones grow with
\* it and shrink with a promotion.
LEMMA AltersPi ==
    ASSUME NEW m, IsMirror(m), NEW q, Alters(q, m)
    PROVE  q.pi = m.pi /\ (q = PromoteParkedRunning(m) \/ q.parked = m.parked)
<1> DEFINE Goal(x) == x.pi = m.pi /\ (x = PromoteParkedRunning(m) \/ x.parked = m.parked)
<1>1. \A x : PiAs(x, m) => Goal(x)
  BY DEF PiAs
<1>2. ASSUME NEW i, NEW row, NEW e
      PROVE  /\ Goal(Reserve(TakeLocal(m, i), row)) /\ Goal(PushFrontLocal(TakeLocal(m, i), e))
             /\ Goal(SetRunning(PopNextLocal(m), e))
  <2> DEFINE t == TakeLocal(m, i)
             p == PopNextLocal(m)
  <2>1. PiAs(t, m) /\ PiAs(p, m)
    BY PiAsOperations
  <2> HIDE DEF t, p, Goal
  <2>2. PiAs(Reserve(t, row), t) /\ PiAs(PushFrontLocal(t, e), t) /\ PiAs(SetRunning(p, e), p)
    BY <2>1, PiAsOperations DEF PiAs
  <2>3. PiAs(Reserve(t, row), m) /\ PiAs(PushFrontLocal(t, e), m) /\ PiAs(SetRunning(p, e), m)
    BY <2>1, <2>2, PiAsFields
  <2> QED BY <1>1, <2>3 DEF t, p
<1>3. ASSUME NEW id
      PROVE  Goal(ReleaseReservation(m, id)) /\ Goal(ClearRunning(ReleaseReservation(m, id)))
  <2> DEFINE t == ReleaseReservation(m, id)
  <2>1. PiAs(t, m)
    BY PiAsOperations
  <2> HIDE DEF t, Goal
  <2>2. PiAs(ClearRunning(t), t)
    BY <2>1, PiAsOperations DEF PiAs
  <2>3. PiAs(ClearRunning(t), m)
    BY <2>1, <2>2, PiAsFields
  <2> QED BY <1>1, <2>1, <2>3 DEF t
<1>4. Goal(PromoteParkedRunning(m))
  BY DEF PromoteParkedRunning, IsMirror, Mirror
<1>5. \A text, lane : Goal(EnqueueGenerated(m, text, lane, "Extension"))
  BY DEF EnqueueGenerated, EnqueueLocal, IsMirror, Mirror
<1>6. Goal(m) /\ Goal(ClearRunning(m)) /\ \A ids : Goal([m EXCEPT !.local = Without(m.local, ids)])
  BY <1>1, PiAsOperations
<1> HIDE DEF Goal
<1>7. Goal(q)
  BY <1>2, <1>3, <1>4, <1>5, <1>6 DEF Alters
<1> QED BY <1>7 DEF Goal

\* Nothing is queued (in Pi's arrays, or in those that an event tells of).
Quiet(x) == x.steering = << >> /\ x.followUp = << >>

\* No event tells of the arrays; the last one that does tells that nothing is
\* queued.
Silent(es) == \A i \in DOMAIN es : es[i].kind # "queue_update"
LastQuiet(es) == \E i \in DOMAIN es :
                     /\ es[i].kind = "queue_update" /\ Quiet(es[i])
                     /\ \A j \in DOMAIN es : j > i => es[j].kind # "queue_update"

\* Pi queues in a run only; once nothing is queued, the unread events say so,
\* or the mirror shows it.
Shown == /\ "status" \in DOMAIN pi.goal
         /\ pi.streaming \/ Quiet(pi)
         /\ Quiet(pi) => (ad.mirror.pi = << >> /\ Silent(events)) \/ LastQuiet(events)

\* The first event is read.
LEMMA QuietRead ==
    ASSUME NEW es, IsSeq(es), es # << >>
    PROVE  /\ Silent(es) => Silent(Tail(es)) /\ Head(es).kind # "queue_update"
           /\ LastQuiet(es) => \/ LastQuiet(Tail(es))
                               \/ /\ Head(es).kind = "queue_update" /\ Quiet(Head(es))
                                  /\ Silent(Tail(es))
<1>1. PICK S : es \in Seq(S)
  BY DEF IsSeq
<1> DEFINE t == Tail(es)
<1>2. /\ Len(es) \in Nat \ {0} /\ DOMAIN es = 1 .. Len(es)
      /\ Head(es) = es[1] /\ DOMAIN t = 1 .. (Len(es) - 1)
      /\ \A i \in 1 .. (Len(es) - 1) : t[i] = es[i + 1]
  BY <1>1
<1> HIDE DEF t
<1>3. \A i \in DOMAIN t : i \in Nat /\ i + 1 \in DOMAIN es /\ t[i] = es[i + 1]
  BY <1>2
<1>4. ASSUME Silent(es) PROVE Silent(t) /\ Head(es).kind # "queue_update"
  <2>1. 1 \in DOMAIN es
    BY <1>2
  <2> QED BY <1>2, <1>3, <1>4, <2>1 DEF Silent
<1>5. ASSUME LastQuiet(es)
      PROVE  \/ LastQuiet(t)
             \/ Head(es).kind = "queue_update" /\ Quiet(Head(es)) /\ Silent(t)
  <2>1. PICK i \in DOMAIN es :
            /\ es[i].kind = "queue_update" /\ Quiet(es[i])
            /\ \A j \in DOMAIN es : j > i => es[j].kind # "queue_update"
    BY <1>5 DEF LastQuiet
  <2>2. CASE i = 1
    <3>1. \A j \in DOMAIN t : t[j].kind # "queue_update"
      BY <1>2, <1>3, <2>1, <2>2
    <3> QED BY <1>2, <2>1, <2>2, <3>1 DEF Silent
  <2>3. CASE i # 1
    <3>1. i - 1 \in DOMAIN t /\ t[i - 1] = es[i]
      BY <1>2, <2>3
    <3>2. \A j \in DOMAIN t : j > i - 1 => t[j].kind # "queue_update"
      BY <1>2, <1>3, <2>1
    <3> QED BY <2>1, <3>1, <3>2 DEF LastQuiet
  <2> QED BY <2>2, <2>3
<1> QED BY <1>4, <1>5 DEF t

\* Events are added.
LEMMA QuietAdded ==
    ASSUME NEW es, IsSeq(es), NEW new, IsSeq(new)
    PROVE  /\ Silent(es) /\ Silent(new) => Silent(es \o new)
           /\ LastQuiet(es) /\ Silent(new) => LastQuiet(es \o new)
           /\ LastQuiet(new) => LastQuiet(es \o new)
<1>1. PICK S : es \in Seq(S)
  BY DEF IsSeq
<1>2. PICK N : new \in Seq(N)
  BY DEF IsSeq
<1> DEFINE U == S \cup N
           all == es \o new
<1>3. es \in Seq(U) /\ new \in Seq(U)
  BY <1>1, <1>2, SeqMore
<1> HIDE DEF U
<1>4. /\ Len(es) \in Nat /\ Len(new) \in Nat
      /\ DOMAIN es = 1 .. Len(es) /\ DOMAIN new = 1 .. Len(new)
      /\ DOMAIN all = 1 .. (Len(es) + Len(new))
      /\ \A i \in 1 .. Len(es) : all[i] = es[i]
      /\ \A i \in 1 .. (Len(es) + Len(new)) : i > Len(es) => all[i] = new[i - Len(es)]
  BY <1>3
<1> HIDE DEF all
<1>5. ASSUME Silent(new), NEW i \in DOMAIN all, i > Len(es)
      PROVE  all[i].kind # "queue_update"
  <2>1. i - Len(es) \in DOMAIN new /\ all[i] = new[i - Len(es)]
    BY <1>4, <1>5
  <2> QED BY <1>5, <2>1 DEF Silent
<1>6. ASSUME Silent(es), Silent(new) PROVE Silent(all)
  <2>1. ASSUME NEW i \in DOMAIN all, ~(i > Len(es)) PROVE all[i].kind # "queue_update"
    <3>1. i \in DOMAIN es /\ all[i] = es[i]
      BY <1>4, <2>1
    <3> QED BY <1>6, <3>1 DEF Silent
  <2> QED BY <1>5, <1>6, <2>1 DEF Silent
<1>7. ASSUME LastQuiet(es), Silent(new) PROVE LastQuiet(all)
  <2>1. PICK i \in DOMAIN es :
            /\ es[i].kind = "queue_update" /\ Quiet(es[i])
            /\ \A j \in DOMAIN es : j > i => es[j].kind # "queue_update"
    BY <1>7 DEF LastQuiet
  <2>2. i \in DOMAIN all /\ all[i] = es[i]
    BY <1>4
  <2>3. ASSUME NEW j \in DOMAIN all, j > i PROVE all[j].kind # "queue_update"
    <3>1. CASE j > Len(es)
      BY <1>5, <1>7, <3>1
    <3>2. CASE ~(j > Len(es))
      <4>1. j \in DOMAIN es /\ all[j] = es[j]
        BY <1>4, <3>2
      <4> QED BY <2>1, <2>3, <4>1
    <3> QED BY <3>1, <3>2
  <2> QED BY <2>1, <2>2, <2>3 DEF LastQuiet
<1>8. ASSUME LastQuiet(new) PROVE LastQuiet(all)
  <2>1. PICK i \in DOMAIN new :
            /\ new[i].kind = "queue_update" /\ Quiet(new[i])
            /\ \A j \in DOMAIN new : j > i => new[j].kind # "queue_update"
    BY <1>8 DEF LastQuiet
  <2> DEFINE n == Len(es) + i
  <2>2. n \in DOMAIN all /\ all[n] = new[i]
    BY <1>4
  <2>3. ASSUME NEW j \in DOMAIN all, j > n PROVE all[j].kind # "queue_update"
    <3>1. j - Len(es) \in DOMAIN new /\ j - Len(es) > i /\ all[j] = new[j - Len(es)]
      BY <1>4, <2>3
    <3> QED BY <2>1, <3>1
  <2> QED BY <2>1, <2>2, <2>3 DEF LastQuiet
<1> QED BY <1>6, <1>7, <1>8 DEF all

\* The events that Pi sends together.
LEMMA QuietLists ==
    /\ \A K, es : Kindly(es, K) /\ "queue_update" \notin K => Silent(es)
    /\ \A d, e : e.kind = "queue_update" /\ Quiet(e) /\ d.kind # "queue_update" =>
           LastQuiet(<<e>>) /\ LastQuiet(<<d, e>>) /\ LastQuiet(<<e, d>>)
<1>1. ASSUME NEW K, NEW es, Kindly(es, K), "queue_update" \notin K PROVE Silent(es)
  BY <1>1 DEF Kindly, Silent
<1>2. ASSUME NEW d, NEW e, e.kind = "queue_update", Quiet(e), d.kind # "queue_update"
      PROVE  LastQuiet(<<e>>) /\ LastQuiet(<<d, e>>) /\ LastQuiet(<<e, d>>)
  <2>1. LastQuiet(<<e>>)
    BY <1>2 DEF LastQuiet
  <2>2. LastQuiet(<<d, e>>)
    <3> DEFINE es == <<d, e>>
    <3>1. DOMAIN es = {1, 2} /\ es[1] = d /\ es[2] = e
      OBVIOUS
    <3> HIDE DEF es
    <3>2. LastQuiet(es)
      BY <1>2, <3>1 DEF LastQuiet
    <3> QED BY <3>2 DEF es
  <2>3. LastQuiet(<<e, d>>)
    <3> DEFINE es == <<e, d>>
    <3>1. DOMAIN es = {1, 2} /\ es[1] = e /\ es[2] = d
      OBVIOUS
    <3> HIDE DEF es
    <3>2. LastQuiet(es)
      BY <1>2, <3>1 DEF LastQuiet
    <3> QED BY <3>2 DEF es
  <2> QED BY <2>1, <2>2, <2>3
<1> QED BY <1>1, <1>2

\* Pi sends events that tell what becomes of its arrays, and queues in a run.
Tells == \E es : /\ IsSeq(es) /\ events' = events \o es
                 /\ pi'.streaming \/ Quiet(pi')
                 /\ Quiet(pi') => (Quiet(pi) /\ Silent(es)) \/ LastQuiet(es)

\* A goal that becomes active has a run.
Spurs == /\ pi'.goal.status = "active" => pi.goal.status = "active" \/ pi'.streaming
         /\ "status" \in DOMAIN pi.goal => "status" \in DOMAIN pi'.goal

\* No word of the arrays, which stay.
LEMMA TellsSilently ==
    ASSUME NEW es, NEW K, Kindly(es, K), "queue_update" \notin K, Emit(es),
           Quiet(pi') => Quiet(pi), pi'.streaming \/ Quiet(pi')
    PROVE  Tells
<1>1. Silent(es)
  BY QuietLists
<1> QED BY <1>1 DEF Tells, Emit, Kindly

\* Nothing happens.
LEMMA TellsNothing ==
    ASSUME Unread(events), UNCHANGED <<pi, events>>, pi.streaming \/ Quiet(pi)
    PROVE  Tells
<1> DEFINE es == << >>
<1>1. PICK S : events \in Seq(S)
  BY DEF Unread, IsSeq
<1>2. events' = events \o es
  BY <1>1
<1>3. Kindly(es, {"goal"})
  BY KindlyLists
<1> HIDE DEF es
<1>4. Silent(es) /\ IsSeq(es)
  BY <1>3, QuietLists DEF Kindly
<1>5. Quiet(pi') = Quiet(pi) /\ pi'.streaming = pi.streaming
  OBVIOUS
<1> QED BY <1>2, <1>4, <1>5 DEF Tells

\* The event of the arrays tells that nothing is queued if nothing is.
LEMMA ArraysTold ==
    ASSUME Quiet(pi'), NEW d, d.kind # "queue_update"
    PROVE  LastQuiet(<<ArraysEvent>>) /\ LastQuiet(<<ArraysEvent, d>>)
<1>1. ArraysEvent.kind = "queue_update" /\ Quiet(ArraysEvent)
  BY DEF ArraysEvent, Event, Quiet
<1> QED BY <1>1, QuietLists

\* The arrays are told.
LEMMA TellsArrays ==
    ASSUME NEW es, NEW d, d.kind # "queue_update", Emit(es), pi'.streaming,
           es = <<ArraysEvent>> \/ es = <<ArraysEvent, d>>
    PROVE  Tells
<1>1. Quiet(pi') => LastQuiet(es)
  BY ArraysTold
<1> DEFINE K == {ArraysEvent.kind, d.kind}
<1>2. ArraysEvent.kind \in K /\ d.kind \in K
  OBVIOUS
<1> HIDE DEF K
<1>3. Kindly(<<ArraysEvent>>, K) /\ Kindly(<<ArraysEvent, d>>, K)
  BY <1>2, KindlyLists
<1>4. IsSeq(es)
  BY <1>3 DEF Kindly
<1> QED BY <1>1, <1>4 DEF Tells, Emit

\* The goal's file is written.
LEMMA GoalTells ==
    ASSUME Arrays(pi), pi.streaming \in BOOLEAN, pi.streaming \/ Quiet(pi),
           NEW control, WriteGoal(control), "status" \in DOMAIN control
    PROVE  Tells /\ Spurs
<1> DEFINE x == <<Event("goal")>>
           y == IF pi'.streaming = pi.streaming THEN << >> ELSE <<Event("agent_start")>>
           K == {"goal", "agent_start"}
           act == control.status = "active"
<1>1. pi' = [pi EXCEPT !.goal = control, !.streaming = @ \/ act] /\ Emit(x \o y)
  BY DEF WriteGoal
<1>2. "goal" \in DOMAIN pi /\ "streaming" \in DOMAIN pi
  BY DEF Arrays, PiFields
<1>3. /\ pi'.steering = pi.steering /\ pi'.followUp = pi.followUp
      /\ pi'.goal = control /\ pi'.streaming = (pi.streaming \/ act)
  BY <1>1, <1>2
<1>4. Event("goal").kind \in K /\ Event("agent_start").kind \in K
  BY EventKinds
<1>5. "queue_update" \notin K
  OBVIOUS
<1> HIDE DEF K
<1>6. Kindly(x, K) /\ Kindly(<<Event("agent_start")>>, K) /\ Kindly(<< >>, K)
  BY <1>4, KindlyLists
<1>7. Kindly(y, K)
  BY <1>6
<1> HIDE DEF x, y
<1>8. Kindly(x \o y, K)
  BY <1>6, <1>7, KindlyLists
<1>9. Tells
  <2>1. (Quiet(pi') <=> Quiet(pi)) /\ (pi.streaming => pi'.streaming)
    BY <1>3 DEF Quiet
  <2> QED BY <1>1, <1>5, <1>8, <2>1, TellsSilently
<1>10. Spurs
  BY <1>3 DEF Spurs
<1> QED BY <1>9, <1>10

\* What Pi tells while it runs: nothing is queued in it between runs, its
\* events tell when its arrays have become empty, and a goal is active only
\* after a run that was started for it.
LEMMA PiTells ==
    ASSUME SchedInv, pi.streaming \in BOOLEAN, pi.streaming \/ Quiet(pi),
           "status" \in DOMAIN pi.goal, PiStep, ~PiCrashes
    PROVE  Tells /\ Spurs
<1>0. /\ Arrays(pi) /\ Unread(events) /\ PiFields = DOMAIN pi
      /\ IsSeq(pi.steering) /\ IsSeq(pi.followUp)
  BY DEF SchedInv, Arrays
<1>k. /\ \A kind : Event(kind).kind = kind
      /\ \A kind, lane : [Event(kind) EXCEPT !.lane = lane].kind = kind
  BY EventKinds
<1>g. ASSUME pi'.goal = pi.goal PROVE Spurs
  BY <1>g DEF Spurs
<1>f. /\ \A x : [pi EXCEPT !.streaming = x] =
             [up |-> pi.up, streaming |-> x, steering |-> pi.steering,
              followUp |-> pi.followUp, recovery |-> pi.recovery, goal |-> pi.goal]
      /\ \A x : [pi EXCEPT !.steering = x] =
             [up |-> pi.up, streaming |-> pi.streaming, steering |-> x,
              followUp |-> pi.followUp, recovery |-> pi.recovery, goal |-> pi.goal]
      /\ \A x : [pi EXCEPT !.followUp = x] =
             [up |-> pi.up, streaming |-> pi.streaming, steering |-> pi.steering,
              followUp |-> x, recovery |-> pi.recovery, goal |-> pi.goal]
  BY <1>0 DEF PiFields
<1>n. ASSUME UNCHANGED <<pi, events>> PROVE Tells /\ Spurs
  BY <1>0, <1>g, <1>n, TellsNothing
<1>e. ASSUME NEW e, e.kind # "queue_update", Emit(<<e>>), pi'.steering = pi.steering,
             pi'.followUp = pi.followUp, pi'.streaming \/ Quiet(pi')
      PROVE  Tells
  <2> DEFINE es == <<e>>
             K == {e.kind}
  <2>1. Kindly(es, K) /\ Emit(es)
    BY <1>e, KindlyLists
  <2>2. Quiet(pi') <=> Quiet(pi)
    BY <1>e DEF Quiet
  <2> HIDE DEF es
  <2> QED BY <1>e, <2>1, <2>2, TellsSilently
<1>s. ASSUME Emit(<<Event("agent_start")>>), pi' = [pi EXCEPT !.streaming = TRUE]
      PROVE  Tells /\ Spurs
  <2>1. /\ pi'.steering = pi.steering /\ pi'.followUp = pi.followUp /\ pi'.streaming
        /\ pi'.goal = pi.goal
    BY <1>f, <1>s
  <2>2. Event("agent_start").kind # "queue_update"
    BY <1>k
  <2> QED BY <1>e, <1>g, <1>s, <2>1, <2>2
<1>a. ASSUME NEW d, d.kind # "queue_update", NEW es, es = <<ArraysEvent>> \/ es = <<ArraysEvent, d>>,
             Emit(es), pi.streaming, NEW x,
             pi' = [pi EXCEPT !.steering = x] \/ pi' = [pi EXCEPT !.followUp = x]
      PROVE  Tells /\ Spurs
  <2>1. pi'.streaming = pi.streaming /\ pi'.goal = pi.goal
    BY <1>a, <1>f
  <2> QED BY <1>a, <1>g, <2>1, TellsArrays
<1>1. ASSUME NEW o \in Tasks, PiReplies(o) PROVE Tells /\ Spurs
  <2> DEFINE a == Append(pi.steering, task[o].row.text)
             es == <<ArraysEvent>>
             d == Event("agent_start")
  <2>1. \/ UNCHANGED <<pi, events>>
        \/ pi' = [pi EXCEPT !.streaming = TRUE] /\ Emit(<<Event("agent_start")>>)
        \/ pi.streaming /\ pi' = [pi EXCEPT !.steering = a] /\ Emit(es)
    BY <1>1 DEF PiReplies, PiAccepts, PiQueuesSteer, PiRefuses, PiAnswers
  <2>2. d.kind # "queue_update" /\ es = <<ArraysEvent>>
    BY <1>k
  <2> HIDE DEF a, es, d
  <2> QED BY <1>n, <1>s, <1>a, <2>1, <2>2
<1>2. ASSUME PiStartsTurn PROVE Tells /\ Spurs
  BY <1>2, <1>s DEF PiStartsTurn
<1>3. ASSUME PiQueuesFollowUp PROVE Tells /\ Spurs
  <2> DEFINE a == Append(pi.followUp, "pi")
             es == <<ArraysEvent>>
             d == Event("agent_start")
  <2>1. pi.streaming /\ pi' = [pi EXCEPT !.followUp = a] /\ Emit(es)
    BY <1>3 DEF PiQueuesFollowUp
  <2>2. d.kind # "queue_update" /\ es = <<ArraysEvent>>
    BY <1>k
  <2> HIDE DEF a, es, d
  <2> QED BY <1>a, <2>1, <2>2
<1>4. ASSUME PiEndsMessage PROVE Tells /\ Spurs
  <2> DEFINE x == <<Event("message_end")>>
             y == IF pi.steering = << >> THEN << >> ELSE <<ArraysEvent>>
             none == << >>
             K == {"message_end"}
             A == {ArraysEvent.kind}
  <2>1. /\ pi' = [pi EXCEPT !.steering = none] /\ Emit(x \o y) /\ pi.streaming
    BY <1>4 DEF PiEndsMessage
  <2>2. pi'.streaming = pi.streaming /\ pi'.goal = pi.goal
        /\ pi'.steering = none /\ pi'.followUp = pi.followUp
    <3> HIDE DEF none
    <3> QED BY <1>f, <2>1
  <2>3. Kindly(x, K)
    BY <1>k, KindlyLists
  <2>4. Kindly(y, A) /\ IsSeq(y)
    <3>1. ArraysEvent.kind \in A
      OBVIOUS
    <3> HIDE DEF A
    <3>2. Kindly(<< >>, A) /\ Kindly(<<ArraysEvent>>, A)
      BY <3>1, KindlyLists
    <3> QED BY <3>2 DEF Kindly
  <2>5. Silent(x) /\ IsSeq(x)
    BY <2>3, QuietLists DEF Kindly
  <2>6. CASE pi.steering = none
    <3>1. Kindly(y, K)
      BY <2>6, KindlyLists
    <3> HIDE DEF x, y
    <3>2. Kindly(x \o y, K)
      BY <2>3, <3>1, KindlyLists
    <3>3. Quiet(pi') => Quiet(pi)
      BY <2>2, <2>6 DEF Quiet
    <3>4. Tells
      BY <2>1, <2>2, <3>2, <3>3, TellsSilently
    <3> QED BY <1>g, <2>2, <3>4
  <2>7. CASE pi.steering # none
    <3>1. Quiet(pi') => LastQuiet(y)
      <4>1. Event("goal").kind # "queue_update"
        BY <1>k
      <4> QED BY <2>7, <4>1, ArraysTold
    <3> HIDE DEF x, y
    <3> DEFINE es == x \o y
    <3>2. (Quiet(pi') => LastQuiet(es)) /\ IsSeq(es)
      <4>1. Quiet(pi') => LastQuiet(es)
        BY <2>4, <2>5, <3>1, QuietAdded
      <4>2. PICK X : x \in Seq(X)
        BY <2>5 DEF IsSeq
      <4>3. PICK Y : y \in Seq(Y)
        BY <2>4 DEF IsSeq
      <4>4. x \in Seq(X \cup Y) /\ y \in Seq(X \cup Y)
        BY <4>2, <4>3, SeqMore
      <4>5. es \in Seq(X \cup Y)
        BY <4>4
      <4> QED BY <4>1, <4>5 DEF IsSeq
    <3>3. Emit(es)
      BY <2>1
    <3> HIDE DEF es
    <3>4. Tells
      BY <2>1, <2>2, <3>2, <3>3 DEF Tells, Emit
    <3> QED BY <1>g, <2>2, <3>4
  <2> QED BY <2>6, <2>7
<1>5. ASSUME PiContinues PROVE Tells /\ Spurs
  <2> DEFINE d == Event("agent_start")
             es == <<ArraysEvent, d>>
             f == Tail(pi.followUp)
             none == << >>
  <2>1. /\ pi' = [pi EXCEPT !.steering = none] \/ pi' = [pi EXCEPT !.followUp = f]
        /\ Emit(es) /\ pi.streaming
    BY <1>5 DEF PiContinues
  <2>2. d.kind # "queue_update" /\ es = <<ArraysEvent, d>>
    BY <1>k
  <2> HIDE DEF d, es, f, none
  <2> QED BY <1>a, <2>1, <2>2
<1>6. ASSUME PiSettles PROVE Tells /\ Spurs
  <2> DEFINE e == Event("agent_settled")
  <2>1. pi' = [pi EXCEPT !.streaming = FALSE] /\ Emit(<<e>>) /\ Quiet(pi)
    BY <1>6 DEF PiSettles, Quiet
  <2>2. /\ pi'.steering = pi.steering /\ pi'.followUp = pi.followUp /\ pi'.goal = pi.goal
    BY <1>f, <2>1
  <2>3. Quiet(pi')
    BY <2>1, <2>2 DEF Quiet
  <2>4. e.kind # "queue_update"
    BY <1>k
  <2> HIDE DEF e
  <2> QED BY <1>e, <1>g, <2>1, <2>2, <2>3, <2>4
<1>7. ASSUME PiExtensionMessage \/ PiStateChanges PROVE Tells /\ Spurs
  <2>1. UNCHANGED pi
    BY <1>7 DEF PiExtensionMessage, PiStateChanges
  <2>2. PICK e : e.kind # "queue_update" /\ Emit(<<e>>)
    <3>1. CASE PiExtensionMessage
      <4>1. PICK lane \in Lanes : Emit(<<[Event("extension") EXCEPT !.lane = lane]>>)
        BY <3>1 DEF PiExtensionMessage
      <4> QED BY <1>k, <4>1
    <3>2. CASE PiStateChanges
      BY <1>k, <3>2 DEF PiStateChanges
    <3> QED BY <1>7, <3>1, <3>2
  <2>3. pi'.steering = pi.steering /\ pi'.followUp = pi.followUp /\ pi'.goal = pi.goal
        /\ (pi'.streaming \/ Quiet(pi'))
    BY <2>1
  <2> QED BY <1>e, <1>g, <2>2, <2>3
<1>8. ASSUME PiSetsGoal \/ PiEditsGoal PROVE Tells /\ Spurs
  <2>1. PICK control : WriteGoal(control) /\ "status" \in DOMAIN control
    BY <1>8 DEF PiSetsGoal, PiEditsGoal
  <2> QED BY <1>0, <2>1, GoalTells
<1> QED BY <1>1, <1>2, <1>3, <1>4, <1>5, <1>6, <1>7, <1>8 DEF PiStep

\* Arrays of Pi that are empty leave no row of Pi's in the mirror.
LEMMA UpdateQuiet ==
    ASSUME NEW m, Sound(m), NEW q, q = ApplyQueueUpdate(m, << >>, << >>)
    PROVE  q.pi = << >>
<1>1. PICK T : Clients \cup HostTexts \subseteq T /\ GoodMirror(m, RowsOver(T))
  BY DEF Sound
<1> DEFINE R == RowsOver(T)
           none == << >>
           acc == UpdateAcc(m, none, none)
<1>2. IsRowSet(R, T)
  BY <1>1, RowsOverRows
<1>3. GoodMirror(m, R)
  BY <1>1
<1> HIDE DEF R
<1>4. none \in Seq(T) /\ Len(none) + Len(none) = 0
  OBVIOUS
<1> HIDE DEF none
<1>5. Loop(acc, Len(none) + Len(none), m,
           Desired(none, "Steering") \o Desired(none, "FollowUp"), R)
  BY <1>2, <1>3, <1>4, UpdateLoop
<1>6. acc.next \in Seq(R) /\ Len(acc.next) = 0
  BY <1>4, <1>5 DEF Loop, IsAcc, Contents
<1>7. acc.next = << >>
  <2> DEFINE n == acc.next
  <2>1. n \in Seq(R) /\ Len(n) = 0
    BY <1>6
  <2> HIDE DEF n
  <2>2. n = << >>
    BY <2>1
  <2> QED BY <2>2 DEF n
<1>8. IsMirror(m)
  BY <1>3, GoodParts, <1>1 DEF R
<1>9. ApplyQueueUpdate(m, none, none).pi = acc.next
  BY <1>8, UpdateParts, MirrorFields
<1> QED BY <1>7, <1>9 DEF none

\* Only the arrays that Pi sends change the rows of Pi's in the mirror, as long
\* as nothing is dropped and nothing is loaded.
LEMMA MirrorStays ==
    ASSUME SchedInv, Shape, Tallied, Unrefreshed, Healthy, spent.refresh = 0,
           spent.cancel = 0, [SchedNext]_schedVars, ~Cancel
    PROVE  /\ ~QueueUpdate => ad'.mirror.pi = ad.mirror.pi
           /\ QueueUpdate => Shows(ad', ad, Head(events).steering, Head(events).followUp)
<1>0. /\ Sound(ad.mirror) /\ IsMirror(ad.mirror) /\ IsAdapter(ad) /\ ~ad.cancelling
  BY GoodParts DEF Tallied, Fine, Sound, SchedInv, Accounts, Shape, Steady
<1>f. ASSUME Files(ad', ad) \/ \E row : Announces(ad', ad, row)
      PROVE  ad'.mirror.pi = ad.mirror.pi
  BY <1>0, <1>f, AltersPi DEF Files, Announces, Books
<1>1. ASSUME UNCHANGED schedVars PROVE ad'.mirror.pi = ad.mirror.pi
  BY <1>1 DEF schedVars
<1>2. ASSUME ClientStep PROVE ad'.mirror.pi = ad.mirror.pi
  <2>1. ASSUME NEW p \in Clients, NEW lane \in Lanes, Opens(ad', ad, p, lane)
        PROVE  ad'.mirror.pi = ad.mirror.pi
    <3> DEFINE r == Row(p, p, lane, "Client")
               t == Row(p, p, "FollowUp", "Client")
               x == EnqueueLocal(ad.mirror, r)
               y == SetRunning(ad.mirror, t)
    <3>1. ad'.mirror = x \/ ad'.mirror = y
      BY <2>1 DEF Opens, Books
    <3> HIDE DEF r, t
    <3>2. PiAs(x, ad.mirror) /\ PiAs(y, ad.mirror)
      BY <1>0, PiAsOperations
    <3> HIDE DEF x, y
    <3> QED BY <3>1, <3>2 DEF PiAs
  <2> QED BY <1>2, <1>f, <2>1, ClientBooks
<1>3. ASSUME NEW o \in Tasks, TaskStep(o) PROVE ad'.mirror.pi = ad.mirror.pi
  BY <1>3, <1>f, TaskBooks, NothingBreaks
<1>4. ASSUME ConsumerStep, ~QueueUpdate PROVE ad'.mirror.pi = ad.mirror.pi
  BY <1>4, <1>f, ConsumerBooks, NothingBreaks, NothingLoads
<1>5. ASSUME \/ BashEnds \/ Respawn \/ Rebind \/ ContinuationExpires \/ PiStep
             \/ \E p \in Clients : PromptStep(p)
      PROVE  ad'.mirror.pi = ad.mirror.pi
  BY <1>5, <1>f, OtherBooks, NothingBreaks
<1>6. QueueUpdate => Shows(ad', ad, Head(events).steering, Head(events).followUp)
  BY <1>0, UpdateBooks
<1> QED BY <1>1, <1>2, <1>3, <1>4, <1>5, <1>6 DEF SchedNext

\* What a task writes to the goal's file.
LEMMA TaskGoal ==
    ASSUME NEW o \in Tasks, TaskStep(o)
    PROVE  pi' = pi \/ pi' = [pi EXCEPT !.goal.status = "paused"]
<1>1. ASSUME NEW a, DispatchNextQueued(o, a)
      PROVE  pi' = pi \/ pi' = [pi EXCEPT !.goal.status = "paused"]
  BY <1>1 DEF DispatchNextQueued, NothingDispatched, MaybeContinueGoal
<1>2. CASE Kick(o)
  BY <1>1, <1>2 DEF Kick
<1>3. CASE TurnEnds(o)
  BY <1>1, <1>3 DEF TurnEnds
<1>4. CASE \/ Dispatch(o) \/ DispatchAccepted(o) \/ DispatchFails(o)
           \/ SendSteer(o) \/ SteerAccepted(o) \/ SteerFails(o)
           \/ ProbeWakes(o) \/ ProbeAnswered(o) \/ ContinueGoal(o)
           \/ SettlePolls(o) \/ SettleConfirmed(o) \/ SettleAgain(o)
           \/ SettleGivesUp(o)
  BY <1>4 DEF Dispatch, DispatchAccepted, DispatchFails, SendSteer, SteerAccepted,
     SteerFails, ProbeWakes, ProbeAnswered, ContinueGoal, SettlePolls,
     SettleConfirmed, SettleAgain, SettleGivesUp
<1> QED BY <1>2, <1>3, <1>4 DEF TaskStep

\* An event is read that does not tell of the arrays.
LEMMA ShownRead ==
    ASSUME Shown, Unread(events), pi' = pi, ad'.mirror.pi = ad.mirror.pi,
           \/ UNCHANGED events
           \/ /\ events # << >> /\ events' = Tail(events)
              /\ Head(events).kind # "queue_update"
    PROVE  Shown'
<1>1. CASE UNCHANGED events
  <2>1. Quiet(pi') = Quiet(pi)
    OBVIOUS
  <2> QED BY <1>1, <2>1 DEF Shown
<1>2. CASE /\ events # << >> /\ events' = Tail(events)
           /\ Head(events).kind # "queue_update"
  <2>1. (Silent(events) => Silent(events')) /\ (LastQuiet(events) => LastQuiet(events'))
    BY <1>2, QuietRead DEF Unread
  <2>2. Quiet(pi') = Quiet(pi)
    OBVIOUS
  <2> QED BY <2>1, <2>2 DEF Shown
<1> QED BY <1>1, <1>2

\* The arrays come to the mirror.
LEMMA ShownUpdate ==
    ASSUME Shown, Unread(events), Tallied, QueueUpdate,
           Shows(ad', ad, Head(events).steering, Head(events).followUp)
    PROVE  Shown'
<1> DEFINE e == Head(events)
           q == ApplyQueueUpdate(ad.mirror, e.steering, e.followUp)
<1>1. /\ events # << >> /\ events' = Tail(events) /\ e.kind = "queue_update" /\ pi' = pi
  BY DEF QueueUpdate, NextEvent
<1>2. ~Silent(events)
  BY <1>1, QuietRead DEF Unread
<1>3. LastQuiet(events) => LastQuiet(events') \/ (Quiet(e) /\ Silent(events'))
  BY <1>1, QuietRead DEF Unread
<1>4. ad'.mirror = q
  BY DEF Shows, Books
<1>5. Sound(ad.mirror)
  BY DEF Tallied, Fine
<1>6. ASSUME Quiet(e) PROVE ad'.mirror.pi = << >>
  <2>1. q = ApplyQueueUpdate(ad.mirror, << >>, << >>)
    BY <1>6 DEF Quiet
  <2> QED BY <1>4, <1>5, <2>1, UpdateQuiet
<1>7. Quiet(pi') = Quiet(pi)
  BY <1>1
<1> QED BY <1>1, <1>2, <1>3, <1>6, <1>7 DEF Shown

\* Pi tells.
LEMMA ShownTold ==
    ASSUME Shown, Unread(events), ad' = ad, Tells, Spurs
    PROVE  Shown'
<1>1. PICK es : /\ IsSeq(es) /\ events' = events \o es
                /\ pi'.streaming \/ Quiet(pi')
                /\ Quiet(pi') => (Quiet(pi) /\ Silent(es)) \/ LastQuiet(es)
  BY DEF Tells
<1>2. /\ Silent(events) /\ Silent(es) => Silent(events')
      /\ LastQuiet(events) /\ Silent(es) => LastQuiet(events')
      /\ LastQuiet(es) => LastQuiet(events')
  BY <1>1, QuietAdded DEF Unread
<1> QED BY <1>1, <1>2 DEF Shown, Spurs

\* What the consumer reads.
LEMMA ConsumerReads ==
    ASSUME ConsumerStep, ~QueueUpdate
    PROVE  \/ UNCHANGED events
           \/ /\ events # << >> /\ events' = Tail(events)
              /\ Head(events).kind # "queue_update"
BY DEF ConsumerStep, AgentStart, AgentSettled, SlotIsCleared, MessageEnd, ExtensionMessage,
   StateChanged, Reloaded, ProcessExit, GoalMessage, NextEvent

\* Pi's arrays stay shown.
LEMMA ShownInductive ==
    ASSUME SchedInv, Shape, Tallied, Unrefreshed, Healthy, Shown, spent.refresh = 0,
           spent.cancel = 0, [SchedNext]_schedVars, ~Cancel,
           spent'.error = spent.error, spent'.crash = spent.crash
    PROVE  Shown'
<1>0. Unread(events) /\ Arrays(pi) /\ pi.streaming \in BOOLEAN /\ pi.up /\ Unfailed
      /\ Counted /\ DOMAIN pi = PiFields
  BY DEF SchedInv, Healthy, Shape, Arrays
<1>1. /\ ~QueueUpdate => ad'.mirror.pi = ad.mirror.pi
      /\ QueueUpdate => Shows(ad', ad, Head(events).steering, Head(events).followUp)
  BY MirrorStays
<1>2. CASE QueueUpdate
  BY <1>0, <1>1, <1>2, ShownUpdate
<1> SUFFICES ASSUME ~QueueUpdate PROVE Shown'
  BY <1>2
<1>3. CASE UNCHANGED <<pi, events>>
  BY <1>0, <1>1, <1>3, ShownRead
<1>4. CASE \/ ClientStep \/ BashEnds \/ ContinuationExpires \/ UNCHANGED schedVars
           \/ \E p \in Clients : PromptStep(p)
  <2>1. UNCHANGED <<pi, events>>
    BY <1>4 DEF ClientStep, Prompt, Interject, Cancel, RemoveRows, BashStarts, BashEnds,
       ContinuationExpires, schedVars, PromptStep, DirectAccepted, DirectFails
  <2> QED BY <1>3, <2>1
<1>5. ASSUME NEW o \in Tasks, TaskStep(o) PROVE Shown'
  <2>1. PiSame /\ UNCHANGED events
    BY <1>0, <1>5, TaskUnfailed
  <2>2. "status" \in DOMAIN pi'.goal
    <3>1. CASE pi' = pi
      BY <3>1 DEF Shown
    <3>2. CASE pi' = [pi EXCEPT !.goal.status = "paused"]
      <4> DEFINE g == [pi.goal EXCEPT !.status = "paused"]
      <4>1. pi' = [pi EXCEPT !.goal = g]
        BY <3>2
      <4>2. DOMAIN g = DOMAIN pi.goal
        OBVIOUS
      <4> HIDE DEF g
      <4>3. pi'.goal = g
        BY <1>0, <4>1 DEF PiFields
      <4> QED BY <4>2, <4>3 DEF Shown
    <3> QED BY <1>5, <3>1, <3>2, TaskGoal
  <2>3. Quiet(pi') <=> Quiet(pi)
    BY <2>1 DEF PiSame, Quiet
  <2> QED BY <1>1, <2>1, <2>2, <2>3 DEF Shown, PiSame
<1>6. CASE ConsumerStep
  BY <1>0, <1>1, <1>6, ConsumerUnfailed, ConsumerReads, ShownRead
<1>7. CASE PiStep
  <2>1. ~PiCrashes
    <3> SUFFICES ASSUME PiCrashes PROVE FALSE
      OBVIOUS
    <3>1. Spend("crash")
      BY DEF PiCrashes
    <3>2. spent'.crash = spent.crash + 1 /\ spent.crash \in Nat
      BY <1>0, <3>1, Spending DEF Kinds, Counted, Bounds
    <3> QED BY <3>2
  <2>2. ad' = ad
    BY <1>7, PiSends
  <2>3. Tells /\ Spurs
    BY <1>0, <1>7, <2>1, PiTells DEF Shown
  <2> QED BY <1>0, <2>2, <2>3, ShownTold
<1>8. ~Respawn /\ ~Rebind
  BY NothingBreaks DEF Healthy, Respawn
<1> QED BY <1>4, <1>5, <1>6, <1>7, <1>8 DEF SchedNext

\* A mirror that shows rows of Pi's has a run ahead that ends.
LEMMA ShownAhead ==
    ASSUME Healthy, Shown, ad.mirror.pi # << >>
    PROVE  Ahead(pi.streaming, events)
<1>1. CASE pi.streaming
  BY <1>1 DEF Ahead
<1>2. CASE ~pi.streaming
  <2>1. LastQuiet(events)
    BY <1>2 DEF Shown
  <2>2. PICK i \in DOMAIN events : events[i].kind = "queue_update"
    BY <2>1 DEF LastQuiet
  <2> QED BY <1>2, <2>2 DEF Healthy, Closed, InRun, Ahead
<1> QED BY <1>1, <1>2

\* Nothing is queued at first.
LEMMA ShownInitial == SchedInit => Shown
<1> SUFFICES ASSUME SchedInit PROVE Shown
  OBVIOUS
<1>1. /\ events = << >> /\ ad.mirror.pi = << >>
  BY DEF SchedInit, InitialState, EmptyMirror
<1>2. Silent(events)
  BY <1>1 DEF Silent
<1>3. pi.steering = << >> /\ pi.followUp = << >> /\ "status" \in DOMAIN pi.goal
  BY DEF SchedInit
<1> QED BY <1>1, <1>2, <1>3 DEF Shown, Quiet

-----------------------------------------------------------------------------
(* An active goal is pursued.                                              *)

\* A task is about to queue a continuation, or will ask once more whether one
\* is due.
Resumer(t) == t.pc = "continue" \/ (t.pc = "kick" /\ t.then = "goal")
Resumes == \E o \in Tasks : Resumer(task[o])

\* A row that no prompt of the client has brought is held.
OwnRow(m) == \E id \in IdsOf(m.local) : id \notin Clients

\* Somebody will go on with an active goal: the end of a turn is ahead, a turn
\* is going on, or a continuation is queued; or the goal has lost it.
Pursuer == \/ Live \/ Settles \/ AdapterBusy(ad) \/ Resumes \/ OwnRow(ad.mirror)
           \/ ad.withdrawn \/ ad.mirror.parked # << >>
Pursued == pi.goal.status = "active" => Pursuer

\* What the tasks will do is still there; so is what the adapter holds.
Persists == (Live => Live') /\ (Settles => Settles') /\ (Resumes => Resumes')
Holds(b, a) ==
    /\ AdapterBusy(a) => AdapterBusy(b)
    /\ OwnRow(a.mirror) => OwnRow(b.mirror) \/ b.withdrawn
    /\ a.withdrawn => b.withdrawn
    /\ a.mirror.parked # << >> => b.mirror.parked # << >>
Written == pi'.goal.status = "active" => pi.goal.status = "active"

\* The goal is still pursued.
LEMMA PursuedOn ==
    ASSUME Pursued
    PROVE  /\ Written /\ Persists /\ Holds(ad', ad) => Pursued'
           /\ Pursuer' => Pursued'
           /\ AdapterBusy(ad') \/ Live' \/ Settles' \/ Resumes' => Pursued'
           /\ pi'.goal.status # "active" => Pursued'
BY DEF Pursued, Pursuer, Persists, Holds, Written

\* A task moves that pursues nothing.
LEMMA PersistsMoves ==
    ASSUME DOMAIN task = Tasks, NEW o, NEW t, Moves(o, t), StaysAhead,
           task[o].pc \notin {"stats", "settled"}, ~Resumer(task[o])
    PROVE  Persists
<1>1. /\ o \in Tasks /\ \A q \in Tasks : q # o => task'[q] = task[q]
  BY OthersWait
<1>2. (Live => Live') /\ (Settles => Settles')
  BY Duties
<1>3. Resumes => Resumes'
  BY <1>1 DEF Resumes
<1> QED BY <1>2, <1>3 DEF Persists

\* No task moves.
LEMMA PersistsStays ==
    ASSUME UNCHANGED task, StaysAhead
    PROVE  Persists
BY DutiesStay DEF Persists, OnDuty, Resumes

\* A task ends and leaves a probe.
LEMMA PersistsSpawns ==
    ASSUME DOMAIN task = Tasks, NEW o \in Tasks, SpawnProbe(o), StaysAhead,
           task[o].pc \in {"acked", "sent"}
    PROVE  Persists
<1>1. PICK n \in 1 .. MaxProbes :
               /\ ProbeTask(n) \in Tasks /\ task[ProbeTask(n)] = Done /\ ProbeTask(n) # o
               /\ DOMAIN task' = Tasks
               /\ task'[o] = Done /\ task'[ProbeTask(n)] = At("doze", NoRow)
               /\ \A q \in Tasks : q # o /\ q # ProbeTask(n) => task'[q] = task[q]
  BY Spawned
<1>2. ~Resumer(Done) /\ ~Resumer(task[o])
  BY TaskStates DEF Resumer
<1>3. Resumes => Resumes'
  BY <1>1, <1>2 DEF Resumes
<1>4. OnDuty
  BY DutiesSpawn
<1> QED BY <1>3, <1>4 DEF Persists, OnDuty

\* A task is about to pursue the goal.
LEMMA ResumesNow ==
    ASSUME DOMAIN task = Tasks, NEW o, NEW t, Moves(o, t), Resumer(t)
    PROVE  Resumes'
BY OthersWait DEF Resumes

\* What the adapter holds.
LEMMA HoldsKinds ==
    ASSUME NEW a, NEW b
    PROVE  /\ b = a => Holds(b, a)
           /\ Flagged(b, a) /\ b.active = a.active => Holds(b, a)
           /\ Alike(b, a) /\ b.mirror = a.mirror => Holds(b, a)
<1>1. Flagged(b, a) /\ b.active = a.active => Holds(b, a)
  BY DEF Flagged, Holds, AdapterBusy
<1>2. Alike(b, a) /\ b.mirror = a.mirror => Holds(b, a)
  BY BusyKept DEF Holds, Alike, Fresh
<1> QED BY <1>1, <1>2 DEF Holds

\* A generated row is not the client's.
LEMMA GeneratedOwn ==
    ASSUME NEW m, NEW q, Grown(q.local, m.local)
    PROVE  OwnRow(q)
BY ClientAssumption DEF Grown, OwnRow

\* While no cancel was asked for, no task settles one.
LEMMA NoSettling ==
    ASSUME Shape, spent.cancel = 0, NEW o \in Tasks, o[1] = "settle"
    PROVE  task[o].pc = "end"
<1>1. /\ \A p : PromptTask(p)[1] = "prompt" /\ InterjectTask(p)[1] = "interject"
      /\ \A n : ProbeTask(n)[1] = "probe" /\ SettleTask(n)[1] = "settle"
      /\ Consumer[1] = "consumer" /\ BashTask[1] = "bash"
  BY TaskKinds
<1>2. PICK n \in 1 .. MaxCancels : o = SettleTask(n)
  BY <1>1 DEF Tasks
<1>3. MaxCancels \in Nat
  BY SchedulerBounds
<1>4. n \in Nat /\ n > 0
  BY <1>2, <1>3
<1>5. Unborn(o, ad.outcome, spent.cancel)
  BY <1>2, <1>4 DEF Unborn
<1>6. task[o] = Done
  BY <1>5 DEF Shape, Tasked
<1> QED BY <1>6, TaskStates

\* With an active goal, an idle adapter and an empty mirror, the loop guard
\* stops the goal or a continuation is due.
LEMMA ContinuesGoal ==
    ASSUME NEW o \in Tasks, NEW a, MaybeContinueGoal(o, a), QueueIsEmpty(a.mirror),
           DOMAIN task = Tasks, DOMAIN pi = PiFields, "status" \in DOMAIN pi.goal
    PROVE  pi'.goal.status # "active" \/ Resumes'
<1> DEFINE h == ApplyControl(a.host, pi.goal)
           active == pi.goal.status = "active"
           t == [At("continue", NoRow) EXCEPT !.then = "record", !.goal = pi.goal.id]
           g == [pi.goal EXCEPT !.status = "paused"]
<1>1. CASE ~active
  <2>1. pi' = pi
    BY <1>1 DEF MaybeContinueGoal
  <2> QED BY <1>1, <2>1
<1>2. CASE active /\ h.armed
  <2>1. pi' = [pi EXCEPT !.goal = g]
    BY <1>2 DEF MaybeContinueGoal
  <2>2. g.status = "paused"
    OBVIOUS
  <2> HIDE DEF g
  <2>3. pi'.goal = g
    BY <2>1 DEF PiFields
  <2> QED BY <2>2, <2>3
<1>3. CASE active /\ ~h.armed
  <2>1. Moves(o, t)
    BY <1>3 DEF MaybeContinueGoal, Moves
  <2>2. t.pc = "continue"
    BY DEF At
  <2> HIDE DEF t
  <2> QED BY <2>1, <2>2, ResumesNow DEF Resumer
<1> QED BY <1>1, <1>2, <1>3

\* A mirror without rows counts as empty.
LEMMA EmptyCounts ==
    ASSUME NEW m, m.running = NoRow, m.local = << >>, m.pi = << >>, m.parked = << >>
    PROVE  QueueIsEmpty(m)
<1> DEFINE none == << >>
           all == m.pi \o m.local
           steering == InLane(all, "Steering")
<1>1. all = none
  OBVIOUS
<1>2. all \in Seq({})
  BY <1>1
<1> HIDE DEF all, none
<1>3. steering \in Seq({})
  BY <1>2, InLaneRows
<1> HIDE DEF steering
<1>4. Len(steering) = 0
  BY <1>3
<1>5. SteeringCount(m) = 0
  BY <1>4 DEF SteeringCount, steering, all
<1>6. Len(m.pi) = 0 /\ Len(m.local) = 0 /\ Len(m.parked) = 0
  OBVIOUS
<1>7. FollowUpCount(m) = 0
  BY <1>5, <1>6 DEF FollowUpCount
<1> QED BY <1>5, <1>7 DEF QueueIsEmpty

\* A task that asks for the next row, and would go on with the goal.
LEMMA GoesOn ==
    ASSUME SchedInv, Shape, Healthy, Shown, NEW o \in Tasks, task[o].then = "goal",
           NEW a, Accounts(a), a.mirror = ad.mirror, DispatchNextQueued(o, a),
           UNCHANGED events, Pursued
    PROVE  Pursued'
<1>0. /\ DOMAIN task = Tasks /\ Arrays(pi) /\ DOMAIN pi = PiFields
      /\ "status" \in DOMAIN pi.goal
  BY DEF SchedInv, Shape, Tasked, Arrays, Shown
<1>1. /\ PiSame
      /\ \/ /\ AdapterBusy(a) \/ a.mirror.local = << >>
            /\ Alike(ad', a) /\ ad'.mirror = a.mirror /\ ad'.withdrawn = a.withdrawn
         \/ Running(ad', a)
  BY <1>0, DispatchFlags
<1>2. CASE Running(ad', a)
  BY <1>2, BusyKept, PursuedOn
<1>3. CASE AdapterBusy(a) /\ Alike(ad', a)
  BY <1>3, BusyKept, PursuedOn
<1>4. CASE /\ ~AdapterBusy(a) /\ a.mirror.local = << >>
           /\ Alike(ad', a) /\ ad'.mirror = a.mirror
  <2> DEFINE m == ad.mirror
  <2>1. MaybeContinueGoal(o, a)
    BY <1>4 DEF DispatchNextQueued, NothingDispatched
  <2>2. m.running = NoRow /\ m.local = << >> /\ a.mirror = m /\ ad'.mirror = m
    BY <1>4 DEF AdapterBusy
  <2>3. CASE m.pi # << >>
    <3>1. Ahead(pi.streaming, events)
      BY <2>3, ShownAhead
    <3>2. Ahead(pi'.streaming, events')
      BY <1>1, <3>1 DEF PiSame
    <3> QED BY <3>2, PursuedOn DEF Live
  <2>4. CASE m.parked # << >>
    BY <2>2, <2>4, PursuedOn DEF Pursuer
  <2>5. CASE m.pi = << >> /\ m.parked = << >>
    <3>1. QueueIsEmpty(a.mirror)
      BY <2>2, <2>5, EmptyCounts
    <3>2. pi'.goal.status # "active" \/ Resumes'
      BY <1>0, <2>1, <3>1, ContinuesGoal
    <3> QED BY <3>2, PursuedOn
  <2> QED BY <2>3, <2>4, <2>5
<1> QED BY <1>1, <1>2, <1>3, <1>4

\* A task asks for the next row, or ends a turn.
LEMMA ServesPursued ==
    ASSUME SchedInv, Shape, Healthy, Shown, Pursued, NEW o \in Tasks, Kick(o) \/ TurnEnds(o)
    PROVE  Pursued'
<1>0. /\ Accounts(ad) /\ Arrays(pi) /\ DOMAIN task = Tasks /\ IsAdapter(ad)
      /\ Fit(o, task[o])
  BY DEF SchedInv, Shape, Tasked, Accounts
<1>1. CASE Kick(o)
  <2>1. task[o].pc = "kick" /\ DispatchNextQueued(o, ad) /\ UNCHANGED events
    BY <1>1 DEF Kick
  <2>2. CASE task[o].then = "goal"
    BY <1>0, <2>1, <2>2, GoesOn
  <2>3. CASE task[o].then # "goal"
    <3>1. /\ PiSame
          /\ \/ /\ Alike(ad', ad) /\ ad'.mirror = ad.mirror
                /\ \E t : Moves(o, t)
             \/ Running(ad', ad)
      BY <1>0, <2>1, DispatchFlags
    <3>2. CASE Running(ad', ad)
      BY <3>2, BusyKept, PursuedOn
    <3>3. ASSUME Alike(ad', ad), ad'.mirror = ad.mirror, NEW t, Moves(o, t) PROVE Pursued'
      <4>1. StaysAhead
        BY <2>1, <3>1 DEF StaysAhead, PiSame
      <4>2. ~Resumer(task[o])
        BY <2>1, <2>3 DEF Resumer
      <4>3. Persists
        BY <1>0, <2>1, <3>3, <4>1, <4>2, PersistsMoves
      <4>4. Holds(ad', ad)
        BY <3>3, HoldsKinds
      <4>5. Written
        BY <2>1, <2>3 DEF Written, DispatchNextQueued, NothingDispatched
      <4> QED BY <4>3, <4>4, <4>5, PursuedOn
    <3> QED BY <3>1, <3>2, <3>3
  <2> QED BY <2>2, <2>3
<1>2. CASE TurnEnds(o)
  <2> DEFINE row == task[o].row
             f == FinishPrompts(ad, "EndTurn")
             a == CompleteServerTurn(f, row)
             t == Onward(o, At("kick", NoRow))
  <2>1. /\ task[o].pc = "settled" /\ UNCHANGED events
        /\ \/ DispatchNextQueued(o, a)
           \/ Moves(o, t)
    BY <1>2 DEF TurnEnds, Moves
  <2>2. task[o].then = "goal"
    BY <1>0, <2>1 DEF Fit
  <2>3. CASE DispatchNextQueued(o, a)
    <3>1. Accounts(f) /\ IsAdapter(f) /\ f.mirror = ad.mirror
      BY <1>0, FinishAccounts, FinishPromptsFields DEF Answers
    <3> HIDE DEF f
    <3>2. Same(a, f)
      BY <3>1, CompleteFields
    <3>3. Accounts(a) /\ a.mirror = ad.mirror
      BY <3>1, <3>2, SameAccounts DEF Same
    <3> HIDE DEF a
    <3> QED BY <2>1, <2>2, <2>3, <3>3, GoesOn
  <2>4. CASE Moves(o, t)
    <3>1. t.pc = "kick" /\ t.then = "goal"
      BY <2>2, TaskStates
    <3> HIDE DEF t
    <3>2. Resumes'
      BY <1>0, <2>4, <3>1, ResumesNow DEF Resumer
    <3> QED BY <3>2, PursuedOn
  <2> QED BY <2>1, <2>3, <2>4
<1> QED BY <1>1, <1>2

\* The tasks of the adapter.
LEMMA TaskPursued ==
    ASSUME SchedInv, Shape, Healthy, Shown, Pursued, spent.cancel = 0,
           NEW o \in Tasks, TaskStep(o)
    PROVE  Pursued'
<1>0. /\ Accounts(ad) /\ IsAdapter(ad) /\ DOMAIN task = Tasks /\ Unfailed /\ pi.up
      /\ ~ad.cancelling
  BY DEF SchedInv, Shape, Tasked, Steady, Accounts, Healthy
<1>1. CASE Kick(o) \/ TurnEnds(o)
  BY <1>1, ServesPursued
<1>2. StaysAhead
  BY <1>0, TaskUnfailed DEF StaysAhead, PiSame
<1>p. ASSUME UNCHANGED pi, Persists, Holds(ad', ad) PROVE Pursued'
  BY <1>p, PursuedOn DEF Written
<1>3. CASE \/ Dispatch(o) \/ SendSteer(o) \/ ProbeWakes(o) \/ SettlePolls(o)
  <2>1. /\ task[o].pc \notin {"stats", "settled", "continue", "kick"}
        /\ UNCHANGED <<ad, pi>> /\ \E t : Moves(o, t)
    BY <1>3 DEF Dispatch, SendSteer, ProbeWakes, SettlePolls, Moves
  <2>2. Persists
    BY <1>0, <1>2, <2>1, PersistsMoves DEF Resumer
  <2> QED BY <1>p, <2>1, <2>2, HoldsKinds
<1>4. CASE DispatchAccepted(o)
  <2>1. /\ task[o].pc = "sent" /\ SpawnProbe(o) /\ UNCHANGED pi
        /\ (ad' = ad \/ ad' = RecordContinuation(ad, task[o].goal))
    BY <1>4 DEF DispatchAccepted, Answered
  <2>2. Persists
    BY <1>0, <1>2, <2>1, PersistsSpawns
  <2>3. Holds(ad', ad)
    BY <1>0, <2>1, RecordFlags, HoldsKinds
  <2> QED BY <1>p, <2>1, <2>2, <2>3
<1>5. CASE SteerAccepted(o)
  <2>1. /\ task[o].pc = "steer" /\ UNCHANGED pi
        /\ \/ o = Consumer /\ FlushPendingSteering(ad)
           \/ ad' = ad /\ Moves(o, Done)
    BY <1>5 DEF SteerAccepted, Answered, Moves
  <2>2. CASE ad' = ad /\ Moves(o, Done)
    <3>1. Persists
      BY <1>0, <1>2, <2>1, <2>2, PersistsMoves DEF Resumer
    <3> QED BY <1>p, <2>1, <2>2, <3>1, HoldsKinds
  <2>3. CASE ad.agentRunning /\ Joined(ad', ad)
    BY <2>3, BusyKept, PursuedOn
  <2> QED BY <1>0, <2>1, <2>2, <2>3, FlushFlags
<1>6. CASE ProbeAnswered(o)
  <2>1. /\ task[o].pc = "ask" /\ UNCHANGED pi
        /\ \/ Moves(o, Settling(ad.mirror.running))
           \/ ad' = ad /\ Moves(o, Done)
    BY <1>6 DEF ProbeAnswered, Answered, Moves
  <2>2. CASE Moves(o, Settling(ad.mirror.running))
    <3>1. Settling(ad.mirror.running).pc = "settled"
      BY TaskStates
    <3>2. Settles'
      BY <1>0, <2>2, <3>1, Duties
    <3> QED BY <3>2, PursuedOn
  <2>3. CASE ad' = ad /\ Moves(o, Done)
    <3>1. Persists
      BY <1>0, <1>2, <2>1, <2>3, PersistsMoves DEF Resumer
    <3> QED BY <1>p, <2>1, <2>3, <3>1, HoldsKinds
  <2> QED BY <2>1, <2>2, <2>3
<1>7. CASE ContinueGoal(o)
  <2> DEFINE q == EnqueueGenerated(ad.mirror, "goal", "FollowUp", "Extension")
  <2>1. ad' = [ad EXCEPT !.mirror = q, !.continued = @ + 1]
    BY <1>0, <1>7 DEF ContinueGoal
  <2>2. "goal" \in HostTexts /\ "FollowUp" \in RowLanes
    BY DEF HostTexts, RowLanes, Lanes
  <2>3. Grown(q.local, ad.mirror.local)
    BY <1>0, <2>2, GeneratedQueued DEF Accounts
  <2> HIDE DEF q
  <2>4. ad'.mirror = q
    BY <1>0, <2>1 DEF IsAdapter, AdapterFields
  <2>5. OwnRow(ad'.mirror)
    BY <2>3, <2>4, GeneratedOwn
  <2> QED BY <2>5, PursuedOn DEF Pursuer
<1>8. ~DispatchFails(o) /\ ~SteerFails(o)
  BY <1>0 DEF Unfailed, DispatchFails, SteerFails, Answered
<1>9. ~SettleConfirmed(o) /\ ~SettleAgain(o) /\ ~SettleGivesUp(o)
  BY NoSettling DEF SettleConfirmed, SettleAgain, SettleGivesUp, Answered
<1> QED BY <1>1, <1>3, <1>4, <1>5, <1>6, <1>7, <1>8, <1>9 DEF TaskStep

\* The client, unless it runs a Bash command or cancels.
LEMMA ClientPursued ==
    ASSUME SchedInv, Shape, Pursued, ClientStep, ~BashStarts, ~Cancel
    PROVE  Pursued'
<1>0. /\ Accounts(ad) /\ IsAdapter(ad) /\ DOMAIN task = Tasks /\ Queue(ad.mirror)
      /\ IsMirror(ad.mirror)
  BY DEF SchedInv, Shape, Tasked, Accounts, Queue
<1>1. UNCHANGED <<pi, events>>
  BY DEF ClientStep, Prompt, Interject, Cancel, RemoveRows, BashStarts
<1>2. StaysAhead /\ Written
  BY <1>1 DEF StaysAhead, Written
<1>3. ASSUME NEW p \in Clients, NEW lane \in Lanes, Prompt(p, lane) PROVE Pursued'
  <2>1. AdapterBusy(ad')
    BY <1>0, <1>3, PromptFlags, BusyKept
  <2> QED BY <2>1, PursuedOn
<1>4. ASSUME NEW p \in Clients, Interject(p) PROVE Pursued'
  <2> DEFINE i == LocalIndex(ad.mirror, p, AnyVersion)
             m == ad.mirror
             q == TakeLocal(m, i)
             row == m.local[i]
             r == PushFrontLocal(q, row)
             o == InterjectTask(p)
  <2>a. m.local \in Seq(Held)
    BY <1>0 DEF Queue
  <2>b. i # 0 => i \in DOMAIN m.local
    BY <2>a, LocalIndexFinds
  <2>1. /\ i # 0 /\ task[o] = Done
        /\ \/ Steer(o, ad, i) /\ (ad.agentRunning \/ ad.active # {})
           \/ ad' = [ad EXCEPT !.mirror = PushFrontLocal(TakeLocal(@, i), @.local[i])]
    BY <1>4 DEF Interject
  <2>2. i \in DOMAIN m.local
    BY <2>1, <2>b
  <2> HIDE DEF i
  <2>3. CASE Steer(o, ad, i) /\ (ad.agentRunning \/ ad.active # {})
    <3>1. o \in Tasks
      BY TaskKinds
    <3>2. Joined(ad', ad)
      BY <1>0, <2>2, <2>3, <3>1, SteerFlags
    <3> QED BY <2>3, <3>2, BusyKept, PursuedOn
  <2>4. CASE ad' = [ad EXCEPT !.mirror = PushFrontLocal(TakeLocal(@, i), @.local[i])]
    <3>0. ad' = [ad EXCEPT !.mirror = r]
      BY <1>0, <2>4 DEF IsAdapter, AdapterFields
    <3>1. /\ Queue(q) /\ row \in Held
          /\ IdsOf(q.local) = IdsOf(m.local) \ {row.id} /\ row.id \in IdsOf(m.local)
      BY <1>0, <2>2, Taken
    <3>2. PiAs(q, m)
      BY <1>0, PiAsOperations
    <3>3. q.running = m.running
      BY <1>0, Slots
    <3> HIDE DEF q, row
    <3>4. IdsOf(r.local) = IdsOf(q.local) \cup {row.id}
      BY <3>1, PushedFront
    <3>5. r.running = m.running
      BY <3>1, <3>3, Slots
    <3>6. r.parked = m.parked
      BY <3>1, <3>2, PiAsOperations DEF PiAs
    <3> HIDE DEF r
    <3>7. Holds(ad', ad)
      BY <1>0, <3>0, <3>1, <3>4, <3>5, <3>6
         DEF Holds, OwnRow, AdapterBusy, IsAdapter, AdapterFields
    <3>8. Done.pc = "end"
      BY TaskStates
    <3>9. AdapterBusy(ad') \/ \E t : Moves(o, t)
      BY <1>0, <1>4, InterjectFlags, BusyKept
    <3>10. ASSUME NEW t, Moves(o, t) PROVE Persists
      BY <1>0, <1>2, <2>1, <3>8, <3>10, PersistsMoves DEF Resumer
    <3> QED BY <1>2, <3>7, <3>9, <3>10, PursuedOn
  <2> QED BY <2>1, <2>3, <2>4
<1>5. ASSUME NEW ids, RemoveRows(ids) PROVE Pursued'
  <2> DEFINE m == ad.mirror
             f == FinishQueuedEntries(ad, ids, "Cancelled")
             l == Without(m.local, ids)
             w == ad.withdrawn \/ ~(ids \subseteq Clients)
  <2>1. IsAdapter(f) /\ f.mirror = m /\ f.withdrawn = ad.withdrawn
        /\ Alike(ad', ad) /\ UNCHANGED task
    BY <1>0, <1>5, FinishQueuedFields, QueuedFlags, RemoveFlags DEF Flagged
  <2>2. ad' = [f EXCEPT !.mirror.local = Without(@, ids),
                        !.withdrawn = @ \/ ~(ids \subseteq Clients)]
    BY <1>5 DEF RemoveRows
  <2> HIDE DEF f
  <2>3. ad' = [f EXCEPT !.mirror = [m EXCEPT !.local = l], !.withdrawn = w]
    BY <2>1, <2>2
  <2>4. IdsOf(l) = IdsOf(m.local) \ ids
    BY <1>0, WithoutIds DEF Queue
  <2> HIDE DEF l, w
  <2> DEFINE q == [m EXCEPT !.local = l]
  <2>5. q.local = l /\ q.parked = m.parked
    BY <1>0 DEF IsMirror, Mirror
  <2> HIDE DEF q
  <2>6. ad'.mirror = q /\ ad'.withdrawn = w
    BY <2>1, <2>3 DEF IsAdapter, AdapterFields, q
  <2>7. OwnRow(ad.mirror) => OwnRow(q) \/ w
    BY <2>4, <2>5 DEF OwnRow, w
  <2>8. AdapterBusy(ad) => AdapterBusy(ad')
    BY <2>1, BusyKept
  <2>9. Holds(ad', ad)
    BY <2>5, <2>6, <2>7, <2>8 DEF Holds, w
  <2>10. Persists
    BY <1>2, <2>1, PersistsStays
  <2> QED BY <1>2, <2>9, <2>10, PursuedOn
<1> QED BY <1>3, <1>4, <1>5 DEF ClientStep

\* The consumer handles one event.
LEMMA ConsumerPursued ==
    ASSUME SchedInv, Shape, Healthy, Unrefreshed, Pursued, spent.refresh = 0,
           spent.cancel = 0, ConsumerStep
    PROVE  Pursued'
<1>0. /\ Accounts(ad) /\ IsAdapter(ad) /\ DOMAIN task = Tasks /\ Consumer \in Tasks
      /\ ~ad.cancelling
  BY TaskKinds DEF SchedInv, Shape, Tasked, Steady, Accounts
<1>s. /\ \A pc, row : At(pc, row).pc = pc /\ Sent(pc, row).pc = pc
      /\ \A row : Settling(row).pc = "settled"
      /\ Done.pc = "end"
  BY TaskStates
<1>p. pi' = pi /\ Written
  BY ConsumerUnfailed DEF Written
<1>k. ASSUME Persists, Holds(ad', ad) PROVE Pursued'
  BY <1>k, <1>p, PursuedOn
<1>1. CASE AgentSettled
  <2> DEFINE t == At("stats", NoRow)
  <2>1. Moves(Consumer, t)
    BY <1>0, <1>1 DEF AgentSettled, Moves
  <2>2. t.pc = "stats"
    BY <1>s
  <2> HIDE DEF t
  <2>3. Live'
    BY <1>0, <2>1, <2>2, OthersWait DEF Live
  <2> QED BY <2>3, PursuedOn
<1>2. ASSUME ~AgentSettled PROVE Pursued'
  <2>0. StaysAhead /\ ~ProcessExit /\ ~Reloaded
    BY <1>2, ConsumerUnfailed, NothingLoads DEF StaysAhead
  <2>m. ASSUME NEW t, Moves(Consumer, t), task[Consumer].pc = "end" PROVE Persists
    BY <1>0, <2>0, <2>m, PersistsMoves DEF Resumer
  <2>1. ASSUME AgentStart PROVE Pursued'
    <3>1. AdapterBusy(ad')
      BY <1>0, <2>1, AgentStartFlags, BusyKept
    <3> QED BY <3>1, PursuedOn
  <2>2. ASSUME QueueUpdate PROVE Pursued'
    <3>1. Live'
      BY <2>2, ConsumerUnfailed DEF Live
    <3> QED BY <3>1, PursuedOn
  <2>3. ASSUME SlotIsCleared PROVE Pursued'
    <3> DEFINE u == Settling(ad.mirror.running)
    <3>1. Moves(Consumer, u)
      BY <1>0, <2>3 DEF SlotIsCleared, Moves
    <3>2. u.pc = "settled"
      BY <1>s
    <3> HIDE DEF u
    <3>3. Settles'
      BY <1>0, <3>1, <3>2, Duties
    <3> QED BY <3>3, PursuedOn
  <2>4. ASSUME MessageEnd PROVE Pursued'
    <3>1. task[Consumer].pc = "end" /\ FlushPendingSteering(ad)
      BY <1>0, <1>s, <2>4 DEF MessageEnd, NextEvent
    <3>2. CASE ad' = ad /\ Moves(Consumer, Done)
      <4>1. Persists
        BY <2>m, <3>1, <3>2
      <4> QED BY <1>k, <3>2, <4>1, HoldsKinds
    <3>3. CASE ad.agentRunning /\ Joined(ad', ad)
      BY <3>3, BusyKept, PursuedOn
    <3> QED BY <1>0, <3>1, <3>2, <3>3, FlushFlags
  <2>5. ASSUME ExtensionMessage PROVE Pursued'
    <3> DEFINE e == Head(events)
               q == EnqueueGenerated(ad.mirror, "ext", e.lane, "Extension")
    <3>1. ad' = [ad EXCEPT !.mirror = q]
      BY <1>0, <2>5 DEF ExtensionMessage
    <3>2. e.lane \in RowLanes /\ "ext" \in HostTexts
      BY <2>5, NextRead DEF ExtensionMessage, HostTexts, Readable
    <3>3. Grown(q.local, ad.mirror.local)
      BY <1>0, <3>2, GeneratedQueued DEF Accounts
    <3> HIDE DEF q
    <3>4. ad'.mirror = q
      BY <1>0, <3>1 DEF IsAdapter, AdapterFields
    <3>5. OwnRow(ad'.mirror)
      BY <3>3, <3>4, GeneratedOwn
    <3> QED BY <3>5, PursuedOn DEF Pursuer
  <2>6. ASSUME GoalMessage PROVE Pursued'
    <3> DEFINE h == ApplyControl(ad.host, pi.goal)
    <3>1. UNCHANGED task /\ ad' = [ad EXCEPT !.host = h]
      BY <2>6 DEF GoalMessage
    <3> HIDE DEF h
    <3>2. Holds(ad', ad)
      BY <1>0, <3>1, RecordFlags, HoldsKinds
    <3>3. Persists
      BY <2>0, <3>1, PersistsStays
    <3> QED BY <1>k, <3>2, <3>3
  <2>7. ASSUME StateChanged PROVE Pursued'
    <3> DEFINE t == Sent("load", NoRow)
    <3>1. task[Consumer].pc = "end" /\ ad' = ad /\ Moves(Consumer, t)
      BY <1>0, <1>s, <2>7 DEF StateChanged, NextEvent, Moves
    <3> HIDE DEF t
    <3>2. Persists
      BY <2>m, <3>1
    <3> QED BY <1>k, <3>1, <3>2, HoldsKinds
  <2> QED BY <1>2, <2>0, <2>1, <2>2, <2>3, <2>4, <2>5, <2>6, <2>7 DEF ConsumerStep
<1> QED BY <1>1, <1>2

\* A prompt that found the adapter idle.
LEMMA PromptPursued ==
    ASSUME SchedInv, Shape, Healthy, Pursued, NEW p \in Clients, PromptStep(p)
    PROVE  Pursued'
<1> DEFINE o == PromptTask(p)
           t == At("acked", NoRow)
<1>0. /\ DOMAIN task = Tasks /\ Unfailed /\ o \in Tasks
  BY TaskKinds DEF Shape, Tasked, Healthy
<1>1. StaysAhead /\ UNCHANGED pi
  BY DEF PromptStep, DirectAccepted, DirectFails, StaysAhead
<1>3. \/ /\ task[o].pc = "direct" /\ ad' = ad /\ Moves(o, t)
      \/ /\ task[o].pc = "acked" /\ ad' = ad /\ SpawnProbe(o)
  BY <1>0 DEF PromptStep, DirectAccepted, DirectFails, Answered, Moves, Unfailed
<1> HIDE DEF o, t
<1>4. Persists
  BY <1>0, <1>1, <1>3, PersistsMoves, PersistsSpawns DEF Resumer
<1> QED BY <1>1, <1>3, <1>4, PursuedOn, HoldsKinds DEF Written

\* Pi answers, and a goal that becomes active starts a turn.
LEMMA PiPursued ==
    ASSUME SchedInv, Shape, Healthy, Shown, Pursued, PiStep,
           spent'.error = spent.error, spent'.crash = spent.crash
    PROVE  Pursued'
<1>0. /\ DOMAIN task = Tasks /\ Unread(events) /\ Closed(pi.streaming, events)
  BY DEF SchedInv, Shape, Tasked, Healthy
<1>1. ad' = ad /\ Sends /\ (UNCHANGED task \/ AnswersOne)
  BY PiSends
<1>2. StaysAhead
  BY <1>0, <1>1, SendsClosed DEF StaysAhead
<1>3. Persists
  <2>1. CASE UNCHANGED task
    BY <1>2, <2>1, PersistsStays
  <2>2. CASE AnswersOne
    <3>1. PICK o \in Tasks : \E t : InFlight(o) /\ Moves(o, t)
      BY <2>2 DEF AnswersOne
    <3>2. task[o].pc \notin {"stats", "settled", "continue", "kick"}
      BY <3>1 DEF InFlight, Requesting
    <3> QED BY <1>0, <1>2, <3>1, <3>2, PersistsMoves DEF Resumer
  <2> QED BY <1>1, <2>1, <2>2
<1>4. Holds(ad', ad)
  BY <1>1, HoldsKinds
<1>c. ~PiCrashes
  <2> SUFFICES ASSUME PiCrashes PROVE FALSE
    OBVIOUS
  <2>1. Spend("crash")
    BY DEF PiCrashes
  <2>2. spent'.crash = spent.crash + 1 /\ spent.crash \in Nat
    BY <2>1, Spending DEF Kinds, Counted, Bounds, Shape
  <2> QED BY <2>2
<1>5. Spurs
  BY <1>0, <1>c, PiTells DEF Shown, Healthy
<1>6. CASE pi'.streaming
  BY <1>6, PursuedOn DEF Live, Ahead
<1>7. CASE ~pi'.streaming
  <2>1. Written
    BY <1>5, <1>7 DEF Spurs, Written
  <2> QED BY <1>3, <1>4, <2>1, PursuedOn
<1> QED BY <1>6, <1>7

\* As long as no cancel is asked for, no Bash command is run and no state is
\* loaded again, an active goal is pursued.
LEMMA PursuedInductive ==
    ASSUME SchedInv, Shape, Unrefreshed, Healthy, Shown, Pursued, spent.refresh = 0,
           spent.cancel = 0, spent.bash = 0, [SchedNext]_schedVars, ~Cancel, ~BashStarts,
           spent'.error = spent.error, spent'.crash = spent.crash
    PROVE  Pursued'
<1>0. /\ IsAdapter(ad) /\ task[BashTask].pc = "end"
  BY DEF SchedInv, Accounts, Shape, Steady
<1>1. ~Respawn /\ ~Rebind /\ ~BashEnds
  BY <1>0 DEF Healthy, Respawn, Rebind, BashEnds, Answered
<1>2. CASE UNCHANGED schedVars
  <2>1. UNCHANGED <<ad, task, pi, events>>
    BY <1>2 DEF schedVars
  <2>2. StaysAhead /\ Written
    BY <2>1 DEF StaysAhead, Written
  <2>3. Persists /\ Holds(ad', ad)
    BY <2>1, <2>2, PersistsStays, HoldsKinds
  <2> QED BY <2>2, <2>3, PursuedOn
<1>3. CASE ContinuationExpires
  <2> DEFINE h == [ad.host EXCEPT !.sends = @ - 1]
  <2>1. UNCHANGED <<task, pi, events>> /\ ad' = [ad EXCEPT !.host = h]
    BY <1>3 DEF ContinuationExpires
  <2> HIDE DEF h
  <2>2. StaysAhead /\ Written
    BY <2>1 DEF StaysAhead, Written
  <2>3. Holds(ad', ad)
    BY <1>0, <2>1, RecordFlags, HoldsKinds
  <2>4. Persists
    BY <2>1, <2>2, PersistsStays
  <2> QED BY <2>2, <2>3, <2>4, PursuedOn
<1>4. ASSUME SchedNext, ~ContinuationExpires PROVE Pursued'
  BY <1>1, <1>4, ClientPursued, PromptPursued, TaskPursued, ConsumerPursued,
     PiPursued DEF SchedNext
<1> QED BY <1>2, <1>3, <1>4

\* Without a cancel no cancel runs out of time.
NoDeadlines == spent.cancel = 0 => spent.deadline = 0

\* The invariant stays.
LEMMA NoDeadlinesInductive ==
    ASSUME Shape, NoDeadlines, [SchedNext]_schedVars
    PROVE  NoDeadlines'
<1> SUFFICES ASSUME spent'.cancel = 0 PROVE spent'.deadline = 0
  BY DEF NoDeadlines
<1>1. Counted /\ Counted' /\ Grows
  BY SpentGrows DEF Shape
<1>2. {"cancel", "deadline"} \subseteq Kinds
  BY DEF Kinds
<1>3. spent.cancel = 0 /\ spent.deadline = 0
  BY <1>1, <1>2, SpentBefore DEF NoDeadlines
<1>4. \A o \in Tasks : ~SettleGivesUp(o)
  BY <1>3, NoSettling DEF SettleGivesUp, Answered
<1>5. spent' = spent \/ \E b \in Kinds \ {"deadline"} : Spend(b)
  BY <1>4, StepSpends DEF Spends
<1>6. ASSUME NEW b \in Kinds \ {"deadline"}, Spend(b) PROVE spent'.deadline = spent.deadline
  BY <1>1, <1>2, <1>6, Spending
<1> QED BY <1>3, <1>5, <1>6

\* Nothing drops a continuation.
Undropped == /\ Calm
             /\ spent.cancel = 0 /\ spent.refresh = 0 /\ spent.bash = 0

\* The invariant: an active goal is pursued as long as nothing drops its
\* continuation.
Followed == Undropped => Shown /\ Pursued

\* The invariant stays.
LEMMA FollowedInductive ==
    ASSUME SchedInv, Shape, Guarded, Tallied, Unrefreshed, Followed, [SchedNext]_schedVars
    PROVE  Followed'
<1> SUFFICES ASSUME Undropped' PROVE Shown' /\ Pursued'
  BY DEF Followed
<1> DEFINE Zero == {"error", "crash", "cancel", "refresh", "bash"}
<1>1. Counted /\ Counted' /\ Grows
  BY SpentGrows DEF Shape
<1>2. Zero \subseteq Kinds
  BY DEF Kinds
<1>3. \A b \in Zero : spent'[b] = 0
  BY DEF Undropped, Calm
<1>4. \A b \in Zero : spent[b] = 0
  BY <1>1, <1>2, <1>3, SpentBefore
<1>5. ASSUME NEW b \in Zero PROVE ~Spend(b)
  <2>1. Spend(b) => spent'[b] = spent[b] + 1
    BY <1>1, <1>2, Spending
  <2> QED BY <1>3, <1>4, <2>1
<1>6. ~Cancel /\ ~BashStarts
  BY <1>5 DEF Cancel, BashStarts
<1>7. Undropped
  BY <1>4 DEF Undropped, Calm
<1>8. /\ spent'.error = spent.error /\ spent'.crash = spent.crash
      /\ spent.cancel = 0 /\ spent.refresh = 0 /\ spent.bash = 0
  BY <1>3, <1>4
<1>9. Healthy /\ Shown /\ Pursued
  BY <1>7 DEF Followed, Guarded, Undropped
<1> QED BY <1>6, <1>8, <1>9, ShownInductive, PursuedInductive

\* At first nothing is to be pursued.
LEMMA FollowedInitial == SchedInit => NoDeadlines /\ Followed
<1> SUFFICES ASSUME SchedInit PROVE NoDeadlines /\ Followed
  OBVIOUS
<1>1. spent.deadline = 0
  BY DEF SchedInit, Bounds
<1>2. pi.goal.status = "over"
  BY DEF SchedInit
<1> QED BY <1>1, <1>2, ShownInitial DEF NoDeadlines, Followed, Pursued

\* A pursued goal does not stall.
LEMMA PursuedRest ==
    ASSUME Shape, Guarded, RowsServed, NoDeadlines, Followed
    PROVE  GoalGoesOn
<1> DEFINE Zero == {"cancel", "error", "crash", "refresh", "bash"}
<1> SUFFICES ASSUME AtRest, pi.goal.status = "active", \A b \in Zero : ~(spent[b] > 0)
             PROVE  ad.withdrawn \/ ad.mirror.parked # << >>
  BY DEF GoalGoesOn
<1>1. \A b \in Zero : spent[b] \in Nat
  BY DEF Shape, Counted, Bounds
<1>2. \A b \in Zero : spent[b] = 0
  BY <1>1
<1>3. Undropped /\ spent.deadline = 0 /\ Calm /\ spent.bash = 0
  BY <1>2 DEF Undropped, Calm, NoDeadlines
<1>4. ~AdapterBusy(ad)
  BY <1>3, GuardedRest DEF NoGhostRun
<1>5. /\ \A o \in Tasks : task[o].pc = "end"
      /\ Consumer \in Tasks /\ events = << >> /\ pi.streaming = FALSE
  BY <1>3, TaskStates, TaskKinds DEF AtRest, Guarded, Healthy
<1>6. ~Live /\ ~Settles /\ ~Resumes
  BY <1>5 DEF Live, Ahead, Settles, Resumes, Resumer
<1>7. ad.mirror.local = << >>
  BY <1>3, <1>4, <1>5 DEF RowsServed, NoStrandedRows
<1>8. ~OwnRow(ad.mirror)
  BY <1>7 DEF OwnRow, IdsOf
<1>9. Pursuer
  BY <1>3 DEF Followed, Pursued
<1> QED BY <1>4, <1>6, <1>8, <1>9 DEF Pursuer

\* An active goal does not stall: at rest its continuation was withdrawn or is
\* hidden behind a parked row, unless a cancel, a refusal, an exit of Pi, a
\* reload or a direct Bash command came in between.
THEOREM SchedGoalGoesOn == SchedSafeSpec => []GoalGoesOn
<1> DEFINE I == /\ SchedInv /\ Shape /\ Guarded /\ RowsServed /\ Tallied /\ Unrefreshed
                /\ NoDeadlines /\ Followed
<1>1. SchedInit => I
  <2>1. SchedInit => NoStrandedRows
    BY DEF SchedInit, InitialState, EmptyMirror, NoStrandedRows
  <2> QED BY <2>1, SchedInitial, ShapeInitial, WatchedInitial, TalliedInitial,
             UnrefreshedInitial, FollowedInitial DEF Guarded, RowsServed
<1>2. I /\ [SchedNext]_schedVars => I'
  BY SchedInductive, ShapeInductive, GuardedInductive, RowsServedInductive,
     TalliedInductive, UnrefreshedInductive, NoDeadlinesInductive, FollowedInductive
<1>3. I => GoalGoesOn
  BY PursuedRest
<1> QED BY <1>1, <1>2, <1>3, PTL DEF SchedSafeSpec

-----------------------------------------------------------------------------
(* The loop guard's count.                                                 *)

\* The count of continuations and the host's record are those of a.
Hosted(b, a) == IsAdapter(b) /\ b.host = a.host /\ b.continued = a.continued

\* The adapter's fields other than these two.
LEMMA HostedFields ==
    ASSUME NEW a, NEW b, Hosted(b, a)
    PROVE  /\ \A x : Hosted([b EXCEPT !.mirror = x], a)
           /\ \A x : Hosted([b EXCEPT !.bashRunning = x], a)
           /\ \A x : Hosted([b EXCEPT !.cancelling = x], a)
           /\ \A x, y : Hosted([b EXCEPT !.mirror = x, !.withdrawn = y], a)
           /\ \A x, y : Hosted([b EXCEPT !.agentRunning = x, !.cancelling = y], a)
           /\ \A x, y : Hosted([b EXCEPT !.agentRunning = x, !.mirror = y], a)
           /\ \A x, y, z : Hosted([b EXCEPT !.agentRunning = x, !.started = y,
                                            !.mirror = z], a)
           /\ \A x, y, z : Hosted([b EXCEPT !.agentRunning = x, !.cancelling = y,
                                            !.mirror = z], a)
           /\ \A x, y, z : Hosted([b EXCEPT !.mirror = x, !.waiting = y,
                                            !.outcome = z], a)
           /\ \A x, y, z, u : Hosted([b EXCEPT !.mirror = x, !.agentRunning = y,
                                               !.active = z, !.outcome = u], a)
BY DEF Hosted, IsAdapter, AdapterFields

\* The methods of AdapterState that do not count.
LEMMA HostedMethods ==
    ASSUME NEW a, IsAdapter(a)
    PROVE  /\ Hosted(a, a)
           /\ \A reason : Hosted(FinishPrompts(a, reason), a)
           /\ \A ids, reason : Hosted(FinishQueuedEntries(a, ids, reason), a)
           /\ \A id, reason : Hosted(TakeActivePrompt(a, id, reason), a)
           /\ \A id : Hosted(ActivateQueuedClient(a, id), a)
           /\ \A row : /\ Hosted(SendServerPromptComplete(a, row), a)
                       /\ Hosted(CompleteServerTurn(a, row), a)
<1>1. Hosted(a, a)
  BY DEF Hosted
<1>2. ASSUME NEW reason PROVE Hosted(FinishPrompts(a, reason), a)
  BY DEF FinishPrompts, Hosted, IsAdapter, AdapterFields
<1>3. ASSUME NEW ids, NEW reason PROVE Hosted(FinishQueuedEntries(a, ids, reason), a)
  BY DEF FinishQueuedEntries, Hosted, IsAdapter, AdapterFields
<1>4. ASSUME NEW id, NEW reason PROVE Hosted(TakeActivePrompt(a, id, reason), a)
  BY DEF TakeActivePrompt, Hosted, IsAdapter, AdapterFields
<1>5. ASSUME NEW id PROVE Hosted(ActivateQueuedClient(a, id), a)
  BY DEF ActivateQueuedClient, Hosted, IsAdapter, AdapterFields
<1>6. ASSUME NEW row PROVE Hosted(SendServerPromptComplete(a, row), a)
  BY DEF SendServerPromptComplete, Hosted, IsAdapter, AdapterFields
<1>7. ASSUME NEW row PROVE Hosted(CompleteServerTurn(a, row), a)
  BY <1>1, <1>6 DEF CompleteServerTurn
<1> QED BY <1>1, <1>2, <1>3, <1>4, <1>5, <1>6, <1>7

\* A method after a method.
LEMMA HostedOn ==
    ASSUME NEW a, NEW b, NEW c, Hosted(b, a), Hosted(c, b)
    PROVE  Hosted(c, a)
BY DEF Hosted

\* What cancel, exits and reloads do to the adapter.
LEMMA HostedDrops ==
    ASSUME NEW a, IsAdapter(a)
    PROVE  Hosted(DropEverything(a), a) /\ Hosted(ReplaceBootstrap(a), a)
<1>1. Hosted(DropEverything(a), a)
  <2> DEFINE m == ClearMirror(ClearRunning(ClearLocal(a.mirror)))
             b == [a EXCEPT !.mirror = m]
             c == FinishQueuedEntries(b, IdsOf(a.mirror.local), "Cancelled")
             d == FinishPrompts(c, "Cancelled")
  <2>1. DropEverything(a) = CompleteServerTurn(d, a.mirror.running)
    BY DEF DropEverything
  <2>2. Hosted(b, a)
    BY HostedMethods, HostedFields
  <2> HIDE DEF b
  <2>3. Hosted(c, b)
    BY <2>2, HostedMethods DEF Hosted
  <2> HIDE DEF c
  <2>4. Hosted(d, c)
    BY <2>3, HostedMethods DEF Hosted
  <2> HIDE DEF d
  <2>5. Hosted(CompleteServerTurn(d, a.mirror.running), d)
    BY <2>4, HostedMethods DEF Hosted
  <2> QED BY <2>1, <2>2, <2>3, <2>4, <2>5, HostedOn
<1>2. Hosted(ReplaceBootstrap(a), a)
  <2> DEFINE c == FinishQueuedEntries(a, a.waiting, "Cancelled")
             e == EmptyMirror
  <2>1. ReplaceBootstrap(a) = [c EXCEPT !.mirror = e, !.agentRunning = FALSE,
                                        !.cancelling = FALSE]
    BY DEF ReplaceBootstrap
  <2>2. Hosted(c, a)
    BY HostedMethods
  <2> HIDE DEF c, e
  <2>3. Hosted([c EXCEPT !.mirror = e, !.agentRunning = FALSE, !.cancelling = FALSE], a)
    BY <2>2 DEF Hosted, IsAdapter, AdapterFields
  <2> QED BY <2>1, <2>3
<1> QED BY <1>1, <1>2

\* A row is steered, or nothing is.
LEMMA SteerHosted ==
    ASSUME NEW o, NEW a, IsAdapter(a), NEW i, Steer(o, a, i)
    PROVE  /\ Hosted(ad', a)
           /\ task' = [task EXCEPT ![o] = At("steering", a.mirror.local[i])]
<1> DEFINE row == a.mirror.local[i]
           b == ActivateQueuedClient(a, row.id)
           m == Reserve(TakeLocal(b.mirror, i), [row EXCEPT !.lane = "Steering"])
<1>1. ad' = [b EXCEPT !.mirror = m] /\ task' = [task EXCEPT ![o] = At("steering", row)]
  BY DEF Steer
<1>2. Hosted(b, a)
  BY HostedMethods
<1> HIDE DEF b, m
<1> QED BY <1>1, <1>2, HostedFields

\* A row is dispatched: its task goes on to announce it.
LEMMA DispatchHosted ==
    ASSUME NEW o, NEW a, IsAdapter(a), DispatchNextQueued(o, a)
    PROVE  \/ NothingDispatched(o, a)
           \/ /\ Hosted(ad', a) /\ UNCHANGED pi
              /\ \E row : task' = [task EXCEPT ![o] = Onward(o, At("announce", row))]
<1> DEFINE row == Head(a.mirror.local)
           b == ActivateQueuedClient(a, row.id)
           m == SetRunning(PopNextLocal(b.mirror), row)
<1>1. \/ NothingDispatched(o, a)
      \/ /\ ad' = [b EXCEPT !.agentRunning = TRUE, !.mirror = m]
         /\ task' = [task EXCEPT ![o] = Onward(o, At("announce", row))]
         /\ UNCHANGED pi
  BY DEF DispatchNextQueued
<1>2. Hosted(b, a)
  BY HostedMethods
<1> HIDE DEF b, m, row
<1>3. Hosted([b EXCEPT !.agentRunning = TRUE, !.mirror = m], a)
  BY <1>2, HostedFields
<1> QED BY <1>1, <1>3

\* The tasks that end turns.
Enders == {Consumer} \cup {ProbeTask(n) : n \in 1 .. MaxProbes}

\* What task o, at the await t, does after a dispatch: a continuation that it
\* queued or let pass is recorded.
Role(o, t) ==
    /\ t.then \in {"end", "goal", "record"}
    /\ t.then # "end" => o \in Enders
    /\ t.then = "record" => t.pc \in {"continue", "kick", "announce", "sent"}
    /\ t.pc = "continue" => t.then = "record"
Roles == \A o \in Tasks : Role(o, task[o])

\* The tasks that will record a continuation, the ones among them that have
\* not queued it yet, and the ones that hold the control of an earlier goal.
Recorders == {o \in Tasks : task[o].then = "record"}
Queuers == {o \in Tasks : task[o].pc = "continue"}
Late == {o \in Recorders : task[o].goal # pi.goal.id}
SameSets == Recorders' = Recorders /\ Queuers' = Queuers /\ Late' = Late

\* A task goes on.
LEMMA RolesMoves ==
    ASSUME Roles, DOMAIN task = Tasks, NEW o, NEW t, Moves(o, t), Role(o, t),
           pi'.goal = pi.goal
    PROVE  /\ Roles' /\ o \in Tasks
           /\ t.pc = "continue" => Queuers' = Queuers \cup {o}
           /\ t.pc # "continue" => Queuers' = Queuers \ {o}
           /\ t.then # "record" => Recorders' = Recorders \ {o} /\ Late' = Late \ {o}
           /\ t.then = "record" => Recorders' = Recorders \cup {o}
           /\ t.then = "record" /\ t.goal = pi.goal.id => Late' = Late \ {o}
           /\ t.then = "record" /\ task[o].then = "record" /\ t.goal = task[o].goal
                  => Late' = Late
<1>1. /\ o \in Tasks /\ task'[o] = t
      /\ \A q \in Tasks : q # o => task'[q] = task[q]
  BY OthersWait
<1>2. Roles'
  BY <1>1 DEF Roles
<1>3. /\ t.pc = "continue" => Queuers' = Queuers \cup {o}
      /\ t.pc # "continue" => Queuers' = Queuers \ {o}
  BY <1>1 DEF Queuers
<1>4. /\ t.then # "record" => Recorders' = Recorders \ {o} /\ Late' = Late \ {o}
      /\ t.then = "record" => Recorders' = Recorders \cup {o}
  BY <1>1 DEF Recorders, Late
<1>5. t.then = "record" /\ t.goal = pi.goal.id => Late' = Late \ {o}
  BY <1>1 DEF Recorders, Late
<1>6. t.then = "record" /\ task[o].then = "record" /\ t.goal = task[o].goal
          => Late' = Late
  BY <1>1 DEF Recorders, Late
<1> QED BY <1>1, <1>2, <1>3, <1>4, <1>5, <1>6

\* A task that has nothing to record goes on without anything to record.
LEMMA RolesPlain ==
    ASSUME Roles, DOMAIN task = Tasks, NEW o, task[o].then # "record",
           NEW t, Moves(o, t), t.then = "end" \/ (t.then = "goal" /\ o \in Enders),
           t.pc # "continue", pi'.goal = pi.goal
    PROVE  Roles' /\ SameSets
<1>1. Role(o, t) /\ t.then # "record"
  BY DEF Role
<1>2. o \notin Recorders /\ o \notin Late /\ o \notin Queuers
  BY DEF Recorders, Late, Queuers, Roles, Role
<1> QED BY <1>1, <1>2, RolesMoves DEF SameSets

\* A task goes on to record the same continuation later.
LEMMA RolesStill ==
    ASSUME Roles, DOMAIN task = Tasks, NEW o \in Tasks,
           NEW t, Moves(o, t), t.then = task[o].then, t.goal = task[o].goal,
           t.pc \in {"kick", "announce", "sent"}, pi'.goal = pi.goal
    PROVE  /\ Roles' /\ Recorders' = Recorders /\ Late' = Late
           /\ Queuers' = Queuers \ {o}
           /\ task[o].pc # "continue" => SameSets
<1>1. Role(o, t) /\ t.pc # "continue"
  BY DEF Roles, Role
<1>2. task[o].then # "record" => o \notin Recorders /\ o \notin Late
  BY DEF Recorders, Late
<1>3. task[o].pc # "continue" => o \notin Queuers
  BY DEF Queuers
<1>4. task[o].then = "record" => o \in Recorders
  BY DEF Recorders
<1>5. Roles' /\ Queuers' = Queuers \ {o}
  BY <1>1, RolesMoves
<1>6. Recorders' = Recorders /\ Late' = Late
  <2>1. CASE t.then = "record"
    <3>1. Recorders' = Recorders \cup {o} /\ Late' = Late
      BY <1>1, <2>1, RolesMoves
    <3> QED BY <1>4, <2>1, <3>1
  <2>2. CASE t.then # "record"
    <3>1. Recorders' = Recorders \ {o} /\ Late' = Late \ {o}
      BY <1>1, <2>2, RolesMoves
    <3> QED BY <1>2, <2>2, <3>1
  <2> QED BY <2>1, <2>2
<1> QED BY <1>3, <1>5, <1>6 DEF SameSets

\* A task leaves a probe behind.
LEMMA RolesSpawns ==
    ASSUME Roles, DOMAIN task = Tasks, NEW o \in Tasks, task[o].pc # "end",
           SpawnProbe(o), pi'.goal = pi.goal
    PROVE  /\ Roles' /\ Recorders' = Recorders \ {o} /\ Late' = Late \ {o}
           /\ Queuers' = Queuers \ {o}
           /\ task[o].then # "record" => SameSets
<1>1. PICK n \in 1 .. MaxProbes :
          /\ ProbeTask(n) \in Tasks /\ task[ProbeTask(n)] = Done /\ ProbeTask(n) # o
          /\ DOMAIN task' = Tasks
          /\ task'[o] = Done /\ task'[ProbeTask(n)] = At("doze", NoRow)
          /\ \A q \in Tasks : q # o /\ q # ProbeTask(n) => task'[q] = task[q]
  BY Spawned
<1>2. /\ Done.pc = "end" /\ Done.then = "end"
      /\ At("doze", NoRow).pc = "doze" /\ At("doze", NoRow).then = "end"
  BY DEF Done, At
<1> DEFINE r == ProbeTask(n)
<1> HIDE DEF r
<1>3. /\ r # o /\ r \in Tasks
      /\ task[r].pc = "end" /\ task[r].then = "end"
      /\ task'[r].pc = "doze" /\ task'[r].then = "end"
      /\ task'[o].pc = "end" /\ task'[o].then = "end"
      /\ \A q \in Tasks : q # o /\ q # r => task'[q] = task[q]
  BY <1>1, <1>2 DEF r
<1>4. Roles'
  BY <1>3 DEF Roles, Role
<1>5. Recorders' = Recorders \ {o} /\ Queuers' = Queuers \ {o}
  BY <1>3 DEF Recorders, Queuers
<1>6. Late' = Late \ {o}
  BY <1>3 DEF Recorders, Late
<1>7. task[o].then # "record" => o \notin Recorders /\ o \notin Late /\ o \notin Queuers
  BY DEF Recorders, Late, Queuers, Roles, Role
<1> QED BY <1>4, <1>5, <1>6, <1>7 DEF SameSets

\* No task gets another role.
LEMMA RolesStay ==
    ASSUME Roles, pi'.goal = pi.goal,
           \A q \in Tasks : /\ task'[q].pc = task[q].pc /\ task'[q].then = task[q].then
                            /\ task'[q].goal = task[q].goal
    PROVE  Roles' /\ SameSets
<1>1. Roles'
  BY DEF Roles, Role
<1>2. Recorders' = Recorders /\ Queuers' = Queuers
  BY DEF Recorders, Queuers
<1>3. Late' = Late
  BY DEF Recorders, Late
<1> QED BY <1>1, <1>2, <1>3 DEF SameSets

\* What the host counts for the goal of the file.
NowHost == ApplyControl(ad.host, pi.goal)

\* A step counts nothing.
CountsNothing ==
    /\ SameSets /\ pi'.goal = pi.goal /\ ad'.continued = ad.continued
    /\ ad'.host \in {ad.host, NowHost}

\* The guard lets a continuation pass.
Admits(o) ==
    /\ pi'.goal = pi.goal /\ ad'.continued = ad.continued /\ ad'.host = NowHost
    /\ pi.goal.status = "active" /\ ~NowHost.armed
    /\ o \in Enders /\ o \notin Recorders /\ o \notin Queuers
    /\ Recorders' = Recorders \cup {o} /\ Queuers' = Queuers \cup {o} /\ Late' = Late

\* The guard stops the loop.
Halts == /\ Recorders' = Recorders /\ Queuers' = Queuers /\ Late' = Late
         /\ pi.goal.status = "active"
         /\ pi'.goal = [pi.goal EXCEPT !.status = "paused"]
         /\ ad'.continued = ad.continued /\ ad'.host = NoGoal

\* A continuation is recorded.
Notes(o) == /\ pi'.goal = pi.goal /\ ad'.continued = ad.continued
            /\ ad'.host = RecordContinuation(ad, task[o].goal).host
            /\ o \in Recorders /\ Recorders' = Recorders \ {o}
            /\ Queuers' = Queuers \ {o} /\ Late' = Late \ {o}

\* A continuation is queued.
Queues(o) == /\ pi'.goal = pi.goal /\ ad'.continued = ad.continued + 1
             /\ ad'.host = ad.host
             /\ Recorders' = Recorders /\ Late' = Late
             /\ o \in Queuers /\ Queuers' = Queuers \ {o}

\* The goal is set, or edited.
Sets == /\ pi'.goal = [id |-> pi.goal.id + 1, status |-> "active"] /\ Spend("goal")
        /\ UNCHANGED <<ad, task>>
Edits == /\ \E st \in {"active", "paused", "over"} :
                pi'.goal = [pi.goal EXCEPT !.status = st]
         /\ pi.goal.status # "over" /\ Spend("turn")
         /\ UNCHANGED <<ad, task>>

\* A continuation leaves the window.
Ages == /\ ad.host.sends > 0 /\ ad'.host = [ad.host EXCEPT !.sends = @ - 1]
        /\ ad'.continued = ad.continued
        /\ SameSets /\ pi'.goal = pi.goal /\ Spend("expired")

\* What a step does to the count.
Counting ==
    \/ CountsNothing \/ Halts \/ Sets \/ Edits \/ Ages
    \/ \E o \in Tasks : Admits(o) \/ Notes(o) \/ Queues(o)
Reckons == Roles' /\ Counting

\* A step that leaves the adapter's count alone, and whose task has nothing to
\* record.
LEMMA PlainReckons ==
    ASSUME Roles, DOMAIN task = Tasks, NEW o, task[o].then # "record",
           NEW t, Moves(o, t), t.then = "end" \/ (t.then = "goal" /\ o \in Enders),
           t.pc # "continue", pi'.goal = pi.goal, Hosted(ad', ad)
    PROVE  Reckons
BY RolesPlain DEF Reckons, Counting, CountsNothing, Hosted

\* A step of no task.
LEMMA IdleReckons ==
    ASSUME Roles, UNCHANGED task, pi'.goal = pi.goal, ad'.continued = ad.continued,
           ad'.host \in {ad.host, NowHost}
    PROVE  Reckons
BY RolesStay DEF Reckons, Counting, CountsNothing

\* Tasks that end no turn have nothing to record.
LEMMA NoEnders ==
    /\ \A p : PromptTask(p) \notin Enders /\ InterjectTask(p) \notin Enders
    /\ \A n : SettleTask(n) \notin Enders
    /\ BashTask \notin Enders /\ Consumer \in Enders
    /\ \A o \in Tasks : o[1] = "probe" => o \in Enders
<1>1. /\ \A p : PromptTask(p)[1] = "prompt" /\ InterjectTask(p)[1] = "interject"
      /\ \A n : SettleTask(n)[1] = "settle" /\ ProbeTask(n)[1] = "probe"
      /\ BashTask[1] = "bash" /\ Consumer[1] = "consumer"
  BY DEF PromptTask, InterjectTask, SettleTask, ProbeTask, BashTask, Consumer
<1>2. \A o \in Enders : o[1] \in {"consumer", "probe"}
  BY <1>1 DEF Enders
<1>3. \A o \in Tasks : o[1] = "probe" => o \in Enders
  BY <1>1 DEF Tasks, Enders
<1>4. Consumer \in Enders
  BY DEF Enders
<1> QED BY <1>1, <1>2, <1>3, <1>4

\* A task at another await has nothing to record.
LEMMA NotRecording ==
    ASSUME Roles, NEW o \in Tasks,
           task[o].pc \notin {"continue", "kick", "announce", "sent"} \/ o \notin Enders
    PROVE  task[o].then # "record"
BY DEF Roles, Role

\* What the client asks for is not counted.
LEMMA ClientReckons ==
    ASSUME SchedInv, Shape, Roles, ClientStep
    PROVE  Reckons
<1>0. IsAdapter(ad) /\ DOMAIN task = Tasks /\ UNCHANGED pi
  <2>1. UNCHANGED pi
    BY DEF ClientStep, Prompt, Interject, Cancel, RemoveRows, BashStarts
  <2> QED BY <2>1 DEF SchedInv, Shape, Tasked, Accounts
<1>s. /\ \A pc, row : /\ At(pc, row).pc = pc /\ At(pc, row).then = "end"
                      /\ Sent(pc, row).pc = pc /\ Sent(pc, row).then = "end"
      /\ Done.pc = "end" /\ Done.then = "end"
  BY TaskStates DEF Done
<1>p. ASSUME NEW o, NEW t, Moves(o, t), o \notin Enders \/ task[o] = Done,
             t.then = "end", t.pc # "continue", Hosted(ad', ad)
      PROVE  Reckons
  <2>1. task[o].then # "record"
    BY <1>p, <1>s, NotRecording DEF Moves
  <2> QED BY <1>0, <1>p, <2>1, PlainReckons
<1>1. ASSUME NEW p \in Clients, NEW lane \in Lanes, Prompt(p, lane) PROVE Reckons
  <2>1. Hosted(ad', ad)
    BY <1>0, <1>1 DEF Prompt, Hosted, IsAdapter, AdapterFields
  <2>2. PICK t : Moves(PromptTask(p), t) /\ t.then = "end" /\ t.pc \in {"kick", "direct"}
    BY <1>1, <1>s, TaskKinds DEF Prompt, Moves
  <2> QED BY <1>p, <2>1, <2>2, NoEnders
<1>2. ASSUME NEW p \in Clients, Interject(p) PROVE Reckons
  <2> DEFINE i == LocalIndex(ad.mirror, p, AnyVersion)
             o == InterjectTask(p)
  <2>1. \/ Steer(o, ad, i)
        \/ \E q, t : /\ ad' = [ad EXCEPT !.mirror = q] /\ Moves(o, t)
                     /\ t.then = "end" /\ t.pc \in {"end", "kick"}
    BY <1>2, <1>s, TaskKinds DEF Interject, Moves
  <2>2. CASE Steer(o, ad, i)
    <3>1. Hosted(ad', ad) /\ Moves(o, At("steering", ad.mirror.local[i]))
      BY <1>0, <2>2, SteerHosted, TaskKinds DEF Moves
    <3> QED BY <1>p, <1>s, <3>1, NoEnders
  <2>3. ASSUME NEW q, NEW t, ad' = [ad EXCEPT !.mirror = q], Moves(o, t),
               t.then = "end", t.pc \in {"end", "kick"}
        PROVE  Reckons
    <3>1. Hosted(ad', ad)
      BY <1>0, <2>3, HostedMethods, HostedFields
    <3> QED BY <1>p, <2>3, <3>1, NoEnders
  <2> QED BY <2>1, <2>2, <2>3
<1>3. CASE Cancel
  <2>1. /\ ad' = [DropEverything(ad) EXCEPT !.cancelling = TRUE]
        /\ task' = [task EXCEPT ![SettleTask(spent'.cancel)] = At("poll", NoRow)]
    BY <1>3 DEF Cancel
  <2>2. Hosted(ad', ad)
    BY <1>0, <2>1, HostedDrops, HostedFields
  <2>3. SettleTask(spent'.cancel) \in Tasks
    <3>1. spent'.cancel = spent.cancel + 1 /\ spent.cancel < Bounds.cancel /\ spent.cancel \in Nat
      BY <1>3, Spending, SpentBefore DEF Cancel, Shape, Kinds
    <3> QED BY <3>1, TaskKinds, SchedulerBounds DEF Bounds
  <2>4. Moves(SettleTask(spent'.cancel), At("poll", NoRow))
    BY <2>1, <2>3 DEF Moves
  <2>5. SettleTask(spent'.cancel) \notin Enders
    BY NoEnders
  <2> QED BY <1>p, <1>s, <2>2, <2>4, <2>5
<1>4. ASSUME NEW ids, RemoveRows(ids) PROVE Reckons
  <2> DEFINE b == FinishQueuedEntries(ad, ids, "Cancelled")
  <2>1. /\ UNCHANGED task
        /\ \E x, y : ad' = [b EXCEPT !.mirror = x, !.withdrawn = y]
    <3>1. ad' = [b EXCEPT !.mirror.local = Without(@, ids),
                          !.withdrawn = @ \/ ~(ids \subseteq Clients)]
      BY <1>4 DEF RemoveRows
    <3> QED BY <1>4, <3>1 DEF RemoveRows
  <2>2. Hosted(b, ad)
    BY <1>0, HostedMethods
  <2> HIDE DEF b
  <2>3. PICK x, y : ad' = [b EXCEPT !.mirror = x, !.withdrawn = y]
    BY <2>1
  <2>4. Hosted([b EXCEPT !.mirror = x, !.withdrawn = y], ad)
    BY <2>2, HostedFields
  <2>5. ad'.continued = ad.continued /\ ad'.host = ad.host
    BY <2>3, <2>4 DEF Hosted
  <2> QED BY <1>0, <2>1, <2>5, IdleReckons
<1>5. CASE BashStarts
  <2>1. /\ ad' = [ad EXCEPT !.bashRunning = TRUE]
        /\ Moves(BashTask, Sent("bash", NoRow))
    BY <1>5, TaskKinds DEF BashStarts, Moves
  <2>2. Hosted(ad', ad)
    BY <1>0, <2>1, HostedMethods, HostedFields
  <2> QED BY <1>p, <1>s, <2>1, <2>2, NoEnders
<1> QED BY <1>1, <1>2, <1>3, <1>4, <1>5 DEF ClientStep

\* The answers to the client's prompts and Bash commands are not counted.
LEMMA PromptReckons ==
    ASSUME SchedInv, Shape, Roles, BashEnds \/ \E p \in Clients : PromptStep(p)
    PROVE  Reckons
<1>0. IsAdapter(ad) /\ DOMAIN task = Tasks
  BY DEF SchedInv, Shape, Tasked, Accounts
<1>s. /\ \A pc, row : At(pc, row).pc = pc /\ At(pc, row).then = "end"
      /\ Done.pc = "end" /\ Done.then = "end"
  BY TaskStates DEF Done
<1>1. CASE BashEnds
  <2>1. /\ ad' = [ad EXCEPT !.bashRunning = FALSE] /\ UNCHANGED pi
        /\ Moves(BashTask, Done)
    BY <1>1, TaskKinds DEF BashEnds, Moves
  <2>2. Hosted(ad', ad)
    BY <1>0, <2>1, HostedMethods, HostedFields
  <2>3. task[BashTask].then # "record"
    BY NotRecording, NoEnders, TaskKinds
  <2> QED BY <1>0, <1>s, <2>1, <2>2, <2>3, PlainReckons
<1>2. ASSUME NEW p \in Clients, PromptStep(p) PROVE Reckons
  <2> DEFINE o == PromptTask(p)
             b == TakeActivePrompt(ad, p, "Error")
  <2>0. o \in Tasks /\ task[o].then # "record" /\ UNCHANGED pi
    BY <1>2, NotRecording, NoEnders, TaskKinds DEF PromptStep, DirectAccepted, DirectFails
  <2>1. CASE DirectAccepted(p)
    <3>1. /\ UNCHANGED ad
          /\ \/ Moves(o, At("acked", NoRow))
             \/ task[o].pc = "acked" /\ SpawnProbe(o)
      BY <2>0, <2>1 DEF DirectAccepted, Moves
    <3>2. CASE Moves(o, At("acked", NoRow))
      BY <1>0, <1>s, <2>0, <3>1, <3>2, PlainReckons, HostedMethods
    <3>3. CASE task[o].pc = "acked" /\ SpawnProbe(o)
      BY <1>0, <2>0, <3>1, <3>3, RolesSpawns DEF Reckons, Counting, CountsNothing
    <3> QED BY <3>1, <3>2, <3>3
  <2>2. CASE DirectFails(p)
    <3>1. /\ \E m : ad' = [b EXCEPT !.agentRunning = FALSE, !.mirror = m]
          /\ Moves(o, Done)
      BY <2>0, <2>2 DEF DirectFails, Moves
    <3>2. Hosted(b, ad)
      BY <1>0, HostedMethods
    <3> HIDE DEF b
    <3>3. PICK m : ad' = [b EXCEPT !.agentRunning = FALSE, !.mirror = m]
      BY <3>1
    <3>4. Hosted([b EXCEPT !.agentRunning = FALSE, !.mirror = m], ad)
      BY <3>2, HostedFields
    <3>5. Hosted(ad', ad)
      BY <3>3, <3>4
    <3> QED BY <1>0, <1>s, <2>0, <3>1, <3>5, PlainReckons
  <2> QED BY <1>2, <2>1, <2>2 DEF PromptStep
<1> QED BY <1>1, <1>2

\* The consumer steers a row, or goes on to the next event.
LEMMA FlushReckons ==
    ASSUME SchedInv, Shape, Roles, task[Consumer].then # "record",
           FlushPendingSteering(ad), UNCHANGED pi
    PROVE  Reckons
<1> DEFINE i == NextLocalInLane(ad.mirror, "Steering")
<1>0. IsAdapter(ad) /\ DOMAIN task = Tasks /\ Consumer \in Tasks
  BY TaskKinds DEF SchedInv, Shape, Tasked, Accounts
<1>s. /\ \A row : At("steering", row).pc = "steering" /\ At("steering", row).then = "end"
      /\ Done.pc = "end" /\ Done.then = "end"
  BY TaskStates DEF Done
<1>1. \/ ad' = ad /\ Moves(Consumer, Done)
      \/ Steer(Consumer, ad, i)
  BY <1>0 DEF FlushPendingSteering, Moves
<1>2. CASE ad' = ad /\ Moves(Consumer, Done)
  BY <1>0, <1>s, <1>2, HostedMethods, PlainReckons
<1>3. CASE Steer(Consumer, ad, i)
  <2>1. Hosted(ad', ad) /\ Moves(Consumer, At("steering", ad.mirror.local[i]))
    BY <1>0, <1>3, SteerHosted DEF Moves
  <2> QED BY <1>0, <1>s, <2>1, PlainReckons
<1> QED BY <1>1, <1>2, <1>3

\* What the consumer does is not counted.
LEMMA ConsumerReckons ==
    ASSUME SchedInv, Shape, Roles, ConsumerStep
    PROVE  Reckons
<1> DEFINE o == Consumer
<1>0. /\ IsAdapter(ad) /\ DOMAIN task = Tasks /\ o \in Tasks /\ o \in Enders
      /\ Arrays(pi)
  BY TaskKinds, NoEnders DEF SchedInv, Shape, Tasked, Accounts
<1>s. /\ \A pc, row : /\ At(pc, row).pc = pc /\ At(pc, row).then = "end"
                      /\ Sent(pc, row).pc = pc /\ Sent(pc, row).then = "end"
      /\ \A row : Settling(row).pc = "settled" /\ Settling(row).then = "goal"
      /\ Done.pc = "end" /\ Done.then = "end"
  BY TaskStates DEF Done
<1>1. task[o].then # "record" /\ pi'.goal = pi.goal
  <2>1. task[o] = Done \/ task[o].pc \in {"stats", "load"}
    BY DEF ConsumerStep, AgentStart, AgentSettled, SlotIsCleared, MessageEnd,
           QueueUpdate, ExtensionMessage, StateChanged, Reloaded, ProcessExit,
           GoalMessage, NextEvent, Answered
  <2>2. pi' = pi \/ pi' = [pi EXCEPT !.recovery = "due"]
    BY DEF ConsumerStep, AgentStart, AgentSettled, SlotIsCleared, MessageEnd,
           QueueUpdate, ExtensionMessage, StateChanged, Reloaded, ProcessExit,
           GoalMessage, NextEvent
  <2>3. task[o].then # "record"
    BY <1>0, <1>s, <2>1, NotRecording
  <2> QED BY <1>0, <2>2, <2>3 DEF Arrays, PiFields
<1>p. ASSUME NEW t, Moves(o, t), t.then \in {"end", "goal"}, t.pc # "continue",
             Hosted(ad', ad)
      PROVE  Reckons
  BY <1>0, <1>1, <1>p, PlainReckons
<1>i. ASSUME UNCHANGED task, Hosted(ad', ad) PROVE Reckons
  BY <1>1, <1>i, IdleReckons DEF Hosted
<1>h. /\ Hosted(ad, ad)
      /\ \A m, st : Hosted([ad EXCEPT !.agentRunning = TRUE, !.started = st, !.mirror = m], ad)
      /\ \A m : /\ Hosted([ad EXCEPT !.agentRunning = FALSE, !.cancelling = FALSE,
                                     !.mirror = m], ad)
               /\ Hosted([ad EXCEPT !.mirror = m], ad)
  <2>1. Hosted(ad, ad)
    BY <1>0, HostedMethods
  <2> QED BY <2>1, HostedFields
<1>2. CASE AgentStart
  <2>1. /\ UNCHANGED task
        /\ \/ ad' = ad
           \/ \E m, st : ad' = [ad EXCEPT !.agentRunning = TRUE, !.started = st, !.mirror = m]
    BY <1>2 DEF AgentStart
  <2>2. CASE ad' = ad
    BY <1>h, <1>i, <2>1, <2>2
  <2>3. ASSUME NEW m, NEW st, ad' = [ad EXCEPT !.agentRunning = TRUE, !.started = st, !.mirror = m]
        PROVE  Hosted(ad', ad)
    BY <1>h, <2>3
  <2> QED BY <1>i, <2>1, <2>2, <2>3
<1>3. CASE AgentSettled \/ StateChanged
  <2>1. /\ ad' = ad
        /\ Moves(o, At("stats", NoRow)) \/ Moves(o, Sent("load", NoRow))
    BY <1>0, <1>3 DEF AgentSettled, StateChanged, Moves
  <2> QED BY <1>0, <1>p, <1>s, <2>1, HostedMethods
<1>4. CASE SlotIsCleared
  <2>1. /\ \E m : ad' = [ad EXCEPT !.agentRunning = FALSE, !.cancelling = FALSE, !.mirror = m]
        /\ Moves(o, Settling(ad.mirror.running))
    BY <1>0, <1>4 DEF SlotIsCleared, Moves
  <2>2. Hosted(ad', ad)
    BY <1>h, <2>1
  <2> QED BY <1>p, <1>s, <2>1, <2>2
<1>5. CASE MessageEnd
  <2>1. (UNCHANGED <<ad, task>> \/ FlushPendingSteering(ad)) /\ UNCHANGED pi
    BY <1>5 DEF MessageEnd, NextEvent
  <2> QED BY <1>0, <1>1, <1>i, <2>1, HostedMethods, FlushReckons
<1>6. CASE QueueUpdate
  <2>1. UNCHANGED task /\ (ad' = ad \/ \E m : ad' = [ad EXCEPT !.mirror = m])
    BY <1>6 DEF QueueUpdate
  <2>2. Hosted(ad', ad)
    BY <1>h, <2>1
  <2> QED BY <1>i, <2>1, <2>2
<1>7. CASE ExtensionMessage
  <2>1. \/ UNCHANGED <<ad, task>>
        \/ \E m : ad' = [ad EXCEPT !.mirror = m] /\ Moves(o, At("kick", NoRow))
    BY <1>0, <1>7 DEF ExtensionMessage, Moves
  <2>2. Hosted(ad', ad)
    BY <1>h, <2>1
  <2> QED BY <1>i, <1>p, <1>s, <2>1, <2>2
<1>8. CASE GoalMessage
  <2>1. UNCHANGED task /\ ad' = [ad EXCEPT !.host = NowHost]
    <3>1. UNCHANGED task /\ ad' = [ad EXCEPT !.host = ApplyControl(@, pi.goal)]
      BY <1>8 DEF GoalMessage
    <3> QED BY <3>1 DEF NowHost
  <2>2. ad'.host = NowHost /\ ad'.continued = ad.continued
    BY <1>0, <2>1 DEF IsAdapter, AdapterFields
  <2> QED BY <1>1, <2>1, <2>2, IdleReckons
<1>9. CASE Reloaded
  <2>1. /\ ad' \in {ad, ReplaceBootstrap(ad)}
        /\ Moves(o, Done)
    BY <1>0, <1>9 DEF Reloaded, Moves
  <2>2. Hosted(ad', ad)
    BY <1>0, <2>1, HostedMethods, HostedDrops
  <2> QED BY <1>p, <1>s, <2>1, <2>2
<1>10. CASE ProcessExit
  <2> DEFINE b == DropEverything(ad)
  <2>1. /\ UNCHANGED task
        /\ ad' = [b EXCEPT !.agentRunning = FALSE, !.cancelling = FALSE]
    BY <1>10 DEF ProcessExit
  <2>2. Hosted(b, ad)
    BY <1>0, HostedDrops
  <2> HIDE DEF b
  <2>3. Hosted([b EXCEPT !.agentRunning = FALSE, !.cancelling = FALSE], ad)
    BY <2>2, HostedFields
  <2> QED BY <1>i, <2>1, <2>3
<1> QED BY <1>2, <1>3, <1>4, <1>5, <1>6, <1>7, <1>8, <1>9, <1>10 DEF ConsumerStep

\* What Pi does: it sets and edits the goal.
LEMMA PiReckons ==
    ASSUME SchedInv, Shape, Roles, DOMAIN pi.goal = {"id", "status"}, PiStep
    PROVE  Reckons
<1>0. /\ IsAdapter(ad) /\ DOMAIN task = Tasks /\ Arrays(pi)
      /\ \A q \in Tasks : DOMAIN task[q] = TaskFields
  BY DEF SchedInv, Shape, Tasked, Accounts, Fit
<1>u. ASSUME ad' = ad, pi'.goal = pi.goal,
             \A q \in Tasks : /\ task'[q].pc = task[q].pc
                              /\ task'[q].then = task[q].then
                              /\ task'[q].goal = task[q].goal
      PROVE  Reckons
  BY <1>u, RolesStay DEF Reckons, Counting, CountsNothing
<1>r. ASSUME NEW q \in Tasks, NEW r, task'[q] = [task[q] EXCEPT !.reply = r]
      PROVE  /\ task'[q].pc = task[q].pc /\ task'[q].then = task[q].then
             /\ task'[q].goal = task[q].goal
  <2>1. DOMAIN task[q] = TaskFields
    BY <1>0
  <2> QED BY <1>r, <2>1 DEF TaskFields
<1>1. ASSUME NEW o \in Tasks, PiReplies(o) PROVE Reckons
  <2>1. PICK r : Reply(o, r)
    BY <1>1 DEF PiReplies, PiAccepts, PiQueuesSteer, PiRefuses, PiAnswers
  <2>2. ad' = ad /\ pi'.goal = pi.goal
    <3>1. ad' = ad
      BY <1>1 DEF PiReplies, PiAccepts, PiQueuesSteer, PiRefuses, PiAnswers
    <3>2. \/ pi' = pi \/ pi' = [pi EXCEPT !.streaming = TRUE]
          \/ \E x : pi' = [pi EXCEPT !.steering = x]
      BY <1>1 DEF PiReplies, PiAccepts, PiQueuesSteer, PiRefuses, PiAnswers
    <3> QED BY <1>0, <3>1, <3>2 DEF Arrays, PiFields
  <2>3. /\ task'[o] = [task[o] EXCEPT !.reply = r]
        /\ \A q \in Tasks : q # o => task'[q] = task[q]
    BY <1>0, <2>1 DEF Reply
  <2>4. \A q \in Tasks : /\ task'[q].pc = task[q].pc
                         /\ task'[q].then = task[q].then
                         /\ task'[q].goal = task[q].goal
    <3>1. ASSUME NEW q \in Tasks
          PROVE  /\ task'[q].pc = task[q].pc /\ task'[q].then = task[q].then
                 /\ task'[q].goal = task[q].goal
      <4>1. CASE q = o
        BY <1>r, <2>3, <4>1
      <4> QED BY <2>3, <4>1
    <3> QED BY <3>1
  <2> QED BY <1>u, <2>2, <2>4
<1>2. CASE \/ PiStartsTurn \/ PiQueuesFollowUp \/ PiEndsMessage \/ PiContinues
           \/ PiSettles \/ PiExtensionMessage \/ PiStateChanges
  <2>1. /\ UNCHANGED task /\ ad' = ad
        /\ \/ pi' = pi
           \/ \E x : pi' = [pi EXCEPT !.streaming = x]
           \/ \E x : pi' = [pi EXCEPT !.steering = x]
           \/ \E x : pi' = [pi EXCEPT !.followUp = x]
    BY <1>2 DEF PiStartsTurn, PiQueuesFollowUp, PiEndsMessage, PiContinues, PiSettles,
              PiExtensionMessage, PiStateChanges
  <2>2. pi'.goal = pi.goal
    BY <1>0, <2>1 DEF Arrays, PiFields
  <2> QED BY <1>u, <2>1, <2>2
<1>3. CASE PiCrashes
  <2>1. /\ ad' = ad
        /\ pi' = [pi EXCEPT !.up = FALSE, !.streaming = FALSE,
                            !.steering = << >>, !.followUp = << >>]
        /\ task' = [o \in Tasks |-> IF InFlight(o)
                                    THEN [task[o] EXCEPT !.reply = "err"]
                                    ELSE task[o]]
    BY <1>3 DEF PiCrashes
  <2>2. \A q \in Tasks : \/ task'[q] = task[q]
                         \/ task'[q] = [task[q] EXCEPT !.reply = "err"]
    BY <2>1
  <2>3. \A q \in Tasks : /\ task'[q].pc = task[q].pc
                         /\ task'[q].then = task[q].then
                         /\ task'[q].goal = task[q].goal
    <3>1. ASSUME NEW q \in Tasks
          PROVE  /\ task'[q].pc = task[q].pc /\ task'[q].then = task[q].then
                 /\ task'[q].goal = task[q].goal
      <4>1. CASE task'[q] = [task[q] EXCEPT !.reply = "err"]
        BY <1>r, <4>1
      <4> QED BY <2>2, <4>1
    <3> QED BY <3>1
  <2>4. pi'.goal = pi.goal
    BY <1>0, <2>1 DEF Arrays, PiFields
  <2> QED BY <1>u, <2>1, <2>3, <2>4
<1>w. ASSUME NEW c, NEW st, pi' = [pi EXCEPT !.goal = c, !.streaming = st]
      PROVE  pi'.goal = c
  BY <1>0, <1>w DEF Arrays, PiFields
<1>w2. ASSUME UNCHANGED <<ad, task>> PROVE Roles'
  BY <1>w2 DEF Roles, Role
<1>4. CASE PiSetsGoal
  <2> DEFINE c == [id |-> pi.goal.id + 1, status |-> "active"]
  <2>1. /\ UNCHANGED <<ad, task>> /\ Spend("goal")
        /\ \E st : pi' = [pi EXCEPT !.goal = c, !.streaming = st]
    BY <1>4 DEF PiSetsGoal, WriteGoal
  <2>2. pi'.goal = c
    BY <1>w, <2>1
  <2> QED BY <1>w2, <2>1, <2>2 DEF Reckons, Counting, Sets
<1>5. CASE PiEditsGoal
  <2>1. PICK s \in {"active", "paused", "over"} :
             /\ WriteGoal([pi.goal EXCEPT !.status = s]) /\ pi.goal.status # "over"
    BY <1>5 DEF PiEditsGoal
  <2> DEFINE c == [pi.goal EXCEPT !.status = s]
  <2>2. /\ UNCHANGED <<ad, task>> /\ Spend("turn")
        /\ \E st : pi' = [pi EXCEPT !.goal = c, !.streaming = st]
    BY <1>5, <2>1 DEF PiEditsGoal, WriteGoal
  <2>3. pi'.goal = c
    BY <1>w, <2>2
  <2> QED BY <1>w2, <2>1, <2>2, <2>3 DEF Reckons, Counting, Edits
<1> QED BY <1>1, <1>2, <1>3, <1>4, <1>5 DEF PiStep

\* A new child, its state, and the guard's window.
LEMMA OtherReckons ==
    ASSUME SchedInv, Shape, Roles, DOMAIN ad.host = {"id", "sends", "armed"},
           Respawn \/ Rebind \/ ContinuationExpires
    PROVE  Reckons
<1>0. IsAdapter(ad) /\ DOMAIN task = Tasks /\ Arrays(pi)
  BY DEF SchedInv, Shape, Tasked, Accounts
<1>1. CASE Respawn \/ Rebind
  <2>1. /\ UNCHANGED task /\ ad' \in {ad, ReplaceBootstrap(ad)}
        /\ \/ pi' = [pi EXCEPT !.up = TRUE, !.recovery = "load"]
           \/ \E x : pi' = [pi EXCEPT !.recovery = x]
    BY <1>1 DEF Respawn, Rebind
  <2>2. Hosted(ad', ad)
    BY <1>0, <2>1, HostedMethods, HostedDrops
  <2>3. pi'.goal = pi.goal
    BY <1>0, <2>1 DEF Arrays, PiFields
  <2> QED BY <2>1, <2>2, <2>3, IdleReckons DEF Hosted
<1>2. CASE ContinuationExpires
  <2>1. /\ ad.host.sends > 0 /\ Spend("expired")
        /\ ad' = [ad EXCEPT !.host.sends = @ - 1] /\ UNCHANGED <<task, pi>>
    BY <1>2 DEF ContinuationExpires
  <2>2. /\ ad'.host = [ad.host EXCEPT !.sends = @ - 1] /\ ad'.continued = ad.continued
    BY <1>0, <2>1 DEF IsAdapter, AdapterFields
  <2>3. Roles' /\ SameSets
    BY <2>1, RolesStay
  <2> QED BY <2>1, <2>2, <2>3 DEF Reckons, Counting, Ages
<1> QED BY <1>1, <1>2

\* What a record writes depends on the host's record only.
LEMMA NotesFields ==
    ASSUME NEW a, NEW b, IsAdapter(a), IsAdapter(b), b.host = a.host, b.continued = a.continued, NEW id
    PROVE  /\ RecordContinuation(a, id).host = RecordContinuation(b, id).host
           /\ RecordContinuation(a, id).continued = b.continued
BY DEF RecordContinuation, IsAdapter, AdapterFields

\* Nothing was dispatched: the goal goes on, or a continuation is recorded.
LEMMA NothingReckons ==
    ASSUME IsAdapter(ad), Shape, Roles, Arrays(pi), DOMAIN pi.goal = {"id", "status"},
           NEW o \in Tasks, NEW a, Hosted(a, ad), NothingDispatched(o, a)
    PROVE  Reckons
<1>0. DOMAIN task = Tasks /\ IsAdapter(a) /\ a.host = ad.host /\ a.continued = ad.continued
  BY DEF Shape, Tasked, Hosted
<1>s. Done.pc = "end" /\ Done.then = "end"
  BY TaskStates DEF Done
<1> DEFINE c == [At("continue", NoRow) EXCEPT !.then = "record", !.goal = pi.goal.id]
           id == task[o].goal
<1>c. c.pc = "continue" /\ c.then = "record" /\ c.goal = pi.goal.id
  BY DEF At
<1>1. CASE task[o].then = "goal"
  <2>0. /\ task[o].then # "record" /\ o \in Enders
        /\ o \notin Recorders /\ o \notin Late /\ o \notin Queuers
    BY <1>1 DEF Recorders, Late, Queuers, Roles, Role
  <2> DEFINE h == ApplyControl(a.host, pi.goal)
             goesOn == QueueIsEmpty(a.mirror) /\ pi.goal.status = "active"
  <2>1. h = NowHost
    BY <1>0 DEF NowHost
  <2>2. MaybeContinueGoal(o, a)
    BY <1>1 DEF NothingDispatched
  <2> HIDE DEF c, h, goesOn
  <2>3. \/ ad' = a /\ pi' = pi /\ Moves(o, Done)
        \/ /\ goesOn /\ h.armed /\ ad' = [a EXCEPT !.host = NoGoal]
           /\ pi' = [pi EXCEPT !.goal.status = "paused"] /\ Moves(o, Done)
        \/ /\ goesOn /\ ~h.armed /\ ad' = [a EXCEPT !.host = h]
           /\ pi' = pi /\ Moves(o, c)
        \/ ad' = [a EXCEPT !.host = h] /\ pi' = pi /\ Moves(o, Done)
    BY <2>2 DEF MaybeContinueGoal, Moves, c, h, goesOn
  <2>4. ASSUME NEW x, ad' = [a EXCEPT !.host = x]
        PROVE  ad'.host = x /\ ad'.continued = ad.continued
    BY <1>0, <2>4 DEF IsAdapter, AdapterFields
  <2>5. CASE ad' = a /\ pi' = pi /\ Moves(o, Done)
    BY <1>0, <1>s, <2>0, <2>5, PlainReckons
  <2>6. CASE /\ goesOn /\ h.armed /\ ad' = [a EXCEPT !.host = NoGoal]
             /\ pi' = [pi EXCEPT !.goal.status = "paused"] /\ Moves(o, Done)
    <3>1. /\ pi'.goal = [pi.goal EXCEPT !.status = "paused"]
          /\ pi'.goal.id = pi.goal.id
      <4>1. pi' = [pi EXCEPT !.goal.status = "paused"]
        BY <2>6
      <4>2. pi'.goal = [pi.goal EXCEPT !.status = "paused"]
        BY <4>1 DEF Arrays, PiFields
      <4>3. [pi.goal EXCEPT !.status = "paused"].id = pi.goal.id
        OBVIOUS
      <4> QED BY <4>2, <4>3
    <3>2. /\ task'[o] = Done /\ \A q \in Tasks : q # o => task'[q] = task[q]
      BY <1>0, <2>6, OthersWait
    <3>3. Roles'
      BY <1>s, <3>2 DEF Roles, Role
    <3>4. Recorders' = Recorders /\ Queuers' = Queuers
      BY <1>s, <2>0, <3>2 DEF Recorders, Queuers
    <3>5. Late' = Late
      BY <1>s, <2>0, <3>1, <3>2 DEF Recorders, Late
    <3>6. pi.goal.status = "active"
      BY <2>6 DEF goesOn
    <3> QED BY <2>4, <2>6, <3>1, <3>3, <3>4, <3>5, <3>6 DEF Reckons, Counting, Halts
  <2>7. CASE /\ goesOn /\ ~h.armed /\ ad' = [a EXCEPT !.host = h]
             /\ pi' = pi /\ Moves(o, c)
    <3>1. Role(o, c)
      BY <1>c, <2>0 DEF Role
    <3>2. /\ Roles' /\ Queuers' = Queuers \cup {o} /\ Recorders' = Recorders \cup {o}
          /\ Late' = Late \ {o}
      BY <1>0, <1>c, <2>7, <3>1, RolesMoves
    <3>3. Late' = Late
      BY <2>0, <3>2
    <3>4. pi.goal.status = "active"
      BY <2>7 DEF goesOn
    <3> QED BY <2>0, <2>1, <2>4, <2>7, <3>2, <3>3, <3>4 DEF Reckons, Counting, Admits
  <2>8. CASE ad' = [a EXCEPT !.host = h] /\ pi' = pi /\ Moves(o, Done)
    <3>1. Roles' /\ SameSets
      BY <1>0, <1>s, <2>0, <2>8, RolesPlain
    <3> QED BY <2>1, <2>4, <2>8, <3>1 DEF Reckons, Counting, CountsNothing
  <2> QED BY <2>3, <2>5, <2>6, <2>7, <2>8
<1>2. CASE task[o].then = "record"
  <2>1. ad' = RecordContinuation(a, id) /\ Moves(o, Done) /\ pi' = pi
    BY <1>2 DEF NothingDispatched, Moves
  <2>2. ad'.host = RecordContinuation(ad, id).host /\ ad'.continued = ad.continued
    BY <1>0, <2>1, NotesFields
  <2>3. Role(o, Done) /\ o \in Recorders
    BY <1>2, <1>s DEF Role, Recorders
  <2>4. /\ Roles' /\ Queuers' = Queuers \ {o} /\ Recorders' = Recorders \ {o}
        /\ Late' = Late \ {o}
    BY <1>0, <1>s, <2>1, <2>3, RolesMoves
  <2> QED BY <2>1, <2>2, <2>3, <2>4 DEF Reckons, Counting, Notes
<1>3. CASE task[o].then # "goal" /\ task[o].then # "record"
  <2>1. ad' = a /\ Moves(o, Done) /\ pi' = pi
    BY <1>3 DEF NothingDispatched, Moves
  <2> QED BY <1>0, <1>3, <1>s, <2>1, PlainReckons
<1> QED BY <1>1, <1>2, <1>3

\* The head of the loop.
LEMMA DispatchReckons ==
    ASSUME IsAdapter(ad), Shape, Roles, Arrays(pi), DOMAIN pi.goal = {"id", "status"},
           NEW o \in Tasks, task[o].pc # "continue", NEW a, Hosted(a, ad),
           DispatchNextQueued(o, a)
    PROVE  Reckons
<1>0. DOMAIN task = Tasks /\ IsAdapter(a)
  BY DEF Shape, Tasked, Hosted
<1>1. CASE NothingDispatched(o, a)
  BY <1>1, NothingReckons
<1>2. ASSUME Hosted(ad', a), UNCHANGED pi,
             NEW row, task' = [task EXCEPT ![o] = Onward(o, At("announce", row))]
      PROVE  Reckons
  <2> DEFINE t == Onward(o, At("announce", row))
  <2>1. t.pc = "announce" /\ t.then = task[o].then /\ t.goal = task[o].goal
    BY TaskStates
  <2>2. Moves(o, t)
    BY <1>2 DEF Moves
  <2> HIDE DEF t
  <2>3. Roles' /\ SameSets
    BY <1>0, <1>2, <2>1, <2>2, RolesStill
  <2>4. Hosted(ad', ad)
    BY <1>2, HostedOn
  <2> QED BY <1>2, <2>3, <2>4 DEF Reckons, Counting, CountsNothing, Hosted
<1> QED BY <1>0, <1>1, <1>2, DispatchHosted

\* What the tasks do.
LEMMA TaskReckons ==
    ASSUME SchedInv, Shape, Roles, DOMAIN pi.goal = {"id", "status"},
           NEW o \in Tasks, TaskStep(o)
    PROVE  Reckons
<1>0. IsAdapter(ad) /\ DOMAIN task = Tasks /\ Arrays(pi) /\ Hosted(ad, ad)
  BY HostedMethods DEF SchedInv, Shape, Tasked, Accounts
<1>s. /\ \A pc, row : /\ At(pc, row).pc = pc /\ At(pc, row).then = "end"
                      /\ DOMAIN At(pc, row) = TaskFields
                      /\ Sent(pc, row).pc = pc /\ Sent(pc, row).then = "end"
                      /\ DOMAIN Sent(pc, row) = TaskFields
      /\ \A row : Settling(row).pc = "settled" /\ Settling(row).then = "goal"
      /\ \A t : DOMAIN t = TaskFields =>
             /\ Onward(o, t).pc = t.pc /\ Onward(o, t).then = task[o].then
             /\ Onward(o, t).goal = task[o].goal
      /\ Done.pc = "end" /\ Done.then = "end"
  BY TaskStates DEF Done
<1>p. ASSUME NEW t, Moves(o, t), task[o].pc \notin {"continue", "kick", "announce", "sent"},
             t.then = "end" \/ (t.then = "goal" /\ o \in Enders), t.pc # "continue",
             pi' = pi, Hosted(ad', ad)
      PROVE  Reckons
  <2>1. task[o].then # "record"
    BY <1>p, NotRecording
  <2> QED BY <1>0, <1>p, <2>1, PlainReckons
<1>o. ASSUME NEW t, Moves(o, Onward(o, t)), DOMAIN t = TaskFields,
             t.pc \in {"kick", "announce", "sent"}, task[o].pc # "continue",
             pi' = pi, Hosted(ad', ad)
      PROVE  Reckons
  <2> DEFINE u == Onward(o, t)
  <2>1. u.pc = t.pc /\ u.then = task[o].then /\ u.goal = task[o].goal /\ Moves(o, u)
    BY <1>o, <1>s
  <2> HIDE DEF u
  <2>2. Roles' /\ SameSets
    BY <1>0, <1>o, <2>1, RolesStill
  <2> QED BY <1>o, <2>2 DEF Reckons, Counting, CountsNothing, Hosted
<1>1. CASE Kick(o)
  BY <1>0, <1>1, DispatchReckons DEF Kick
<1>2. CASE TurnEnds(o)
  <2> DEFINE f == FinishPrompts(ad, "EndTurn")
             a == CompleteServerTurn(f, task[o].row)
             k == At("kick", NoRow)
  <2>1. /\ task[o].pc = "settled"
        /\ \/ DispatchNextQueued(o, a)
           \/ ad' = a /\ Moves(o, Onward(o, k)) /\ UNCHANGED pi
    BY <1>2 DEF TurnEnds, Moves
  <2>2. Hosted(f, ad)
    BY <1>0, HostedMethods
  <2>3. Hosted(a, f)
    BY <2>2, HostedMethods DEF Hosted
  <2>4. Hosted(a, ad)
    BY <2>2, <2>3, HostedOn
  <2>5. DOMAIN k = TaskFields /\ k.pc = "kick"
    BY <1>s
  <2> HIDE DEF a, f, k
  <2> QED BY <1>0, <1>o, <2>1, <2>4, <2>5, DispatchReckons
<1>3. CASE Dispatch(o)
  <2> DEFINE s == Sent("sent", task[o].row)
  <2>1. task[o].pc = "announce" /\ Moves(o, Onward(o, s)) /\ UNCHANGED <<ad, pi>>
    BY <1>3 DEF Dispatch, Moves
  <2>2. DOMAIN s = TaskFields /\ s.pc = "sent"
    BY <1>s
  <2> HIDE DEF s
  <2> QED BY <1>0, <1>o, <2>1, <2>2
<1>4. CASE DispatchAccepted(o)
  <2>1. /\ task[o].pc = "sent" /\ SpawnProbe(o) /\ UNCHANGED pi
        /\ ad' = IF task[o].then = "record"
                 THEN RecordContinuation(ad, task[o].goal) ELSE ad
    BY <1>4 DEF DispatchAccepted, Answered
  <2>2. /\ Roles' /\ Recorders' = Recorders \ {o} /\ Late' = Late \ {o}
        /\ Queuers' = Queuers \ {o} /\ (task[o].then # "record" => SameSets)
    BY <1>0, <2>1, RolesSpawns
  <2>3. CASE task[o].then = "record"
    <3>1. /\ ad'.host = RecordContinuation(ad, task[o].goal).host
          /\ ad'.continued = ad.continued /\ o \in Recorders
      BY <1>0, <2>1, <2>3, NotesFields DEF Recorders
    <3> QED BY <2>1, <2>2, <3>1 DEF Reckons, Counting, Notes
  <2>4. CASE task[o].then # "record"
    BY <2>1, <2>2, <2>4 DEF Reckons, Counting, CountsNothing
  <2> QED BY <2>3, <2>4
<1>5. CASE DispatchFails(o)
  <2> DEFINE row == task[o].row
             b == TakeActivePrompt(ad, row.id, "Cancelled")
             k == At("kick", NoRow)
  <2>1. /\ task[o].pc = "sent" /\ Moves(o, Onward(o, k)) /\ UNCHANGED pi
        /\ \E m, q : /\ q = [b EXCEPT !.agentRunning = FALSE, !.mirror = m]
                     /\ \/ ad' = q
                        \/ ad' = SendServerPromptComplete(q, row)
    BY <1>5 DEF DispatchFails, Answered, Moves
  <2>2. Hosted(b, ad)
    BY <1>0, HostedMethods
  <2>3. DOMAIN k = TaskFields /\ k.pc = "kick"
    BY <1>s
  <2> HIDE DEF b, k, row
  <2>4. PICK m, q : /\ q = [b EXCEPT !.agentRunning = FALSE, !.mirror = m]
                    /\ \/ ad' = q
                       \/ ad' = SendServerPromptComplete(q, row)
    BY <2>1
  <2>5. Hosted([b EXCEPT !.agentRunning = FALSE, !.mirror = m], ad)
    BY <2>2, HostedFields
  <2>6. Hosted(q, ad) /\ IsAdapter(q)
    BY <2>4, <2>5 DEF Hosted
  <2>7. Hosted(SendServerPromptComplete(q, row), q)
    BY <2>6, HostedMethods
  <2>8. Hosted(ad', ad)
    BY <2>4, <2>6, <2>7, HostedOn
  <2> QED BY <1>o, <2>1, <2>3, <2>8
<1>6. CASE SendSteer(o) \/ ProbeWakes(o)
  <2>1. /\ task[o].pc \in {"steering", "doze"} /\ UNCHANGED <<ad, pi>>
        /\ \E t : Moves(o, t) /\ t.then = "end" /\ t.pc # "continue"
    BY <1>6, <1>s DEF SendSteer, ProbeWakes, Moves
  <2> QED BY <1>0, <1>p, <2>1
<1>7. CASE SteerAccepted(o)
  <2>1. /\ task[o].pc = "steer" /\ UNCHANGED pi
        /\ \/ o = Consumer /\ FlushPendingSteering(ad)
           \/ Moves(o, Done) /\ UNCHANGED ad
    BY <1>7 DEF SteerAccepted, Answered, Moves
  <2>2. task[o].then # "record"
    BY <2>1, NotRecording
  <2> QED BY <1>0, <1>p, <1>s, <2>1, <2>2, FlushReckons
<1>8. CASE SteerFails(o)
  <2> DEFINE b == TakeActivePrompt(ad, task[o].row.id, "Cancelled")
  <2>1. /\ task[o].pc = "steer" /\ Moves(o, Done) /\ UNCHANGED pi
        /\ \E m : ad' = [b EXCEPT !.mirror = m]
    BY <1>8 DEF SteerFails, Answered, Moves
  <2>2. Hosted(b, ad)
    BY <1>0, HostedMethods
  <2> HIDE DEF b
  <2>3. PICK m : ad' = [b EXCEPT !.mirror = m]
    BY <2>1
  <2>4. Hosted([b EXCEPT !.mirror = m], ad)
    BY <2>2, HostedFields
  <2> QED BY <1>p, <1>s, <2>1, <2>3, <2>4
<1>9. CASE ProbeAnswered(o)
  <2>1. /\ o[1] = "probe" /\ task[o].pc = "ask" /\ UNCHANGED pi
        /\ \/ UNCHANGED ad /\ Moves(o, Done)
           \/ /\ \E m : ad' = [ad EXCEPT !.agentRunning = FALSE, !.cancelling = FALSE,
                                         !.mirror = m]
              /\ Moves(o, Settling(ad.mirror.running))
    BY <1>9 DEF ProbeAnswered, Answered, Moves
  <2>2. o \in Enders
    BY <2>1, NoEnders
  <2>3. CASE UNCHANGED ad /\ Moves(o, Done)
    BY <1>0, <1>p, <1>s, <2>1, <2>3
  <2>4. ASSUME NEW m, ad' = [ad EXCEPT !.agentRunning = FALSE, !.cancelling = FALSE,
                                       !.mirror = m]
        PROVE  Hosted(ad', ad)
    BY <1>0, <2>4, HostedFields
  <2> QED BY <1>p, <1>s, <2>1, <2>2, <2>3, <2>4
<1>10. CASE ContinueGoal(o)
  <2> DEFINE k == At("kick", NoRow)
  <2>1. /\ task[o].pc = "continue" /\ UNCHANGED pi
        /\ \/ ad' = RecordContinuation(ad, task[o].goal) /\ Moves(o, Done)
           \/ /\ \E m : ad' = [ad EXCEPT !.mirror = m, !.continued = @ + 1]
              /\ Moves(o, Onward(o, k))
    BY <1>10 DEF ContinueGoal, Moves
  <2>2. o \in Recorders /\ o \in Queuers /\ task[o].then = "record"
    BY <2>1 DEF Recorders, Queuers, Roles, Role
  <2>3. CASE ad' = RecordContinuation(ad, task[o].goal) /\ Moves(o, Done)
    <3>1. /\ ad'.host = RecordContinuation(ad, task[o].goal).host
          /\ ad'.continued = ad.continued
      BY <1>0, <2>3, NotesFields
    <3>2. Role(o, Done)
      BY <1>s DEF Role
    <3>3. /\ Roles' /\ Queuers' = Queuers \ {o} /\ Recorders' = Recorders \ {o}
          /\ Late' = Late \ {o}
      BY <1>0, <1>s, <2>1, <2>3, <3>2, RolesMoves
    <3> QED BY <2>1, <2>2, <3>1, <3>3 DEF Reckons, Counting, Notes
  <2>4. ASSUME NEW m, ad' = [ad EXCEPT !.mirror = m, !.continued = @ + 1],
               Moves(o, Onward(o, k))
        PROVE  Reckons
    <3> DEFINE u == Onward(o, k)
    <3>1. ad'.host = ad.host /\ ad'.continued = ad.continued + 1
      BY <1>0, <2>4 DEF IsAdapter, AdapterFields
    <3>2. u.pc = "kick" /\ u.then = task[o].then /\ u.goal = task[o].goal
      BY <1>s
    <3>3. Moves(o, u)
      BY <2>4
    <3> HIDE DEF u
    <3>4. /\ Roles' /\ Recorders' = Recorders /\ Late' = Late
          /\ Queuers' = Queuers \ {o}
      BY <1>0, <2>1, <3>2, <3>3, RolesStill
    <3> QED BY <2>1, <2>2, <3>1, <3>4 DEF Reckons, Counting, Queues
  <2> QED BY <2>1, <2>3, <2>4
<1>11. CASE SettlePolls(o) \/ SettleConfirmed(o) \/ SettleAgain(o) \/ SettleGivesUp(o)
  <2>1. /\ task[o].pc \in {"poll", "ask"} /\ UNCHANGED pi
        /\ \/ ad' = ad
           \/ \E m : ad' = [ad EXCEPT !.agentRunning = FALSE, !.cancelling = FALSE,
                                      !.mirror = m]
           \/ ad' = [ad EXCEPT !.cancelling = FALSE]
    BY <1>11 DEF SettlePolls, SettleConfirmed, SettleAgain, SettleGivesUp, Answered
  <2>2. \E t, n : /\ Moves(o, t)
                  /\ t \in {Done, At("kick", NoRow), [At("poll", NoRow) EXCEPT !.polls = n],
                            [Sent("ask", NoRow) EXCEPT !.polls = n]}
    BY <1>11 DEF SettlePolls, SettleConfirmed, SettleAgain, SettleGivesUp, Moves
  <2>3. \A n : /\ [At("poll", NoRow) EXCEPT !.polls = n].pc = "poll"
               /\ [At("poll", NoRow) EXCEPT !.polls = n].then = "end"
               /\ [Sent("ask", NoRow) EXCEPT !.polls = n].pc = "ask"
               /\ [Sent("ask", NoRow) EXCEPT !.polls = n].then = "end"
    BY DEF At, Sent
  <2>4. Hosted(ad', ad)
    <3>1. CASE ad' = ad
      BY <1>0, <3>1
    <3>2. CASE ad' = [ad EXCEPT !.cancelling = FALSE]
      BY <1>0, <3>2, HostedFields
    <3>3. ASSUME NEW m, ad' = [ad EXCEPT !.agentRunning = FALSE, !.cancelling = FALSE,
                                         !.mirror = m]
          PROVE  Hosted(ad', ad)
      BY <1>0, <3>3, HostedFields
    <3> QED BY <2>1, <3>1, <3>2, <3>3
  <2>5. PICK t, n : /\ Moves(o, t)
                    /\ t \in {Done, At("kick", NoRow),
                              [At("poll", NoRow) EXCEPT !.polls = n],
                              [Sent("ask", NoRow) EXCEPT !.polls = n]}
    BY <2>2
  <2>6. t.then = "end" /\ t.pc # "continue"
    <3>1. CASE t = Done \/ t = At("kick", NoRow)
      BY <1>s, <3>1
    <3>2. CASE t = [At("poll", NoRow) EXCEPT !.polls = n]
      BY <2>3, <3>2
    <3>3. CASE t = [Sent("ask", NoRow) EXCEPT !.polls = n]
      BY <2>3, <3>3
    <3> QED BY <2>5, <3>1, <3>2, <3>3
  <2> QED BY <1>p, <2>1, <2>4, <2>5, <2>6
<1> QED BY <1>1, <1>2, <1>3, <1>4, <1>5, <1>6, <1>7, <1>8, <1>9, <1>10, <1>11 DEF TaskStep

\* The goal file, and what the host keeps of it.
GoalKnown ==
    /\ DOMAIN pi.goal = {"id", "status"}
    /\ pi.goal.id = spent.goal
    /\ pi.goal.status \in {"active", "paused", "over"}
    /\ pi.goal.status # "over" => pi.goal.id > 0
IsHost(h) ==
    /\ DOMAIN h = {"id", "sends", "armed"}
    /\ h.sends \in Nat /\ h.armed \in BOOLEAN
    /\ ~h.armed => h.sends < LoopLimit

\* A continuation is recorded for some goal only.
Promised == Recorders # {} => pi.goal.id > 0
Accounted == Roles /\ GoalKnown /\ IsHost(ad.host) /\ Promised

\* A goal is spent by the step that sets it.
LEMMA GoalSpent ==
    ASSUME Counted, [SchedNext]_schedVars, ~PiSetsGoal
    PROVE  spent'.goal = spent.goal
<1> DEFINE Other == spent' = spent \/ \E b \in Kinds \ {"goal"} : Spend(b)
<1>0. /\ spent' = spent => Other
      /\ Spend("cancel") \/ Spend("bash") \/ Spend("expired") => Other
      /\ Spend("error") \/ Spend("turn") \/ Spend("follow") \/ Spend("message")
            \/ Spend("extension") \/ Spend("deadline") \/ Spend("refresh")
            \/ Spend("crash") => Other
  BY DEF Kinds
<1>7. ASSUME NEW b \in Kinds \ {"goal"}, Spend(b) PROVE spent'.goal = spent.goal
  <2>1. "goal" \in Kinds /\ "goal" # b
    BY <1>7 DEF Kinds
  <2> QED BY <1>7, <2>1, Spending
<1> SUFFICES Other
  BY <1>7
<1> HIDE DEF Other
<1>1. CASE ClientStep
  BY <1>0, <1>1 DEF ClientStep, Prompt, Interject, Cancel, RemoveRows, BashStarts
<1>2. ASSUME NEW p, PromptStep(p) PROVE Other
  BY <1>0, <1>2 DEF PromptStep, DirectAccepted, DirectFails
<1>3. ASSUME NEW o \in Tasks, TaskStep(o) PROVE Other
  BY <1>0, <1>3 DEF TaskStep, Kick, Dispatch, DispatchAccepted, DispatchFails, SendSteer,
              SteerAccepted, SteerFails, ProbeWakes, ProbeAnswered, TurnEnds,
              ContinueGoal, SettlePolls, SettleConfirmed, SettleAgain, SettleGivesUp
<1>4. CASE ConsumerStep
  BY <1>0, <1>4 DEF ConsumerStep, AgentStart, AgentSettled, SlotIsCleared, MessageEnd,
              QueueUpdate, ExtensionMessage, StateChanged, Reloaded, ProcessExit,
              GoalMessage, NextEvent
<1>5. CASE BashEnds \/ Respawn \/ Rebind \/ ContinuationExpires
  BY <1>0, <1>5 DEF BashEnds, Respawn, Rebind, ContinuationExpires
<1>6. CASE PiStep
  <2>1. ASSUME NEW o, PiReplies(o) PROVE Other
    BY <1>0, <2>1 DEF PiReplies, PiAccepts, PiQueuesSteer, PiRefuses, PiAnswers
  <2> QED BY <1>0, <1>6, <2>1 DEF PiStep, PiStartsTurn, PiQueuesFollowUp, PiEndsMessage,
              PiContinues, PiSettles, PiExtensionMessage, PiStateChanges, PiCrashes,
              PiEditsGoal
<1> QED BY <1>0, <1>1, <1>2, <1>3, <1>4, <1>5, <1>6 DEF SchedNext, schedVars

\* Every step is one of these.
LEMMA StepReckons ==
    ASSUME SchedInv, Shape, Accounted, [SchedNext]_schedVars
    PROVE  Reckons
<1>0. /\ Roles /\ DOMAIN pi.goal = {"id", "status"} /\ DOMAIN ad.host = {"id", "sends", "armed"}
  BY DEF Accounted, GoalKnown, IsHost
<1>1. CASE UNCHANGED schedVars
  BY <1>0, <1>1, IdleReckons DEF schedVars
<1>2. CASE SchedNext
  <2>1. ASSUME NEW o \in Tasks, TaskStep(o) PROVE Reckons
    BY <1>0, <2>1, TaskReckons
  <2> QED BY <1>0, <1>2, <2>1, ClientReckons, PromptReckons, ConsumerReckons, PiReckons,
             OtherReckons DEF SchedNext
<1> QED BY <1>1, <1>2

\* What the host reads and writes.
LEMMA Hosts ==
    ASSUME NEW h, IsHost(h)
    PROVE  /\ \A c : /\ IsHost(ApplyControl(h, c))
                     /\ ApplyControl(ApplyControl(h, c), c) = ApplyControl(h, c)
           /\ IsHost(NoGoal)
           /\ \A id : IsHost([NoGoal EXCEPT !.id = id])
           /\ \A a, id : a.host = h /\ IsAdapter(a) => IsHost(RecordContinuation(a, id).host)
           /\ h.sends > 0 => IsHost([h EXCEPT !.sends = @ - 1])
<1>1. LoopLimit \in Nat /\ LoopLimit > 0
  BY SchedulerBounds, LoopLimitAssumption
<1>2. IsHost(NoGoal) /\ \A id : IsHost([NoGoal EXCEPT !.id = id])
  BY <1>1 DEF IsHost, NoGoal
<1>3. ASSUME NEW c
      PROVE  /\ IsHost(ApplyControl(h, c))
             /\ ApplyControl(ApplyControl(h, c), c) = ApplyControl(h, c)
  <2>1. [NoGoal EXCEPT !.id = c.id].id = c.id
    BY DEF NoGoal
  <2> QED BY <1>2, <2>1 DEF ApplyControl
<1>4. ASSUME NEW a, NEW id, a.host = h, IsAdapter(a)
      PROVE  IsHost(RecordContinuation(a, id).host)
  <2> DEFINE g == IF h.id = id THEN h ELSE [NoGoal EXCEPT !.id = id]
             n == g.sends + 1
             r == [g EXCEPT !.sends = n, !.armed = @ \/ n >= LoopLimit]
  <2>1. RecordContinuation(a, id).host = r
    BY <1>4 DEF RecordContinuation, IsAdapter, AdapterFields
  <2>2. IsHost(g)
    BY <1>2
  <2> HIDE DEF g
  <2>3. /\ DOMAIN r = {"id", "sends", "armed"} /\ r.sends = n
        /\ r.armed = (g.armed \/ n >= LoopLimit)
    BY <2>2 DEF IsHost
  <2>4. n \in Nat
    BY <2>2 DEF IsHost
  <2> HIDE DEF r
  <2>5. r.armed \in BOOLEAN
    BY <2>2, <2>3, <2>4 DEF IsHost
  <2>6. ~r.armed => r.sends < LoopLimit
    <3>1. CASE n < LoopLimit
      BY <2>3, <3>1
    <3>2. CASE ~(n < LoopLimit)
      <4>1. n >= LoopLimit
        BY <1>1, <2>4, <3>2
      <4> QED BY <2>3, <4>1, Zenon
    <3> QED BY <3>1, <3>2
  <2>7. IsHost(r)
    BY <2>3, <2>4, <2>5, <2>6 DEF IsHost
  <2> QED BY <2>1, <2>7
<1>5. h.sends > 0 => IsHost([h EXCEPT !.sends = @ - 1])
  BY <1>1 DEF IsHost
<1> QED BY <1>2, <1>3, <1>4, <1>5

\* The invariant.
LEMMA AccountedStep ==
    ASSUME SchedInv, Shape, Accounted, [SchedNext]_schedVars
    PROVE  Accounted'
<1>0. /\ Roles /\ GoalKnown /\ IsHost(ad.host) /\ Promised /\ Reckons /\ Roles'
      /\ IsAdapter(ad) /\ spent.goal \in Nat /\ Arrays(pi)
  BY StepReckons, SpentBefore DEF Accounted, Reckons, SchedInv, Accounts, Shape, Counted, Bounds
<1>1. IsHost(ad'.host)
  <2>1. IsHost(NowHost)
    BY <1>0, Hosts DEF NowHost
  <2>2. CASE CountsNothing \/ \E o \in Tasks : Admits(o) \/ Queues(o)
    BY <1>0, <2>1, <2>2 DEF CountsNothing, Admits, Queues
  <2>3. CASE Halts
    BY <1>0, <2>3, Hosts DEF Halts
  <2>4. CASE \E o \in Tasks : Notes(o)
    BY <1>0, <2>4, Hosts DEF Notes
  <2>5. CASE Sets \/ Edits
    BY <1>0, <2>5 DEF Sets, Edits
  <2>6. CASE Ages
    BY <1>0, <2>6, Hosts DEF Ages
  <2> QED BY <1>0, <2>2, <2>3, <2>4, <2>5, <2>6 DEF Reckons, Counting
<1>2. GoalKnown'
  <2>1. CASE PiSetsGoal
    <3> DEFINE c == [id |-> pi.goal.id + 1, status |-> "active"]
    <3>1. Spend("goal") /\ \E st : pi' = [pi EXCEPT !.goal = c, !.streaming = st]
      BY <2>1 DEF PiSetsGoal, WriteGoal
    <3>2. pi'.goal = c
      BY <1>0, <3>1 DEF Arrays, PiFields
    <3>3. spent'.goal = spent.goal + 1
      BY <3>1, Spending DEF Shape, Kinds
    <3> QED BY <1>0, <3>2, <3>3 DEF GoalKnown
  <2>2. CASE ~PiSetsGoal
    <3>1. spent'.goal = spent.goal
      BY <2>2, GoalSpent DEF Shape
    <3>2. ASSUME pi'.goal = pi.goal PROVE GoalKnown'
      BY <1>0, <3>1, <3>2 DEF GoalKnown
    <3>3. ASSUME pi.goal.status # "over", NEW st \in {"active", "paused", "over"},
                 pi'.goal = [pi.goal EXCEPT !.status = st]
          PROVE  GoalKnown'
      BY <1>0, <3>1, <3>3 DEF GoalKnown
    <3>4. CASE CountsNothing \/ Ages \/ \E o \in Tasks : Admits(o) \/ Notes(o) \/ Queues(o)
      BY <3>2, <3>4 DEF CountsNothing, SameSets, Ages, Admits, Notes, Queues
    <3>5. CASE Edits
      BY <3>3, <3>5 DEF Edits
    <3>6. CASE Halts
      <4>1. pi.goal.status # "over" /\ pi'.goal = [pi.goal EXCEPT !.status = "paused"]
        BY <3>6 DEF Halts
      <4> QED BY <3>3, <4>1
    <3>7. ~Sets
      BY <1>0, <3>1, Spending DEF Sets, Shape, Kinds
    <3> QED BY <1>0, <3>4, <3>5, <3>6, <3>7 DEF Reckons, Counting
  <2> QED BY <2>1, <2>2
<1>3. Promised'
  <2>1. pi'.goal.id >= pi.goal.id /\ pi.goal.id \in Nat /\ pi'.goal.id \in Nat
    BY <1>0, <1>2, SpentGrows DEF GoalKnown, Shape, Counted, Grows, Bounds
  <2>2. Recorders' \subseteq Recorders => Promised'
    BY <1>0, <2>1 DEF Promised
  <2>3. ASSUME NEW o \in Tasks, Admits(o) PROVE Promised'
    <3>1. pi.goal.id > 0
      BY <1>0, <2>3 DEF Admits, GoalKnown
    <3> QED BY <2>1, <3>1 DEF Promised
  <2>4. CASE Sets \/ Edits
    <3>1. Recorders' = Recorders
      BY <2>4 DEF Sets, Edits, Recorders
    <3> QED BY <2>2, <3>1
  <2>5. CASE CountsNothing \/ Halts \/ Ages \/ \E o \in Tasks : Notes(o) \/ Queues(o)
    <3>1. Recorders' \subseteq Recorders
      BY <2>5 DEF CountsNothing, SameSets, Halts, Ages, Notes, Queues
    <3> QED BY <2>2, <3>1
  <2> QED BY <1>0, <2>3, <2>4, <2>5 DEF Reckons, Counting
<1> QED BY <1>0, <1>1, <1>2, <1>3 DEF Accounted

\* What one change of the goal adds to the bound, how many tasks end turns,
\* and how many goals have been replaced.
Weight == LoopLimit + MaxProbes
Ending == MaxProbes + 1
Later == IF spent.goal = 0 THEN 0 ELSE spent.goal - 1
Anew == spent.goal + spent.turn + Ending * Later

\* How many continuations the guard still lets pass, if what the tasks hold
\* counts for the goal of the file.
Room == IF pi.goal.status # "active" \/ NowHost.armed THEN 0
        ELSE Weight - Cardinality(Recorders) - NowHost.sends

\* A continuation is queued or about to be, or the guard lets it pass; and a
\* late record gives back at most one window.
Metered ==
    /\ ad.continued \in Nat
    /\ ad.continued + Cardinality(Queuers) + Room + Weight * Cardinality(Late)
          <= Weight * Anew + spent.expired

\* There are few tasks that end turns.
LEMMA FewEnders == IsFiniteSet(Enders) /\ Cardinality(Enders) \in Nat /\ Cardinality(Enders) <= Ending
<1> DEFINE f == [i \in 1 .. Ending |-> IF i = Ending THEN Consumer ELSE ProbeTask(i)]
<1>0. MaxProbes \in Nat /\ Ending \in Nat /\ Ending = MaxProbes + 1
  BY SchedulerBounds DEF Ending
<1>1. f \in [1 .. Ending -> Enders]
  <2>1. ASSUME NEW i \in 1 .. Ending, i # Ending PROVE i \in 1 .. MaxProbes
    BY <1>0, <2>1
  <2> QED BY <2>1 DEF Enders
<1>2. ASSUME NEW t \in Enders PROVE \E i \in 1 .. Ending : f[i] = t
  <2>1. CASE t = Consumer
    <3>1. Ending \in 1 .. Ending /\ f[Ending] = Consumer
      BY <1>0
    <3> QED BY <2>1, <3>1
  <2>2. ASSUME NEW n \in 1 .. MaxProbes, t = ProbeTask(n) PROVE \E i \in 1 .. Ending : f[i] = t
    <3>1. n \in 1 .. Ending /\ n # Ending
      BY <1>0
    <3>2. f[n] = ProbeTask(n)
      BY <3>1
    <3> QED BY <2>2, <3>1, <3>2
  <2> QED BY <2>1, <2>2 DEF Enders
<1> HIDE DEF f
<1>3. f \in Surjection(1 .. Ending, Enders)
  BY <1>1, <1>2 DEF Surjection
<1>4. ExistsSurjection(1 .. Ending, Enders)
  BY <1>3 DEF ExistsSurjection
<1>5. IsFiniteSet(Enders)
  BY <1>0, <1>4, FS_NatSurjection
<1> QED BY <1>0, <1>4, <1>5, FS_SurjCardinalityBound, FS_CardinalityType

\* So few tasks hold a continuation.
LEMMA FewRecorders ==
    ASSUME Roles
    PROVE  /\ IsFiniteSet(Recorders) /\ IsFiniteSet(Queuers) /\ IsFiniteSet(Late)
           /\ Cardinality(Recorders) \in Nat /\ Cardinality(Recorders) <= Ending
           /\ Cardinality(Queuers) \in Nat
           /\ Cardinality(Late) \in Nat /\ Cardinality(Late) <= Cardinality(Recorders)
<1>1. /\ Recorders \subseteq Enders
      /\ Queuers \subseteq Recorders /\ Late \subseteq Recorders
  BY DEF Recorders, Queuers, Late, Roles, Role
<1>2. Ending \in Nat
  BY SchedulerBounds DEF Ending
<1>3. /\ IsFiniteSet(Recorders) /\ Cardinality(Recorders) \in Nat
      /\ Cardinality(Recorders) <= Cardinality(Enders)
  BY <1>1, FewEnders, FS_Subset, FS_CardinalityType
<1>4. /\ IsFiniteSet(Queuers) /\ Cardinality(Queuers) \in Nat
      /\ IsFiniteSet(Late) /\ Cardinality(Late) \in Nat
      /\ Cardinality(Late) <= Cardinality(Recorders)
  BY <1>1, <1>3, FS_Subset, FS_CardinalityType
<1> QED BY <1>2, <1>3, <1>4, FewEnders

\* Products with a weight.
LEMMA Products ==
    ASSUME NEW w \in Nat, NEW a \in Nat, NEW b \in Nat
    PROVE  /\ w * a \in Nat
           /\ w * (a + b) = w * a + w * b
           /\ w * 1 = w
           /\ a <= b => w * a <= w * b
<1>1. w * a \in Nat /\ w * (a + b) = w * a + w * b /\ w * 1 = w
  OBVIOUS
<1>2. ASSUME a <= b PROVE w * a <= w * b
  <2>1. PICK d \in Nat : b = a + d
    <3>1. b - a \in Nat /\ b = a + (b - a)
      BY <1>2
    <3> QED BY <3>1
  <2>2. w * b = w * a + w * d /\ w * d \in Nat /\ w * a \in Nat
    BY <2>1
  <2> QED BY <2>2
<1> QED BY <1>1, <1>2

\* The room that the guard leaves.
LEMMA RoomBounds ==
    ASSUME Accounted
    PROVE  Room \in Nat /\ Room <= Weight /\ Weight \in Nat
<1>0. /\ LoopLimit \in Nat /\ MaxProbes \in Nat /\ Weight = LoopLimit + MaxProbes
      /\ Ending = MaxProbes + 1
  BY SchedulerBounds DEF Weight, Ending
<1>1. Cardinality(Recorders) \in Nat /\ Cardinality(Recorders) <= Ending
  BY FewRecorders DEF Accounted
<1>2. IsHost(NowHost)
  BY Hosts DEF Accounted, NowHost
<1>3. /\ NowHost.sends \in Nat
      /\ ~NowHost.armed => NowHost.sends < LoopLimit
  BY <1>2 DEF IsHost
<1>4. CASE pi.goal.status # "active" \/ NowHost.armed
  <2>1. Room = 0
    BY <1>4 DEF Room
  <2> QED BY <1>0, <2>1
<1>5. CASE ~(pi.goal.status # "active" \/ NowHost.armed)
  <2>1. Room = Weight - Cardinality(Recorders) - NowHost.sends
    BY <1>5 DEF Room
  <2>2. NowHost.sends < LoopLimit
    BY <1>3, <1>5
  <2> QED BY <1>0, <1>1, <1>3, <2>1, <2>2
<1> QED BY <1>4, <1>5

\* How the bound grows.
LEMMA AnewGrows ==
    ASSUME Counted, Counted', Grows
    PROVE  /\ Anew \in Nat /\ Anew' \in Nat /\ Ending \in Nat /\ Weight \in Nat
           /\ spent.expired \in Nat /\ spent'.expired \in Nat /\ spent.expired <= spent'.expired
           /\ spent'.goal = spent.goal => Anew <= Anew'
           /\ spent'.goal = spent.goal /\ spent'.turn = spent.turn + 1 => Anew' = Anew + 1
           /\ spent'.goal = spent.goal + 1 /\ spent.goal = 0 /\ spent'.turn = spent.turn
                  => Anew' = Anew + 1
           /\ spent'.goal = spent.goal + 1 /\ spent.goal > 0 /\ spent'.turn = spent.turn
                  => Anew' = Anew + 1 + Ending
<1>1. /\ spent.goal \in Nat /\ spent'.goal \in Nat /\ spent.goal <= spent'.goal
      /\ spent.turn \in Nat /\ spent'.turn \in Nat /\ spent.turn <= spent'.turn
      /\ spent.expired \in Nat /\ spent'.expired \in Nat /\ spent.expired <= spent'.expired
      /\ Ending \in Nat /\ Weight \in Nat
  BY SpentBefore, SchedulerBounds DEF Kinds, Ending, Weight
<1> DEFINE k == Later
           n == Later'
<1>2. k \in Nat /\ n \in Nat
  BY <1>1 DEF Later
<1>3. /\ spent'.goal = spent.goal => n = k
      /\ spent'.goal = spent.goal + 1 /\ spent.goal = 0 => n = k
      /\ spent'.goal = spent.goal + 1 /\ spent.goal > 0 => n = k + 1
  BY <1>1 DEF Later
<1>4. Anew = spent.goal + spent.turn + Ending * k /\ Anew' = spent'.goal + spent'.turn + Ending * n
  BY DEF Anew, Ending
<1> HIDE DEF k, n
<1>5. Ending * k \in Nat /\ Ending * n \in Nat /\ Ending * (k + 1) = Ending * k + Ending
  BY <1>1, <1>2, Products
<1> DEFINE u == Ending * k
           v == Ending * n
<1>6. /\ u \in Nat /\ v \in Nat
      /\ Anew = spent.goal + spent.turn + u /\ Anew' = spent'.goal + spent'.turn + v
      /\ n = k => v = u
      /\ n = k + 1 => v = u + Ending
  BY <1>4, <1>5
<1> HIDE DEF u, v
<1>7. Anew \in Nat /\ Anew' \in Nat
  BY <1>1, <1>6
<1>8. spent'.goal = spent.goal => Anew <= Anew'
  BY <1>1, <1>3, <1>6
<1>9. spent'.goal = spent.goal /\ spent'.turn = spent.turn + 1 => Anew' = Anew + 1
  BY <1>1, <1>3, <1>6
<1>10. spent'.goal = spent.goal + 1 /\ spent.goal = 0 /\ spent'.turn = spent.turn
          => Anew' = Anew + 1
  BY <1>1, <1>3, <1>6
<1>11. spent'.goal = spent.goal + 1 /\ spent.goal > 0 /\ spent'.turn = spent.turn
          => Anew' = Anew + 1 + Ending
  BY <1>1, <1>3, <1>6
<1> QED BY <1>1, <1>7, <1>8, <1>9, <1>10, <1>11

\* The room after a step.
LEMMA RoomSame ==
    ASSUME Accounted, pi'.goal = pi.goal, ad'.host \in {ad.host, NowHost}
    PROVE  /\ NowHost' = NowHost
           /\ Recorders' = Recorders => Room' = Room
<1>1. NowHost' = ApplyControl(ad'.host, pi.goal)
  BY DEF NowHost
<1>2. NowHost' = NowHost
  BY <1>1, Hosts DEF NowHost, Accounted
<1> QED BY <1>2 DEF Room

\* The record of a continuation of the goal of the file takes its room.
LEMMA RoomNotes ==
    ASSUME Accounted, IsAdapter(ad), NEW o, Notes(o), task[o].goal = pi.goal.id
    PROVE  Room' <= Room
<1> DEFINE id == pi.goal.id
           g == IF ad.host.id = id THEN ad.host ELSE [NoGoal EXCEPT !.id = id]
           n == g.sends + 1
           r == [g EXCEPT !.sends = n, !.armed = @ \/ n >= LoopLimit]
<1>0. /\ LoopLimit \in Nat /\ MaxProbes \in Nat /\ Weight = LoopLimit + MaxProbes
      /\ Room \in Nat
  BY SchedulerBounds, RoomBounds DEF Weight
<1>1. Recorders' = Recorders \ {o} /\ o \in Recorders /\ pi'.goal = pi.goal
  BY DEF Notes
<1>2. /\ Cardinality(Recorders) \in Nat
      /\ Cardinality(Recorders') = Cardinality(Recorders) - 1
  BY <1>1, FewRecorders, FS_RemoveElement DEF Accounted
<1>3. CASE pi.goal.status # "active"
  BY <1>0, <1>1, <1>3 DEF Room
<1>4. CASE pi.goal.status = "active"
  <2>1. NowHost = g
    BY <1>4 DEF NowHost, ApplyControl
  <2>2. ad'.host = r
    <3>1. RecordContinuation(ad, id).host = r
      BY DEF RecordContinuation, IsAdapter, AdapterFields
    <3> QED BY <3>1 DEF Notes
  <2>3. IsHost(g) /\ g.id = id
    BY Hosts DEF Accounted, NoGoal
  <2> HIDE DEF g
  <2>4. r.id = id /\ r.sends = n /\ r.armed = (g.armed \/ n >= LoopLimit)
    BY <2>3 DEF IsHost
  <2> HIDE DEF r
  <2>5. NowHost' = r
    BY <1>1, <1>4, <2>2, <2>4 DEF NowHost, ApplyControl
  <2>6. CASE NowHost'.armed
    <3>1. Room' = 0
      BY <2>6 DEF Room
    <3> QED BY <1>0, <3>1
  <2>7. CASE ~NowHost'.armed
    <3>1. ~g.armed
      BY <2>4, <2>5, <2>7, Zenon
    <3>2. Room = Weight - Cardinality(Recorders) - g.sends
      BY <1>4, <2>1, <3>1 DEF Room
    <3>3. Room' = Weight - Cardinality(Recorders') - n
      BY <1>1, <1>4, <2>4, <2>5, <2>7 DEF Room, Weight
    <3>4. g.sends \in Nat
      BY <2>3 DEF IsHost
    <3> QED BY <1>0, <1>2, <3>2, <3>3, <3>4
  <2> QED BY <2>6, <2>7
<1> QED BY <1>3, <1>4

\* A continuation that leaves the window gives back the room of one.
LEMMA RoomAges ==
    ASSUME Accounted, Ages
    PROVE  Room' <= Room + 1
<1>0. Room \in Nat /\ IsHost(ad.host)
  BY RoomBounds DEF Accounted
<1> DEFINE h == ad.host
           r == [h EXCEPT !.sends = @ - 1]
<1>1. /\ ad'.host = r /\ pi'.goal = pi.goal /\ Recorders' = Recorders
  BY DEF Ages, SameSets
<1>2. r.id = h.id /\ r.armed = h.armed /\ r.sends = h.sends - 1 /\ h.sends \in Nat
  BY <1>0 DEF IsHost
<1> HIDE DEF r
<1>3. CASE pi.goal.status = "active" /\ h.id = pi.goal.id
  <2>1. NowHost = h /\ NowHost' = r
    BY <1>1, <1>2, <1>3 DEF NowHost, ApplyControl
  <2>2. CASE h.armed
    <3>1. Room' = 0
      BY <1>2, <2>1, <2>2 DEF Room
    <3> QED BY <1>0, <3>1
  <2>3. CASE ~h.armed
    <3>1. Room = Weight - Cardinality(Recorders) - h.sends
      BY <1>3, <2>1, <2>3 DEF Room
    <3>2. Room' = Weight - Cardinality(Recorders) - r.sends
      BY <1>1, <1>2, <1>3, <2>1, <2>3 DEF Room, Weight
    <3>3. Cardinality(Recorders) \in Nat /\ Weight \in Nat
      BY FewRecorders, RoomBounds DEF Accounted
    <3> QED BY <1>2, <3>1, <3>2, <3>3
  <2> QED BY <2>2, <2>3
<1>4. CASE ~(pi.goal.status = "active" /\ h.id = pi.goal.id)
  <2>1. NowHost' = NowHost
    BY <1>1, <1>2, <1>4 DEF NowHost, ApplyControl
  <2>2. Room' = Room
    BY <1>1, <2>1 DEF Room, Weight
  <2> QED BY <1>0, <2>2
<1> QED BY <1>3, <1>4

\* What is counted in Metered, in numbers.
Load(c, q, r, l) == c + q + r + Weight * l

\* The load after a step that changes one of them.
LEMMA Loads ==
    ASSUME Weight \in Nat,
           NEW c \in Nat, NEW q \in Nat, NEW r \in Nat, NEW l \in Nat,
           NEW d \in Nat, NEW p \in Nat, NEW s \in Nat, NEW k \in Nat
    PROVE  /\ d + p + s <= c + q + r /\ k = l => Load(d, p, s, k) <= Load(c, q, r, l)
           /\ d = c /\ p <= q /\ s <= Weight /\ l = k + 1
                  => Load(d, p, s, k) <= Load(c, q, r, l)
           /\ d = c /\ p = q /\ s <= Weight /\ k = l
                  => Load(d, p, s, k) <= Load(c, q, r, l) + Weight
           /\ d = c /\ p = q /\ s <= r + 1 /\ k = l
                  => Load(d, p, s, k) <= Load(c, q, r, l) + 1
           /\ d = c /\ p = q /\ s <= Weight
                  => Load(d, p, s, k) <= Load(c, q, r, l) + Weight + Weight * k
           /\ Load(c, q, r, l) \in Nat
<1> DEFINE u == Weight * l
           v == Weight * k
<1>1. /\ u \in Nat /\ v \in Nat /\ (k = l => v = u) /\ (l = k + 1 => u = v + Weight)
  BY Products
<1>2. Load(d, p, s, k) = d + p + s + v /\ Load(c, q, r, l) = c + q + r + u
  BY DEF Load
<1> HIDE DEF u, v
<1>3. v = Weight * k
  BY DEF v
<1>4. d + p + s <= c + q + r /\ k = l => Load(d, p, s, k) <= Load(c, q, r, l)
  BY <1>1, <1>2
<1>5. d = c /\ p <= q /\ s <= Weight /\ l = k + 1
          => Load(d, p, s, k) <= Load(c, q, r, l)
  BY <1>1, <1>2
<1>6. d = c /\ p = q /\ s <= Weight /\ k = l
          => Load(d, p, s, k) <= Load(c, q, r, l) + Weight
  BY <1>1, <1>2
<1>7. d = c /\ p = q /\ s <= r + 1 /\ k = l
          => Load(d, p, s, k) <= Load(c, q, r, l) + 1
  BY <1>1, <1>2
<1>8. d = c /\ p = q /\ s <= Weight
          => Load(d, p, s, k) <= Load(c, q, r, l) + Weight + v
  BY <1>1, <1>2
<1>9. Load(c, q, r, l) \in Nat
  BY <1>1, <1>2
<1> QED BY <1>3, <1>4, <1>5, <1>6, <1>7, <1>8, <1>9

\* What Metered compares, and what a step may add to it.
LoadNow == Load(ad.continued, Cardinality(Queuers), Room, Cardinality(Late))
Added(n) == LoadNow' <= LoadNow + n /\ ad'.continued \in Nat

\* A step that adds to the load at most what it adds to the bound.
LEMMA MeteredAdds ==
    ASSUME Counted, Counted', Grows, Metered, LoadNow \in Nat, LoadNow' \in Nat,
           \/ Added(0) /\ spent'.goal = spent.goal
           \/ Added(1) /\ spent'.goal = spent.goal /\ spent'.expired = spent.expired + 1
           \/ Added(Weight) /\ spent'.goal = spent.goal /\ spent'.turn = spent.turn + 1
           \/ /\ Added(Weight) /\ spent.goal = 0
              /\ spent'.goal = spent.goal + 1 /\ spent'.turn = spent.turn
           \/ /\ Added(Weight + Weight * Ending) /\ spent.goal > 0
              /\ spent'.goal = spent.goal + 1 /\ spent'.turn = spent.turn
    PROVE  Metered'
<1> DEFINE x == Anew
           y == Anew'
           e == spent.expired
           f == spent'.expired
           b == Weight * x
           c == Weight * y
           t == Weight * Ending
<1>1. /\ x \in Nat /\ y \in Nat /\ Ending \in Nat /\ Weight \in Nat
      /\ e \in Nat /\ f \in Nat /\ e <= f
      /\ spent'.goal = spent.goal => x <= y
      /\ spent'.goal = spent.goal /\ spent'.turn = spent.turn + 1 => y = x + 1
      /\ spent'.goal = spent.goal + 1 /\ spent.goal = 0 /\ spent'.turn = spent.turn
             => y = x + 1
      /\ spent'.goal = spent.goal + 1 /\ spent.goal > 0 /\ spent'.turn = spent.turn
             => y = x + 1 + Ending
  BY AnewGrows
<1>2. LoadNow <= b + e
  BY DEF Metered, LoadNow, Load
<1>3. (LoadNow' <= c + f /\ ad'.continued \in Nat) => Metered'
  BY DEF Metered, LoadNow, Load, Weight
<1> HIDE DEF x, y, e, f
<1>4. /\ b \in Nat /\ c \in Nat /\ t \in Nat
      /\ x <= y => b <= c
      /\ y = x + 1 => c = b + Weight
      /\ y = x + 1 + Ending => c = b + Weight + t
  <2>1. b \in Nat /\ c \in Nat /\ t \in Nat /\ (x <= y => b <= c)
    BY <1>1, Products
  <2>2. Weight * (x + 1) = b + Weight * 1 /\ Weight * 1 = Weight /\ x + 1 \in Nat
    BY <1>1, Products
  <2>3. Weight * ((x + 1) + Ending) = Weight * (x + 1) + t
    BY <1>1, <2>2, Products
  <2> QED BY <2>1, <2>2, <2>3
<1>t. t = Weight * Ending
  OBVIOUS
<1> HIDE DEF b, c, t
<1>5. ASSUME Added(0), spent'.goal = spent.goal PROVE Metered'
  BY <1>1, <1>2, <1>3, <1>4, <1>5 DEF Added
<1>6. ASSUME Added(1), spent'.goal = spent.goal, f = e + 1 PROVE Metered'
  BY <1>1, <1>2, <1>3, <1>4, <1>6 DEF Added
<1>7. ASSUME Added(Weight), y = x + 1 PROVE Metered'
  BY <1>1, <1>2, <1>3, <1>4, <1>7 DEF Added
<1>8. ASSUME Added(Weight + t), y = x + 1 + Ending PROVE Metered'
  BY <1>1, <1>2, <1>3, <1>4, <1>8 DEF Added
<1>9. f = spent'.expired /\ e = spent.expired
  BY DEF e, f
<1> QED BY <1>1, <1>5, <1>6, <1>7, <1>8, <1>9, <1>t

\* The load, the room and the sets in numbers.
Numbers == /\ LoadNow \in Nat /\ Weight \in Nat
           /\ Room \in Nat /\ Room <= Weight
           /\ Cardinality(Queuers) \in Nat /\ Cardinality(Late) \in Nat
           /\ Cardinality(Late) <= Ending

\* Whenever the steps so far are accounted for.
LEMMA LoadFits == Accounted /\ ad.continued \in Nat => Numbers
<1> SUFFICES ASSUME Accounted, ad.continued \in Nat PROVE Numbers
  OBVIOUS
<1>1. /\ Room \in Nat /\ Room <= Weight /\ Weight \in Nat
      /\ Cardinality(Queuers) \in Nat /\ Cardinality(Late) \in Nat
      /\ Cardinality(Recorders) \in Nat /\ Cardinality(Recorders) <= Ending
      /\ Cardinality(Late) <= Cardinality(Recorders) /\ Ending \in Nat
  BY RoomBounds, FewRecorders, SchedulerBounds DEF Accounted, Ending
<1>2. Weight * Cardinality(Late) \in Nat
  BY <1>1, Products
<1> QED BY <1>1, <1>2 DEF LoadNow, Load, Numbers

\* They are numbers after a step as well.
LEMMA LoadFitsThen == Accounted' /\ (ad.continued \in Nat)' => Numbers'
BY LoadFits, PTL

\* Every step keeps the meter.
LEMMA MeteredStep ==
    ASSUME SchedInv, Shape, Accounted, Accounted', Counted', Grows, Metered,
           [SchedNext]_schedVars
    PROVE  Metered'
<1> DEFINE c == ad.continued
           q == Cardinality(Queuers)
           r == Room
           l == Cardinality(Late)
           d == ad'.continued
           p == Cardinality(Queuers')
           s == Room'
           k == Cardinality(Late')
<1>0. /\ Roles /\ Roles' /\ GoalKnown /\ GoalKnown' /\ IsAdapter(ad) /\ Counting
      /\ Counted /\ c \in Nat
      /\ IsFiniteSet(Recorders) /\ IsFiniteSet(Queuers) /\ IsFiniteSet(Late)
      /\ spent.goal \in Nat /\ spent'.goal \in Nat
  BY StepReckons, FewRecorders, SpentBefore DEF Accounted, Reckons, SchedInv, Accounts, Shape,
     Metered, Kinds
<1>1. /\ LoadNow \in Nat /\ Weight \in Nat /\ r \in Nat /\ r <= Weight
      /\ q \in Nat /\ l \in Nat
  BY <1>0, LoadFits DEF Numbers
<1>2. d \in Nat => /\ LoadNow' \in Nat /\ s \in Nat /\ s <= Weight
                   /\ p \in Nat /\ k \in Nat /\ k <= Ending
  <2>1. d \in Nat => Numbers'
    BY LoadFitsThen
  <2> QED BY <2>1 DEF Numbers, Weight, Ending
<1>3. LoadNow = Load(c, q, r, l) /\ LoadNow' = Load(d, p, s, k)
  BY DEF LoadNow, Load, Weight
<1> DEFINE G == pi'.goal.id = pi.goal.id
<1>g. G => spent'.goal = spent.goal
  BY <1>0 DEF GoalKnown
<1>p. pi'.goal = pi.goal => G
  OBVIOUS
<1> HIDE DEF G
<1>4. ASSUME G, d \in Nat, LoadNow' <= LoadNow PROVE Metered'
  BY <1>0, <1>1, <1>2, <1>4, <1>g, MeteredAdds DEF Added
<1>5. CASE CountsNothing
  <2>1. d = c /\ p = q /\ s = r /\ k = l /\ G
    BY <1>5, <1>p, RoomSame DEF CountsNothing, SameSets
  <2>2. LoadNow' = LoadNow
    BY <1>3, <2>1
  <2> QED BY <1>0, <1>1, <1>4, <2>1, <2>2
<1>6. ASSUME NEW o \in Tasks, Admits(o) PROVE Metered'
  <2>1. /\ d = c /\ k = l /\ G
        /\ o \notin Queuers /\ Queuers' = Queuers \cup {o}
        /\ o \notin Recorders /\ Recorders' = Recorders \cup {o}
        /\ pi.goal.status = "active" /\ ~NowHost.armed /\ NowHost' = NowHost
        /\ pi'.goal = pi.goal
    BY <1>6, <1>p, RoomSame DEF Admits
  <2>2. p = q + 1
    BY <1>0, <2>1, FS_AddElement
  <2>3. s = r - 1
    <3>1. Cardinality(Recorders') = Cardinality(Recorders) + 1
      BY <1>0, <2>1, FS_AddElement
    <3>2. /\ r = Weight - Cardinality(Recorders) - NowHost.sends
          /\ s = Weight - Cardinality(Recorders') - NowHost.sends
      BY <2>1 DEF Room, Weight
    <3>3. NowHost.sends \in Nat /\ Cardinality(Recorders) \in Nat
      BY <1>0, Hosts, FewRecorders DEF NowHost, Accounted, IsHost
    <3> QED BY <1>1, <3>1, <3>2, <3>3
  <2>4. d + p + s <= c + q + r
    BY <1>0, <1>1, <2>1, <2>2, <2>3
  <2>5. LoadNow' <= LoadNow
    BY <1>0, <1>1, <1>2, <1>3, <2>1, <2>4, Loads
  <2> QED BY <1>0, <1>4, <2>1, <2>5
<1>7. ASSUME NEW o \in Tasks, Queues(o) PROVE Metered'
  <2>1. /\ d = c + 1 /\ k = l /\ G /\ s = r
        /\ o \in Queuers /\ Queuers' = Queuers \ {o}
    BY <1>7, <1>p, RoomSame DEF Queues
  <2>2. p = q - 1
    BY <1>0, <2>1, FS_RemoveElement
  <2>3. d \in Nat /\ d + p + s <= c + q + r
    BY <1>0, <1>1, <2>1, <2>2
  <2>5. LoadNow' <= LoadNow
    BY <1>0, <1>1, <1>2, <1>3, <2>1, <2>3, Loads
  <2> QED BY <1>4, <2>1, <2>3, <2>5
<1>8. CASE Halts
  <2>1. d = c /\ k = l /\ p = q /\ s = 0 /\ G
    <3>1. pi'.goal.status = "paused" /\ pi'.goal.id = pi.goal.id
      BY <1>0, <1>8 DEF Halts, GoalKnown
    <3> QED BY <1>8, <3>1 DEF Halts, Room, G
  <2>3. d + p + s <= c + q + r
    BY <1>0, <1>1, <2>1
  <2>5. LoadNow' <= LoadNow
    BY <1>0, <1>1, <1>2, <1>3, <2>1, <2>3, Loads
  <2> QED BY <1>0, <1>4, <2>1, <2>5
<1>9. ASSUME NEW o \in Tasks, Notes(o) PROVE Metered'
  <2>1. /\ d = c /\ G /\ Queuers' = Queuers \ {o} /\ Late' = Late \ {o} /\ o \in Recorders
        /\ pi'.goal = pi.goal
    BY <1>9, <1>p DEF Notes
  <2>2. p <= q
    <3>1. Cardinality(Queuers \ {o}) = IF o \in Queuers THEN q - 1 ELSE q
      BY <1>0, FS_RemoveElement
    <3> QED BY <1>1, <2>1, <3>1
  <2>3. CASE task[o].goal = pi.goal.id
    <3>1. s <= r
      BY <1>0, <1>9, <2>3, RoomNotes
    <3>2. o \notin Late
      BY <2>3 DEF Late
    <3>3. Late' = Late
      BY <2>1, <3>2
    <3>4. d + p + s <= c + q + r /\ k = l
      BY <1>0, <1>1, <1>2, <2>1, <2>2, <3>1, <3>3
    <3>5. LoadNow' <= LoadNow
      BY <1>0, <1>1, <1>2, <1>3, <2>1, <3>4, Loads
    <3> QED BY <1>0, <1>4, <2>1, <3>5
  <2>4. CASE task[o].goal # pi.goal.id
    <3>1. o \in Late
      BY <2>1, <2>4 DEF Late
    <3>2. l = k + 1
      <4>1. Cardinality(Late \ {o}) = l - 1
        BY <1>0, <3>1, FS_RemoveElement
      <4> QED BY <1>1, <2>1, <4>1
    <3>3. LoadNow' <= LoadNow
      BY <1>0, <1>1, <1>2, <1>3, <2>1, <2>2, <3>2, Loads
    <3> QED BY <1>0, <1>4, <2>1, <3>3
  <2> QED BY <2>3, <2>4
<1>10. CASE Ages
  <2>1. /\ d = c /\ p = q /\ k = l /\ G /\ s <= r + 1 /\ Spend("expired")
    BY <1>10, <1>p, RoomAges DEF Ages, SameSets
  <2>2. spent'.expired = spent.expired + 1
    BY <1>0, <2>1, Spending DEF Kinds
  <2>3. LoadNow' <= LoadNow + 1
    BY <1>0, <1>1, <1>2, <1>3, <2>1, Loads
  <2> QED BY <1>0, <1>1, <1>2, <1>g, <2>1, <2>2, <2>3, MeteredAdds DEF Added
<1>11. CASE Edits
  <2>1. /\ d = c /\ p = q /\ G /\ UNCHANGED task /\ Spend("turn")
    <3>1. pi'.goal.id = pi.goal.id
      BY <1>0, <1>11 DEF Edits, GoalKnown
    <3> QED BY <1>11, <3>1 DEF Edits, Queuers, G
  <2>2. k = l
    BY <2>1 DEF Late, Recorders, G
  <2>3. spent'.turn = spent.turn + 1
    BY <1>0, <2>1, Spending DEF Kinds
  <2>4. LoadNow' <= LoadNow + Weight
    BY <1>0, <1>1, <1>2, <1>3, <2>1, <2>2, Loads
  <2> QED BY <1>0, <1>1, <1>2, <1>g, <2>1, <2>3, <2>4, MeteredAdds DEF Added
<1>12. CASE Sets
  <2>1. d = c /\ p = q /\ Recorders' = Recorders /\ Spend("goal")
    BY <1>12 DEF Sets, Queuers, Recorders
  <2>2. spent'.goal = spent.goal + 1 /\ spent'.turn = spent.turn
    BY <1>0, <2>1, Spending DEF Kinds
  <2>3. CASE spent.goal = 0
    <3>1. Recorders = {}
      BY <1>0, <2>3 DEF Accounted, Promised, GoalKnown
    <3>2. k = l
      BY <2>1, <3>1 DEF Late
    <3>3. LoadNow' <= LoadNow + Weight
      BY <1>0, <1>1, <1>2, <1>3, <2>1, <3>2, Loads
    <3> QED BY <1>0, <1>1, <1>2, <2>1, <2>2, <2>3, <3>3, MeteredAdds DEF Added
  <2>4. CASE spent.goal > 0
    <3>1. LoadNow' <= LoadNow + Weight + Weight * k
      BY <1>0, <1>1, <1>2, <1>3, <2>1, Loads
    <3>2. /\ Weight * k <= Weight * Ending /\ Weight * k \in Nat
          /\ Weight * Ending \in Nat
      BY <1>0, <1>1, <1>2, <2>1, Products, SchedulerBounds DEF Ending
    <3> DEFINE u == Weight * k
               v == Weight * Ending
    <3>3. /\ u \in Nat /\ v \in Nat /\ u <= v /\ LoadNow' <= LoadNow + Weight + u
          /\ v = Weight * Ending
      BY <3>1, <3>2
    <3> HIDE DEF u, v
    <3>4. LoadNow' <= LoadNow + (Weight + v)
      BY <1>0, <1>1, <1>2, <2>1, <3>3
    <3>5. LoadNow' <= LoadNow + (Weight + Weight * Ending)
      BY <3>3, <3>4
    <3> QED BY <1>0, <1>1, <1>2, <2>1, <2>2, <2>4, <3>5, MeteredAdds DEF Added
  <2> QED BY <1>0, <2>3, <2>4
<1> QED BY <1>0, <1>5, <1>6, <1>7, <1>8, <1>9, <1>10, <1>11, <1>12 DEF Counting
\* At first nothing is counted.
LEMMA MeteredInitial == SchedInit => Accounted /\ Metered
<1> SUFFICES ASSUME SchedInit PROVE Accounted /\ Metered
  OBVIOUS
<1>1. /\ ad.host = NoGoal /\ ad.continued = 0 /\ pi.goal = [id |-> 0, status |-> "over"]
      /\ \A o \in Tasks : task[o] = Done
      /\ spent.goal = 0 /\ spent.turn = 0 /\ spent.expired = 0
  BY DEF SchedInit, InitialState, Bounds
<1>2. Done.pc = "end" /\ Done.then = "end"
  BY DEF Done, At
<1>3. Roles /\ Recorders = {} /\ Queuers = {} /\ Late = {}
  BY <1>1, <1>2 DEF Roles, Role, Recorders, Queuers, Late
<1>4. GoalKnown /\ IsHost(ad.host) /\ Promised
  BY <1>1, <1>3, SchedulerBounds, LoopLimitAssumption DEF GoalKnown, IsHost, NoGoal, Promised
<1>5. Cardinality(Queuers) = 0 /\ Cardinality(Late) = 0 /\ Room = 0
  BY <1>1, <1>3, FS_EmptySet DEF Room
<1>6. /\ Weight * Cardinality(Late) = 0 /\ Weight \in Nat /\ Ending \in Nat /\ Anew = 0
  <2>1. Weight \in Nat /\ Ending \in Nat
    BY SchedulerBounds DEF Weight, Ending
  <2>2. Later = 0
    BY <1>1 DEF Later
  <2> QED BY <1>1, <1>5, <2>1, <2>2 DEF Anew
<1>7. Weight * Anew = 0
  BY <1>6
<1>8. Metered
  BY <1>1, <1>5, <1>6, <1>7 DEF Metered
<1> QED BY <1>3, <1>4, <1>8 DEF Accounted

\* The meter bounds what was queued.
LEMMA MeteredBound == Shape /\ Accounted /\ Metered => GoalLoopBounded
<1> SUFFICES ASSUME Shape, Accounted, Metered PROVE GoalLoopBounded
  OBVIOUS
<1>1. Numbers /\ ad.continued \in Nat
  BY LoadFits DEF Metered
<1>2. Weight * Cardinality(Late) \in Nat
  BY <1>1, Products DEF Numbers
<1>3. Weight * Anew = (LoopLimit + MaxProbes)
          * (spent.goal + spent.turn
                + (MaxProbes + 1) * (IF spent.goal = 0 THEN 0 ELSE spent.goal - 1))
  BY DEF Weight, Anew, Ending, Later
<1>4. Weight * Anew \in Int /\ spent.expired \in Int
  <2>1. /\ spent.goal \in Nat /\ spent.turn \in Nat /\ spent.expired \in Nat
        /\ Weight \in Nat /\ Ending \in Nat
    BY SchedulerBounds DEF Shape, Counted, Bounds, Weight, Ending
  <2>2. Later \in Nat
    BY <2>1 DEF Later
  <2>3. Ending * Later \in Nat
    BY <2>1, <2>2, Products
  <2>4. Anew \in Nat
    BY <2>1, <2>3 DEF Anew
  <2> QED BY <2>1, <2>4, Products
<1>5. ad.continued <= Weight * Anew + spent.expired
  BY <1>1, <1>2, <1>4 DEF Metered, Numbers
<1> QED BY <1>3, <1>5 DEF GoalLoopBounded

\* The loop guard stops the loop: what it lets pass is bounded by the goals set
\* and replaced, the edits, and the continuations that leave its window.
THEOREM SchedGoalLoopBounded == SchedSafeSpec => []GoalLoopBounded
<1> DEFINE I == SchedInv /\ Shape /\ Accounted /\ Metered
<1>1. SchedInit => I
  BY SchedInitial, ShapeInitial, MeteredInitial
<1>2. I /\ [SchedNext]_schedVars => I'
  <2>1. I /\ [SchedNext]_schedVars => Counted' /\ Grows /\ Accounted'
    BY SpentGrows, AccountedStep DEF Shape
  <2> QED BY <2>1, SchedInductive, ShapeInductive, MeteredStep
<1>3. I => GoalLoopBounded
  BY MeteredBound
<1> QED BY <1>1, <1>2, <1>3, PTL DEF SchedSafeSpec

=============================================================================
