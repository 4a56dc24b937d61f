------------------------ MODULE PromptScheduler_proofs ------------------------
(***************************************************************************)
(* Proofs about PromptScheduler: no prompt is lost or answered twice, for  *)
(* any number of prompts, any bounds on faults, and any order of tasks,    *)
(* events and crashes; and as long as Pi refuses nothing and does not      *)
(* exit, no ghost run and no stranded row.                                 *)
(*                                                                         *)
(* The invariant SchedInv is PromptAccounting in the form that the steps   *)
(* keep (Accounts): the rows of the client are those with its ids, no id   *)
(* has two local rows, and the waiting prompts are those with a local row. *)
(* It also says that the arrays which Pi reports are sequences (Arrays,    *)
(* Unread), for the consumer feeds them to apply_queue_update.  The lemmas *)
(* follow the code: first the methods of AdapterState, then the mirror's   *)
(* operations on the local rows, then one lemma for each kind of step.     *)
(*                                                                         *)
(* On top of it:                                                           *)
(*                                                                         *)
(*   Shape    which tasks can exist, and what the flags of the adapter say *)
(*            about them (Tasked, Steady), and the counters of the bounds; *)
(*   Guarded  while nothing has failed, the end of each run of Pi is among *)
(*            its unread events (Healthy), and whatever makes the adapter  *)
(*            busy is watched by somebody who will end it (Watched): an    *)
(*            unread agent_settled, a probe, or a cancel's poll;           *)
(*   RowsServed  NoStrandedRows itself, under its conditions.              *)
(*                                                                         *)
(* Module SchedulerRows_proofs goes on with the rows of the mirror.        *)
(***************************************************************************)
EXTENDS PromptScheduler, QueueMirror_proofs

\* The fields of AdapterState.
AdapterFields == {"mirror", "active", "started", "waiting", "host", "agentRunning",
                  "cancelling", "bashRunning", "outcome", "ended", "continued",
                  "withdrawn"}
IsAdapter(a) == DOMAIN a = AdapterFields

\* Two adapter states that agree in what the accounting is about.
Same(b, a) == /\ IsAdapter(b)
              /\ b.mirror = a.mirror /\ b.active = a.active
              /\ b.waiting = a.waiting /\ b.outcome = a.outcome

\* The outcomes after those of the prompts with the given ids are answered.
Answering(outcome, prompts, ids, reason) ==
    [p \in Clients |-> IF p \in ids \cap prompts THEN reason ELSE outcome[p]]

\* finish_prompts answers the active prompts.
LEMMA FinishPromptsFields ==
    ASSUME NEW a, IsAdapter(a), NEW reason, NEW b, b = FinishPrompts(a, reason)
    PROVE  /\ IsAdapter(b) /\ b.mirror = a.mirror /\ b.active = {}
           /\ b.waiting = a.waiting
           /\ b.outcome = Answering(a.outcome, a.active, a.active, reason)
BY DEF FinishPrompts, Answering, IsAdapter, AdapterFields

\* finish_queued_entries answers the waiters of the rows.
LEMMA FinishQueuedFields ==
    ASSUME NEW a, IsAdapter(a), NEW ids, NEW reason,
           NEW b, b = FinishQueuedEntries(a, ids, reason)
    PROVE  /\ IsAdapter(b) /\ b.mirror = a.mirror /\ b.active = a.active
           /\ b.waiting = a.waiting \ ids
           /\ b.outcome = Answering(a.outcome, a.waiting, ids, reason)
BY DEF FinishQueuedEntries, Answering, IsAdapter, AdapterFields

\* take_active_prompt and the answer to its prompt.
LEMMA TakeActiveFields ==
    ASSUME NEW a, IsAdapter(a), NEW id \in a.active, NEW reason,
           NEW b, b = TakeActivePrompt(a, id, reason)
    PROVE  /\ IsAdapter(b) /\ b.mirror = a.mirror /\ b.active = a.active \ {id}
           /\ b.waiting = a.waiting
           /\ b.outcome = [a.outcome EXCEPT ![id] = reason]
<1>1. b = [a EXCEPT !.active = @ \ {id}, !.started = @ \ {id}, !.outcome[id] = reason]
  BY DEF TakeActivePrompt
<1> QED BY <1>1 DEF IsAdapter, AdapterFields

\* activate_queued_client makes a waiting prompt active.
LEMMA ActivateFields ==
    ASSUME NEW a, IsAdapter(a), NEW id \in a.waiting,
           NEW b, b = ActivateQueuedClient(a, id)
    PROVE  /\ IsAdapter(b) /\ b.mirror = a.mirror /\ b.outcome = a.outcome
           /\ b.waiting = a.waiting \ {id} /\ b.active = a.active \cup {id}
BY DEF ActivateQueuedClient, IsAdapter, AdapterFields

\* activate_queued_client leaves the mirror alone.
LEMMA ActivateMirror ==
    ASSUME NEW a, IsAdapter(a), NEW id
    PROVE  /\ IsAdapter(ActivateQueuedClient(a, id))
           /\ ActivateQueuedClient(a, id).mirror = a.mirror
<1>1. CASE id \in a.waiting
  BY <1>1, ActivateFields
<1>2. CASE id \notin a.waiting
  BY <1>2 DEF ActivateQueuedClient
<1> QED BY <1>1, <1>2

\* The prompt_complete notifications touch no account.
LEMMA CompleteFields ==
    ASSUME NEW a, IsAdapter(a), NEW row
    PROVE  /\ Same(SendServerPromptComplete(a, row), a)
           /\ Same(CompleteServerTurn(a, row), a)
<1>1. Same(SendServerPromptComplete(a, row), a)
  BY DEF SendServerPromptComplete, Same, IsAdapter, AdapterFields
<1>2. Same(a, a)
  BY DEF Same
<1> QED BY <1>1, <1>2 DEF CompleteServerTurn

\* The records of the hosts touch no account.
LEMMA RecordFields ==
    ASSUME NEW a, IsAdapter(a), NEW id
    PROVE  /\ Same(RecordContinuation(a, id), a)
           /\ \A x : Same([a EXCEPT !.host = x], a)
<1>1. ASSUME NEW x PROVE Same([a EXCEPT !.host = x], a)
  BY DEF Same, IsAdapter, AdapterFields
<1>2. PICK x : RecordContinuation(a, id) = [a EXCEPT !.host = x]
  <2> DEFINE h == IF a.host.id = id THEN a.host ELSE [NoGoal EXCEPT !.id = id]
             x == [h EXCEPT !.sends = h.sends + 1, !.armed = @ \/ h.sends + 1 >= LoopLimit]
  <2>1. RecordContinuation(a, id) = [a EXCEPT !.host = x]
    BY DEF RecordContinuation
  <2> HIDE DEF x
  <2> QED BY <2>1
<1> QED BY <1>1, <1>2

-----------------------------------------------------------------------------
(* The accounting.                                                         *)

\* The texts of the adapter's own rows, and the lanes that events name.
HostTexts == {"goal", "ext"}
RowLanes == Lanes \cup {"none"}

\* The rows of the local queue: the client's rows are those with its ids.
Held == {e \in [id : Clients \cup Nat, text : Clients \cup HostTexts,
                lane : RowLanes, origin : Origins, ver : Nat] :
             e.origin = "Client" <=> e.id \in Clients}

\* The local queue q is well formed.
Queue(q) == /\ IsMirror(q) /\ q.seq \in Nat
            /\ q.local \in Seq(Held) /\ Distinct(q.local)

\* Every open prompt is in exactly one place.
Balanced(ids, active, waiting, outcome) ==
    /\ active \subseteq Clients
    /\ waiting = ids \cap Clients
    /\ waiting \cap active = {}
    /\ outcome \in [Clients -> Outcomes]
    /\ \A p \in Clients : outcome[p] = "open" <=> p \in waiting \cup active

\* The accounts of an adapter state balance.
Accounts(a) ==
    /\ IsAdapter(a)
    /\ Queue(a.mirror)
    /\ Balanced(IdsOf(a.mirror.local), a.active, a.waiting, a.outcome)

\* Accounts depend on four fields only.
LEMMA SameAccounts ==
    ASSUME NEW a, Accounts(a), NEW b, Same(b, a)
    PROVE  Accounts(b)
BY DEF Same, Accounts

\* The rows that the adapter makes are rows of the local queue.
LEMMA HeldRows ==
    /\ \A p \in Clients, lane \in Lanes :
           /\ Row(p, p, lane, "Client") \in Held
           /\ Row(p, p, lane, "Client").id = p
    /\ \A n \in Nat, text \in HostTexts, lane \in RowLanes :
           /\ Row(n, text, lane, "Extension") \in Held
           /\ Row(n, text, lane, "Extension").id = n
    /\ \A row \in Held : Renewable(row, Held)
<1>1. ASSUME NEW p \in Clients, NEW lane \in Lanes
      PROVE  Row(p, p, lane, "Client") \in Held /\ Row(p, p, lane, "Client").id = p
  BY DEF Row, Held, Origins, RowLanes
<1>2. ASSUME NEW n \in Nat, NEW text \in HostTexts,
             NEW lane \in RowLanes
      PROVE  /\ Row(n, text, lane, "Extension") \in Held
             /\ Row(n, text, lane, "Extension").id = n
  BY ClientAssumption DEF Row, Held, Origins, RowLanes
<1>3. ASSUME NEW row \in Held, NEW e \in Held
      PROVE  /\ [row EXCEPT !.ver = e.ver] \in Held
             /\ [row EXCEPT !.ver = e.ver].id = row.id
  BY DEF Held
<1> QED BY <1>1, <1>2, <1>3 DEF Renewable

\* The rows whose origin is the client are the rows with ids of the client.
LEMMA AccountsMeans == Accounts(ad) => PromptAccounting
<1> SUFFICES ASSUME Accounts(ad) PROVE PromptAccounting
  OBVIOUS
<1> DEFINE l == ad.mirror.local
           C == {e.id : e \in {l[i] : i \in {j \in DOMAIN l : l[j].origin = "Client"}}}
<1>1. l \in Seq(Held)
  BY DEF Accounts, Queue
<1>2. \A j \in DOMAIN l : l[j].origin = "Client" <=> l[j].id \in Clients
  BY <1>1 DEF Held
<1> HIDE DEF l
<1>3. C = IdsOf(l) \cap Clients
  BY <1>2 DEF IdsOf
<1> HIDE DEF C
<1>4. Balanced(IdsOf(l), ad.active, ad.waiting, ad.outcome)
  BY DEF Accounts, l
<1>5. /\ ad.waiting = C /\ ad.waiting \cap ad.active = {}
      /\ {p \in Clients : ad.outcome[p] = "open"} = ad.waiting \cup ad.active
  BY <1>3, <1>4 DEF Balanced
<1> QED BY <1>5 DEF PromptAccounting, C, l

\* A prompt is accepted.
LEMMA Opened ==
    ASSUME NEW ids, NEW active, NEW waiting, NEW outcome,
           Balanced(ids, active, waiting, outcome),
           NEW p \in Clients, outcome[p] = "new"
    PROVE  /\ Balanced(ids \cup {p}, active, waiting \cup {p},
                       [outcome EXCEPT ![p] = "open"])
           /\ Balanced(ids, active \cup {p}, waiting,
                       [outcome EXCEPT ![p] = "open"])
BY DEF Balanced, Outcomes

\* A prompt leaves the local queue for the active prompts.
LEMMA Activated ==
    ASSUME NEW ids, NEW active, NEW waiting, NEW outcome,
           Balanced(ids, active, waiting, outcome), NEW id
    PROVE  /\ id \in waiting =>
                  Balanced(ids \ {id}, active \cup {id}, waiting \ {id}, outcome)
           /\ id \notin waiting => Balanced(ids \ {id}, active, waiting, outcome)
BY DEF Balanced

\* Prompts are answered.
Answers == {"EndTurn", "Cancelled", "Error"}
\* Active prompts are answered, one or all.
LEMMA ActiveAnswered ==
    ASSUME NEW ids, NEW active, NEW waiting, NEW outcome,
           Balanced(ids, active, waiting, outcome), NEW reason \in Answers
    PROVE  /\ \A id \in active : Balanced(ids, active \ {id}, waiting,
                                          [outcome EXCEPT ![id] = reason])
           /\ Balanced(ids, {}, waiting, Answering(outcome, active, active, reason))
BY DEF Balanced, Outcomes, Answers, Answering

\* Waiting prompts leave the queue and are answered.
LEMMA WaitingAnswered ==
    ASSUME NEW ids, NEW active, NEW waiting, NEW outcome,
           Balanced(ids, active, waiting, outcome), NEW reason \in Answers,
           NEW gone
    PROVE  Balanced(ids \ gone, active, waiting \ gone,
                    Answering(outcome, waiting, gone, reason))
BY DEF Balanced, Outcomes, Answers, Answering

\* Generated ids are not the client's.
LEMMA Uncounted ==
    ASSUME NEW ids, NEW active, NEW waiting, NEW outcome,
           Balanced(ids, active, waiting, outcome), NEW n \in Nat
    PROVE  Balanced(ids \cup {n}, active, waiting, outcome)
BY ClientAssumption DEF Balanced

-----------------------------------------------------------------------------
(* The mirror's operations and the local queue.                            *)

\* A sequence of whatever: Pi may report any texts.
IsSeq(s) == \E S : s \in Seq(S)

\* The slot and the reservations are not the local queue.
LEMMA LocalUntouched ==
    ASSUME NEW q, Queue(q)
    PROVE  /\ \A row : Queue(SetRunning(q, row)) /\ SetRunning(q, row).local = q.local
           /\ Queue(ClearRunning(q)) /\ ClearRunning(q).local = q.local
           /\ \A id : /\ Queue(ReleaseReservation(q, id))
                      /\ ReleaseReservation(q, id).local = q.local
           /\ \A row : Queue(Reserve(q, row)) /\ Reserve(q, row).local = q.local
<1>0. IsMirror(q) /\ q.seq \in Nat /\ q.local \in Seq(Held) /\ Distinct(q.local)
  BY DEF Queue
<1>1. ASSUME NEW p, NEW r, NEW k, NEW run, NEW d,
             d = Mirror(q.local, p, r, k, run, q.seq)
      PROVE  Queue(d) /\ d.local = q.local
  <2>1. IsMirror(d) /\ d.local = q.local /\ d.seq = q.seq
    BY <1>1, MirrorFields
  <2> QED BY <1>0, <2>1 DEF Queue
<1>2. ASSUME NEW row PROVE Queue(SetRunning(q, row)) /\ SetRunning(q, row).local = q.local
  BY <1>0, <1>1, Operations
<1>3. Queue(ClearRunning(q)) /\ ClearRunning(q).local = q.local
  BY <1>0, <1>1, Operations
<1>4. ASSUME NEW id
      PROVE  Queue(ReleaseReservation(q, id)) /\ ReleaseReservation(q, id).local = q.local
  <2> DEFINE r == Without(q.reserved, {id})
             d == ReleaseReservation(q, id)
  <2>1. d = Mirror(q.local, q.pi, r, q.parked, q.running, q.seq)
    BY <1>0, Operations
  <2> HIDE DEF r, d
  <2>2. Queue(d) /\ d.local = q.local
    BY <2>1, <1>1
  <2> QED BY <2>2 DEF d
<1>5. ASSUME NEW row
      PROVE  Queue(Reserve(q, row)) /\ Reserve(q, row).local = q.local
  <2> DEFINE r == Append(Without(q.reserved, {row.id}), [row EXCEPT !.ver = 0])
             d == Reserve(q, row)
  <2>1. d = Mirror(q.local, q.pi, r, q.parked, q.running, q.seq)
    BY <1>0, Operations
  <2> HIDE DEF r, d
  <2>2. Queue(d) /\ d.local = q.local
    BY <2>1, <1>1
  <2> QED BY <2>2 DEF d
<1> QED BY <1>2, <1>3, <1>4, <1>5

\* promote_parked_running leaves the local queue alone.
LEMMA PromoteUntouched ==
    ASSUME NEW q, Queue(q)
    PROVE  Queue(PromoteParkedRunning(q)) /\ PromoteParkedRunning(q).local = q.local
<1>0. IsMirror(q)
  BY DEF Queue
<1> DEFINE i == SelectLastInSeq(q.parked, LAMBDA e : e.id \notin IdsOf(q.pi) \cup IdsOf(q.local))
           run == q.parked[i]
           k == SubSeq(q.parked, 1, i - 1)
           none == << >>
           d == PromoteParkedRunning(q)
<1>1. \/ d = q
      \/ d = [q EXCEPT !.parked = none]
      \/ d = [q EXCEPT !.running = run, !.parked = k]
  BY DEF PromoteParkedRunning
<1> HIDE DEF i, run, k, none, d
<1>2. ASSUME NEW x, NEW y
      PROVE  [q EXCEPT !.running = x, !.parked = y]
                = Mirror(q.local, q.pi, q.reserved, y, x, q.seq)
  <2>1. q = [local |-> q.local, pi |-> q.pi, reserved |-> q.reserved,
             parked |-> q.parked, running |-> q.running, seq |-> q.seq]
    BY <1>0 DEF IsMirror, Mirror
  <2>2. PICK c : c = [q EXCEPT !.running = x, !.parked = y]
    OBVIOUS
  <2>3. c = [local |-> q.local, pi |-> q.pi, reserved |-> q.reserved,
             parked |-> y, running |-> x, seq |-> q.seq]
    BY <2>1, <2>2
  <2> QED BY <2>2, <2>3 DEF Mirror
<1>3. \E x, y : d = Mirror(q.local, q.pi, q.reserved, y, x, q.seq)
  <2>1. CASE d = q
    BY <1>0, <2>1 DEF IsMirror
  <2>2. CASE d = [q EXCEPT !.parked = none]
    <3>1. d = Mirror(q.local, q.pi, q.reserved, none, q.running, q.seq)
      BY <1>0, <2>2, MirrorExcept
    <3> QED BY <3>1
  <2>3. CASE d = [q EXCEPT !.running = run, !.parked = k]
    <3>1. d = Mirror(q.local, q.pi, q.reserved, k, run, q.seq)
      BY <1>2, <2>3
    <3> QED BY <3>1
  <2> QED BY <1>1, <2>1, <2>2, <2>3
<1>4. IsMirror(d) /\ d.local = q.local /\ d.seq = q.seq
  BY <1>3, MirrorFields
<1>5. Queue(d) /\ d.local = q.local
  BY <1>4 DEF Queue
<1> QED BY <1>5 DEF d

\* Desired rows of any arrays.
LEMMA DesiredSeq ==
    ASSUME NEW s, IsSeq(s), NEW f, IsSeq(f)
    PROVE  \E W : Desired(s, "Steering") \o Desired(f, "FollowUp") \in Seq(W)
<1>1. PICK S : s \in Seq(S)
  BY DEF IsSeq
<1>2. PICK F : f \in Seq(F)
  BY DEF IsSeq
<1> DEFINE W == [text : S \cup F, lane : Lanes]
           x == Desired(s, "Steering")
           y == Desired(f, "FollowUp")
<1>3. Len(s) \in Nat /\ DOMAIN s = 1 .. Len(s) /\ \A i \in DOMAIN s : s[i] \in S
  BY <1>1
<1>4. Len(f) \in Nat /\ DOMAIN f = 1 .. Len(f) /\ \A i \in DOMAIN f : f[i] \in F
  BY <1>2
<1>5. x \in [1 .. Len(s) -> W]
  BY <1>3 DEF Desired, Lanes
<1>6. y \in [1 .. Len(f) -> W]
  BY <1>4 DEF Desired, Lanes
<1> HIDE DEF W, x, y
<1>7. x \in Seq(W) /\ y \in Seq(W)
  BY <1>3, <1>4, <1>5, <1>6
<1>8. x \o y \in Seq(W)
  BY <1>7
<1> QED BY <1>8 DEF x, y

\* apply_queue_update leaves the local queue alone, whatever Pi reports.
LEMMA UpdateUntouched ==
    ASSUME NEW q, Queue(q), NEW s, IsSeq(s), NEW f, IsSeq(f)
    PROVE  /\ Queue(ApplyQueueUpdate(q, s, f))
           /\ ApplyQueueUpdate(q, s, f).local = q.local
<1> DEFINE d == ApplyQueueUpdate(q, s, f)
           n == UpdateAcc(q, s, f).seq
<1>1. n \in Nat
  BY DesiredSeq, MatchSeq DEF Queue, UpdateAcc
<1>2. \E p, r, k, run : d = Mirror(q.local, p, r, k, run, n)
  <2> DEFINE p == UpdateAcc(q, s, f).next
             r == Without(UpdateAcc(q, s, f).reserved, IdsOf(UpdateAcc(q, s, f).next))
             k == q.parked \o (IF Promoted(q, s, f) THEN Tail(Left(q, s, f))
                               ELSE Left(q, s, f))
             run == IF Promoted(q, s, f) THEN Head(Left(q, s, f)) ELSE q.running
  <2>1. d = Mirror(q.local, p, r, k, run, n)
    BY UpdateParts DEF Queue
  <2> HIDE DEF d, n, p, r, k, run
  <2> QED BY <2>1
<1> HIDE DEF d, n
<1>3. IsMirror(d) /\ d.local = q.local /\ d.seq = n
  BY <1>2, MirrorFields
<1>4. Queue(d) /\ d.local = q.local
  BY <1>1, <1>3 DEF Queue
<1> QED BY <1>4 DEF d

\* A mirror whose local rows are l.
LEMMA QueueOf ==
    ASSUME NEW l \in Seq(Held), Distinct(l), NEW s \in Nat,
           NEW p, NEW r, NEW k, NEW run, NEW d, d = Mirror(l, p, r, k, run, s)
    PROVE  Queue(d) /\ d.local = l
<1>1. IsMirror(d) /\ d.local = l /\ d.seq = s
  BY MirrorFields
<1> QED BY <1>1 DEF Queue

\* enqueue_local adds the id of a row.
LEMMA Enqueued ==
    ASSUME NEW q, Queue(q), NEW row \in Held
    PROVE  /\ Queue(EnqueueLocal(q, row))
           /\ IdsOf(EnqueueLocal(q, row).local) = IdsOf(q.local) \cup {row.id}
<1> DEFINE d == EnqueueLocal(q, row)
<1>0. IsMirror(q) /\ q.seq \in Nat /\ q.local \in Seq(Held) /\ Distinct(q.local)
  BY DEF Queue
<1>1. Renewable(row, Held)
  BY HeldRows
<1>2. PICK l \in Seq(Held) :
          /\ d = Mirror(l, q.pi, q.reserved, q.parked, q.running, q.seq)
          /\ IdsOf(l) = IdsOf(q.local) \cup {row.id}
          /\ Distinct(q.local) => Distinct(l)
  BY <1>0, <1>1, EnqueueLocalIds
<1> HIDE DEF d
<1>3. Queue(d) /\ d.local = l
  BY <1>0, <1>2, QueueOf
<1> QED BY <1>2, <1>3 DEF d

\* The rows have one more generated id.
Grown(new, old) == \E n \in Nat : IdsOf(new) = IdsOf(old) \cup {n}

\* A row with a generated id is queued.
LEMMA GeneratedQueued ==
    ASSUME NEW q, Queue(q), NEW text \in HostTexts,
           NEW lane \in RowLanes, NEW d,
           d = EnqueueGenerated(q, text, lane, "Extension")
    PROVE  Queue(d) /\ Grown(d.local, q.local)
<1> DEFINE n == q.seq + 1
           x == [q EXCEPT !.seq = n]
           row == Row(n, text, lane, "Extension")
<1>1. n \in Nat
  BY DEF Queue
<1>2. d = EnqueueLocal(x, row)
  BY DEF EnqueueGenerated, NextId
<1>3. row \in Held /\ row.id = n
  BY <1>1, HeldRows
<1> HIDE DEF n, row
<1>4. IsMirror(x) /\ x.local = q.local /\ x.seq = n
  <2>1. IsMirror(q)
    BY DEF Queue
  <2> QED BY <2>1, NumberedFields
<1> HIDE DEF x
<1>5. Queue(x)
  BY <1>1, <1>4 DEF Queue
<1>6. Queue(d) /\ IdsOf(d.local) = IdsOf(q.local) \cup {n}
  BY <1>2, <1>3, <1>4, <1>5, Enqueued
<1> QED BY <1>1, <1>6 DEF Grown

\* take_local removes the id of a row.
LEMMA Taken ==
    ASSUME NEW q, Queue(q), NEW i \in DOMAIN q.local
    PROVE  /\ Queue(TakeLocal(q, i)) /\ q.local[i] \in Held
           /\ q.local[i].id \in IdsOf(q.local)
           /\ IdsOf(TakeLocal(q, i).local) = IdsOf(q.local) \ {q.local[i].id}
<1> DEFINE l == RemoveAt(q.local, i)
           d == TakeLocal(q, i)
           id == q.local[i].id
<1>0. IsMirror(q) /\ q.seq \in Nat /\ q.local \in Seq(Held) /\ Distinct(q.local)
  BY DEF Queue
<1>1. q.local[i] \in Held
  BY <1>0
<1>2. d = Mirror(l, q.pi, q.reserved, q.parked, q.running, q.seq)
  BY <1>0, Operations
<1>3. l \in Seq(Held)
  BY <1>0, RemoveAtRow
<1>4. IdsOf(q.local) = {id} \cup IdsOf(l) /\ Distinct(l) /\ id \notin IdsOf(l)
  BY <1>0, RemoveIds
<1> HIDE DEF l, d
<1>5. Queue(d) /\ d.local = l
  BY <1>0, <1>2, <1>3, <1>4, QueueOf
<1>6. id \in IdsOf(q.local) /\ IdsOf(d.local) = IdsOf(q.local) \ {id}
  BY <1>4, <1>5
<1> QED BY <1>1, <1>5, <1>6 DEF d

\* pop_next_local removes the id of the first row.
LEMMA Popped ==
    ASSUME NEW q, Queue(q), q.local # << >>
    PROVE  /\ Queue(PopNextLocal(q))
           /\ Head(q.local).id \in IdsOf(q.local)
           /\ IdsOf(PopNextLocal(q).local) = IdsOf(q.local) \ {Head(q.local).id}
<1> DEFINE l == Tail(q.local)
           d == PopNextLocal(q)
           id == Head(q.local).id
<1>0. IsMirror(q) /\ q.seq \in Nat /\ q.local \in Seq(Held) /\ Distinct(q.local)
  BY DEF Queue
<1>2. d = Mirror(l, q.pi, q.reserved, q.parked, q.running, q.seq)
  BY <1>0, Operations
<1>3. /\ l \in Seq(Held) /\ id \in IdsOf(q.local) /\ Distinct(l)
      /\ IdsOf(q.local) = {id} \cup IdsOf(l) /\ id \notin IdsOf(l)
  BY <1>0, TailIds
<1> HIDE DEF l, d, id
<1>5. Queue(d) /\ d.local = l
  BY <1>0, <1>2, <1>3, QueueOf
<1>6. IdsOf(d.local) = IdsOf(q.local) \ {id}
  BY <1>3, <1>5
<1> QED BY <1>3, <1>5, <1>6 DEF d, id

\* push_front_local adds the id of a row.
LEMMA PushedFront ==
    ASSUME NEW q, Queue(q), NEW row \in Held
    PROVE  /\ Queue(PushFrontLocal(q, row))
           /\ IdsOf(PushFrontLocal(q, row).local) = IdsOf(q.local) \cup {row.id}
<1> DEFINE d == PushFrontLocal(q, row)
<1>0. IsMirror(q) /\ q.seq \in Nat /\ q.local \in Seq(Held) /\ Distinct(q.local)
  BY DEF Queue
<1>2. PICK l \in Seq(Held) :
          /\ d = Mirror(l, q.pi, q.reserved, q.parked, q.running, q.seq)
          /\ IdsOf(l) = IdsOf(q.local) \cup {row.id}
          /\ Distinct(q.local) => Distinct(l)
  BY <1>0, PushFrontIds
<1> HIDE DEF d
<1>3. Queue(d) /\ d.local = l
  BY <1>0, <1>2, QueueOf
<1> QED BY <1>2, <1>3 DEF d

\* A cleared mirror has no local row.
LEMMA Dropped ==
    ASSUME NEW q, Queue(q)
    PROVE  /\ Queue(ClearMirror(ClearRunning(ClearLocal(q))))
           /\ IdsOf(ClearMirror(ClearRunning(ClearLocal(q))).local) = {}
           /\ Queue(EmptyMirror) /\ IdsOf(EmptyMirror.local) = {}
<1> DEFINE a == ClearLocal(q)
           b == ClearRunning(a)
           c == ClearMirror(b)
<1>0. IsMirror(q) /\ q.seq \in Nat
  BY DEF Queue
<1>1. << >> \in Seq(Held) /\ Distinct(<< >>) /\ IdsOf(<< >>) = {}
  BY NoRows
<1>2. a = Mirror(<< >>, q.pi, q.reserved, q.parked, q.running, q.seq)
  BY <1>0, Operations
<1> HIDE DEF a
<1>3. IsMirror(a) /\ a.seq = q.seq
  BY <1>2, MirrorFields
<1>4. b = Mirror(a.local, a.pi, << >>, a.parked, NoRow, a.seq)
  BY <1>3, Operations
<1> HIDE DEF b
<1>5. IsMirror(b) /\ b.seq = q.seq
  BY <1>3, <1>4, MirrorFields
<1>6. c = Mirror(<< >>, << >>, << >>, << >>, NoRow, q.seq)
  BY <1>5, Operations
<1> HIDE DEF c
<1>7. Queue(c) /\ c.local = << >>
  <2> DEFINE l == << >>
  <2>1. l \in Seq(Held) /\ Distinct(l) /\ c = Mirror(l, l, l, l, NoRow, q.seq)
    BY <1>1, <1>6
  <2> HIDE DEF l
  <2>2. Queue(c) /\ c.local = l
    BY <1>0, <2>1, QueueOf
  <2> QED BY <2>2 DEF l
<1>8. EmptyMirror = Mirror(<< >>, << >>, << >>, << >>, NoRow, 0)
  BY DEF EmptyMirror, Mirror
<1>9. Queue(EmptyMirror) /\ EmptyMirror.local = << >>
  BY <1>1, <1>8, QueueOf
<1> QED BY <1>1, <1>7, <1>9 DEF a, b, c

-----------------------------------------------------------------------------
(* What the adapter's methods do to the accounts.                          *)

\* A state whose accounting is that of a with another mirror.
LEMMA MirrorSwapped ==
    ASSUME NEW a, Accounts(a), NEW b, IsAdapter(b), Queue(b.mirror),
           b.active = a.active, b.waiting = a.waiting, b.outcome = a.outcome,
           \/ IdsOf(b.mirror.local) = IdsOf(a.mirror.local)
           \/ Grown(b.mirror.local, a.mirror.local)
    PROVE  Accounts(b)
<1>1. Balanced(IdsOf(a.mirror.local), b.active, b.waiting, b.outcome)
  BY DEF Accounts
<1>2. Balanced(IdsOf(b.mirror.local), b.active, b.waiting, b.outcome)
  BY <1>1, Uncounted DEF Grown
<1> QED BY <1>2 DEF Accounts

\* An assignment to the mirror, together with fields of no account.
LEMMA SlotCleared ==
    ASSUME NEW a, Accounts(a), NEW b, NEW q, IsAdapter(b), b.mirror = q,
           b.active = a.active, b.waiting = a.waiting, b.outcome = a.outcome,
           Queue(q), q.local = a.mirror.local
    PROVE  Accounts(b)
BY MirrorSwapped

\* finish_prompts closes the accounts of the active prompts.
LEMMA FinishAccounts ==
    ASSUME NEW a, Accounts(a), NEW reason \in Answers
    PROVE  Accounts(FinishPrompts(a, reason))
<1> DEFINE b == FinishPrompts(a, reason)
<1>1. /\ IsAdapter(b) /\ b.mirror = a.mirror /\ b.active = {}
      /\ b.waiting = a.waiting
      /\ b.outcome = Answering(a.outcome, a.active, a.active, reason)
  BY FinishPromptsFields DEF Accounts
<1>2. Balanced(IdsOf(a.mirror.local), {}, a.waiting,
               Answering(a.outcome, a.active, a.active, reason))
  BY ActiveAnswered DEF Accounts
<1> HIDE DEF b
<1>3. Accounts(b)
  BY <1>1, <1>2 DEF Accounts
<1> QED BY <1>3 DEF b

\* take_active_prompt closes one account.
LEMMA TakeAccounts ==
    ASSUME NEW a, Accounts(a), NEW id, NEW reason \in Answers
    PROVE  Accounts(TakeActivePrompt(a, id, reason))
<1> DEFINE b == TakeActivePrompt(a, id, reason)
           out == [a.outcome EXCEPT ![id] = reason]
<1>1. CASE id \notin a.active
  BY <1>1 DEF TakeActivePrompt
<1>2. CASE id \in a.active
  <2>1. /\ IsAdapter(b) /\ b.mirror = a.mirror /\ b.active = a.active \ {id}
        /\ b.waiting = a.waiting /\ b.outcome = out
    BY <1>2, TakeActiveFields DEF Accounts
  <2>2. Balanced(IdsOf(a.mirror.local), a.active \ {id}, a.waiting, out)
    BY <1>2, ActiveAnswered DEF Accounts
  <2> HIDE DEF b, out
  <2>3. Accounts(b)
    BY <2>1, <2>2 DEF Accounts
  <2> QED BY <2>3 DEF b
<1> QED BY <1>1, <1>2

\* Rows leave the local queue and their prompts are answered.
LEMMA WithdrawAccounts ==
    ASSUME NEW a, Accounts(a), NEW b, NEW gone, NEW reason \in Answers,
           IsAdapter(b), Queue(b.mirror),
           b.active = a.active, b.waiting = a.waiting \ gone,
           b.outcome = Answering(a.outcome, a.waiting, gone, reason),
           IdsOf(b.mirror.local) = IdsOf(a.mirror.local) \ gone
    PROVE  Accounts(b)
<1>1. Balanced(IdsOf(a.mirror.local) \ gone, a.active, a.waiting \ gone, b.outcome)
  BY WaitingAnswered DEF Accounts
<1> QED BY <1>1 DEF Accounts

\* Dropping the queue closes every account.
LEMMA DropAccounts ==
    ASSUME NEW a, Accounts(a)
    PROVE  Accounts(DropEverything(a))
<1> DEFINE q == ClearMirror(ClearRunning(ClearLocal(a.mirror)))
           gone == IdsOf(a.mirror.local)
           b == [a EXCEPT !.mirror = q]
           reason == "Cancelled"
           c == FinishQueuedEntries(b, gone, reason)
           d == FinishPrompts(c, reason)
           e == CompleteServerTurn(d, a.mirror.running)
<1>0. IsAdapter(a) /\ Queue(a.mirror)
  BY DEF Accounts
<1>1. DropEverything(a) = e
  BY DEF DropEverything
<1>2. Queue(q) /\ IdsOf(q.local) = {}
  BY <1>0, Dropped
<1> HIDE DEF q
<1>3. /\ IsAdapter(b) /\ b.mirror = q /\ b.active = a.active
      /\ b.waiting = a.waiting /\ b.outcome = a.outcome
  BY <1>0 DEF IsAdapter, AdapterFields
<1> HIDE DEF b, gone
<1>9. reason \in Answers
  BY DEF Answers
<1> HIDE DEF reason
<1>4. /\ IsAdapter(c) /\ c.mirror = q /\ c.active = a.active
      /\ c.waiting = a.waiting \ gone
      /\ c.outcome = Answering(a.outcome, a.waiting, gone, reason)
  BY <1>3, FinishQueuedFields
<1> HIDE DEF c
<1>5. IdsOf(c.mirror.local) = IdsOf(a.mirror.local) \ gone
  BY <1>2, <1>4 DEF gone
<1>6. Accounts(c)
  BY <1>2, <1>4, <1>5, <1>9, WithdrawAccounts
<1>7. Accounts(d)
  BY <1>6, <1>9, FinishAccounts
<1> HIDE DEF d
<1>8. Accounts(e)
  BY <1>7, CompleteFields, SameAccounts DEF Accounts
<1> QED BY <1>1, <1>8

\* Replacing the bootstrap closes every account.
LEMMA ReplaceAccounts ==
    ASSUME NEW a, Accounts(a)
    PROVE  Accounts(ReplaceBootstrap(a))
<1> DEFINE w == a.waiting
           reason == "Cancelled"
           c == FinishQueuedEntries(a, w, reason)
           b == [c EXCEPT !.mirror = EmptyMirror, !.agentRunning = FALSE,
                          !.cancelling = FALSE]
           out == Answering(a.outcome, a.waiting, w, reason)
<1>0. /\ IsAdapter(a) /\ Queue(a.mirror)
      /\ Balanced(IdsOf(a.mirror.local), a.active, a.waiting, a.outcome)
  BY DEF Accounts
<1>1. ReplaceBootstrap(a) = b
  BY DEF ReplaceBootstrap
<1>2. reason \in Answers /\ a.waiting \ w = {}
  BY DEF Answers
<1> HIDE DEF reason, w
<1>3. /\ IsAdapter(c) /\ c.active = a.active /\ c.waiting = a.waiting \ w
      /\ c.outcome = out
  BY <1>0, FinishQueuedFields
<1> HIDE DEF c
<1>4. /\ IsAdapter(b) /\ b.mirror = EmptyMirror /\ b.active = c.active
      /\ b.waiting = c.waiting /\ b.outcome = c.outcome
  BY <1>3 DEF IsAdapter, AdapterFields
<1> HIDE DEF b
<1>5. Queue(EmptyMirror) /\ IdsOf(EmptyMirror.local) = {}
  BY <1>0, Dropped
<1>6. Balanced(IdsOf(a.mirror.local) \ w, a.active, a.waiting \ w, c.outcome)
  BY <1>0, <1>2, <1>3, WaitingAnswered
<1> HIDE DEF out
<1>7. Balanced({}, b.active, b.waiting, b.outcome)
  BY <1>2, <1>3, <1>4, <1>6 DEF Balanced
<1>8. Accounts(b)
  BY <1>4, <1>5, <1>7 DEF Accounts
<1> QED BY <1>1, <1>8

\* A row leaves the local queue, and its prompt becomes active.
LEMMA ActivateAccounts ==
    ASSUME NEW a, Accounts(a), NEW id, NEW c, c = ActivateQueuedClient(a, id),
           NEW b, IsAdapter(b), Queue(b.mirror),
           IdsOf(b.mirror.local) = IdsOf(a.mirror.local) \ {id},
           b.waiting = c.waiting, b.active = c.active, b.outcome = c.outcome
    PROVE  Accounts(b)
<1>0. /\ IsAdapter(a)
      /\ Balanced(IdsOf(a.mirror.local), a.active, a.waiting, a.outcome)
  BY DEF Accounts
<1>1. CASE id \in a.waiting
  <2>1. /\ c.outcome = a.outcome /\ c.waiting = a.waiting \ {id}
        /\ c.active = a.active \cup {id}
    BY <1>0, <1>1, ActivateFields
  <2>2. Balanced(IdsOf(a.mirror.local) \ {id}, a.active \cup {id}, a.waiting \ {id},
                 a.outcome)
    BY <1>0, <1>1, Activated
  <2> QED BY <2>1, <2>2 DEF Accounts
<1>2. CASE id \notin a.waiting
  <2>1. c = a
    BY <1>2 DEF ActivateQueuedClient
  <2>2. Balanced(IdsOf(a.mirror.local) \ {id}, a.active, a.waiting, a.outcome)
    BY <1>0, <1>2, Activated
  <2> QED BY <2>1, <2>2 DEF Accounts
<1> QED BY <1>1, <1>2

-----------------------------------------------------------------------------
(* The steps.                                                              *)

\* A prompt arrives: it runs, or it is queued with its waiter.
LEMMA PromptAccounts ==
    ASSUME Accounts(ad), NEW p \in Clients, NEW lane \in Lanes, Prompt(p, lane)
    PROVE  Accounts(ad')
<1> DEFINE row == Row(p, p, lane, "Client")
           q == EnqueueLocal(ad.mirror, row)
           r == SetRunningPrimary(ad.mirror, p, p, "Client")
           out == [ad.outcome EXCEPT ![p] = "open"]
<1>0. /\ IsAdapter(ad) /\ Queue(ad.mirror) /\ ad.outcome[p] = "new"
      /\ Balanced(IdsOf(ad.mirror.local), ad.active, ad.waiting, ad.outcome)
  BY DEF Accounts, Prompt
<1>1. row \in Held /\ row.id = p
  BY HeldRows
<1>2. Queue(q) /\ IdsOf(q.local) = IdsOf(ad.mirror.local) \cup {p}
  BY <1>0, <1>1, Enqueued
<1>3. Queue(r) /\ r.local = ad.mirror.local
  BY <1>0, LocalUntouched DEF SetRunningPrimary
<1>4. /\ Balanced(IdsOf(ad.mirror.local) \cup {p}, ad.active, ad.waiting \cup {p}, out)
      /\ Balanced(IdsOf(ad.mirror.local), ad.active \cup {p}, ad.waiting, out)
  BY <1>0, Opened
<1>5. \/ ad' = [ad EXCEPT !.mirror = q, !.waiting = @ \cup {p}, !.outcome[p] = "open"]
      \/ ad' = [ad EXCEPT !.mirror = r, !.agentRunning = TRUE,
                          !.active = @ \cup {p}, !.outcome[p] = "open"]
  BY DEF Prompt
<1> HIDE DEF q, r
<1>6. CASE ad' = [ad EXCEPT !.mirror = q, !.waiting = @ \cup {p}, !.outcome[p] = "open"]
  <2>1. /\ IsAdapter(ad') /\ ad'.mirror = q /\ ad'.active = ad.active
        /\ ad'.waiting = ad.waiting \cup {p} /\ ad'.outcome = out
    BY <1>0, <1>6 DEF IsAdapter, AdapterFields
  <2> HIDE DEF out
  <2> QED BY <1>2, <1>4, <2>1 DEF Accounts
<1>7. CASE ad' = [ad EXCEPT !.mirror = r, !.agentRunning = TRUE,
                            !.active = @ \cup {p}, !.outcome[p] = "open"]
  <2>1. /\ IsAdapter(ad') /\ ad'.mirror = r /\ ad'.active = ad.active \cup {p}
        /\ ad'.waiting = ad.waiting /\ ad'.outcome = out
    BY <1>0, <1>7 DEF IsAdapter, AdapterFields
  <2> HIDE DEF out
  <2> QED BY <1>3, <1>4, <2>1 DEF Accounts
<1> QED BY <1>5, <1>6, <1>7

\* Pi's arrays, and the events that carry them, are sequences.
PiFields == {"up", "streaming", "steering", "followUp", "recovery", "goal"}
Arrays(x) == DOMAIN x = PiFields /\ IsSeq(x.steering) /\ IsSeq(x.followUp)
Readable(e) == IsSeq(e.steering) /\ IsSeq(e.followUp) /\ e.lane \in RowLanes
Unread(es) == IsSeq(es) /\ \A i \in DOMAIN es : Readable(es[i])

\* The inductive invariant.
SchedInv == Accounts(ad) /\ Arrays(pi) /\ Unread(events)

\* A continuation of the goal is no prompt of the client.
LEMMA MaybeContinueAccounts ==
    ASSUME NEW o, NEW a, Accounts(a), Arrays(pi), MaybeContinueGoal(o, a)
    PROVE  Accounts(ad') /\ Arrays(pi')
<1>1. \/ ad' = a
      \/ \E x : ad' = [a EXCEPT !.host = x]
  <2> DEFINE h == ApplyControl(a.host, pi.goal)
             stops == /\ QueueIsEmpty(a.mirror) /\ pi.goal.status = "active"
                      /\ h.armed
             x == IF stops THEN NoGoal ELSE h
  <2>1. ad' = IF ~QueueIsEmpty(a.mirror) THEN a ELSE [a EXCEPT !.host = x]
    BY DEF MaybeContinueGoal
  <2> HIDE DEF x
  <2> QED BY <2>1
<1>2. Accounts(ad')
  BY <1>1, RecordFields, SameAccounts DEF Accounts
<1>3. pi' = pi \/ pi' = [pi EXCEPT !.goal.status = "paused"]
  BY DEF MaybeContinueGoal
<1>4. Arrays(pi')
  BY <1>3 DEF Arrays, PiFields
<1> QED BY <1>2, <1>4

\* dispatch_next_queued: the waiter of the dispatched row becomes active.
LEMMA DispatchAccounts ==
    ASSUME NEW o, NEW a, Accounts(a), Arrays(pi), DispatchNextQueued(o, a)
    PROVE  Accounts(ad') /\ Arrays(pi')
<1>0. IsAdapter(a) /\ Queue(a.mirror)
  BY DEF Accounts
<1>1. CASE NothingDispatched(o, a)
  <2>1. CASE MaybeContinueGoal(o, a)
    BY <2>1, MaybeContinueAccounts
  <2>2. CASE pi' = pi /\ (ad' = a \/ \E id : ad' = RecordContinuation(a, id))
    BY <1>0, <2>2, RecordFields, SameAccounts
  <2>3. MaybeContinueGoal(o, a)
        \/ (pi' = pi /\ (ad' = a \/ \E id : ad' = RecordContinuation(a, id)))
    BY <1>1 DEF NothingDispatched
  <2> QED BY <2>1, <2>2, <2>3
<1>2. CASE ~(AdapterBusy(a) \/ a.mirror.local = << >>)
  <2> DEFINE row == Head(a.mirror.local)
             id == row.id
             c == ActivateQueuedClient(a, id)
             q == PopNextLocal(a.mirror)
             r == SetRunning(q, row)
  <2>1. a.mirror.local # << >> /\ pi' = pi
        /\ ad' = [c EXCEPT !.agentRunning = TRUE, !.mirror = SetRunning(PopNextLocal(@), row)]
    BY <1>2 DEF DispatchNextQueued
  <2>2. /\ Queue(q) /\ id \in IdsOf(a.mirror.local)
        /\ IdsOf(q.local) = IdsOf(a.mirror.local) \ {id}
    BY <1>0, <2>1, Popped
  <2>3. IsAdapter(c) /\ c.mirror = a.mirror
    BY <1>0, ActivateMirror
  <2> HIDE DEF row, id
  <2>4. Queue(r) /\ r.local = q.local
    BY <2>2, LocalUntouched
  <2>5. c = ActivateQueuedClient(a, id)
    OBVIOUS
  <2> HIDE DEF c
  <2>6. ad' = [c EXCEPT !.agentRunning = TRUE, !.mirror = r]
    BY <2>1, <2>3 DEF IsAdapter, AdapterFields
  <2> HIDE DEF q, r
  <2>7. /\ IsAdapter(ad') /\ ad'.mirror = r /\ ad'.active = c.active
        /\ ad'.waiting = c.waiting /\ ad'.outcome = c.outcome
    BY <2>3, <2>6 DEF IsAdapter, AdapterFields
  <2>8. Queue(ad'.mirror) /\ IdsOf(ad'.mirror.local) = IdsOf(a.mirror.local) \ {id}
    BY <2>2, <2>4, <2>7
  <2>9. Accounts(ad')
    BY <2>5, <2>7, <2>8, ActivateAccounts
  <2> QED BY <2>1, <2>9
<1> QED BY <1>1, <1>2 DEF DispatchNextQueued

\* A steered row leaves the queue and its prompt becomes active.
LEMMA SteerAccounts ==
    ASSUME NEW o, NEW a, Accounts(a), NEW i \in DOMAIN a.mirror.local, Steer(o, a, i)
    PROVE  Accounts(ad')
<1> DEFINE row == a.mirror.local[i]
           id == row.id
           c == ActivateQueuedClient(a, id)
           q == TakeLocal(a.mirror, i)
           new == [row EXCEPT !.lane = "Steering"]
           r == Reserve(q, new)
<1>0. IsAdapter(a) /\ Queue(a.mirror)
  BY DEF Accounts
<1>1. ad' = [c EXCEPT !.mirror = Reserve(TakeLocal(@, i), new)]
  BY DEF Steer
<1>2. Queue(q) /\ IdsOf(q.local) = IdsOf(a.mirror.local) \ {id}
  BY <1>0, Taken
<1>3. IsAdapter(c) /\ c.mirror = a.mirror
  BY <1>0, ActivateMirror
<1> HIDE DEF row, id, new
<1>4. Queue(r) /\ r.local = q.local
  BY <1>2, LocalUntouched
<1>5. c = ActivateQueuedClient(a, id)
  OBVIOUS
<1> HIDE DEF c
<1>6. ad' = [c EXCEPT !.mirror = r]
  BY <1>1, <1>3 DEF IsAdapter, AdapterFields
<1> HIDE DEF q, r
<1>7. /\ IsAdapter(ad') /\ ad'.mirror = r /\ ad'.active = c.active
      /\ ad'.waiting = c.waiting /\ ad'.outcome = c.outcome
  BY <1>3, <1>6 DEF IsAdapter, AdapterFields
<1>8. Queue(ad'.mirror) /\ IdsOf(ad'.mirror.local) = IdsOf(a.mirror.local) \ {id}
  BY <1>2, <1>4, <1>7
<1> QED BY <1>5, <1>7, <1>8, ActivateAccounts

\* The client interjects a row.
LEMMA InterjectAccounts ==
    ASSUME Accounts(ad), NEW p, Interject(p)
    PROVE  Accounts(ad')
<1> DEFINE i == LocalIndex(ad.mirror, p, AnyVersion)
           row == ad.mirror.local[i]
           q == TakeLocal(ad.mirror, i)
           r == PushFrontLocal(q, row)
<1>0. IsAdapter(ad) /\ Queue(ad.mirror) /\ ad.mirror.local \in Seq(Held)
  BY DEF Accounts, Queue
<1>1. i # 0 => i \in DOMAIN ad.mirror.local /\ row.id = p
  BY <1>0, LocalIndexFinds
<1>2. i # 0 /\ (\/ Steer(InterjectTask(p), ad, i)
                \/ ad' = [ad EXCEPT !.mirror = PushFrontLocal(TakeLocal(@, i), @.local[i])])
  BY DEF Interject
<1> HIDE DEF i
<1>3. CASE Steer(InterjectTask(p), ad, i)
  BY <1>1, <1>2, <1>3, SteerAccounts
<1>4. CASE ad' = [ad EXCEPT !.mirror = PushFrontLocal(TakeLocal(@, i), @.local[i])]
  <2>1. /\ Queue(q) /\ row \in Held /\ row.id \in IdsOf(ad.mirror.local)
        /\ IdsOf(q.local) = IdsOf(ad.mirror.local) \ {row.id}
    BY <1>0, <1>1, <1>2, Taken
  <2>2. Queue(r) /\ IdsOf(r.local) = IdsOf(q.local) \cup {row.id}
    BY <2>1, PushedFront
  <2>3. ad' = [ad EXCEPT !.mirror = r]
    BY <1>0, <1>4 DEF IsAdapter, AdapterFields
  <2>4. IdsOf(r.local) = IdsOf(ad.mirror.local)
    BY <2>1, <2>2
  <2> HIDE DEF r
  <2>5. /\ IsAdapter(ad') /\ ad'.mirror = r /\ ad'.active = ad.active
        /\ ad'.waiting = ad.waiting /\ ad'.outcome = ad.outcome
    BY <1>0, <2>3 DEF IsAdapter, AdapterFields
  <2> QED BY <2>2, <2>4, <2>5, MirrorSwapped
<1> QED BY <1>2, <1>3, <1>4

\* flush_pending_steering steers the first local row of the lane.
LEMMA FlushAccounts ==
    ASSUME Accounts(ad), FlushPendingSteering(ad)
    PROVE  Accounts(ad')
<1> DEFINE i == NextLocalInLane(ad.mirror, "Steering")
<1>0. ad.mirror.local \in Seq(Held)
  BY DEF Accounts, Queue
<1>1. i # 0 => i \in DOMAIN ad.mirror.local
  BY <1>0, LaneIndexFinds
<1>2. ad' = ad \/ (i # 0 /\ Steer(Consumer, ad, i))
  BY DEF FlushPendingSteering
<1> HIDE DEF i
<1> QED BY <1>1, <1>2, SteerAccounts

\* The client removes rows, and their prompts are answered.
LEMMA RemoveAccounts ==
    ASSUME Accounts(ad), NEW ids, RemoveRows(ids)
    PROVE  Accounts(ad')
<1> DEFINE reason == "Cancelled"
           c == FinishQueuedEntries(ad, ids, reason)
           l == Without(ad.mirror.local, ids)
           q == [ad.mirror EXCEPT !.local = l]
           w == c.withdrawn \/ ~(ids \subseteq Clients)
<1>0. /\ IsAdapter(ad) /\ Queue(ad.mirror) /\ IsMirror(ad.mirror)
      /\ ad.mirror.seq \in Nat
      /\ ad.mirror.local \in Seq(Held) /\ Distinct(ad.mirror.local)
  BY DEF Accounts, Queue
<1>1. ad' = [c EXCEPT !.mirror.local = Without(@, ids),
                      !.withdrawn = @ \/ ~(ids \subseteq Clients)]
  BY DEF RemoveRows
<1>2. reason \in Answers
  BY DEF Answers
<1> HIDE DEF reason
<1>3. /\ IsAdapter(c) /\ c.mirror = ad.mirror /\ c.active = ad.active
      /\ c.waiting = ad.waiting \ ids
      /\ c.outcome = Answering(ad.outcome, ad.waiting, ids, reason)
  BY <1>0, FinishQueuedFields
<1> HIDE DEF c
<1>4. l \in Seq(Held) /\ Distinct(l) /\ IdsOf(l) = IdsOf(ad.mirror.local) \ ids
  BY <1>0, WithoutIds
<1>5. "local" \in DOMAIN ad.mirror
  BY <1>0 DEF IsMirror, Mirror
<1>6. /\ IsAdapter(ad') /\ ad'.mirror = q /\ ad'.active = c.active
      /\ ad'.waiting = c.waiting /\ ad'.outcome = c.outcome
  BY <1>1, <1>3, <1>5 DEF IsAdapter, AdapterFields
<1> HIDE DEF l
<1>7. Queue(q) /\ q.local = l
  <2>1. q = Mirror(l, ad.mirror.pi, ad.mirror.reserved, ad.mirror.parked,
                   ad.mirror.running, ad.mirror.seq)
    BY <1>0, MirrorExcept
  <2> HIDE DEF q
  <2> QED BY <1>0, <1>4, <2>1, QueueOf
<1> HIDE DEF q
<1> QED BY <1>2, <1>3, <1>4, <1>6, <1>7, WithdrawAccounts

\* The other assignments to AdapterState.
LEMMA OtherFields ==
    ASSUME NEW a, Accounts(a)
    PROVE  /\ \A x : Accounts([a EXCEPT !.bashRunning = x])
           /\ \A x : Accounts([a EXCEPT !.cancelling = x])
           /\ \A x : Accounts([a EXCEPT !.host = x])
           /\ \A x, y : Accounts([a EXCEPT !.agentRunning = x, !.cancelling = y])
<1>0. IsAdapter(a)
  BY DEF Accounts
<1>1. ASSUME NEW x, NEW y
      PROVE  /\ Same([a EXCEPT !.bashRunning = x], a)
             /\ Same([a EXCEPT !.cancelling = x], a)
             /\ Same([a EXCEPT !.host = x], a)
             /\ Same([a EXCEPT !.agentRunning = x, !.cancelling = y], a)
  BY <1>0 DEF Same, IsAdapter, AdapterFields
<1> QED BY <1>1, SameAccounts

\* The slot is cleared, and flags with it.
LEMMA ClearAccounts ==
    ASSUME NEW a, Accounts(a), NEW x, NEW y
    PROVE  /\ Accounts([a EXCEPT !.agentRunning = x, !.cancelling = y,
                                 !.mirror = ClearRunning(@)])
           /\ Accounts([a EXCEPT !.agentRunning = x, !.mirror = ClearRunning(@)])
<1> DEFINE q == ClearRunning(a.mirror)
           b == [a EXCEPT !.agentRunning = x, !.cancelling = y,
                          !.mirror = ClearRunning(@)]
           c == [a EXCEPT !.agentRunning = x, !.mirror = ClearRunning(@)]
<1>0. IsAdapter(a) /\ Queue(a.mirror)
  BY DEF Accounts
<1>1. Queue(q) /\ q.local = a.mirror.local
  BY <1>0, LocalUntouched
<1>2. /\ IsAdapter(b) /\ b.mirror = q /\ b.active = a.active
      /\ b.waiting = a.waiting /\ b.outcome = a.outcome
  BY <1>0 DEF IsAdapter, AdapterFields
<1>3. /\ IsAdapter(c) /\ c.mirror = q /\ c.active = a.active
      /\ c.waiting = a.waiting /\ c.outcome = a.outcome
  BY <1>0 DEF IsAdapter, AdapterFields
<1> HIDE DEF b, c, q
<1>4. Accounts(b) /\ Accounts(c)
  BY <1>1, <1>2, <1>3, SlotCleared
<1> QED BY <1>4 DEF b, c

\* A prompt that Pi refused is answered.
LEMMA DirectFailsAccounts ==
    ASSUME Accounts(ad), NEW p, DirectFails(p)
    PROVE  Accounts(ad')
<1> DEFINE reason == "Error"
           c == TakeActivePrompt(ad, p, reason)
           r == ReleaseReservation(c.mirror, p)
           q == ClearRunning(r)
<1>1. ad' = [c EXCEPT !.agentRunning = FALSE,
                      !.mirror = ClearRunning(ReleaseReservation(@, p))]
  BY DEF DirectFails
<1>2. reason \in Answers
  BY DEF Answers
<1> HIDE DEF reason
<1>3. Accounts(c)
  BY <1>2, TakeAccounts
<1> HIDE DEF c
<1>4. IsAdapter(c) /\ Queue(c.mirror)
  BY <1>3 DEF Accounts
<1>5. Queue(r) /\ r.local = c.mirror.local
  BY <1>4, LocalUntouched
<1>6. Queue(q) /\ q.local = r.local
  BY <1>5, LocalUntouched
<1>7. /\ IsAdapter(ad') /\ ad'.mirror = q /\ ad'.active = c.active
      /\ ad'.waiting = c.waiting /\ ad'.outcome = c.outcome
  BY <1>1, <1>4 DEF IsAdapter, AdapterFields
<1> HIDE DEF q
<1> QED BY <1>3, <1>5, <1>6, <1>7, SlotCleared

\* A steered row that Pi refused: its prompt is answered.
LEMMA SteerFailsAccounts ==
    ASSUME Accounts(ad), NEW o, SteerFails(o)
    PROVE  Accounts(ad')
<1> DEFINE id == task[o].row.id
           reason == "Cancelled"
           c == TakeActivePrompt(ad, id, reason)
           q == ReleaseReservation(c.mirror, id)
<1>1. ad' = [c EXCEPT !.mirror = ReleaseReservation(@, id)]
  BY DEF SteerFails
<1>2. reason \in Answers
  BY DEF Answers
<1> HIDE DEF reason, id
<1>3. Accounts(c)
  BY <1>2, TakeAccounts
<1> HIDE DEF c
<1>4. IsAdapter(c) /\ Queue(c.mirror)
  BY <1>3 DEF Accounts
<1>5. Queue(q) /\ q.local = c.mirror.local
  BY <1>4, LocalUntouched
<1>6. /\ IsAdapter(ad') /\ ad'.mirror = q /\ ad'.active = c.active
      /\ ad'.waiting = c.waiting /\ ad'.outcome = c.outcome
  BY <1>1, <1>4 DEF IsAdapter, AdapterFields
<1> HIDE DEF q
<1> QED BY <1>3, <1>5, <1>6, SlotCleared

\* A dispatched row that Pi refused: its prompt is answered.
LEMMA DispatchFailsAccounts ==
    ASSUME Accounts(ad), NEW o, DispatchFails(o)
    PROVE  Accounts(ad')
<1> DEFINE row == task[o].row
           reason == "Cancelled"
           c == TakeActivePrompt(ad, row.id, reason)
           a == [c EXCEPT !.agentRunning = FALSE, !.mirror = ClearRunning(@)]
<1>1. ad' = a \/ ad' = SendServerPromptComplete(a, row)
  BY DEF DispatchFails
<1>2. reason \in Answers
  BY DEF Answers
<1> HIDE DEF reason, row
<1>3. Accounts(c)
  BY <1>2, TakeAccounts
<1> HIDE DEF c
<1>4. Accounts(a)
  BY <1>3, ClearAccounts
<1> HIDE DEF a
<1>5. Same(SendServerPromptComplete(a, row), a)
  BY <1>4, CompleteFields DEF Accounts
<1> QED BY <1>1, <1>4, <1>5, SameAccounts

\* A turn ends: its prompts are answered and the next row dispatched.
LEMMA TurnEndsAccounts ==
    ASSUME Accounts(ad), Arrays(pi), NEW o, TurnEnds(o)
    PROVE  Accounts(ad') /\ Arrays(pi')
<1> DEFINE row == task[o].row
           reason == "EndTurn"
           c == FinishPrompts(ad, reason)
           a == CompleteServerTurn(c, row)
<1>1. DispatchNextQueued(o, a) \/ (ad' = a /\ pi' = pi)
  BY DEF TurnEnds
<1>2. reason \in Answers
  BY DEF Answers
<1> HIDE DEF reason, row
<1>3. Accounts(c)
  BY <1>2, FinishAccounts
<1> HIDE DEF c
<1>4. Same(a, c)
  BY <1>3, CompleteFields DEF Accounts
<1> HIDE DEF a
<1>5. Accounts(a)
  BY <1>3, <1>4, SameAccounts
<1> QED BY <1>1, <1>5, DispatchAccounts

\* A message of an extension, or a continuation of the goal, is queued.
LEMMA GeneratedAccounts ==
    ASSUME NEW a, Accounts(a), NEW text \in HostTexts,
           NEW lane \in RowLanes, NEW x
    PROVE  /\ Accounts([a EXCEPT !.mirror =
                           EnqueueGenerated(@, text, lane, "Extension")])
           /\ Accounts([a EXCEPT !.mirror =
                           EnqueueGenerated(@, text, lane, "Extension"),
                                 !.continued = x])
<1> DEFINE q == EnqueueGenerated(a.mirror, text, lane, "Extension")
           b == [a EXCEPT !.mirror = EnqueueGenerated(@, text, lane, "Extension")]
           c == [a EXCEPT !.mirror = EnqueueGenerated(@, text, lane, "Extension"),
                          !.continued = x]
<1>0. IsAdapter(a) /\ Queue(a.mirror)
  BY DEF Accounts
<1>1. Queue(q) /\ Grown(q.local, a.mirror.local)
  <2> DEFINE g == a.mirror
  <2>1. Queue(g) /\ q = EnqueueGenerated(g, text, lane, "Extension")
    BY <1>0
  <2> HIDE DEF q, g
  <2>2. Queue(q) /\ Grown(q.local, g.local)
    BY <2>1, GeneratedQueued
  <2> QED BY <2>2 DEF g
<1>2. /\ IsAdapter(b) /\ b.mirror = q /\ b.active = a.active
      /\ b.waiting = a.waiting /\ b.outcome = a.outcome
  BY <1>0 DEF IsAdapter, AdapterFields
<1>3. /\ IsAdapter(c) /\ c.mirror = q /\ c.active = a.active
      /\ c.waiting = a.waiting /\ c.outcome = a.outcome
  BY <1>0 DEF IsAdapter, AdapterFields
<1> HIDE DEF b, c, q
<1>4. Accounts(b) /\ Accounts(c)
  BY <1>1, <1>2, <1>3, MirrorSwapped
<1> QED BY <1>4 DEF b, c

-----------------------------------------------------------------------------
(* Events and Pi's arrays.                                                 *)

\* A sequence over a set is one over a larger set.
LEMMA SeqMore ==
    ASSUME NEW S, NEW T, S \subseteq T, NEW s \in Seq(S)
    PROVE  s \in Seq(T)
<1>1. Len(s) \in Nat /\ s \in [1 .. Len(s) -> S]
  OBVIOUS
<1>2. s \in [1 .. Len(s) -> T]
  BY <1>1
<1> QED BY <1>1, <1>2

\* Operations on sequences of whatever.
LEMMA SeqOps ==
    /\ IsSeq(<< >>)
    /\ \A s, x : IsSeq(s) => IsSeq(Append(s, x))
    /\ \A s : IsSeq(s) /\ s # << >> => IsSeq(Tail(s))
<1>1. IsSeq(<< >>)
  <2>1. << >> \in Seq({})
    OBVIOUS
  <2> QED BY <2>1 DEF IsSeq
<1>2. ASSUME NEW s, NEW x, IsSeq(s)
      PROVE  IsSeq(Append(s, x))
  <2>1. PICK S : s \in Seq(S)
    BY <1>2 DEF IsSeq
  <2> DEFINE T == S \cup {x}
  <2>2. s \in Seq(T)
    BY <2>1, SeqMore
  <2>3. x \in T
    OBVIOUS
  <2> HIDE DEF T
  <2>4. Append(s, x) \in Seq(T)
    BY <2>2, <2>3
  <2> QED BY <2>4 DEF IsSeq
<1>3. ASSUME NEW s, IsSeq(s), s # << >>
      PROVE  IsSeq(Tail(s))
  <2>1. PICK S : s \in Seq(S)
    BY <1>3 DEF IsSeq
  <2>2. Tail(s) \in Seq(S)
    BY <1>3, <2>1
  <2> QED BY <2>2 DEF IsSeq
<1> QED BY <1>1, <1>2, <1>3

\* Events are read in order, and new ones come last.
LEMMA EventsRead ==
    ASSUME NEW es, Unread(es), es # << >>
    PROVE  Readable(Head(es)) /\ Unread(Tail(es))
<1>1. PICK S : es \in Seq(S)
  BY DEF Unread, IsSeq
<1>2. 1 \in DOMAIN es /\ Head(es) = es[1]
  BY <1>1
<1>3. \A i \in DOMAIN Tail(es) : i + 1 \in DOMAIN es /\ Tail(es)[i] = es[i + 1]
  BY <1>1
<1>4. IsSeq(Tail(es))
  BY SeqOps DEF Unread
<1> QED BY <1>2, <1>3, <1>4 DEF Unread

\* New events come behind the unread ones.
LEMMA EventsCome ==
    ASSUME NEW es, Unread(es), NEW new, Unread(new)
    PROVE  Unread(es \o new)
<1>1. PICK S : es \in Seq(S)
  BY DEF Unread, IsSeq
<1>2. PICK T : new \in Seq(T)
  BY DEF Unread, IsSeq
<1> DEFINE U == S \cup T
<1>3. es \in Seq(U) /\ new \in Seq(U)
  BY <1>1, <1>2, SeqMore
<1> HIDE DEF U
<1>4. es \o new \in Seq(U)
  BY <1>3
<1>5. \A i \in DOMAIN (es \o new) :
          \/ i \in DOMAIN es /\ (es \o new)[i] = es[i]
          \/ i - Len(es) \in DOMAIN new /\ (es \o new)[i] = new[i - Len(es)]
  BY <1>3
<1>6. \A i \in DOMAIN (es \o new) : Readable((es \o new)[i])
  BY <1>5 DEF Unread
<1> QED BY <1>4, <1>6 DEF Unread, IsSeq

\* The events that Pi sends are readable.
LEMMA NewEvents ==
    /\ Unread(<< >>)
    /\ \A e : Readable(e) => Unread(<<e>>)
    /\ \A e, d : Readable(e) /\ Readable(d) => Unread(<<e, d>>)
    /\ \A kind : Readable(Event(kind))
    /\ \A kind : \A lane \in Lanes : Readable([Event(kind) EXCEPT !.lane = lane])
<1>1. Unread(<< >>)
  BY SeqOps DEF Unread
<1>2. ASSUME NEW e, Readable(e) PROVE Unread(<<e>>)
  <2> DEFINE es == <<e>>
  <2>1. es \in Seq({e}) /\ \A i \in DOMAIN es : es[i] \in {e}
    OBVIOUS
  <2> HIDE DEF es
  <2>2. IsSeq(es)
    BY <2>1 DEF IsSeq
  <2>3. Unread(es)
    BY <1>2, <2>1, <2>2 DEF Unread
  <2> QED BY <2>3 DEF es
<1>3. ASSUME NEW e, NEW d, Readable(e), Readable(d) PROVE Unread(<<e, d>>)
  <2> DEFINE es == <<e, d>>
  <2>1. es \in Seq({e, d}) /\ \A i \in DOMAIN es : es[i] \in {e, d}
    OBVIOUS
  <2> HIDE DEF es
  <2>2. IsSeq(es)
    BY <2>1 DEF IsSeq
  <2>3. Unread(es)
    BY <1>3, <2>1, <2>2 DEF Unread
  <2> QED BY <2>3 DEF es
<1>4. ASSUME NEW kind PROVE Readable(Event(kind))
  BY SeqOps DEF Readable, Event, RowLanes
<1>5. ASSUME NEW kind, NEW lane \in Lanes
      PROVE  Readable([Event(kind) EXCEPT !.lane = lane])
  BY SeqOps DEF Readable, Event, RowLanes
<1> QED BY <1>1, <1>2, <1>3, <1>4, <1>5

\* An event with Pi's arrays is readable.
LEMMA ArraysAreReadable == Arrays(pi') => Readable(ArraysEvent)
<1> SUFFICES ASSUME Arrays(pi') PROVE Readable(ArraysEvent)
  OBVIOUS
<1> DEFINE s == pi'.steering
           f == pi'.followUp
<1>1. IsSeq(s) /\ IsSeq(f)
  BY DEF Arrays
<1> HIDE DEF s, f
<1>2. PICK e : e = [Event("queue_update") EXCEPT !.steering = s, !.followUp = f]
  OBVIOUS
<1>3. e.steering = s /\ e.followUp = f /\ e.lane = "none"
  BY <1>2 DEF Event
<1>4. Readable(e)
  BY <1>1, <1>3 DEF Readable, RowLanes
<1> QED BY <1>2, <1>4 DEF ArraysEvent, s, f

-----------------------------------------------------------------------------
(* Every step keeps the invariant.                                         *)

\* A request of the client.
LEMMA ClientInv ==
    ASSUME SchedInv, ClientStep
    PROVE  SchedInv'
<1>0. Accounts(ad) /\ Arrays(pi) /\ Unread(events)
  BY DEF SchedInv
<1>1. ASSUME NEW p \in Clients, NEW lane \in Lanes, Prompt(p, lane)
      PROVE  SchedInv'
  <2>1. Accounts(ad')
    BY <1>0, <1>1, PromptAccounts
  <2> QED BY <1>0, <1>1, <2>1 DEF Prompt, SchedInv
<1>2. ASSUME NEW p \in Clients, Interject(p)
      PROVE  SchedInv'
  <2>1. Accounts(ad')
    BY <1>0, <1>2, InterjectAccounts
  <2> QED BY <1>0, <1>2, <2>1 DEF Interject, SchedInv
<1>3. CASE Cancel
  <2>1. ad' = [DropEverything(ad) EXCEPT !.cancelling = TRUE] /\ UNCHANGED <<pi, events>>
    BY <1>3 DEF Cancel
  <2>2. Accounts(ad')
    BY <1>0, <2>1, DropAccounts, OtherFields
  <2> QED BY <1>0, <2>1, <2>2 DEF SchedInv
<1>4. ASSUME NEW ids, RemoveRows(ids)
      PROVE  SchedInv'
  <2>1. Accounts(ad')
    BY <1>0, <1>4, RemoveAccounts
  <2> QED BY <1>0, <1>4, <2>1 DEF RemoveRows, SchedInv
<1>5. CASE BashStarts
  <2>1. ad' = [ad EXCEPT !.bashRunning = TRUE] /\ UNCHANGED <<pi, events>>
    BY <1>5 DEF BashStarts
  <2>2. Accounts(ad')
    BY <1>0, <2>1, OtherFields
  <2> QED BY <1>0, <2>1, <2>2 DEF SchedInv
<1> QED BY <1>1, <1>2, <1>3, <1>4, <1>5 DEF ClientStep

\* A step of a prompt's own task.
LEMMA PromptInv ==
    ASSUME SchedInv, NEW p, PromptStep(p)
    PROVE  SchedInv'
<1>1. CASE DirectAccepted(p)
  BY <1>1 DEF DirectAccepted, SchedInv
<1>2. CASE DirectFails(p)
  <2>1. Accounts(ad')
    BY <1>2, DirectFailsAccounts DEF SchedInv
  <2> QED BY <1>2, <2>1 DEF DirectFails, SchedInv
<1> QED BY <1>1, <1>2 DEF PromptStep

\* Steps of a task that leave the adapter's state alone.
LEMMA TaskIdles ==
    ASSUME SchedInv, NEW o,
           \/ Dispatch(o) \/ SendSteer(o) \/ ProbeWakes(o) \/ SettlePolls(o)
           \/ SettleAgain(o)
    PROVE  SchedInv'
<1>1. UNCHANGED <<ad, pi, events>>
  BY DEF Dispatch, SendSteer, ProbeWakes, SettlePolls, SettleAgain
<1> QED BY <1>1 DEF SchedInv

\* A step of a spawned task.
LEMMA TaskInv ==
    ASSUME SchedInv, NEW o, TaskStep(o)
    PROVE  SchedInv'
<1>0. Accounts(ad) /\ Arrays(pi) /\ Unread(events)
  BY DEF SchedInv
<1>1. CASE Kick(o)
  <2>1. DispatchNextQueued(o, ad) /\ UNCHANGED events
    BY <1>1 DEF Kick
  <2>2. Accounts(ad') /\ Arrays(pi')
    BY <1>0, <2>1, DispatchAccounts
  <2> QED BY <1>0, <2>1, <2>2 DEF SchedInv
<1>2. CASE DispatchAccepted(o)
  <2>1. UNCHANGED <<pi, events>> /\ (ad' = ad \/ ad' = RecordContinuation(ad, task[o].goal))
    BY <1>2 DEF DispatchAccepted
  <2>2. Accounts(ad')
    BY <1>0, <2>1, RecordFields, SameAccounts DEF Accounts
  <2> QED BY <1>0, <2>1, <2>2 DEF SchedInv
<1>3. CASE DispatchFails(o)
  <2>1. Accounts(ad')
    BY <1>0, <1>3, DispatchFailsAccounts
  <2> QED BY <1>0, <1>3, <2>1 DEF DispatchFails, SchedInv
<1>4. CASE SteerAccepted(o)
  <2>1. UNCHANGED <<pi, events>> /\ (ad' = ad \/ FlushPendingSteering(ad))
    BY <1>4 DEF SteerAccepted
  <2>2. Accounts(ad')
    BY <1>0, <2>1, FlushAccounts
  <2> QED BY <1>0, <2>1, <2>2 DEF SchedInv
<1>5. CASE SteerFails(o)
  <2>1. Accounts(ad')
    BY <1>0, <1>5, SteerFailsAccounts
  <2> QED BY <1>0, <1>5, <2>1 DEF SteerFails, SchedInv
<1>6. CASE ProbeAnswered(o) \/ SettleConfirmed(o)
  <2> DEFINE b == [ad EXCEPT !.agentRunning = FALSE, !.cancelling = FALSE,
                             !.mirror = ClearRunning(@)]
  <2>1. UNCHANGED <<pi, events>> /\ (ad' = ad \/ ad' = b)
    BY <1>6 DEF ProbeAnswered, SettleConfirmed
  <2>b. Accounts(b)
    BY <1>0, ClearAccounts
  <2> HIDE DEF b
  <2>2. Accounts(ad')
    BY <1>0, <2>1, <2>b
  <2> QED BY <1>0, <2>1, <2>2 DEF SchedInv
<1>7. CASE TurnEnds(o)
  <2>1. Accounts(ad') /\ Arrays(pi')
    BY <1>0, <1>7, TurnEndsAccounts
  <2> QED BY <1>0, <1>7, <2>1 DEF TurnEnds, SchedInv
<1>8. CASE ContinueGoal(o)
  <2> DEFINE n == ad.continued + 1
  <2>1. /\ UNCHANGED <<pi, events>>
        /\ \/ ad' = RecordContinuation(ad, task[o].goal)
           \/ ad' = [ad EXCEPT !.mirror = EnqueueGenerated(@, "goal", "FollowUp",
                                                           "Extension"),
                               !.continued = n]
    BY <1>8 DEF ContinueGoal
  <2>2. "goal" \in HostTexts /\ "FollowUp" \in RowLanes
    BY DEF HostTexts, RowLanes, Lanes
  <2> HIDE DEF n
  <2>3. CASE ad' = RecordContinuation(ad, task[o].goal)
    BY <1>0, <2>1, <2>3, RecordFields, SameAccounts DEF Accounts, SchedInv
  <2>4. CASE ad' = [ad EXCEPT !.mirror = EnqueueGenerated(@, "goal", "FollowUp",
                                                          "Extension"),
                              !.continued = n]
    <3>1. Accounts([ad EXCEPT !.mirror = EnqueueGenerated(@, "goal", "FollowUp",
                                                          "Extension"),
                              !.continued = n])
      BY <1>0, <2>2, GeneratedAccounts
    <3> QED BY <1>0, <2>1, <2>4, <3>1 DEF SchedInv
  <2> QED BY <2>1, <2>3, <2>4
<1>9. CASE SettleGivesUp(o)
  <2> DEFINE b == [ad EXCEPT !.cancelling = FALSE]
  <2>1. UNCHANGED <<pi, events>> /\ (ad' = ad \/ ad' = b)
    BY <1>9 DEF SettleGivesUp
  <2>b. Accounts(b)
    BY <1>0, OtherFields
  <2> HIDE DEF b
  <2>2. Accounts(ad')
    BY <1>0, <2>1, <2>b
  <2> QED BY <1>0, <2>1, <2>2 DEF SchedInv
<1> QED BY <1>1, <1>2, <1>3, <1>4, <1>5, <1>6, <1>7, <1>8, <1>9, TaskIdles
        DEF TaskStep

\* The event that the consumer reads, and those that it leaves.
LEMMA NextRead ==
    ASSUME SchedInv, NEW kind, NextEvent(kind)
    PROVE  /\ Readable(Head(events)) /\ Unread(events') /\ pi' = pi
BY EventsRead DEF SchedInv, NextEvent

\* The consumer handles one event.
LEMMA ConsumerInv ==
    ASSUME SchedInv, ConsumerStep
    PROVE  SchedInv'
<1>0. Accounts(ad) /\ Arrays(pi) /\ Unread(events)
  BY DEF SchedInv
<1>k. ASSUME NEW kind, NextEvent(kind), Accounts(ad')
      PROVE  SchedInv'
  BY <1>0, <1>k, NextRead DEF SchedInv
<1>1. CASE AgentStart
  <2> DEFINE q == IF ad.active = {} THEN PromoteParkedRunning(ad.mirror) ELSE ad.mirror
  <2>1. NextEvent("agent_start")
        /\ (\/ ad' = ad
            \/ ad' = [ad EXCEPT !.agentRunning = TRUE, !.started = ad.active,
                                !.mirror = IF ad.active = {} THEN PromoteParkedRunning(@)
                                           ELSE @])
    BY <1>1 DEF AgentStart
  <2>2. Queue(q) /\ q.local = ad.mirror.local
    BY <1>0, PromoteUntouched DEF Accounts
  <2>3. CASE ad' = [ad EXCEPT !.agentRunning = TRUE, !.started = ad.active,
                              !.mirror = IF ad.active = {} THEN PromoteParkedRunning(@)
                                         ELSE @]
    <3>1. /\ IsAdapter(ad') /\ ad'.mirror = q /\ ad'.active = ad.active
          /\ ad'.waiting = ad.waiting /\ ad'.outcome = ad.outcome
      BY <1>0, <2>3 DEF Accounts, IsAdapter, AdapterFields
    <3> HIDE DEF q
    <3>2. Accounts(ad')
      BY <1>0, <2>2, <3>1, SlotCleared
    <3> QED BY <1>k, <2>1, <3>2
  <2> QED BY <1>0, <1>k, <2>1, <2>3
<1>2. CASE AgentSettled \/ StateChanged
  <2>1. (NextEvent("agent_settled") \/ NextEvent("state_changed")) /\ ad' = ad
    BY <1>2 DEF AgentSettled, StateChanged
  <2> QED BY <1>0, <1>k, <2>1
<1>3. CASE SlotIsCleared
  <2>1. /\ ad' = [ad EXCEPT !.agentRunning = FALSE, !.cancelling = FALSE,
                            !.mirror = ClearRunning(@)]
        /\ UNCHANGED <<pi, events>>
    BY <1>3 DEF SlotIsCleared
  <2>2. Accounts(ad')
    BY <1>0, <2>1, ClearAccounts
  <2> QED BY <1>0, <2>1, <2>2 DEF SchedInv
<1>4. CASE MessageEnd
  <2>1. NextEvent("message_end") /\ (ad' = ad \/ FlushPendingSteering(ad))
    BY <1>4 DEF MessageEnd
  <2>2. Accounts(ad')
    BY <1>0, <2>1, FlushAccounts
  <2> QED BY <1>k, <2>1, <2>2
<1>5. CASE QueueUpdate
  <2> DEFINE s == Head(events).steering
             f == Head(events).followUp
             q == ApplyQueueUpdate(ad.mirror, s, f)
  <2>1. /\ NextEvent("queue_update")
        /\ ad' = ad \/ ad' = [ad EXCEPT !.mirror = ApplyQueueUpdate(@, s, f)]
    BY <1>5 DEF QueueUpdate
  <2>2. IsSeq(s) /\ IsSeq(f)
    BY <2>1, NextRead DEF Readable
  <2> HIDE DEF s, f
  <2>3. Queue(q) /\ q.local = ad.mirror.local
    BY <1>0, <2>2, UpdateUntouched DEF Accounts
  <2>4. CASE ad' = [ad EXCEPT !.mirror = ApplyQueueUpdate(@, s, f)]
    <3>1. /\ IsAdapter(ad') /\ ad'.mirror = q /\ ad'.active = ad.active
          /\ ad'.waiting = ad.waiting /\ ad'.outcome = ad.outcome
      BY <1>0, <2>4 DEF Accounts, IsAdapter, AdapterFields
    <3> HIDE DEF q
    <3>2. Accounts(ad')
      BY <1>0, <2>3, <3>1, SlotCleared
    <3> QED BY <1>k, <2>1, <3>2
  <2> QED BY <1>0, <1>k, <2>1, <2>4
<1>6. CASE ExtensionMessage
  <2> DEFINE lane == Head(events).lane
             text == "ext"
             b == [ad EXCEPT !.mirror = EnqueueGenerated(@, text, lane, "Extension")]
  <2>1. NextEvent("extension") /\ (ad' = ad \/ ad' = b)
    BY <1>6 DEF ExtensionMessage
  <2>2. lane \in RowLanes /\ text \in HostTexts
    BY <2>1, NextRead DEF Readable, HostTexts
  <2> HIDE DEF lane, text
  <2>3. Accounts(b)
    BY <1>0, <2>2, GeneratedAccounts
  <2> HIDE DEF b
  <2> QED BY <1>0, <1>k, <2>1, <2>3
<1>7. CASE GoalMessage
  <2> DEFINE h == ApplyControl(ad.host, pi.goal)
  <2>1. NextEvent("goal") /\ ad' = [ad EXCEPT !.host = ApplyControl(@, pi.goal)]
    BY <1>7 DEF GoalMessage
  <2>2. ad' = [ad EXCEPT !.host = h]
    BY <2>1
  <2> HIDE DEF h
  <2>3. Accounts(ad')
    BY <1>0, <2>2, OtherFields
  <2> QED BY <1>k, <2>1, <2>3
<1>8. CASE Reloaded
  <2>1. UNCHANGED <<pi, events>> /\ (ad' = ad \/ ad' = ReplaceBootstrap(ad))
    BY <1>8 DEF Reloaded
  <2>2. Accounts(ad')
    BY <1>0, <2>1, ReplaceAccounts
  <2> QED BY <1>0, <2>1, <2>2 DEF SchedInv
<1>9. CASE ProcessExit
  <2>1. /\ events # << >> /\ events' = Tail(events)
        /\ ad' = [DropEverything(ad) EXCEPT !.agentRunning = FALSE, !.cancelling = FALSE]
        /\ pi' = [pi EXCEPT !.recovery = "due"]
    BY <1>9 DEF ProcessExit
  <2>2. Accounts(ad')
    BY <1>0, <2>1, DropAccounts, OtherFields
  <2>3. Arrays(pi')
    BY <1>0, <2>1 DEF Arrays, PiFields
  <2>4. Unread(events')
    BY <1>0, <2>1, EventsRead
  <2> QED BY <2>2, <2>3, <2>4 DEF SchedInv
<1> QED BY <1>1, <1>2, <1>3, <1>4, <1>5, <1>6, <1>7, <1>8, <1>9 DEF ConsumerStep

\* Pi's events and arrays; the adapter's state is not Pi's to change.
LEMMA PiInv ==
    ASSUME SchedInv, PiStep
    PROVE  SchedInv'
<1>0. Accounts(ad) /\ Arrays(pi) /\ Unread(events)
  BY DEF SchedInv
<1> DEFINE Brings(es) == Arrays(pi') /\ Unread(es) /\ Emit(es)
<1>b. ASSUME NEW es, Brings(es), ad' = ad
      PROVE  SchedInv'
  <2>1. events' = events \o es
    BY <1>b DEF Emit
  <2> QED BY <1>0, <1>b, <2>1, EventsCome DEF SchedInv
<1>n. /\ \A kind : Unread(<<Event(kind)>>)
      /\ Arrays(pi') => Unread(<<ArraysEvent>>)
      /\ Arrays(pi') => \A kind : /\ Unread(<<ArraysEvent, Event(kind)>>)
                                  /\ Unread(<<Event(kind)>> \o <<ArraysEvent>>)
      /\ \A kind : Unread(<<Event(kind)>> \o << >>)
      /\ \A kind, more : Unread(<<Event(kind)>> \o <<Event(more)>>)
  BY NewEvents, ArraysAreReadable, EventsCome
<1>1. ASSUME NEW o, PiReplies(o)
      PROVE  SchedInv'
  <2>1. CASE PiAccepts(o)
    <3>1. ad' = ad /\ (\/ UNCHANGED <<pi, events>>
                       \/ /\ pi' = [pi EXCEPT !.streaming = TRUE]
                          /\ Emit(<<Event("agent_start")>>))
      BY <2>1 DEF PiAccepts
    <3>2. Arrays(pi')
      BY <1>0, <3>1 DEF Arrays, PiFields
    <3> QED BY <1>0, <1>b, <1>n, <3>1, <3>2 DEF SchedInv
  <2>2. CASE PiQueuesSteer(o)
    <3> DEFINE t == task[o].row.text
    <3>1. /\ ad' = ad /\ pi' = [pi EXCEPT !.steering = Append(@, t)]
          /\ Emit(<<ArraysEvent>>)
      BY <2>2 DEF PiQueuesSteer
    <3> HIDE DEF t
    <3>2. IsSeq(Append(pi.steering, t))
      BY <1>0, SeqOps DEF Arrays
    <3>3. Arrays(pi')
      BY <1>0, <3>1, <3>2 DEF Arrays, PiFields
    <3> QED BY <1>b, <1>n, <3>1, <3>3
  <2>3. CASE PiRefuses(o) \/ PiAnswers(o)
    <3>1. UNCHANGED <<ad, pi, events>>
      BY <2>3 DEF PiRefuses, PiAnswers
    <3> QED BY <1>0, <3>1 DEF SchedInv
  <2> QED BY <1>1, <2>1, <2>2, <2>3 DEF PiReplies
<1>2. CASE PiStartsTurn
  <2>1. /\ ad' = ad /\ pi' = [pi EXCEPT !.streaming = TRUE]
        /\ Emit(<<Event("agent_start")>>)
    BY <1>2 DEF PiStartsTurn
  <2>2. Arrays(pi')
    BY <1>0, <2>1 DEF Arrays, PiFields
  <2> QED BY <1>b, <1>n, <2>1, <2>2
<1>3. CASE PiQueuesFollowUp
  <2> DEFINE t == "pi"
  <2>1. /\ ad' = ad /\ pi' = [pi EXCEPT !.followUp = Append(@, t)]
        /\ Emit(<<ArraysEvent>>)
    BY <1>3 DEF PiQueuesFollowUp
  <2> HIDE DEF t
  <2>2. IsSeq(Append(pi.followUp, t))
    BY <1>0, SeqOps DEF Arrays
  <2>3. Arrays(pi')
    BY <1>0, <2>1, <2>2 DEF Arrays, PiFields
  <2> QED BY <1>b, <1>n, <2>1, <2>3
<1>4. CASE PiEndsMessage
  <2>1. /\ ad' = ad /\ pi' = [pi EXCEPT !.steering = << >>]
        /\ \/ Emit(<<Event("message_end")>> \o << >>)
           \/ Emit(<<Event("message_end")>> \o <<ArraysEvent>>)
    BY <1>4 DEF PiEndsMessage
  <2>2. Arrays(pi')
    BY <1>0, <2>1, SeqOps DEF Arrays, PiFields
  <2> QED BY <1>b, <1>n, <2>1, <2>2
<1>5. CASE PiContinues
  <2>1. /\ ad' = ad /\ Emit(<<ArraysEvent, Event("agent_start")>>)
        /\ \/ pi' = [pi EXCEPT !.steering = << >>]
           \/ pi.followUp # << >> /\ pi' = [pi EXCEPT !.followUp = Tail(@)]
    BY <1>5 DEF PiContinues
  <2>2. pi.followUp # << >> => IsSeq(Tail(pi.followUp))
    BY <1>0, SeqOps DEF Arrays
  <2>3. IsSeq(<< >>)
    BY SeqOps
  <2>4. Arrays(pi')
    BY <1>0, <2>1, <2>2, <2>3 DEF Arrays, PiFields
  <2> QED BY <1>b, <1>n, <2>1, <2>4
<1>6. CASE PiSettles
  <2>1. /\ ad' = ad /\ pi' = [pi EXCEPT !.streaming = FALSE]
        /\ Emit(<<Event("agent_settled")>>)
    BY <1>6 DEF PiSettles
  <2>2. Arrays(pi')
    BY <1>0, <2>1 DEF Arrays, PiFields
  <2> QED BY <1>b, <1>n, <2>1, <2>2
<1>7. CASE PiExtensionMessage
  <2>1. PICK lane \in Lanes : Emit(<<[Event("extension") EXCEPT !.lane = lane]>>)
    BY <1>7 DEF PiExtensionMessage
  <2>2. UNCHANGED <<ad, pi>>
    BY <1>7 DEF PiExtensionMessage
  <2>3. Unread(<<[Event("extension") EXCEPT !.lane = lane]>>)
    BY NewEvents
  <2> QED BY <1>0, <1>b, <2>1, <2>2, <2>3
<1>8. CASE PiStateChanges
  <2>1. UNCHANGED <<ad, pi>> /\ Emit(<<Event("state_changed")>>)
    BY <1>8 DEF PiStateChanges
  <2> QED BY <1>0, <1>b, <1>n, <2>1
<1>9. CASE PiCrashes
  <2>1. /\ ad' = ad /\ Emit(<<Event("exit")>>)
        /\ pi' = [pi EXCEPT !.up = FALSE, !.streaming = FALSE,
                            !.steering = << >>, !.followUp = << >>]
    BY <1>9 DEF PiCrashes
  <2>2. IsSeq(<< >>)
    BY SeqOps
  <2>3. Arrays(pi')
    BY <1>0, <2>1, <2>2 DEF Arrays, PiFields
  <2> QED BY <1>b, <1>n, <2>1, <2>3
<1>10. ASSUME NEW control, WriteGoal(control)
       PROVE  SchedInv'
  <2>1. /\ ad' = ad
        /\ \/ Emit(<<Event("goal")>> \o << >>)
           \/ Emit(<<Event("goal")>> \o <<Event("agent_start")>>)
        /\ pi' = [pi EXCEPT !.goal = control,
                            !.streaming = @ \/ control.status = "active"]
    BY <1>10 DEF WriteGoal
  <2>2. Arrays(pi')
    BY <1>0, <2>1 DEF Arrays, PiFields
  <2> QED BY <1>b, <1>n, <2>1, <2>2
<1>11. CASE PiSetsGoal \/ PiEditsGoal
  <2>1. \E control : WriteGoal(control)
    BY <1>11 DEF PiSetsGoal, PiEditsGoal
  <2> QED BY <1>10, <2>1
<1> QED BY <1>1, <1>2, <1>3, <1>4, <1>5, <1>6, <1>7, <1>8, <1>9, <1>11 DEF PiStep

\* Nothing is accounted for in the first state.
LEMMA SchedInitial == SchedInit => SchedInv
<1> SUFFICES ASSUME SchedInit PROVE SchedInv
  OBVIOUS
<1>1. /\ IsAdapter(ad) /\ ad.mirror = EmptyMirror /\ ad.active = {}
      /\ ad.waiting = {} /\ ad.outcome = [p \in Clients |-> "new"]
  BY DEF SchedInit, InitialState, IsAdapter, AdapterFields
<1>2. EmptyMirror = Mirror(<< >>, << >>, << >>, << >>, NoRow, 0)
  BY DEF EmptyMirror, Mirror
<1>3. Queue(EmptyMirror) /\ IdsOf(EmptyMirror.local) = {}
  <2> DEFINE l == << >>
  <2>1. l \in Seq(Held) /\ Distinct(l) /\ IdsOf(l) = {}
    BY NoRows
  <2>2. EmptyMirror = Mirror(l, l, l, l, NoRow, 0)
    BY <1>2
  <2> HIDE DEF l
  <2> QED BY <2>1, <2>2, QueueOf
<1>4. Balanced({}, ad.active, ad.waiting, ad.outcome)
  BY <1>1 DEF Balanced, Outcomes
<1>5. Accounts(ad)
  BY <1>1, <1>3, <1>4 DEF Accounts
<1>6. Arrays(pi)
  BY SeqOps DEF SchedInit, Arrays, PiFields
<1>7. Unread(events)
  BY NewEvents DEF SchedInit
<1> QED BY <1>5, <1>6, <1>7 DEF SchedInv

\* Every step keeps the invariant.
LEMMA SchedInductive == SchedInv /\ [SchedNext]_schedVars => SchedInv'
<1> SUFFICES ASSUME SchedInv, [SchedNext]_schedVars PROVE SchedInv'
  OBVIOUS
<1>0. Accounts(ad) /\ Arrays(pi) /\ Unread(events)
  BY DEF SchedInv
<1>1. CASE UNCHANGED schedVars
  BY <1>1 DEF schedVars, SchedInv
<1>2. CASE BashEnds
  <2>1. ad' = [ad EXCEPT !.bashRunning = FALSE] /\ UNCHANGED <<pi, events>>
    BY <1>2 DEF BashEnds
  <2>2. Accounts(ad')
    BY <1>0, <2>1, OtherFields
  <2> QED BY <1>0, <2>1, <2>2 DEF SchedInv
<1>3. CASE Respawn
  <2>1. UNCHANGED <<ad, events>> /\ pi' = [pi EXCEPT !.up = TRUE, !.recovery = "load"]
    BY <1>3 DEF Respawn
  <2>2. Arrays(pi')
    BY <1>0, <2>1 DEF Arrays, PiFields
  <2> QED BY <1>0, <2>1, <2>2 DEF SchedInv
<1>4. CASE Rebind
  <2>1. /\ UNCHANGED events /\ ad' = ReplaceBootstrap(ad)
        /\ \E x : pi' = [pi EXCEPT !.recovery = x]
    BY <1>4 DEF Rebind
  <2>2. Arrays(pi')
    BY <1>0, <2>1 DEF Arrays, PiFields
  <2>3. Accounts(ad')
    BY <1>0, <2>1, ReplaceAccounts
  <2> QED BY <1>0, <2>1, <2>2, <2>3 DEF SchedInv
<1>5. CASE ContinuationExpires
  <2>1. ad' = [ad EXCEPT !.host.sends = @ - 1] /\ UNCHANGED <<pi, events>>
    BY <1>5 DEF ContinuationExpires
  <2>2. Same(ad', ad)
    BY <1>0, <2>1 DEF Same, Accounts, IsAdapter, AdapterFields
  <2>3. Accounts(ad')
    BY <1>0, <2>2, SameAccounts
  <2> QED BY <1>0, <2>1, <2>3 DEF SchedInv
<1> QED BY <1>1, <1>2, <1>3, <1>4, <1>5, ClientInv, PromptInv, TaskInv, ConsumerInv,
           PiInv DEF SchedNext

-----------------------------------------------------------------------------
(* The theorem.                                                            *)

\* The accounts balance in every state, for any number of prompts, crashes,
\* cancels, reloads and unread events.
THEOREM SchedAccounts == SchedSafeSpec => []SchedInv
BY SchedInitial, SchedInductive, PTL DEF SchedSafeSpec

\* Nobody's prompt gets lost: a prompt is unanswered exactly while the adapter
\* holds it, as a local row with its waiter or as an active prompt.
THEOREM SchedPromptAccounting == SchedSafeSpec => []PromptAccounting
<1>1. SchedInv => PromptAccounting
  BY AccountsMeans DEF SchedInv
<1> QED BY <1>1, SchedAccounts, PTL

-----------------------------------------------------------------------------
(* How much of the bounds is used up.                                      *)

\* Every bound is counted.
Counted == DOMAIN spent = DOMAIN Bounds /\ \A b \in DOMAIN Bounds : spent[b] \in Nat

\* The kinds of faults and requests that are bounded.
Kinds == {"cancel", "turn", "follow", "message", "extension", "refresh", "bash",
          "crash", "error", "deadline", "goal", "expired"}

\* The counters only grow.
Grows == \A b \in DOMAIN Bounds : spent[b] <= spent'[b]

\* One more of a kind is spent.
LEMMA Spending ==
    ASSUME Counted, NEW b \in Kinds, Spend(b)
    PROVE  /\ Counted' /\ Grows /\ spent'[b] = spent[b] + 1 /\ spent[b] < Bounds[b]
           /\ \A c \in Kinds : c # b => spent'[c] = spent[c]
<1>1. DOMAIN Bounds = Kinds \cup {"together"}
  BY DEF Bounds, Kinds
<1>2. /\ DOMAIN spent = Kinds \cup {"together"}
      /\ \A c \in Kinds \cup {"together"} : spent[c] \in Nat
  BY <1>1 DEF Counted
<1>3. /\ spent[b] < Bounds[b]
      /\ spent' = [spent EXCEPT ![b] = @ + 1, !.together = @ + 1]
  BY DEF Spend
<1>4. "together" \notin Kinds
  BY DEF Kinds
<1> HIDE DEF Kinds
<1>5. /\ DOMAIN spent' = DOMAIN spent
      /\ spent'[b] = spent[b] + 1 /\ spent'["together"] = spent["together"] + 1
      /\ \A c \in Kinds : c # b => spent'[c] = spent[c]
  BY <1>2, <1>3, <1>4
<1>6. \A c \in Kinds \cup {"together"} : spent'[c] \in Nat /\ spent[c] <= spent'[c]
  BY <1>2, <1>5
<1> QED BY <1>1, <1>2, <1>3, <1>5, <1>6 DEF Counted, Grows

\* Only a cancel that runs out of time spends a deadline.
Spends == \/ spent' = spent
          \/ \E b \in Kinds \ {"deadline"} : Spend(b)
          \/ \E o \in Tasks : SettleGivesUp(o)

\* What a step spends.
LEMMA StepSpends ==
    ASSUME [SchedNext]_schedVars
    PROVE  Spends
<1>0. /\ spent' = spent => Spends
      /\ \A o \in Tasks : SettleGivesUp(o) => Spends
      /\ Spend("cancel") \/ Spend("bash") \/ Spend("expired") => Spends
      /\ Spend("error") \/ Spend("turn") \/ Spend("follow") \/ Spend("message")
            \/ Spend("extension") \/ Spend("goal") \/ Spend("refresh")
            \/ Spend("crash") => Spends
  BY DEF Spends, Kinds
<1>1. CASE ClientStep
  BY <1>0, <1>1 DEF ClientStep, Prompt, Interject, Cancel, RemoveRows, BashStarts
<1>2. ASSUME NEW p, PromptStep(p) PROVE spent' = spent
  BY <1>2 DEF PromptStep, DirectAccepted, DirectFails
<1>3. ASSUME NEW o \in Tasks, TaskStep(o) PROVE Spends
  BY <1>0, <1>3 DEF TaskStep, Kick, Dispatch, DispatchAccepted, DispatchFails, SendSteer,
              SteerAccepted, SteerFails, ProbeWakes, ProbeAnswered, TurnEnds,
              ContinueGoal, SettlePolls, SettleConfirmed, SettleAgain, SettleGivesUp
<1>4. CASE ConsumerStep
  BY <1>0, <1>4 DEF ConsumerStep, AgentStart, AgentSettled, SlotIsCleared, MessageEnd,
              QueueUpdate, ExtensionMessage, StateChanged, Reloaded, ProcessExit,
              GoalMessage, NextEvent
<1>5. CASE BashEnds \/ Respawn \/ Rebind \/ ContinuationExpires
  BY <1>0, <1>5 DEF BashEnds, Respawn, Rebind, ContinuationExpires
<1>6. CASE PiStep
  <2>1. ASSUME NEW o, PiReplies(o) PROVE Spends
    BY <1>0, <2>1 DEF PiReplies, PiAccepts, PiQueuesSteer, PiRefuses, PiAnswers
  <2> QED BY <1>0, <1>6, <2>1 DEF PiStep, PiStartsTurn, PiQueuesFollowUp, PiEndsMessage,
              PiContinues, PiSettles, PiExtensionMessage, PiStateChanges, PiCrashes,
              PiSetsGoal, PiEditsGoal
<1> QED BY <1>0, <1>1, <1>2, <1>3, <1>4, <1>5, <1>6 DEF SchedNext, schedVars

\* No step takes anything back.
LEMMA SpentGrows ==
    ASSUME Counted, [SchedNext]_schedVars
    PROVE  Counted' /\ Grows
<1>1. spent' = spent \/ \E b \in Kinds : Spend(b)
  BY StepSpends DEF Spends, SettleGivesUp, Kinds
<1>2. CASE spent' = spent
  BY <1>2 DEF Counted, Grows
<1> QED BY <1>1, <1>2, Spending

\* What is not spent now was not spent before.
LEMMA SpentBefore ==
    ASSUME Counted, Counted', Grows
    PROVE  \A b \in Kinds : /\ spent[b] \in Nat /\ spent'[b] \in Nat /\ spent[b] <= spent'[b]
                            /\ spent'[b] = 0 => spent[b] = 0
<1>1. Kinds \subseteq DOMAIN Bounds
  BY DEF Bounds, Kinds
<1> HIDE DEF Kinds
<1> QED BY <1>1 DEF Counted, Grows

\* Nothing is spent in the first state.
LEMMA SpentInitial == SchedInit => Counted
BY DEF SchedInit, Counted

-----------------------------------------------------------------------------
(* The unread events of Pi.                                                *)

\* Pi runs, or the end of its run is still to be read.
Ahead(streaming, es) == streaming \/ \E j \in DOMAIN es : es[j].kind = "agent_settled"

\* Behind each event of a run comes the event that ends it, unless it runs.
InRun == {"agent_start", "queue_update"}
Closed(streaming, es) ==
    /\ \A i \in DOMAIN es : es[i].kind \in InRun =>
           streaming \/ \E j \in DOMAIN es : j > i /\ es[j].kind = "agent_settled"
    /\ \A i \in DOMAIN es : es[i].kind # "exit"

\* The consumer reads the first event.
LEMMA ClosedRead ==
    ASSUME NEW es, IsSeq(es), es # << >>, NEW str, Closed(str, es)
    PROVE  /\ Closed(str, Tail(es)) /\ Head(es).kind # "exit"
           /\ Head(es).kind # "agent_settled" /\ Ahead(str, es) => Ahead(str, Tail(es))
           /\ Head(es).kind \in InRun => Ahead(str, Tail(es))
<1>1. PICK S : es \in Seq(S)
  BY DEF IsSeq
<1> DEFINE t == Tail(es)
<1>2. 1 \in DOMAIN es /\ Head(es) = es[1]
  BY <1>1
<1>3. \A i \in DOMAIN t : i + 1 \in DOMAIN es /\ t[i] = es[i + 1]
  BY <1>1
<1>4. \A j \in DOMAIN es : j # 1 => j - 1 \in DOMAIN t /\ t[j - 1] = es[j]
  BY <1>1
<1>5. \A j \in DOMAIN es : j \in Int
  BY <1>1
<1>6. \A j \in DOMAIN t : j \in Int
  BY <1>1
<1> HIDE DEF t
<1>7. ASSUME NEW i \in DOMAIN t, t[i].kind \in InRun
      PROVE  str \/ \E j \in DOMAIN t : j > i /\ t[j].kind = "agent_settled"
  <2>1. i \in Int /\ i + 1 \in DOMAIN es /\ es[i + 1].kind \in InRun
    BY <1>3, <1>6, <1>7
  <2>2. CASE \E j \in DOMAIN es : j > i + 1 /\ es[j].kind = "agent_settled"
    <3>1. PICK j \in DOMAIN es : j > i + 1 /\ es[j].kind = "agent_settled"
      BY <2>2
    <3>2. i >= 1
      BY <1>1, <2>1, <1>7 DEF t
    <3>3. j - 1 \in DOMAIN t /\ t[j - 1].kind = "agent_settled" /\ j - 1 > i
      BY <1>4, <1>5, <2>1, <3>1, <3>2
    <3> QED BY <3>3
  <2> QED BY <2>1, <2>2 DEF Closed
<1>8. \A i \in DOMAIN t : t[i].kind # "exit"
  BY <1>3 DEF Closed
<1>9. ASSUME Head(es).kind \in InRun PROVE Ahead(str, t)
  <2>1. CASE \E j \in DOMAIN es : j > 1 /\ es[j].kind = "agent_settled"
    BY <1>4, <2>1 DEF Ahead
  <2> QED BY <1>2, <1>9, <2>1 DEF Closed, Ahead
<1>10. ASSUME Head(es).kind # "agent_settled", Ahead(str, es) PROVE Ahead(str, t)
  BY <1>2, <1>4, <1>10 DEF Ahead
<1> QED BY <1>2, <1>7, <1>8, <1>9, <1>10 DEF Closed, t

\* Pi sends events, and a run that ends says so.
LEMMA ClosedCome ==
    ASSUME NEW es, IsSeq(es), NEW new, IsSeq(new), NEW str, NEW str2,
           Closed(str, es), Closed(str2, new), str => Ahead(str2, new)
    PROVE  Closed(str2, es \o new) /\ (Ahead(str, es) => Ahead(str2, es \o new))
<1>1. PICK S : es \in Seq(S)
  BY DEF IsSeq
<1>2. PICK T : new \in Seq(T)
  BY DEF IsSeq
<1> DEFINE all == es \o new
           n == Len(es)
<1>3. es \in Seq(S \cup T) /\ new \in Seq(S \cup T)
  BY <1>1, <1>2, SeqMore
<1>4. n \in Nat /\ (\A i \in DOMAIN es : i \in Int /\ i <= n)
      /\ (\A i \in DOMAIN new : i \in Int /\ i > 0)
  BY <1>3
<1>5. /\ \A i \in DOMAIN all : \/ i \in DOMAIN es /\ all[i] = es[i]
                               \/ i - n \in DOMAIN new /\ all[i] = new[i - n] /\ i \in Int
      /\ \A i \in DOMAIN es : i \in DOMAIN all /\ all[i] = es[i]
      /\ \A i \in DOMAIN new : i + n \in DOMAIN all /\ all[i + n] = new[i]
  BY <1>3
<1> HIDE DEF all, n
<1>6. ASSUME NEW i \in DOMAIN es, Ahead(str2, new)
      PROVE  str2 \/ \E j \in DOMAIN all : j > i /\ all[j].kind = "agent_settled"
  <2>1. CASE \E k \in DOMAIN new : new[k].kind = "agent_settled"
    <3>1. PICK k \in DOMAIN new : new[k].kind = "agent_settled"
      BY <2>1
    <3>2. k + n \in DOMAIN all /\ all[k + n].kind = "agent_settled" /\ k + n > i
      BY <1>4, <1>5, <3>1
    <3> QED BY <3>2
  <2> QED BY <1>6, <2>1 DEF Ahead
<1>7. ASSUME NEW i \in DOMAIN all, all[i].kind \in InRun
      PROVE  str2 \/ \E j \in DOMAIN all : j > i /\ all[j].kind = "agent_settled"
  <2>1. CASE i \in DOMAIN es /\ all[i] = es[i]
    <3>1. CASE \E j \in DOMAIN es : j > i /\ es[j].kind = "agent_settled"
      BY <1>5, <3>1
    <3> QED BY <1>6, <1>7, <2>1, <3>1 DEF Closed
  <2>2. CASE i - n \in DOMAIN new /\ all[i] = new[i - n] /\ i \in Int
    <3>1. CASE \E j \in DOMAIN new : j > i - n /\ new[j].kind = "agent_settled"
      <4>1. PICK j \in DOMAIN new : j > i - n /\ new[j].kind = "agent_settled"
        BY <3>1
      <4>2. j + n \in DOMAIN all /\ all[j + n].kind = "agent_settled" /\ j + n > i
        BY <1>4, <1>5, <2>2, <4>1
      <4> QED BY <4>2
    <3> QED BY <1>7, <2>2, <3>1 DEF Closed
  <2> QED BY <1>5, <2>1, <2>2
<1>8. \A i \in DOMAIN all : all[i].kind # "exit"
  BY <1>5 DEF Closed
<1>9. ASSUME Ahead(str, es) PROVE Ahead(str2, all)
  <2>1. CASE str
    <3>1. CASE \E k \in DOMAIN new : new[k].kind = "agent_settled"
      BY <1>5, <3>1 DEF Ahead
    <3> QED BY <2>1, <3>1 DEF Ahead
  <2>2. CASE \E j \in DOMAIN es : es[j].kind = "agent_settled"
    BY <1>5, <2>2 DEF Ahead
  <2> QED BY <1>9, <2>1, <2>2 DEF Ahead
<1> QED BY <1>7, <1>8, <1>9 DEF Closed, all

-----------------------------------------------------------------------------
(* The tasks.                                                              *)

\* The fields of a task.
TaskFields == {"pc", "row", "reply", "polls", "then", "goal"}

\* A task that has not been spawned: its prompt is new, or its cancel is to come.
Unborn(o, outcome, cancels) ==
    \/ \E p \in Clients : o = PromptTask(p) /\ outcome[p] = "new"
    \/ \E n \in Nat : o = SettleTask(n) /\ n > cancels

\* What the state t of task o may be.
Fit(o, t) == /\ DOMAIN t = TaskFields
             /\ o[1] = "bash" => t.pc \in {"end", "bash"}
             /\ t.pc = "settled" => t.then = "goal"

\* The tasks and their states.
Tasked ==
    /\ DOMAIN task = Tasks
    /\ \A o \in Tasks : Fit(o, task[o])
    /\ \A o \in Tasks : Unborn(o, ad.outcome, spent.cancel) => task[o] = Done

\* Task o is now in state t.
Moves(o, t) == o \in Tasks /\ task' = [task EXCEPT ![o] = t]

\* Only one task moves.
LEMMA OthersWait ==
    ASSUME DOMAIN task = Tasks, NEW o, NEW t, Moves(o, t)
    PROVE  /\ DOMAIN task' = Tasks /\ task'[o] = t /\ o \in Tasks
           /\ \A q \in Tasks : q # o => task'[q] = task[q]
BY DEF Moves

\* A task ends and a new probe dozes.
LEMMA Spawned ==
    ASSUME DOMAIN task = Tasks, NEW o \in Tasks, task[o].pc # "end", SpawnProbe(o)
    PROVE  \E n \in 1 .. MaxProbes :
               /\ ProbeTask(n) \in Tasks /\ task[ProbeTask(n)] = Done /\ ProbeTask(n) # o
               /\ DOMAIN task' = Tasks
               /\ task'[o] = Done /\ task'[ProbeTask(n)] = At("doze", NoRow)
               /\ \A q \in Tasks : q # o /\ q # ProbeTask(n) => task'[q] = task[q]
<1> DEFINE free == {n \in 1 .. MaxProbes : task[ProbeTask(n)] = Done}
           n == Min(free)
           d == At("doze", NoRow)
<1>1. /\ free # {}
      /\ task' = [task EXCEPT ![o] = Done, ![ProbeTask(n)] = d]
  BY DEF SpawnProbe
<1>2. MaxProbes \in Nat
  BY SchedulerBounds
<1>3. free \in SUBSET Nat
  BY <1>2
<1>4. n \in free
  BY <1>1, <1>3, MinIn
<1>5. n \in 1 .. MaxProbes /\ task[ProbeTask(n)] = Done
  BY <1>4
<1> HIDE DEF n, free, d
<1>6. ProbeTask(n) \in Tasks
  BY <1>5 DEF Tasks
<1>7. Done.pc = "end"
  BY DEF Done, At
<1>8. ProbeTask(n) # o
  BY <1>5, <1>7
<1> DEFINE w == ProbeTask(n)
           e == Done
<1>9. w \in Tasks /\ w # o /\ task' = [task EXCEPT ![o] = e, ![w] = d]
  BY <1>1, <1>6, <1>8
<1> HIDE DEF w, e
<1>10. /\ DOMAIN task' = Tasks /\ task'[o] = e /\ task'[w] = d
       /\ \A q \in Tasks : q # o /\ q # w => task'[q] = task[q]
  BY <1>9
<1> QED BY <1>5, <1>6, <1>8, <1>10 DEF w, e, d

\* The states of tasks that the code makes.
LEMMA TaskStates ==
    /\ \A pc, row : /\ DOMAIN At(pc, row) = TaskFields
                    /\ At(pc, row).pc = pc /\ At(pc, row).row = row
                    /\ At(pc, row).reply = "none" /\ At(pc, row).then = "end"
    /\ \A pc, row : /\ DOMAIN Sent(pc, row) = TaskFields
                    /\ Sent(pc, row).pc = pc /\ Sent(pc, row).row = row
                    /\ pi.up => Sent(pc, row).reply = "none"
                    /\ Sent(pc, row).then = "end"
    /\ \A row : /\ DOMAIN Settling(row) = TaskFields
                /\ Settling(row).pc = "settled" /\ Settling(row).row = row
                /\ Settling(row).reply = "none" /\ Settling(row).then = "goal"
    /\ DOMAIN Done = TaskFields /\ Done.pc = "end" /\ Done.row = NoRow
    /\ Done.reply = "none"
    /\ \A o, t : DOMAIN t = TaskFields =>
                    /\ DOMAIN Onward(o, t) = TaskFields
                    /\ Onward(o, t).pc = t.pc /\ Onward(o, t).row = t.row
                    /\ Onward(o, t).reply = t.reply
                    /\ Onward(o, t).then = task[o].then
                    /\ Onward(o, t).goal = task[o].goal
<1>1. ASSUME NEW pc, NEW row
      PROVE  /\ DOMAIN At(pc, row) = TaskFields
             /\ At(pc, row).pc = pc /\ At(pc, row).row = row
             /\ At(pc, row).reply = "none" /\ At(pc, row).then = "end"
  BY DEF At, TaskFields
<1>2. ASSUME NEW pc, NEW row
      PROVE  /\ DOMAIN Sent(pc, row) = TaskFields
             /\ Sent(pc, row).pc = pc /\ Sent(pc, row).row = row
             /\ pi.up => Sent(pc, row).reply = "none"
             /\ Sent(pc, row).then = "end"
  <2> DEFINE r == IF pi.up THEN "none" ELSE "err"
  <2>1. Sent(pc, row) = [At(pc, row) EXCEPT !.reply = r]
    BY DEF Sent
  <2>2. pi.up => r = "none"
    OBVIOUS
  <2> HIDE DEF r
  <2> QED BY <1>1, <2>1, <2>2 DEF TaskFields
<1>3. ASSUME NEW row
      PROVE  /\ DOMAIN Settling(row) = TaskFields
             /\ Settling(row).pc = "settled" /\ Settling(row).row = row
             /\ Settling(row).reply = "none" /\ Settling(row).then = "goal"
  BY <1>1 DEF Settling, TaskFields
<1>4. DOMAIN Done = TaskFields /\ Done.pc = "end" /\ Done.row = NoRow /\ Done.reply = "none"
  BY <1>1 DEF Done
<1>5. ASSUME NEW o, NEW t, DOMAIN t = TaskFields
      PROVE  /\ DOMAIN Onward(o, t) = TaskFields
             /\ Onward(o, t).pc = t.pc /\ Onward(o, t).row = t.row
             /\ Onward(o, t).reply = t.reply
             /\ Onward(o, t).then = task[o].then
             /\ Onward(o, t).goal = task[o].goal
  BY <1>5 DEF Onward, TaskFields
<1> QED BY <1>1, <1>2, <1>3, <1>4, <1>5

\* The kinds of tasks differ.
LEMMA TaskKinds ==
    /\ \A p \in Clients : PromptTask(p) \in Tasks /\ InterjectTask(p) \in Tasks
    /\ Consumer \in Tasks /\ BashTask \in Tasks /\ Consumer # BashTask
    /\ \A n \in 1 .. MaxCancels : SettleTask(n) \in Tasks
    /\ \A p : PromptTask(p)[1] = "prompt" /\ InterjectTask(p)[1] = "interject"
    /\ \A n : ProbeTask(n)[1] = "probe" /\ SettleTask(n)[1] = "settle"
    /\ \A n, m : SettleTask(n) = SettleTask(m) => n = m
    /\ \A p, q : PromptTask(p) = PromptTask(q) => p = q
    /\ Consumer[1] = "consumer" /\ BashTask[1] = "bash"
    /\ \A o \in Tasks : o[1] = "bash" => o = BashTask
<1>1. /\ \A p : PromptTask(p)[1] = "prompt" /\ InterjectTask(p)[1] = "interject"
      /\ \A n : ProbeTask(n)[1] = "probe" /\ SettleTask(n)[1] = "settle"
      /\ Consumer[1] = "consumer" /\ BashTask[1] = "bash"
  BY DEF PromptTask, InterjectTask, ProbeTask, SettleTask, Consumer, BashTask
<1>2. /\ \A p \in Clients : PromptTask(p) \in Tasks /\ InterjectTask(p) \in Tasks
      /\ Consumer \in Tasks /\ BashTask \in Tasks
      /\ \A n \in 1 .. MaxCancels : SettleTask(n) \in Tasks
  BY DEF Tasks
<1>3. \A n, m : SettleTask(n) = SettleTask(m) => n = m
  BY DEF SettleTask
<1>4. \A p, q : PromptTask(p) = PromptTask(q) => p = q
  BY DEF PromptTask
<1>5. ASSUME NEW o \in Tasks, o[1] = "bash" PROVE o = BashTask
  <2>1. \/ \E p \in Clients : o = PromptTask(p) \/ o = InterjectTask(p)
        \/ \E n \in 1 .. MaxProbes : o = ProbeTask(n)
        \/ \E n \in 1 .. MaxCancels : o = SettleTask(n)
        \/ o = Consumer \/ o = BashTask
    BY DEF Tasks
  <2> QED BY <1>1, <1>5, <2>1
<1> QED BY <1>1, <1>2, <1>3, <1>4, <1>5

\* A task that is there is not unborn after the step either.
LEMMA StillUnborn ==
    ASSUME NEW o, NEW new, NEW old, NEW m \in Nat, NEW n \in Nat, n <= m,
           \A p \in Clients : new[p] = "new" => old[p] = "new",
           Unborn(o, new, m)
    PROVE  Unborn(o, old, n)
BY DEF Unborn

-----------------------------------------------------------------------------
(* What the adapter's methods do to its flags.                             *)

\* No prompt becomes new again, and what was withdrawn stays so.
Fresh(b, a) ==
    /\ \A p \in Clients : b.outcome[p] = "new" => a.outcome[p] = "new"
    /\ a.withdrawn => b.withdrawn

\* The flags, and the mirror, of b are those of a.
Flagged(b, a) ==
    /\ IsAdapter(b)
    /\ b.agentRunning = a.agentRunning /\ b.cancelling = a.cancelling
    /\ b.bashRunning = a.bashRunning /\ b.mirror = a.mirror
    /\ b.withdrawn = a.withdrawn /\ Fresh(b, a)

\* The flags, the active prompts and the slot of b are those of a.
Alike(b, a) ==
    /\ IsAdapter(b)
    /\ b.agentRunning = a.agentRunning /\ b.cancelling = a.cancelling
    /\ b.bashRunning = a.bashRunning
    /\ b.active = a.active /\ b.started = a.started
    /\ b.mirror.running = a.mirror.running /\ Fresh(b, a)

\* finish_prompts empties the active prompts.
LEMMA FinishFlags ==
    ASSUME NEW a, IsAdapter(a), NEW reason, reason # "new",
           NEW b, b = FinishPrompts(a, reason)
    PROVE  Flagged(b, a) /\ b.active = {} /\ b.started = {}
BY DEF FinishPrompts, Flagged, Fresh, IsAdapter, AdapterFields

\* finish_queued_entries answers waiters and does nothing else.
LEMMA QueuedFlags ==
    ASSUME NEW a, IsAdapter(a), NEW ids, NEW reason, reason # "new",
           NEW b, b = FinishQueuedEntries(a, ids, reason)
    PROVE  Flagged(b, a) /\ b.active = a.active /\ b.started = a.started
BY DEF FinishQueuedEntries, Flagged, Fresh, IsAdapter, AdapterFields

\* A prompt_complete changes nothing else.
LEMMA CompleteFlags ==
    ASSUME NEW a, IsAdapter(a), NEW row, NEW b,
           b \in {SendServerPromptComplete(a, row), CompleteServerTurn(a, row)}
    PROVE  Flagged(b, a) /\ b.active = a.active /\ b.started = a.started
<1>1. b = a \/ b = SendServerPromptComplete(a, row)
  BY DEF CompleteServerTurn
<1> QED BY <1>1 DEF SendServerPromptComplete, Flagged, Fresh, IsAdapter, AdapterFields

\* take_active_prompt forgets one prompt.
LEMMA TakeFlags ==
    ASSUME NEW a, Accounts(a), NEW id, NEW reason, reason # "new",
           a.started \subseteq a.active,
           NEW b, b = TakeActivePrompt(a, id, reason)
    PROVE  Flagged(b, a) /\ b.started \subseteq b.active
<1>1. IsAdapter(a) /\ DOMAIN a.outcome = Clients
  BY DEF Accounts, Balanced
<1>2. CASE id \in a.active
  <2>1. b = [a EXCEPT !.active = @ \ {id}, !.started = @ \ {id}, !.outcome[id] = reason]
    BY <1>2 DEF TakeActivePrompt
  <2>2. \A p \in Clients : b.outcome[p] = a.outcome[p] \/ b.outcome[p] = reason
    BY <1>1, <2>1 DEF IsAdapter, AdapterFields
  <2>3. Fresh(b, a)
    BY <1>1, <2>1, <2>2 DEF Fresh, IsAdapter, AdapterFields
  <2> QED BY <1>1, <2>1, <2>3 DEF Flagged, IsAdapter, AdapterFields
<1>3. CASE id \notin a.active
  BY <1>1, <1>3 DEF TakeActivePrompt, Flagged, Fresh
<1> QED BY <1>2, <1>3

\* activate_queued_client adds at most one active prompt.
LEMMA ActivateFlags ==
    ASSUME NEW a, IsAdapter(a), NEW id, NEW b, b = ActivateQueuedClient(a, id)
    PROVE  Flagged(b, a) /\ a.active \subseteq b.active /\ b.started = a.started
BY DEF ActivateQueuedClient, Flagged, Fresh, IsAdapter, AdapterFields

\* The host's records are no flags.
LEMMA RecordFlags ==
    ASSUME NEW a, IsAdapter(a), NEW id
    PROVE  /\ Flagged(RecordContinuation(a, id), a)
           /\ RecordContinuation(a, id).active = a.active
           /\ RecordContinuation(a, id).started = a.started
           /\ \A x : /\ Flagged([a EXCEPT !.host = x], a)
                     /\ [a EXCEPT !.host = x].active = a.active
                     /\ [a EXCEPT !.host = x].started = a.started
<1>1. ASSUME NEW x
      PROVE  /\ Flagged([a EXCEPT !.host = x], a)
             /\ [a EXCEPT !.host = x].active = a.active
             /\ [a EXCEPT !.host = x].started = a.started
  BY DEF Flagged, Fresh, IsAdapter, AdapterFields
<1>2. PICK x : RecordContinuation(a, id) = [a EXCEPT !.host = x]
  <2> DEFINE h == IF a.host.id = id THEN a.host ELSE [NoGoal EXCEPT !.id = id]
             x == [h EXCEPT !.sends = h.sends + 1, !.armed = @ \/ h.sends + 1 >= LoopLimit]
  <2>1. RecordContinuation(a, id) = [a EXCEPT !.host = x]
    BY DEF RecordContinuation
  <2> HIDE DEF x
  <2> QED BY <2>1
<1> QED BY <1>1, <1>2

\* Flagged states with the same active prompts are alike.
LEMMA FlaggedAlike ==
    ASSUME NEW a, NEW b, Flagged(b, a), b.active = a.active, b.started = a.started
    PROVE  Alike(b, a) /\ b.mirror = a.mirror
BY DEF Flagged, Alike

\* What the mirror's operations do to the slot and the local rows.
LEMMA Slots ==
    ASSUME NEW q, Queue(q)
    PROVE  /\ \A row : /\ SetRunning(q, row).running = row
                       /\ SetRunning(q, row).local = q.local
           /\ ClearRunning(q).running = NoRow /\ ClearRunning(q).local = q.local
           /\ \A i : TakeLocal(q, i).running = q.running
           /\ PopNextLocal(q).running = q.running
           /\ \A id : /\ ReleaseReservation(q, id).running = q.running
                      /\ ReleaseReservation(q, id).local = q.local
           /\ \A row : /\ Reserve(q, row).running = q.running
                       /\ Reserve(q, row).local = q.local
           /\ \A row \in Held : /\ EnqueueLocal(q, row).running = q.running
                                /\ PushFrontLocal(q, row).running = q.running
<1>0. IsMirror(q) /\ q.seq \in Nat /\ q.local \in Seq(Held)
  BY DEF Queue
<1>m. ASSUME NEW l, NEW r, NEW run, NEW d, d = Mirror(l, q.pi, r, q.parked, run, q.seq)
      PROVE  d.local = l /\ d.running = run
  BY <1>m, MirrorFields
<1>1. ASSUME NEW row
      PROVE  SetRunning(q, row).running = row /\ SetRunning(q, row).local = q.local
  BY <1>0, <1>m, Operations
<1>2. ClearRunning(q).running = NoRow /\ ClearRunning(q).local = q.local
  BY <1>0, <1>m, Operations
<1>3. ASSUME NEW i PROVE TakeLocal(q, i).running = q.running
  <2> DEFINE l == RemoveAt(q.local, i)
             d == TakeLocal(q, i)
  <2>1. d = Mirror(l, q.pi, q.reserved, q.parked, q.running, q.seq)
    BY <1>0, Operations
  <2> HIDE DEF l, d
  <2>2. d.running = q.running
    BY <1>m, <2>1
  <2> QED BY <2>2 DEF d
<1>4. PopNextLocal(q).running = q.running
  <2> DEFINE l == Tail(q.local)
             d == PopNextLocal(q)
  <2>1. d = Mirror(l, q.pi, q.reserved, q.parked, q.running, q.seq)
    BY <1>0, Operations
  <2> HIDE DEF l, d
  <2>2. d.running = q.running
    BY <1>m, <2>1
  <2> QED BY <2>2 DEF d
<1>5. ASSUME NEW id
      PROVE  /\ ReleaseReservation(q, id).running = q.running
             /\ ReleaseReservation(q, id).local = q.local
  <2> DEFINE r == Without(q.reserved, {id})
             d == ReleaseReservation(q, id)
  <2>1. d = Mirror(q.local, q.pi, r, q.parked, q.running, q.seq)
    BY <1>0, Operations
  <2> HIDE DEF r, d
  <2>2. d.running = q.running /\ d.local = q.local
    BY <1>m, <2>1
  <2> QED BY <2>2 DEF d
<1>6. ASSUME NEW row
      PROVE  Reserve(q, row).running = q.running /\ Reserve(q, row).local = q.local
  <2> DEFINE r == Append(Without(q.reserved, {row.id}), [row EXCEPT !.ver = 0])
             d == Reserve(q, row)
  <2>1. d = Mirror(q.local, q.pi, r, q.parked, q.running, q.seq)
    BY <1>0, Operations
  <2> HIDE DEF r, d
  <2>2. d.running = q.running /\ d.local = q.local
    BY <1>m, <2>1
  <2> QED BY <2>2 DEF d
<1>7. ASSUME NEW row \in Held
      PROVE  /\ EnqueueLocal(q, row).running = q.running
             /\ PushFrontLocal(q, row).running = q.running
  <2>1. Renewable(row, Held)
    BY HeldRows
  <2>2. \E l : EnqueueLocal(q, row) = Mirror(l, q.pi, q.reserved, q.parked, q.running, q.seq)
    BY <1>0, <2>1, EnqueueLocalIds
  <2>3. \E l : PushFrontLocal(q, row) = Mirror(l, q.pi, q.reserved, q.parked, q.running, q.seq)
    BY <1>0, PushFrontIds
  <2> QED BY <2>2, <2>3, MirrorFields
<1> QED BY <1>1, <1>2, <1>3, <1>4, <1>5, <1>6, <1>7

\* The rows of the local queue are rows, and the empty slot is none.
LEMMA NoRowIsNotHeld ==
    /\ NoRow \notin Held
    /\ \A id, text, lane : Row(id, text, lane, "Client") # NoRow
<1>1. NoRow.origin = "none"
  BY DEF NoRow
<1>2. NoRow \notin Held
  BY <1>1 DEF Held, Origins
<1>3. ASSUME NEW id, NEW text, NEW lane PROVE Row(id, text, lane, "Client") # NoRow
  <2>1. Row(id, text, lane, "Client").origin = "Client"
    BY DEF Row
  <2> QED BY <1>1, <2>1
<1> QED BY <1>2, <1>3

-----------------------------------------------------------------------------
(* What the steps do to the flags and to the tasks.                        *)

\* The slot is free and nothing runs.
Cleared(b, a) ==
    /\ IsAdapter(b) /\ b.agentRunning = FALSE /\ b.cancelling = FALSE
    /\ b.bashRunning = a.bashRunning
    /\ b.active = a.active /\ b.started = a.started
    /\ b.mirror.running = NoRow /\ Fresh(b, a)

\* A turn has the slot.
Running(b, a) ==
    /\ IsAdapter(b) /\ b.agentRunning = TRUE /\ b.cancelling = a.cancelling
    /\ b.bashRunning = a.bashRunning
    /\ a.active \subseteq b.active /\ b.started = a.started
    /\ b.mirror.running # NoRow /\ Fresh(b, a)

\* More prompts are active, and nothing else is new.
Joined(b, a) ==
    /\ IsAdapter(b)
    /\ b.agentRunning = a.agentRunning /\ b.cancelling = a.cancelling
    /\ b.bashRunning = a.bashRunning
    /\ a.active \subseteq b.active /\ b.started = a.started
    /\ b.mirror.running = a.mirror.running /\ Fresh(b, a)

\* Clearing the slot.
LEMMA ClearedFlags ==
    ASSUME NEW a, Accounts(a),
           NEW b, b = [a EXCEPT !.agentRunning = FALSE, !.cancelling = FALSE,
                                !.mirror = ClearRunning(@)]
    PROVE  Cleared(b, a) /\ b.mirror = ClearRunning(a.mirror) /\ b.mirror.local = a.mirror.local
<1>0. IsAdapter(a) /\ Queue(a.mirror)
  BY DEF Accounts
<1>1. ClearRunning(a.mirror).running = NoRow /\ ClearRunning(a.mirror).local = a.mirror.local
  BY <1>0, Slots
<1> QED BY <1>0, <1>1 DEF Cleared, Fresh, IsAdapter, AdapterFields

\* Dropping everything.
LEMMA DropFlags ==
    ASSUME NEW a, Accounts(a), NEW b, b = DropEverything(a)
    PROVE  /\ IsAdapter(b) /\ b.agentRunning = a.agentRunning
           /\ b.cancelling = a.cancelling /\ b.bashRunning = a.bashRunning
           /\ b.active = {} /\ b.started = {} /\ b.mirror.running = NoRow
           /\ Fresh(b, a)
<1> DEFINE q == ClearMirror(ClearRunning(ClearLocal(a.mirror)))
           gone == IdsOf(a.mirror.local)
           c == [a EXCEPT !.mirror = q]
           reason == "Cancelled"
           d == FinishQueuedEntries(c, gone, reason)
           e == FinishPrompts(d, reason)
           run == a.mirror.running
           f == CompleteServerTurn(e, run)
<1>0. IsAdapter(a) /\ Queue(a.mirror)
  BY DEF Accounts
<1>1. b = f
  BY DEF DropEverything
<1>2. q.running = NoRow
  <2> DEFINE x == ClearRunning(ClearLocal(a.mirror))
  <2>1. q = [EmptyMirror EXCEPT !.seq = x.seq]
    BY DEF ClearMirror
  <2> HIDE DEF x
  <2> QED BY <2>1 DEF EmptyMirror
<1> HIDE DEF q, gone
<1>3. /\ IsAdapter(c) /\ c.mirror = q /\ c.agentRunning = a.agentRunning
      /\ c.cancelling = a.cancelling /\ c.bashRunning = a.bashRunning
      /\ c.outcome = a.outcome /\ c.withdrawn = a.withdrawn
  BY <1>0 DEF IsAdapter, AdapterFields
<1>9. reason # "new"
  OBVIOUS
<1> HIDE DEF c, reason
<1>4. Flagged(d, c)
  BY <1>3, <1>9, QueuedFlags
<1> HIDE DEF d
<1>5. Flagged(e, d) /\ e.active = {} /\ e.started = {}
  BY <1>4, <1>9, FinishFlags DEF Flagged
<1> HIDE DEF e, run
<1>6. Flagged(f, e) /\ f.active = e.active /\ f.started = e.started
  BY <1>5, CompleteFlags DEF Flagged
<1> HIDE DEF f
<1> QED BY <1>1, <1>2, <1>3, <1>4, <1>5, <1>6 DEF Flagged, Fresh

\* Replacing the bootstrap.
LEMMA ReplaceFlags ==
    ASSUME NEW a, Accounts(a), NEW b, b = ReplaceBootstrap(a)
    PROVE  Cleared(b, a) /\ b.mirror = EmptyMirror
<1> DEFINE reason == "Cancelled"
           w == a.waiting
           c == FinishQueuedEntries(a, w, reason)
           m == EmptyMirror
<1>0. IsAdapter(a)
  BY DEF Accounts
<1>1. b = [c EXCEPT !.mirror = m, !.agentRunning = FALSE, !.cancelling = FALSE]
  BY DEF ReplaceBootstrap
<1>2. reason # "new" /\ m.running = NoRow
  BY DEF EmptyMirror
<1> HIDE DEF reason, w
<1>3. Flagged(c, a) /\ c.active = a.active /\ c.started = a.started
  BY <1>0, <1>2, QueuedFlags
<1> HIDE DEF c, m
<1>4. /\ IsAdapter(b) /\ b.agentRunning = FALSE /\ b.cancelling = FALSE
      /\ b.bashRunning = c.bashRunning /\ b.active = c.active
      /\ b.started = c.started /\ b.mirror = m /\ b.outcome = c.outcome
      /\ b.withdrawn = c.withdrawn
  BY <1>1, <1>3 DEF Flagged, IsAdapter, AdapterFields
<1> QED BY <1>2, <1>3, <1>4 DEF Cleared, Flagged, Fresh, m

\* Pi goes on as before.
PiSame == /\ pi'.up = pi.up /\ pi'.streaming = pi.streaming
          /\ pi'.recovery = pi.recovery
          /\ pi'.steering = pi.steering /\ pi'.followUp = pi.followUp

\* dispatch_next_queued: nothing but the host's records, or the first row runs.
LEMMA DispatchFlags ==
    ASSUME NEW o, NEW a, Accounts(a), Arrays(pi), DOMAIN task = Tasks, o \in Tasks,
           DispatchNextQueued(o, a)
    PROVE  /\ PiSame
           /\ \/ /\ AdapterBusy(a) \/ a.mirror.local = << >>
                 /\ Alike(ad', a) /\ ad'.mirror = a.mirror /\ ad'.withdrawn = a.withdrawn
                 /\ \E t : /\ Moves(o, t) /\ DOMAIN t = TaskFields
                           /\ t.pc \in {"end", "continue"} /\ t.reply = "none"
              \/ /\ ~AdapterBusy(a)
                 /\ Running(ad', a)
                 /\ \E t : /\ Moves(o, t) /\ DOMAIN t = TaskFields
                           /\ t.pc = "announce" /\ t.reply = "none"
<1>0. IsAdapter(a) /\ Queue(a.mirror) /\ a.mirror.local \in Seq(Held)
  BY DEF Accounts, Queue
<1>1. CASE AdapterBusy(a) \/ a.mirror.local = << >>
  <2>1. NothingDispatched(o, a)
    BY <1>1 DEF DispatchNextQueued
  <2>2. Alike(a, a)
    BY <1>0 DEF Alike, Fresh
  <2>3. CASE MaybeContinueGoal(o, a)
    <3> DEFINE h == ApplyControl(a.host, pi.goal)
               goesOn == QueueIsEmpty(a.mirror) /\ pi.goal.status = "active"
               stops == goesOn /\ h.armed
               x == IF stops THEN NoGoal ELSE h
               g == pi.goal.id
               r == "record"
               t == IF goesOn /\ ~stops
                    THEN [At("continue", NoRow) EXCEPT !.then = r, !.goal = g]
                    ELSE Done
    <3>1. /\ ad' = IF ~QueueIsEmpty(a.mirror) THEN a ELSE [a EXCEPT !.host = x]
          /\ pi' = pi \/ pi' = [pi EXCEPT !.goal.status = "paused"]
          /\ task' = [task EXCEPT ![o] = t]
      BY <2>3 DEF MaybeContinueGoal
    <3>2. DOMAIN t = TaskFields /\ t.pc \in {"end", "continue"} /\ t.reply = "none"
      <4> DEFINE y == [At("continue", NoRow) EXCEPT !.then = r, !.goal = g]
      <4>1. DOMAIN y = TaskFields /\ y.pc = "continue" /\ y.reply = "none"
        <5> HIDE DEF r, g
        <5> QED BY TaskStates DEF TaskFields
      <4>2. t = y \/ t = Done
        OBVIOUS
      <4> HIDE DEF y, t
      <4> QED BY <4>1, <4>2, TaskStates
    <3> HIDE DEF x, t
    <3>3. /\ Alike(ad', a) /\ ad'.mirror = a.mirror /\ ad'.withdrawn = a.withdrawn
      <4>1. CASE ad' = a
        BY <2>2, <4>1
      <4>2. CASE ad' = [a EXCEPT !.host = x]
        <5>1. Flagged(ad', a) /\ ad'.active = a.active /\ ad'.started = a.started
          BY <1>0, <4>2, RecordFlags
        <5> QED BY <5>1, FlaggedAlike DEF Flagged
      <4> QED BY <3>1, <4>1, <4>2
    <3>4. PiSame
      BY <3>1 DEF PiSame, Arrays, PiFields
    <3> QED BY <1>1, <3>1, <3>2, <3>3, <3>4 DEF Moves
  <2>4. CASE /\ ad' = IF task[o].then = "record"
                      THEN RecordContinuation(a, task[o].goal) ELSE a
             /\ task' = [task EXCEPT ![o] = Done] /\ UNCHANGED pi
    <3>1. Alike(ad', a) /\ ad'.mirror = a.mirror /\ ad'.withdrawn = a.withdrawn
      <4>1. CASE ad' = a
        BY <2>2, <4>1
      <4>2. CASE ad' = RecordContinuation(a, task[o].goal)
        <5>1. Flagged(ad', a) /\ ad'.active = a.active /\ ad'.started = a.started
          BY <1>0, <4>2, RecordFlags
        <5> QED BY <5>1, FlaggedAlike DEF Flagged
      <4> QED BY <2>4, <4>1, <4>2
    <3>2. Moves(o, Done) /\ DOMAIN Done = TaskFields /\ Done.pc = "end" /\ Done.reply = "none"
      BY <2>4, TaskStates DEF Moves
    <3>3. PiSame
      BY <2>4 DEF PiSame
    <3> QED BY <1>1, <3>1, <3>2, <3>3
  <2> QED BY <2>1, <2>3, <2>4 DEF NothingDispatched
<1>2. CASE ~(AdapterBusy(a) \/ a.mirror.local = << >>)
  <2> DEFINE row == Head(a.mirror.local)
             id == row.id
             c == ActivateQueuedClient(a, id)
             q == PopNextLocal(a.mirror)
             r == SetRunning(q, row)
             t == Onward(o, At("announce", row))
  <2>1. /\ a.mirror.local # << >> /\ pi' = pi
        /\ ad' = [c EXCEPT !.agentRunning = TRUE, !.mirror = SetRunning(PopNextLocal(@), row)]
        /\ task' = [task EXCEPT ![o] = t]
    BY <1>2 DEF DispatchNextQueued
  <2>2. Queue(q) /\ row \in Held
    BY <1>0, <2>1, Popped
  <2>3. Flagged(c, a) /\ a.active \subseteq c.active /\ c.started = a.started
    BY <1>0, ActivateFlags
  <2>4. r.running = row /\ row # NoRow
    BY <2>2, Slots, NoRowIsNotHeld
  <2>5. DOMAIN t = TaskFields /\ t.pc = "announce" /\ t.reply = "none"
    BY TaskStates
  <2> HIDE DEF row, id, c
  <2>6. ad' = [c EXCEPT !.agentRunning = TRUE, !.mirror = r]
    BY <2>1, <2>3 DEF Flagged, IsAdapter, AdapterFields
  <2> HIDE DEF q, r, t
  <2>7. /\ IsAdapter(ad') /\ ad'.agentRunning = TRUE /\ ad'.cancelling = c.cancelling
        /\ ad'.bashRunning = c.bashRunning /\ ad'.active = c.active
        /\ ad'.started = c.started /\ ad'.mirror = r /\ ad'.outcome = c.outcome
        /\ ad'.withdrawn = c.withdrawn
    BY <2>3, <2>6 DEF Flagged, IsAdapter, AdapterFields
  <2>8. Running(ad', a)
    BY <2>3, <2>4, <2>7 DEF Running, Flagged, Fresh
  <2>9. PiSame /\ Moves(o, t)
    BY <2>1 DEF PiSame, Moves
  <2> QED BY <1>2, <2>5, <2>8, <2>9
<1> QED BY <1>1, <1>2

\* A row is steered: its prompt joins the active ones.
LEMMA SteerFlags ==
    ASSUME NEW o, NEW a, Accounts(a), NEW i \in DOMAIN a.mirror.local, Steer(o, a, i),
           DOMAIN task = Tasks, o \in Tasks
    PROVE  /\ Joined(ad', a)
           /\ \E t : /\ Moves(o, t) /\ DOMAIN t = TaskFields
                     /\ t.pc = "steering" /\ t.reply = "none"
<1> DEFINE row == a.mirror.local[i]
           id == row.id
           c == ActivateQueuedClient(a, id)
           q == TakeLocal(a.mirror, i)
           new == [row EXCEPT !.lane = "Steering"]
           r == Reserve(q, new)
           t == At("steering", row)
<1>0. IsAdapter(a) /\ Queue(a.mirror)
  BY DEF Accounts
<1>1. /\ ad' = [c EXCEPT !.mirror = Reserve(TakeLocal(@, i), new)]
      /\ task' = [task EXCEPT ![o] = t]
  BY DEF Steer
<1>2. Queue(q) /\ q.running = a.mirror.running
  BY <1>0, Taken, Slots
<1>3. Flagged(c, a) /\ a.active \subseteq c.active /\ c.started = a.started
  BY <1>0, ActivateFlags
<1>5. DOMAIN t = TaskFields /\ t.pc = "steering" /\ t.reply = "none"
  BY TaskStates
<1> HIDE DEF row, id, new
<1>4. r.running = a.mirror.running
  BY <1>2, Slots
<1> HIDE DEF c
<1>6. ad' = [c EXCEPT !.mirror = r]
  BY <1>1, <1>3 DEF Flagged, IsAdapter, AdapterFields
<1> HIDE DEF q, r, t
<1>7. /\ IsAdapter(ad') /\ ad'.agentRunning = c.agentRunning
      /\ ad'.cancelling = c.cancelling
      /\ ad'.bashRunning = c.bashRunning /\ ad'.active = c.active
      /\ ad'.started = c.started /\ ad'.mirror = r /\ ad'.outcome = c.outcome
      /\ ad'.withdrawn = c.withdrawn
  BY <1>3, <1>6 DEF Flagged, IsAdapter, AdapterFields
<1>8. Joined(ad', a)
  BY <1>3, <1>4, <1>7 DEF Joined, Flagged, Fresh
<1> QED BY <1>1, <1>5, <1>8 DEF Moves

\* flush_pending_steering: a row is steered into a run, or the task ends.
LEMMA FlushFlags ==
    ASSUME Accounts(ad), FlushPendingSteering(ad), DOMAIN task = Tasks
    PROVE  \/ ad' = ad /\ Moves(Consumer, Done)
           \/ /\ ~ad.cancelling /\ ad.agentRunning
              /\ Joined(ad', ad)
              /\ \E t : /\ Moves(Consumer, t) /\ DOMAIN t = TaskFields
                        /\ t.pc = "steering" /\ t.reply = "none"
<1> DEFINE i == NextLocalInLane(ad.mirror, "Steering")
<1>0. ad.mirror.local \in Seq(Held) /\ Consumer \in Tasks
  BY TaskKinds DEF Accounts, Queue
<1>1. i # 0 => i \in DOMAIN ad.mirror.local
  BY <1>0, LaneIndexFinds
<1>2. \/ ad' = ad /\ task' = [task EXCEPT ![Consumer] = Done]
      \/ /\ ~ad.cancelling /\ ad.agentRunning /\ i # 0
         /\ Steer(Consumer, ad, i)
  BY DEF FlushPendingSteering
<1> HIDE DEF i
<1> QED BY <1>0, <1>1, <1>2, SteerFlags DEF Moves

\* x.ai/queue/interject: a row is steered into a run, or put in front.
LEMMA InterjectFlags ==
    ASSUME Accounts(ad), NEW p \in Clients, Interject(p), DOMAIN task = Tasks
    PROVE  /\ task[InterjectTask(p)] = Done
           /\ \/ /\ ~ad.cancelling /\ (ad.agentRunning \/ ad.active # {})
                 /\ Joined(ad', ad)
                 /\ \E t : /\ Moves(InterjectTask(p), t) /\ DOMAIN t = TaskFields
                           /\ t.pc = "steering" /\ t.reply = "none"
              \/ /\ Alike(ad', ad)
                 /\ \/ ad.cancelling /\ Moves(InterjectTask(p), Done)
                    \/ Moves(InterjectTask(p), At("kick", NoRow))
<1> DEFINE i == LocalIndex(ad.mirror, p, AnyVersion)
           o == InterjectTask(p)
           row == ad.mirror.local[i]
           q == TakeLocal(ad.mirror, i)
           r == PushFrontLocal(q, row)
<1>0. IsAdapter(ad) /\ Queue(ad.mirror) /\ ad.mirror.local \in Seq(Held) /\ o \in Tasks
  BY TaskKinds DEF Accounts, Queue
<1>1. i # 0 => i \in DOMAIN ad.mirror.local
  BY <1>0, LocalIndexFinds
<1>2. /\ i # 0 /\ task[o] = Done
      /\ \/ /\ ~ad.cancelling /\ (ad.agentRunning \/ ad.active # {})
            /\ Steer(o, ad, i)
         \/ /\ ad' = [ad EXCEPT !.mirror = PushFrontLocal(TakeLocal(@, i), @.local[i])]
            /\ task' = [task EXCEPT ![o] = IF ad.cancelling THEN Done
                                           ELSE At("kick", NoRow)]
  BY DEF Interject
<1> HIDE DEF i
<1>3. CASE ~ad.cancelling /\ (ad.agentRunning \/ ad.active # {}) /\ Steer(o, ad, i)
  <2> HIDE DEF o
  <2>1. /\ Joined(ad', ad)
        /\ \E t : /\ Moves(o, t) /\ DOMAIN t = TaskFields
                  /\ t.pc = "steering" /\ t.reply = "none"
    BY <1>0, <1>1, <1>2, <1>3, SteerFlags
  <2> QED BY <1>2, <1>3, <2>1 DEF o
<1>4. CASE /\ ad' = [ad EXCEPT !.mirror = PushFrontLocal(TakeLocal(@, i), @.local[i])]
           /\ task' = [task EXCEPT ![o] = IF ad.cancelling THEN Done
                                          ELSE At("kick", NoRow)]
  <2>1. Queue(q) /\ row \in Held /\ q.running = ad.mirror.running
    BY <1>0, <1>1, <1>2, Taken, Slots
  <2>2. r.running = ad.mirror.running
    BY <2>1, Slots
  <2>3. ad' = [ad EXCEPT !.mirror = r]
    BY <1>0, <1>4 DEF IsAdapter, AdapterFields
  <2> HIDE DEF r
  <2>4. Alike(ad', ad)
    BY <1>0, <2>2, <2>3 DEF Alike, Fresh, IsAdapter, AdapterFields
  <2> QED BY <1>0, <1>2, <1>4, <2>4 DEF Moves
<1> HIDE DEF o
<1>5. \/ /\ ~ad.cancelling /\ (ad.agentRunning \/ ad.active # {})
         /\ Steer(o, ad, i)
      \/ /\ ad' = [ad EXCEPT !.mirror = PushFrontLocal(TakeLocal(@, i), @.local[i])]
         /\ task' = [task EXCEPT ![o] = IF ad.cancelling THEN Done
                                        ELSE At("kick", NoRow)]
  BY <1>2
<1> QED BY <1>2, <1>3, <1>4, <1>5

\* x.ai/queue/remove takes local rows only.
LEMMA RemoveFlags ==
    ASSUME Accounts(ad), NEW ids, RemoveRows(ids)
    PROVE  /\ Alike(ad', ad) /\ UNCHANGED task
           /\ ad.mirror.local # << >>
<1> DEFINE reason == "Cancelled"
           c == FinishQueuedEntries(ad, ids, reason)
           l == Without(ad.mirror.local, ids)
           q == [ad.mirror EXCEPT !.local = l]
           w == c.withdrawn \/ ~(ids \subseteq Clients)
<1>0. IsAdapter(ad) /\ IsMirror(ad.mirror)
  BY DEF Accounts, Queue
<1>1. ad' = [c EXCEPT !.mirror.local = Without(@, ids),
                      !.withdrawn = @ \/ ~(ids \subseteq Clients)] /\ UNCHANGED task
  BY DEF RemoveRows
<1>2. reason # "new"
  OBVIOUS
<1> HIDE DEF reason
<1>3. Flagged(c, ad) /\ c.active = ad.active /\ c.started = ad.started
  BY <1>0, <1>2, QueuedFlags
<1> HIDE DEF c
<1>4. "local" \in DOMAIN ad.mirror
  BY <1>0 DEF IsMirror, Mirror
<1>5. /\ IsAdapter(ad') /\ ad'.mirror = q /\ ad'.active = c.active
      /\ ad'.started = c.started /\ ad'.outcome = c.outcome
      /\ ad'.agentRunning = c.agentRunning /\ ad'.cancelling = c.cancelling
      /\ ad'.bashRunning = c.bashRunning /\ (c.withdrawn => ad'.withdrawn)
  BY <1>1, <1>3, <1>4 DEF Flagged, IsAdapter, AdapterFields
<1> HIDE DEF l
<1>6. q.running = ad.mirror.running
  <2>1. q = Mirror(l, ad.mirror.pi, ad.mirror.reserved, ad.mirror.parked,
                   ad.mirror.running, ad.mirror.seq)
    BY <1>0, MirrorExcept
  <2> HIDE DEF q
  <2> QED BY <2>1, MirrorFields
<1>7. ad.mirror.local # << >>
  <2>1. IdsOf(ad.mirror.local) # {}
    BY DEF RemoveRows
  <2> QED BY <2>1, NoRows
<1> HIDE DEF q
<1> QED BY <1>1, <1>3, <1>5, <1>6, <1>7 DEF Alike, Flagged, Fresh

\* prompt(): it waits, or it takes the slot.
LEMMA PromptFlags ==
    ASSUME Accounts(ad), NEW p \in Clients, NEW lane \in Lanes, Prompt(p, lane)
    PROVE  /\ ad.outcome[p] = "new" /\ ad'.outcome[p] = "open"
           /\ \/ /\ AdapterBusy(ad) /\ Alike(ad', ad)
                 /\ Moves(PromptTask(p), At("kick", NoRow))
              \/ /\ ~AdapterBusy(ad) /\ Running(ad', ad)
                 /\ Moves(PromptTask(p), Sent("direct", NoRow))
<1> DEFINE row == Row(p, p, lane, "Client")
           q == EnqueueLocal(ad.mirror, row)
           r == SetRunningPrimary(ad.mirror, p, p, "Client")
<1>0. /\ IsAdapter(ad) /\ Queue(ad.mirror) /\ ad.outcome[p] = "new"
      /\ DOMAIN ad.outcome = Clients /\ PromptTask(p) \in Tasks
  BY TaskKinds DEF Accounts, Prompt, Balanced
<1>1. row \in Held
  BY HeldRows
<1>2. q.running = ad.mirror.running
  BY <1>0, <1>1, Slots
<1>3. r.running # NoRow
  BY <1>0, Slots, NoRowIsNotHeld DEF SetRunningPrimary
<1>5. \/ /\ AdapterBusy(ad) /\ Moves(PromptTask(p), At("kick", NoRow))
         /\ ad' = [ad EXCEPT !.mirror = q, !.waiting = @ \cup {p}, !.outcome[p] = "open"]
      \/ /\ ~AdapterBusy(ad) /\ Moves(PromptTask(p), Sent("direct", NoRow))
         /\ ad' = [ad EXCEPT !.mirror = r, !.agentRunning = TRUE,
                             !.active = @ \cup {p}, !.outcome[p] = "open"]
  BY <1>0 DEF Prompt, Moves
<1> HIDE DEF q, r
<1>6. ASSUME ad' = [ad EXCEPT !.mirror = q, !.waiting = @ \cup {p}, !.outcome[p] = "open"]
      PROVE  Alike(ad', ad) /\ ad'.outcome[p] = "open"
  <2>1. ad'.outcome = [ad.outcome EXCEPT ![p] = "open"]
    BY <1>0, <1>6 DEF IsAdapter, AdapterFields
  <2>2. Fresh(ad', ad) /\ ad'.outcome[p] = "open"
    BY <1>0, <1>6, <2>1 DEF Fresh, IsAdapter, AdapterFields
  <2> QED BY <1>0, <1>2, <1>6, <2>2 DEF Alike, IsAdapter, AdapterFields
<1>7. ASSUME ad' = [ad EXCEPT !.mirror = r, !.agentRunning = TRUE,
                              !.active = @ \cup {p}, !.outcome[p] = "open"]
      PROVE  Running(ad', ad) /\ ad'.outcome[p] = "open"
  <2>1. ad'.outcome = [ad.outcome EXCEPT ![p] = "open"]
    BY <1>0, <1>7 DEF IsAdapter, AdapterFields
  <2>2. Fresh(ad', ad) /\ ad'.outcome[p] = "open"
    BY <1>0, <1>7, <2>1 DEF Fresh, IsAdapter, AdapterFields
  <2> QED BY <1>0, <1>3, <1>7, <2>2 DEF Running, IsAdapter, AdapterFields
<1>8. CASE AdapterBusy(ad) /\ Moves(PromptTask(p), At("kick", NoRow))
           /\ ad' = [ad EXCEPT !.mirror = q, !.waiting = @ \cup {p}, !.outcome[p] = "open"]
  BY <1>0, <1>6, <1>8
<1>9. CASE ~AdapterBusy(ad) /\ Moves(PromptTask(p), Sent("direct", NoRow))
           /\ ad' = [ad EXCEPT !.mirror = r, !.agentRunning = TRUE,
                               !.active = @ \cup {p}, !.outcome[p] = "open"]
  BY <1>0, <1>7, <1>9
<1> QED BY <1>5, <1>8, <1>9

-----------------------------------------------------------------------------
(* The shape of the tasks and of the flags.                                *)

\* agent_started marks active prompts only; a Bash command runs while its task
\* does, and the adapter cancels only when it was asked to.
Steady ==
    /\ ad.started \subseteq ad.active
    /\ ad.bashRunning => task[BashTask].pc = "bash"
    /\ spent.bash = 0 => ~ad.bashRunning /\ task[BashTask].pc = "end"
    /\ spent.cancel = 0 => ~ad.cancelling

\* The tasks, the flags, and the counters of the bounds.
Shape == Counted /\ Tasked /\ Steady

\* A step that starts neither a cancel nor a Bash command.
Modest(b, a) ==
    /\ b.started \subseteq b.active
    /\ b.bashRunning = a.bashRunning
    /\ b.cancelling => a.cancelling
    /\ Fresh(b, a)

\* The kinds of changes are modest.
LEMMA ModestKinds ==
    ASSUME NEW a, NEW b, a.started \subseteq a.active,
           \/ Alike(b, a) \/ Cleared(b, a) \/ Running(b, a) \/ Joined(b, a)
           \/ Flagged(b, a) /\ b.started \subseteq b.active
           \/ b = a
    PROVE  Modest(b, a)
BY DEF Alike, Cleared, Running, Joined, Flagged, Modest, Fresh

\* What has not been spent, in a step that keeps count.
LEMMA CancelsBefore ==
    ASSUME Counted, Counted', Grows
    PROVE  /\ spent.cancel \in Nat /\ spent'.cancel \in Nat
           /\ spent.cancel <= spent'.cancel
           /\ spent'.bash = 0 => spent.bash = 0
           /\ spent'.cancel = 0 => spent.cancel = 0
BY SpentBefore DEF Kinds

\* A step that moves no task.
LEMMA ShapeStays ==
    ASSUME Shape, Counted', Grows, Modest(ad', ad), UNCHANGED task
    PROVE  Shape'
<1>1. /\ spent.cancel \in Nat /\ spent'.cancel \in Nat /\ spent.cancel <= spent'.cancel
      /\ spent'.bash = 0 => spent.bash = 0
      /\ spent'.cancel = 0 => spent.cancel = 0
  BY CancelsBefore DEF Shape
<1>2. Tasked'
  <2>1. ASSUME NEW o \in Tasks, Unborn(o, ad'.outcome, spent'.cancel)
        PROVE  Unborn(o, ad.outcome, spent.cancel)
    BY <1>1, <2>1, StillUnborn DEF Modest, Fresh
  <2> QED BY <2>1 DEF Tasked, Shape
<1>3. Steady'
  BY <1>1 DEF Steady, Shape, Modest
<1> QED BY <1>2, <1>3 DEF Shape

\* A step that moves one task.
LEMMA ShapeMoves ==
    ASSUME Shape, Counted', Grows, Modest(ad', ad), NEW o, NEW t, Moves(o, t),
           Fit(o, t), o[1] = "bash" => t.pc = task[o].pc,
           task[o].pc # "end" \/ ~Unborn(o, ad'.outcome, spent'.cancel)
    PROVE  Shape'
<1>1. /\ spent.cancel \in Nat /\ spent'.cancel \in Nat /\ spent.cancel <= spent'.cancel
      /\ spent'.bash = 0 => spent.bash = 0
      /\ spent'.cancel = 0 => spent.cancel = 0
  BY CancelsBefore DEF Shape
<1>2. /\ DOMAIN task = Tasks
      /\ \A q \in Tasks : Fit(q, task[q])
      /\ \A q \in Tasks : Unborn(q, ad.outcome, spent.cancel) => task[q] = Done
  BY DEF Shape, Tasked
<1>3. /\ DOMAIN task' = Tasks /\ task'[o] = t /\ o \in Tasks
      /\ \A q \in Tasks : q # o => task'[q] = task[q]
  BY <1>2, OthersWait
<1>4. ASSUME NEW q \in Tasks, Unborn(q, ad'.outcome, spent'.cancel)
      PROVE  task'[q] = Done
  <2>1. Unborn(q, ad.outcome, spent.cancel)
    BY <1>1, <1>4, StillUnborn DEF Modest, Fresh
  <2>2. task[q] = Done
    BY <1>2, <2>1
  <2>3. q # o
    BY <1>4, <2>2, TaskStates
  <2> QED BY <1>3, <2>2, <2>3
<1>5. Tasked'
  BY <1>2, <1>3, <1>4 DEF Tasked
<1>6. Steady'
  <2>1. BashTask \in Tasks /\ BashTask[1] = "bash"
    BY TaskKinds
  <2>2. task'[BashTask].pc = task[BashTask].pc
    BY <1>3, <2>1
  <2> QED BY <1>1, <2>2 DEF Steady, Shape, Modest
<1> QED BY <1>5, <1>6 DEF Shape

\* A step that leaves a probe behind.
LEMMA ShapeSpawns ==
    ASSUME Shape, Counted', Grows, Modest(ad', ad), NEW o \in Tasks,
           task[o].pc \notin {"end", "bash"}, SpawnProbe(o)
    PROVE  Shape'
<1>1. /\ spent.cancel \in Nat /\ spent'.cancel \in Nat /\ spent.cancel <= spent'.cancel
      /\ spent'.bash = 0 => spent.bash = 0
      /\ spent'.cancel = 0 => spent.cancel = 0
  BY CancelsBefore DEF Shape
<1>2. /\ DOMAIN task = Tasks
      /\ \A q \in Tasks : Fit(q, task[q])
      /\ \A q \in Tasks : Unborn(q, ad.outcome, spent.cancel) => task[q] = Done
  BY DEF Shape, Tasked
<1>3. PICK n \in 1 .. MaxProbes :
               /\ ProbeTask(n) \in Tasks /\ task[ProbeTask(n)] = Done /\ ProbeTask(n) # o
               /\ DOMAIN task' = Tasks
               /\ task'[o] = Done /\ task'[ProbeTask(n)] = At("doze", NoRow)
               /\ \A q \in Tasks : q # o /\ q # ProbeTask(n) => task'[q] = task[q]
  BY <1>2, Spawned
<1>f. Fit(o, Done) /\ Fit(ProbeTask(n), At("doze", NoRow))
  BY TaskStates, TaskKinds DEF Fit
<1>4. ASSUME NEW q \in Tasks, Unborn(q, ad'.outcome, spent'.cancel)
      PROVE  task'[q] = Done
  <2>1. Unborn(q, ad.outcome, spent.cancel)
    BY <1>1, <1>4, StillUnborn DEF Modest, Fresh
  <2>2. task[q] = Done
    BY <1>2, <2>1
  <2>3. q # ProbeTask(n)
    <3>1. q[1] \in {"prompt", "settle"}
      BY <2>1, TaskKinds DEF Unborn
    <3> QED BY <3>1, TaskKinds
  <2> QED BY <1>3, <2>2, <2>3
<1>5. Tasked'
  BY <1>2, <1>3, <1>4, <1>f DEF Tasked
<1>6. Steady'
  <2>1. BashTask \in Tasks /\ BashTask[1] = "bash"
    BY TaskKinds
  <2>2. o # BashTask /\ ProbeTask(n) # BashTask
    BY <1>2, <2>1, TaskKinds DEF Fit
  <2>3. task'[BashTask].pc = task[BashTask].pc
    BY <1>3, <2>1, <2>2
  <2> QED BY <1>1, <2>3 DEF Steady, Shape, Modest
<1> QED BY <1>5, <1>6 DEF Shape

\* A task that the code makes, in the place of one that is there.
LEMMA ShapeGoesOn ==
    ASSUME Shape, Counted', Grows, Modest(ad', ad), NEW o, NEW t, Moves(o, t),
           DOMAIN t = TaskFields, t.pc = "settled" => t.then = "goal",
           task[o].pc \notin {"end", "bash"}
    PROVE  Shape'
<1>1. o \in Tasks /\ Fit(o, task[o])
  BY DEF Shape, Tasked, Moves
<1>2. o[1] # "bash"
  BY <1>1 DEF Fit
<1>3. Fit(o, t)
  BY <1>2 DEF Fit
<1> QED BY <1>2, <1>3, ShapeMoves

\* The client's requests.
LEMMA ClientShape ==
    ASSUME SchedInv, Shape, Counted', Grows, ClientStep
    PROVE  Shape'
<1>0. Accounts(ad) /\ DOMAIN task = Tasks /\ ad.started \subseteq ad.active
  BY DEF SchedInv, Shape, Tasked, Steady
<1>1. ASSUME NEW p \in Clients, NEW lane \in Lanes, Prompt(p, lane) PROVE Shape'
  <2>1. /\ ad'.outcome[p] = "open"
        /\ \E t : Moves(PromptTask(p), t) /\ DOMAIN t = TaskFields /\ t.pc # "settled"
        /\ Alike(ad', ad) \/ Running(ad', ad)
    BY <1>0, <1>1, PromptFlags, TaskStates
  <2>2. ~Unborn(PromptTask(p), ad'.outcome, spent'.cancel)
    BY <2>1, TaskKinds DEF Unborn
  <2>3. PICK t : Moves(PromptTask(p), t) /\ DOMAIN t = TaskFields /\ t.pc # "settled"
    BY <2>1
  <2>4. PromptTask(p)[1] # "bash"
    BY TaskKinds
  <2>5. Fit(PromptTask(p), t)
    BY <2>3, <2>4 DEF Fit
  <2>6. Modest(ad', ad)
    BY <1>0, <2>1, ModestKinds
  <2> QED BY <2>2, <2>3, <2>4, <2>5, <2>6, ShapeMoves
<1>2. ASSUME NEW p \in Clients, Interject(p) PROVE Shape'
  <2>1. /\ \E t : Moves(InterjectTask(p), t) /\ DOMAIN t = TaskFields /\ t.pc # "settled"
        /\ Alike(ad', ad) \/ Joined(ad', ad)
    BY <1>0, <1>2, InterjectFlags, TaskStates
  <2>2. ~Unborn(InterjectTask(p), ad'.outcome, spent'.cancel)
    BY TaskKinds DEF Unborn
  <2>3. PICK t : Moves(InterjectTask(p), t) /\ DOMAIN t = TaskFields /\ t.pc # "settled"
    BY <2>1
  <2>4. InterjectTask(p)[1] # "bash"
    BY TaskKinds
  <2>5. Fit(InterjectTask(p), t)
    BY <2>3, <2>4 DEF Fit
  <2>6. Modest(ad', ad)
    BY <1>0, <2>1, ModestKinds
  <2> QED BY <2>2, <2>3, <2>4, <2>5, <2>6, ShapeMoves
<1>3. CASE Cancel
  <2> DEFINE n == spent'.cancel
             o == SettleTask(n)
             t == At("poll", NoRow)
             b == DropEverything(ad)
  <2>1. /\ Spend("cancel") /\ ad' = [b EXCEPT !.cancelling = TRUE]
        /\ task' = [task EXCEPT ![o] = t]
    BY <1>3 DEF Cancel
  <2>2. /\ n = spent.cancel + 1 /\ spent.cancel < Bounds.cancel /\ spent'.bash = spent.bash
        /\ spent.cancel \in Nat
    BY <2>1, Spending, SpentBefore DEF Shape, Kinds
  <2>3. n \in 1 .. MaxCancels
    BY <2>2, SchedulerBounds DEF Bounds
  <2>4. Moves(o, t) /\ o \in Tasks
    BY <2>1, <2>3, TaskKinds DEF Moves
  <2>5. Fit(o, t)
    BY TaskStates, TaskKinds DEF Fit
  <2> HIDE DEF b
  <2>6. /\ IsAdapter(b) /\ b.bashRunning = ad.bashRunning
        /\ b.active = {} /\ b.started = {} /\ Fresh(b, ad)
    BY <1>0, DropFlags DEF b
  <2>7. /\ ad'.bashRunning = ad.bashRunning /\ ad'.outcome = b.outcome
        /\ ad'.active = {} /\ ad'.started = {}
    BY <2>1, <2>6 DEF IsAdapter, AdapterFields
  <2>8. /\ DOMAIN task' = Tasks /\ task'[o] = t
        /\ \A q \in Tasks : q # o => task'[q] = task[q]
    BY <1>0, <2>4, OthersWait
  <2> HIDE DEF o, t, n
  <2>9. ASSUME NEW q \in Tasks, Unborn(q, ad'.outcome, n)
        PROVE  task'[q] = Done
    <3>1. Unborn(q, ad.outcome, spent.cancel)
      BY <2>2, <2>6, <2>7, <2>9, StillUnborn DEF Fresh
    <3>2. q # o
      <4>1. ASSUME NEW k \in Nat, k > n PROVE SettleTask(k) # SettleTask(n)
        BY <2>2, <4>1, TaskKinds
      <4>2. \A p : PromptTask(p) # SettleTask(n)
        BY TaskKinds
      <4> QED BY <2>9, <4>1, <4>2 DEF Unborn, o
    <3> QED BY <2>8, <3>1, <3>2 DEF Shape, Tasked
  <2>10. Tasked'
    BY <2>5, <2>8, <2>9 DEF Shape, Tasked, n
  <2>11. Steady'
    <3>1. BashTask \in Tasks /\ BashTask # o
      BY TaskKinds DEF o
    <3>2. task'[BashTask] = task[BashTask]
      BY <2>8, <3>1
    <3>3. spent'.cancel # 0
      BY <2>2 DEF n
    <3> QED BY <2>2, <2>7, <3>2, <3>3 DEF Steady, Shape
  <2> QED BY <2>10, <2>11 DEF Shape
<1>4. ASSUME NEW ids, RemoveRows(ids) PROVE Shape'
  BY <1>0, <1>4, RemoveFlags, ModestKinds, ShapeStays
<1>5. CASE BashStarts
  <2> DEFINE t == Sent("bash", NoRow)
  <2>1. /\ Spend("bash") /\ ad' = [ad EXCEPT !.bashRunning = TRUE] /\ Moves(BashTask, t)
    BY <1>5, TaskKinds DEF BashStarts, Moves
  <2>2. spent'.bash = spent.bash + 1 /\ spent'.cancel = spent.cancel /\ spent.bash \in Nat
    BY <2>1, Spending, SpentBefore DEF Shape, Kinds
  <2>3. /\ ad'.active = ad.active /\ ad'.started = ad.started
        /\ ad'.cancelling = ad.cancelling /\ ad'.outcome = ad.outcome
    BY <1>0, <2>1 DEF Accounts, IsAdapter, AdapterFields
  <2>4. /\ DOMAIN task' = Tasks /\ task'[BashTask] = t
        /\ \A q \in Tasks : q # BashTask => task'[q] = task[q]
    BY <1>0, <2>1, OthersWait
  <2>5. Fit(BashTask, t) /\ t.pc = "bash"
    BY TaskStates, TaskKinds DEF Fit
  <2> HIDE DEF t
  <2>6. \A o, c : ~Unborn(BashTask, o, c)
    BY TaskKinds DEF Unborn
  <2>7. Tasked'
    BY <2>2, <2>3, <2>4, <2>5, <2>6 DEF Shape, Tasked
  <2>8. Steady'
    BY <2>2, <2>3, <2>4, <2>5 DEF Shape, Steady
  <2> QED BY <2>7, <2>8 DEF Shape
<1> QED BY <1>1, <1>2, <1>3, <1>4, <1>5 DEF ClientStep

-----------------------------------------------------------------------------
(* What the tasks' steps do to the flags.                                  *)

\* Task o goes on to one of the awaits pcs.
Goes(o, pcs) == \E t : /\ Moves(o, t) /\ DOMAIN t = TaskFields
                       /\ t.pc \in pcs /\ t.reply = "none"

\* No prompt is active any more, and the flags and the mirror are the same.
Emptied(b, a) == Flagged(b, a) /\ b.active = {} /\ b.started = {}

\* The next turn has the slot, and none of its prompts has started.
Seized(b, a) ==
    /\ IsAdapter(b) /\ b.agentRunning = TRUE /\ b.cancelling = a.cancelling
    /\ ~a.cancelling /\ b.bashRunning = a.bashRunning /\ b.started = {}
    /\ b.mirror.running # NoRow /\ Fresh(b, a)

\* A refused prompt frees the slot, or its reservation.
LEMMA FailsFlags ==
    ASSUME Accounts(ad), ad.started \subseteq ad.active,
           NEW o, DirectFails(o) \/ DispatchFails(o) \/ SteerFails(o)
    PROVE  Modest(ad', ad)
<1>t. ASSUME NEW id, NEW reason \in {"Error", "Cancelled"}, NEW c,
             c = TakeActivePrompt(ad, id, reason)
      PROVE  Flagged(c, ad) /\ c.started \subseteq c.active
  BY <1>t, TakeFlags
<1>m. ASSUME NEW c, Flagged(c, ad), c.started \subseteq c.active, NEW q
      PROVE  /\ Modest([c EXCEPT !.mirror = q], ad)
             /\ \A x : /\ Modest([c EXCEPT !.agentRunning = x, !.mirror = q], ad)
                       /\ IsAdapter([c EXCEPT !.agentRunning = x, !.mirror = q])
  BY <1>m DEF Modest, Flagged, Fresh, IsAdapter, AdapterFields
<1>1. CASE DirectFails(o)
  <2> DEFINE c == TakeActivePrompt(ad, o, "Error")
             q == ClearRunning(ReleaseReservation(c.mirror, o))
  <2>1. ad' = [c EXCEPT !.agentRunning = FALSE,
                        !.mirror = ClearRunning(ReleaseReservation(@, o))]
    BY <1>1 DEF DirectFails
  <2>2. Flagged(c, ad) /\ c.started \subseteq c.active
    BY <1>t
  <2> HIDE DEF c
  <2>3. ad' = [c EXCEPT !.agentRunning = FALSE, !.mirror = q]
    BY <2>1, <2>2 DEF Flagged, IsAdapter, AdapterFields
  <2> HIDE DEF q
  <2> QED BY <1>m, <2>2, <2>3
<1>2. CASE SteerFails(o)
  <2> DEFINE id == task[o].row.id
             c == TakeActivePrompt(ad, id, "Cancelled")
             q == ReleaseReservation(c.mirror, id)
  <2>1. ad' = [c EXCEPT !.mirror = ReleaseReservation(@, id)]
    BY <1>2 DEF SteerFails
  <2>2. Flagged(c, ad) /\ c.started \subseteq c.active
    BY <1>t
  <2> HIDE DEF c, id
  <2>3. ad' = [c EXCEPT !.mirror = q]
    BY <2>1, <2>2 DEF Flagged, IsAdapter, AdapterFields
  <2> HIDE DEF q
  <2> QED BY <1>m, <2>2, <2>3
<1>3. CASE DispatchFails(o)
  <2> DEFINE row == task[o].row
             id == row.id
             c == TakeActivePrompt(ad, id, "Cancelled")
             q == ClearRunning(c.mirror)
             a == [c EXCEPT !.agentRunning = FALSE, !.mirror = q]
             s == SendServerPromptComplete(a, row)
  <2>1. ad' = a \/ ad' = s
    <3>1. \/ ad' = [c EXCEPT !.agentRunning = FALSE, !.mirror = ClearRunning(@)]
          \/ ad' = SendServerPromptComplete(
                [c EXCEPT !.agentRunning = FALSE, !.mirror = ClearRunning(@)], row)
      BY <1>3 DEF DispatchFails
    <3>2. Flagged(c, ad)
      BY <1>t
    <3> HIDE DEF c, row
    <3>3. [c EXCEPT !.agentRunning = FALSE, !.mirror = ClearRunning(@)] = a
      BY <3>2 DEF Flagged, IsAdapter, AdapterFields
    <3> QED BY <3>1, <3>3
  <2>2. Flagged(c, ad) /\ c.started \subseteq c.active
    BY <1>t
  <2> HIDE DEF c, row, id, q
  <2>3. Modest(a, ad) /\ IsAdapter(a)
    BY <1>m, <2>2
  <2> HIDE DEF a
  <2>4. Flagged(s, a) /\ s.active = a.active /\ s.started = a.started
    BY <2>3, CompleteFlags
  <2> HIDE DEF s
  <2> QED BY <2>1, <2>3, <2>4 DEF Modest, Flagged, Fresh
<1> QED BY <1>1, <1>2, <1>3

\* The end of a turn: its prompts are answered, and the queue goes on.
LEMMA TurnEndsFlags ==
    ASSUME Accounts(ad), Arrays(pi), NEW o \in Tasks, TurnEnds(o), DOMAIN task = Tasks
    PROVE  /\ PiSame
           /\ \/ /\ Emptied(ad', ad)
                 /\ \/ Goes(o, {"kick"})
                    \/ /\ AdapterBusy(ad') \/ ad'.mirror.local = << >>
                       /\ Goes(o, {"end", "continue"})
              \/ /\ Seized(ad', ad)
                 /\ Goes(o, {"announce"})
<1> DEFINE row == task[o].row
           reason == "EndTurn"
           c == FinishPrompts(ad, reason)
           a == CompleteServerTurn(c, row)
           t == Onward(o, At("kick", NoRow))
<1>0. IsAdapter(ad)
  BY DEF Accounts
<1>1. \/ DispatchNextQueued(o, a)
      \/ ad' = a /\ pi' = pi /\ task' = [task EXCEPT ![o] = t]
  BY DEF TurnEnds
<1>2. reason # "new" /\ reason \in Answers
  BY DEF Answers
<1>k. DOMAIN t = TaskFields /\ t.pc = "kick" /\ t.reply = "none"
  BY TaskStates
<1> HIDE DEF reason, row, t
<1>3. Flagged(c, ad) /\ c.active = {} /\ c.started = {} /\ Accounts(c)
  BY <1>0, <1>2, FinishFlags, FinishAccounts
<1> HIDE DEF c
<1>4. Flagged(a, c) /\ a.active = c.active /\ a.started = c.started /\ Same(a, c)
  BY <1>3, CompleteFlags, CompleteFields DEF Flagged
<1> HIDE DEF a
<1>5. Accounts(a)
  BY <1>3, <1>4, SameAccounts
<1>6. Emptied(a, ad)
  BY <1>3, <1>4 DEF Emptied, Flagged, Fresh
<1>7. CASE ad' = a /\ pi' = pi /\ task' = [task EXCEPT ![o] = t]
  BY <1>6, <1>7, <1>k DEF Goes, Moves, PiSame
<1>8. CASE DispatchNextQueued(o, a)
  <2>1. PiSame
    BY <1>5, <1>8, DispatchFlags
  <2>2. CASE /\ AdapterBusy(a) \/ a.mirror.local = << >>
             /\ Alike(ad', a) /\ ad'.mirror = a.mirror /\ ad'.withdrawn = a.withdrawn
             /\ \E x : /\ Moves(o, x) /\ DOMAIN x = TaskFields
                       /\ x.pc \in {"end", "continue"} /\ x.reply = "none"
    <3>1. Emptied(ad', ad)
      BY <1>6, <2>2 DEF Emptied, Flagged, Alike, Fresh
    <3>2. AdapterBusy(ad') \/ ad'.mirror.local = << >>
      BY <2>2 DEF Alike, AdapterBusy
    <3> QED BY <2>1, <2>2, <3>1, <3>2 DEF Goes
  <2>3. CASE /\ ~AdapterBusy(a)
             /\ Running(ad', a)
             /\ \E x : /\ Moves(o, x) /\ DOMAIN x = TaskFields
                       /\ x.pc = "announce" /\ x.reply = "none"
    <3>1. Seized(ad', ad)
      BY <1>6, <2>3 DEF Emptied, Seized, Running, Flagged, Fresh, AdapterBusy
    <3> QED BY <2>1, <2>3, <3>1 DEF Goes
  <2> QED BY <1>5, <1>8, <2>2, <2>3, DispatchFlags
<1> QED BY <1>1, <1>7, <1>8

\* A row with a generated id comes into the local queue, and nothing else.
LEMMA GeneratedFlags ==
    ASSUME NEW a, Accounts(a), NEW text \in HostTexts, NEW lane \in RowLanes, NEW x
    PROVE  /\ Alike([a EXCEPT !.mirror = EnqueueGenerated(@, text, lane, "Extension")], a)
           /\ Alike([a EXCEPT !.mirror = EnqueueGenerated(@, text, lane, "Extension"),
                              !.continued = x], a)
<1> DEFINE q == EnqueueGenerated(a.mirror, text, lane, "Extension")
           b == [a EXCEPT !.mirror = EnqueueGenerated(@, text, lane, "Extension")]
           c == [a EXCEPT !.mirror = EnqueueGenerated(@, text, lane, "Extension"),
                          !.continued = x]
           n == a.mirror.seq + 1
           m == [a.mirror EXCEPT !.seq = n]
           row == Row(n, text, lane, "Extension")
<1>0. IsAdapter(a) /\ Queue(a.mirror)
  BY DEF Accounts
<1>1. n \in Nat
  BY <1>0 DEF Queue
<1>2. q = EnqueueLocal(m, row)
  BY DEF EnqueueGenerated, NextId
<1>3. row \in Held
  BY <1>1, HeldRows
<1> HIDE DEF n, row
<1>4. IsMirror(m) /\ m.local = a.mirror.local /\ m.seq = n /\ m.running = a.mirror.running
  <2> DEFINE g == a.mirror
  <2>1. IsMirror(g) /\ m = [g EXCEPT !.seq = n]
    BY <1>0 DEF Queue
  <2> HIDE DEF m, g
  <2>2. IsMirror(m) /\ m.local = g.local /\ m.seq = n /\ m.running = g.running
    BY <2>1, NumberedFields
  <2> QED BY <2>2 DEF g
<1> HIDE DEF m
<1>5. Queue(m)
  BY <1>0, <1>1, <1>4 DEF Queue
<1>6. q.running = a.mirror.running
  BY <1>2, <1>3, <1>4, <1>5, Slots
<1>7. b = [a EXCEPT !.mirror = q] /\ c = [a EXCEPT !.mirror = q, !.continued = x]
  BY <1>0 DEF IsAdapter, AdapterFields
<1> HIDE DEF b, c, q
<1>8. Alike(b, a)
  BY <1>0, <1>6, <1>7 DEF Alike, Fresh, IsAdapter, AdapterFields
<1>9. Alike(c, a)
  BY <1>0, <1>6, <1>7 DEF Alike, Fresh, IsAdapter, AdapterFields
<1> QED BY <1>8, <1>9 DEF b, c

\* A continuation is queued, or dropped at the barrier.
LEMMA ContinueFlags ==
    ASSUME Accounts(ad), NEW o \in Tasks, ContinueGoal(o)
    PROVE  /\ Alike(ad', ad)
           /\ \/ ~ad.cancelling /\ Goes(o, {"kick"})
              \/ ad.cancelling /\ ad'.mirror = ad.mirror /\ Goes(o, {"end"})
<1> DEFINE t == Onward(o, At("kick", NoRow))
           text == "goal"
           lane == "FollowUp"
           n == ad.continued + 1
           b == [ad EXCEPT !.mirror = EnqueueGenerated(@, text, lane, "Extension"),
                           !.continued = n]
<1>0. IsAdapter(ad)
  BY DEF Accounts
<1>1. \/ /\ ad.cancelling
         /\ ad' = RecordContinuation(ad, task[o].goal)
         /\ task' = [task EXCEPT ![o] = Done]
      \/ ~ad.cancelling /\ ad' = b /\ task' = [task EXCEPT ![o] = t]
  BY DEF ContinueGoal
<1>2. text \in HostTexts /\ lane \in RowLanes
  BY DEF HostTexts, RowLanes, Lanes
<1>3. DOMAIN t = TaskFields /\ t.pc = "kick" /\ t.reply = "none"
  BY TaskStates
<1> HIDE DEF text, lane, t, n
<1>4. Alike(b, ad)
  BY <1>2, GeneratedFlags
<1> HIDE DEF b
<1>5. CASE /\ ad.cancelling
           /\ ad' = RecordContinuation(ad, task[o].goal)
           /\ task' = [task EXCEPT ![o] = Done]
  <2> DEFINE r == RecordContinuation(ad, task[o].goal)
  <2>1. Flagged(r, ad) /\ r.active = ad.active /\ r.started = ad.started
    BY <1>0, RecordFlags
  <2> HIDE DEF r
  <2>2. Alike(r, ad) /\ r.mirror = ad.mirror
    BY <2>1, FlaggedAlike
  <2>3. Goes(o, {"end"})
    BY <1>5, TaskStates DEF Goes, Moves
  <2>4. ad' = r
    BY <1>5 DEF r
  <2> QED BY <1>5, <2>2, <2>3, <2>4
<1> QED BY <1>1, <1>3, <1>4, <1>5 DEF Goes, Moves

\* enqueue_extension_message: the row comes, or the consumer goes on.
LEMMA ExtensionFlags ==
    ASSUME SchedInv, ExtensionMessage
    PROVE  /\ Alike(ad', ad)
           /\ \/ ~ad.cancelling /\ Goes(Consumer, {"kick"})
              \/ ad.cancelling /\ ad' = ad /\ UNCHANGED task
<1> DEFINE t == At("kick", NoRow)
           text == "ext"
           lane == Head(events).lane
           b == [ad EXCEPT !.mirror = EnqueueGenerated(@, text, lane, "Extension")]
<1>0. IsAdapter(ad) /\ Accounts(ad)
  BY DEF Accounts, SchedInv
<1>1. /\ NextEvent("extension")
      /\ \/ ad.cancelling /\ ad' = ad /\ UNCHANGED task
         \/ ~ad.cancelling /\ ad' = b /\ task' = [task EXCEPT ![Consumer] = t]
  BY DEF ExtensionMessage
<1>2. text \in HostTexts /\ lane \in RowLanes
  BY <1>1, NextRead DEF HostTexts, Readable
<1>3. DOMAIN t = TaskFields /\ t.pc = "kick" /\ t.reply = "none" /\ Consumer \in Tasks
  BY TaskStates, TaskKinds
<1> HIDE DEF text, lane, t
<1>4. Alike(b, ad)
  BY <1>0, <1>2, GeneratedFlags
<1> HIDE DEF b
<1>5. Alike(ad, ad)
  BY <1>0 DEF Alike, Fresh
<1> QED BY <1>1, <1>3, <1>4, <1>5 DEF Goes, Moves

\* The active prompts have started.
Begun(b, a) ==
    /\ IsAdapter(b) /\ b.agentRunning = TRUE /\ b.cancelling = a.cancelling
    /\ b.bashRunning = a.bashRunning
    /\ b.active = a.active /\ b.started = a.active
    /\ b.mirror.local = a.mirror.local /\ Fresh(b, a)

\* A started follow-up may have taken the free slot.
Updated(b, a) ==
    /\ IsAdapter(b) /\ b.agentRunning = a.agentRunning /\ b.cancelling = a.cancelling
    /\ b.bashRunning = a.bashRunning
    /\ b.active = a.active /\ b.started = a.started
    /\ a.mirror.running # NoRow => b.mirror.running = a.mirror.running
    /\ b.mirror.local = a.mirror.local /\ Fresh(b, a)

\* agent_start, unless the adapter cancels.
LEMMA AgentStartFlags ==
    ASSUME SchedInv, AgentStart
    PROVE  \/ ad.cancelling /\ ad' = ad
           \/ ~ad.cancelling /\ Begun(ad', ad)
<1> DEFINE q == IF ad.active = {} THEN PromoteParkedRunning(ad.mirror) ELSE ad.mirror
<1>0. IsAdapter(ad) /\ Queue(ad.mirror)
  BY DEF Accounts, SchedInv
<1>1. q.local = ad.mirror.local
  BY <1>0, PromoteUntouched
<1>2. \/ ad.cancelling /\ ad' = ad
      \/ /\ ~ad.cancelling
         /\ ad' = [ad EXCEPT !.agentRunning = TRUE, !.started = ad.active,
                             !.mirror = IF ad.active = {} THEN PromoteParkedRunning(@) ELSE @]
  BY DEF AgentStart
<1>3. ASSUME ad' = [ad EXCEPT !.agentRunning = TRUE, !.started = ad.active,
                             !.mirror = IF ad.active = {} THEN PromoteParkedRunning(@) ELSE @]
      PROVE  ad' = [ad EXCEPT !.agentRunning = TRUE, !.started = ad.active, !.mirror = q]
  BY <1>0, <1>3 DEF IsAdapter, AdapterFields
<1> HIDE DEF q
<1>4. ASSUME ad' = [ad EXCEPT !.agentRunning = TRUE, !.started = ad.active, !.mirror = q]
      PROVE  Begun(ad', ad)
  BY <1>0, <1>1, <1>4 DEF Begun, Fresh, IsAdapter, AdapterFields
<1> QED BY <1>2, <1>3, <1>4

\* queue_update, unless the adapter cancels.
LEMMA UpdateFlags ==
    ASSUME SchedInv, QueueUpdate
    PROVE  \/ ad' = ad
           \/ ~ad.cancelling /\ Updated(ad', ad)
<1> DEFINE s == Head(events).steering
           f == Head(events).followUp
           q == ApplyQueueUpdate(ad.mirror, s, f)
<1>0. IsAdapter(ad) /\ Queue(ad.mirror) /\ IsMirror(ad.mirror)
  BY DEF Accounts, SchedInv, Queue
<1>1. /\ NextEvent("queue_update")
      /\ \/ ad' = ad
         \/ ~ad.cancelling /\ ad' = [ad EXCEPT !.mirror = ApplyQueueUpdate(@, s, f)]
  BY DEF QueueUpdate
<1>2. IsSeq(s) /\ IsSeq(f)
  BY <1>1, NextRead DEF Readable
<1> HIDE DEF s, f
<1>3. q.local = ad.mirror.local
  BY <1>0, <1>2, UpdateUntouched
<1>4. ad.mirror.running # NoRow => q.running = ad.mirror.running
  <2> DEFINE p == UpdateAcc(ad.mirror, s, f).next
             r == Without(UpdateAcc(ad.mirror, s, f).reserved, IdsOf(UpdateAcc(ad.mirror, s, f).next))
             k == ad.mirror.parked \o (IF Promoted(ad.mirror, s, f) THEN Tail(Left(ad.mirror, s, f))
                               ELSE Left(ad.mirror, s, f))
             run == IF Promoted(ad.mirror, s, f) THEN Head(Left(ad.mirror, s, f))
                    ELSE ad.mirror.running
             n == UpdateAcc(ad.mirror, s, f).seq
  <2>1. q = Mirror(ad.mirror.local, p, r, k, run, n)
    BY <1>0, UpdateParts
  <2>2. ad.mirror.running # NoRow => run = ad.mirror.running
    BY DEF Promoted
  <2> HIDE DEF p, r, k, run, n, q
  <2>3. q.running = run
    BY <2>1, MirrorFields
  <2> QED BY <2>2, <2>3
<1> HIDE DEF q
<1>5. ASSUME ad' = [ad EXCEPT !.mirror = q]
      PROVE  Updated(ad', ad)
  BY <1>0, <1>3, <1>4, <1>5 DEF Updated, Fresh, IsAdapter, AdapterFields
<1>6. ASSUME ad' = [ad EXCEPT !.mirror = ApplyQueueUpdate(@, s, f)]
      PROVE  ad' = [ad EXCEPT !.mirror = q]
  BY <1>0, <1>6 DEF q, IsAdapter, AdapterFields
<1> QED BY <1>1, <1>5, <1>6

\* More kinds of changes that are modest.
LEMMA ModestTurns ==
    ASSUME NEW a, NEW b, a.started \subseteq a.active,
           \/ Emptied(b, a) \/ Seized(b, a) \/ Begun(b, a) \/ Updated(b, a)
    PROVE  Modest(b, a)
BY DEF Emptied, Seized, Begun, Updated, Flagged, Modest, Fresh

\* A task goes on from an await.
LEMMA ShapeGoes ==
    ASSUME Shape, Counted', Grows, Modest(ad', ad), NEW o, NEW pcs, Goes(o, pcs),
           "settled" \notin pcs, task[o].pc \notin {"end", "bash"}
    PROVE  Shape'
<1>1. PICK t : Moves(o, t) /\ DOMAIN t = TaskFields /\ t.pc \in pcs
  BY DEF Goes
<1>2. t.pc = "settled" => t.then = "goal"
  BY <1>1
<1> QED BY <1>1, <1>2, ShapeGoesOn

\* The steps of the tasks.
LEMMA TaskShape ==
    ASSUME SchedInv, Shape, Counted', Grows, NEW o \in Tasks, TaskStep(o)
    PROVE  Shape'
<1>0. /\ Accounts(ad) /\ Arrays(pi) /\ DOMAIN task = Tasks
      /\ ad.started \subseteq ad.active
      /\ Modest(ad, ad)
  <2>1. Accounts(ad) /\ Arrays(pi) /\ DOMAIN task = Tasks /\ ad.started \subseteq ad.active
    BY DEF SchedInv, Shape, Tasked, Steady
  <2> QED BY <2>1, ModestKinds
<1>s. /\ \A pc, row : /\ DOMAIN At(pc, row) = TaskFields /\ At(pc, row).pc = pc
                      /\ DOMAIN Sent(pc, row) = TaskFields /\ Sent(pc, row).pc = pc
      /\ \A row : /\ DOMAIN Settling(row) = TaskFields
                  /\ Settling(row).then = "goal"
      /\ DOMAIN Done = TaskFields /\ Done.pc = "end"
      /\ \A t : DOMAIN t = TaskFields =>
              DOMAIN Onward(o, t) = TaskFields /\ Onward(o, t).pc = t.pc
  BY TaskStates
<1>1. ASSUME Kick(o) PROVE Shape'
  <2>1. Modest(ad', ad)
    BY <1>0, <1>1, DispatchFlags, ModestKinds DEF Kick
  <2>2. Goes(o, {"end", "continue", "announce"}) /\ task[o].pc = "kick"
    BY <1>0, <1>1, DispatchFlags DEF Kick, Goes
  <2> QED BY <2>1, <2>2, ShapeGoes
<1>2. ASSUME Dispatch(o) \/ SendSteer(o) PROVE Shape'
  <2> DEFINE s == Sent("sent", task[o].row)
             t == Onward(o, s)
             u == Sent("steer", task[o].row)
  <2>1. /\ task[o].pc \in {"announce", "steering"} /\ ad' = ad
        /\ task' = [task EXCEPT ![o] = t] \/ task' = [task EXCEPT ![o] = u]
    BY <1>2 DEF Dispatch, SendSteer
  <2>2. DOMAIN t = TaskFields /\ t.pc = "sent" /\ DOMAIN u = TaskFields /\ u.pc = "steer"
    BY <1>s
  <2> HIDE DEF t, u
  <2> QED BY <1>0, <2>1, <2>2, ShapeGoesOn DEF Moves
<1>3. ASSUME DispatchAccepted(o) PROVE Shape'
  <2>1. /\ SpawnProbe(o) /\ task[o].pc = "sent"
        /\ ad' = ad \/ ad' = RecordContinuation(ad, task[o].goal)
    BY <1>3 DEF DispatchAccepted, Answered
  <2>2. Modest(ad', ad)
    BY <1>0, <2>1, RecordFlags, ModestKinds DEF Accounts
  <2> QED BY <2>1, <2>2, ShapeSpawns
<1>4. ASSUME DispatchFails(o) \/ SteerFails(o) PROVE Shape'
  <2> DEFINE t == Onward(o, At("kick", NoRow))
             u == Done
  <2>1. /\ task[o].pc \in {"sent", "steer"}
        /\ task' = [task EXCEPT ![o] = t] \/ task' = [task EXCEPT ![o] = u]
    BY <1>4 DEF DispatchFails, SteerFails, Answered
  <2>2. DOMAIN t = TaskFields /\ t.pc = "kick" /\ DOMAIN u = TaskFields /\ u.pc = "end"
    BY <1>s
  <2>3. Modest(ad', ad)
    BY <1>0, <1>4, FailsFlags
  <2> HIDE DEF t, u
  <2> QED BY <2>1, <2>2, <2>3, ShapeGoesOn DEF Moves
<1>5. ASSUME SteerAccepted(o) PROVE Shape'
  <2>1. /\ task[o].pc = "steer"
        /\ \/ o = Consumer /\ FlushPendingSteering(ad)
           \/ ad' = ad /\ task' = [task EXCEPT ![o] = Done]
    BY <1>5 DEF SteerAccepted, Answered
  <2>2. Goes(o, {"end", "steering"})
    BY <1>0, <1>s, <2>1, FlushFlags, TaskStates DEF Goes, Moves
  <2>3. Modest(ad', ad)
    BY <1>0, <2>1, FlushFlags, ModestKinds
  <2> QED BY <2>1, <2>2, <2>3, ShapeGoes
<1>6. ASSUME ProbeWakes(o) \/ ProbeAnswered(o) PROVE Shape'
  <2> DEFINE t == Sent("ask", NoRow)
             u == Settling(ad.mirror.running)
             b == [ad EXCEPT !.agentRunning = FALSE, !.cancelling = FALSE,
                             !.mirror = ClearRunning(@)]
  <2>1. /\ task[o].pc \in {"doze", "ask"} /\ ad' \in {ad, b}
        /\ \/ task' = [task EXCEPT ![o] = t] \/ task' = [task EXCEPT ![o] = u]
           \/ task' = [task EXCEPT ![o] = Done]
    BY <1>6 DEF ProbeWakes, ProbeAnswered, Answered
  <2>2. DOMAIN t = TaskFields /\ t.pc = "ask" /\ DOMAIN u = TaskFields /\ u.then = "goal"
    BY <1>s
  <2> HIDE DEF t, u
  <2>3. Cleared(b, ad)
    BY <1>0, ClearedFlags
  <2> HIDE DEF b
  <2>4. Modest(ad', ad)
    BY <1>0, <2>1, <2>3, ModestKinds
  <2>5. PICK x \in {t, u, Done} : Moves(o, x)
    BY <2>1 DEF Moves
  <2>6. DOMAIN x = TaskFields /\ (x.pc = "settled" => x.then = "goal")
    BY <1>s, <2>2
  <2>7. task[o].pc \notin {"end", "bash"}
    BY <2>1
  <2> QED BY <2>4, <2>5, <2>6, <2>7, ShapeGoesOn
<1>7. ASSUME TurnEnds(o) PROVE Shape'
  <2>1. task[o].pc = "settled"
    BY <1>7 DEF TurnEnds
  <2>2. Emptied(ad', ad) \/ Seized(ad', ad)
    BY <1>0, <1>7, TurnEndsFlags
  <2>3. Goes(o, {"kick"}) \/ Goes(o, {"end", "continue"}) \/ Goes(o, {"announce"})
    BY <1>0, <1>7, TurnEndsFlags
  <2> QED BY <1>0, <2>1, <2>2, <2>3, ModestTurns, ShapeGoes
<1>8. ASSUME ContinueGoal(o) PROVE Shape'
  <2>1. task[o].pc = "continue"
    BY <1>8 DEF ContinueGoal
  <2>2. Alike(ad', ad) /\ (Goes(o, {"kick"}) \/ Goes(o, {"end"}))
    BY <1>0, <1>8, ContinueFlags
  <2> QED BY <1>0, <2>1, <2>2, ModestKinds, ShapeGoes
<1>9. ASSUME SettlePolls(o) \/ SettleAgain(o) PROVE Shape'
  <2> DEFINE n == IF task[o].pc = "poll" THEN task[o].polls
                  ELSE IF task[o].reply = "idle" THEN task[o].polls + 1 ELSE 0
             s == Sent("ask", NoRow)
             a == At("poll", NoRow)
             t == [s EXCEPT !.polls = n]
             u == [a EXCEPT !.polls = n]
  <2>1. /\ task[o].pc \in {"poll", "ask"} /\ ad' = ad
        /\ \/ task' = [task EXCEPT ![o] = t] \/ task' = [task EXCEPT ![o] = u]
           \/ task' = [task EXCEPT ![o] = Done]
    BY <1>9 DEF SettlePolls, SettleAgain, Answered
  <2> HIDE DEF n
  <2>2. DOMAIN s = TaskFields /\ s.pc = "ask" /\ DOMAIN a = TaskFields /\ a.pc = "poll"
    BY <1>s
  <2> HIDE DEF s, a
  <2>3. DOMAIN t = TaskFields /\ t.pc = "ask" /\ DOMAIN u = TaskFields /\ u.pc = "poll"
    BY <2>2 DEF TaskFields
  <2> HIDE DEF t, u
  <2> QED BY <1>0, <1>s, <2>1, <2>3, ShapeGoesOn DEF Moves
<1>10. ASSUME SettleConfirmed(o) \/ SettleGivesUp(o) PROVE Shape'
  <2> DEFINE t == At("kick", NoRow)
             b == [ad EXCEPT !.agentRunning = FALSE, !.cancelling = FALSE,
                             !.mirror = ClearRunning(@)]
             c == [ad EXCEPT !.cancelling = FALSE]
  <2>1. /\ task[o].pc = "ask" /\ ad' \in {ad, b, c}
        /\ task' = [task EXCEPT ![o] = t] \/ task' = [task EXCEPT ![o] = Done]
    BY <1>10 DEF SettleConfirmed, SettleGivesUp, Answered
  <2>2. DOMAIN t = TaskFields /\ t.pc = "kick"
    BY <1>s
  <2> HIDE DEF t
  <2>3. Cleared(b, ad)
    BY <1>0, ClearedFlags
  <2> HIDE DEF b
  <2>4. Modest(c, ad)
    <3>1. IsAdapter(ad)
      BY <1>0 DEF Accounts
    <3> QED BY <1>0, <3>1 DEF Modest, Fresh, IsAdapter, AdapterFields
  <2> HIDE DEF c
  <2>5. Modest(ad', ad)
    BY <1>0, <2>1, <2>3, <2>4, ModestKinds
  <2> QED BY <1>s, <2>1, <2>2, <2>5, ShapeGoesOn DEF Moves
<1> QED BY <1>1, <1>2, <1>3, <1>4, <1>5, <1>6, <1>7, <1>8, <1>9, <1>10 DEF TaskStep

\* The steps of the primary prompts.
LEMMA PromptShape ==
    ASSUME SchedInv, Shape, Counted', Grows, NEW p \in Clients, PromptStep(p)
    PROVE  Shape'
<1> DEFINE o == PromptTask(p)
           t == At("acked", NoRow)
<1>0. /\ Accounts(ad) /\ ad.started \subseteq ad.active /\ o \in Tasks
      /\ Modest(ad, ad)
  <2>1. Accounts(ad) /\ ad.started \subseteq ad.active /\ o \in Tasks
    BY TaskKinds DEF SchedInv, Shape, Steady
  <2> QED BY <2>1, ModestKinds
<1>1. DOMAIN t = TaskFields /\ t.pc = "acked" /\ DOMAIN Done = TaskFields /\ Done.pc = "end"
  BY TaskStates
<1>2. \/ /\ task[o].pc = "direct" /\ ad' = ad /\ task' = [task EXCEPT ![o] = t]
      \/ /\ task[o].pc = "acked" /\ ad' = ad /\ SpawnProbe(o)
      \/ /\ task[o].pc = "direct" /\ DirectFails(p) /\ task' = [task EXCEPT ![o] = Done]
  BY DEF PromptStep, DirectAccepted, DirectFails, Answered
<1> HIDE DEF o, t
<1>3. CASE task[o].pc = "direct" /\ ad' = ad /\ task' = [task EXCEPT ![o] = t]
  BY <1>0, <1>1, <1>3, ShapeGoesOn DEF Moves
<1>4. CASE task[o].pc = "acked" /\ ad' = ad /\ SpawnProbe(o)
  BY <1>0, <1>4, ShapeSpawns
<1>5. CASE task[o].pc = "direct" /\ DirectFails(p) /\ task' = [task EXCEPT ![o] = Done]
  BY <1>0, <1>1, <1>5, FailsFlags, ShapeGoesOn DEF Moves
<1> QED BY <1>2, <1>3, <1>4, <1>5

\* A task whose request is answered stays where it is.
LEMMA Replied ==
    ASSUME DOMAIN task = Tasks, NEW o \in Tasks, DOMAIN task[o] = TaskFields,
           NEW r, Reply(o, r)
    PROVE  \E t : /\ Moves(o, t) /\ DOMAIN t = TaskFields /\ t.reply = r
                  /\ t.pc = task[o].pc /\ t.row = task[o].row
                  /\ t.then = task[o].then /\ t.goal = task[o].goal
<1> DEFINE t == [task[o] EXCEPT !.reply = r]
<1>1. task' = [task EXCEPT ![o] = t]
  BY DEF Reply
<1>2. /\ DOMAIN t = TaskFields /\ t.reply = r
      /\ t.pc = task[o].pc /\ t.row = task[o].row
      /\ t.then = task[o].then /\ t.goal = task[o].goal
  BY DEF TaskFields
<1> QED BY <1>1, <1>2 DEF Moves

\* The consumer starts to handle an event.
LEMMA ConsumerGoes ==
    ASSUME Shape, Counted', Grows, Modest(ad', ad), task[Consumer] = Done,
           NEW t, Moves(Consumer, t), DOMAIN t = TaskFields,
           t.pc = "settled" => t.then = "goal"
    PROVE  Shape'
<1>1. Consumer[1] = "consumer"
  BY TaskKinds
<1>2. Fit(Consumer, t)
  BY <1>1 DEF Fit
<1>3. ~Unborn(Consumer, ad'.outcome, spent'.cancel)
  BY <1>1, TaskKinds DEF Unborn
<1> QED BY <1>1, <1>2, <1>3, ShapeMoves

\* The consumer handles one event.
LEMMA ConsumerShape ==
    ASSUME SchedInv, Shape, Counted', Grows, ConsumerStep
    PROVE  Shape'
<1>0. /\ Accounts(ad) /\ IsAdapter(ad) /\ DOMAIN task = Tasks
      /\ ad.started \subseteq ad.active
      /\ Modest(ad, ad)
  <2>1. Accounts(ad) /\ DOMAIN task = Tasks /\ ad.started \subseteq ad.active
    BY DEF SchedInv, Shape, Tasked, Steady
  <2> QED BY <2>1, ModestKinds DEF Accounts
<1>s. /\ \A pc, row : /\ DOMAIN At(pc, row) = TaskFields /\ At(pc, row).pc = pc
                      /\ DOMAIN Sent(pc, row) = TaskFields /\ Sent(pc, row).pc = pc
      /\ \A row : /\ DOMAIN Settling(row) = TaskFields
                  /\ Settling(row).then = "goal"
      /\ DOMAIN Done = TaskFields /\ Done.pc = "end"
      /\ Consumer \in Tasks
  BY TaskStates, TaskKinds
<1>1. ASSUME AgentStart \/ QueueUpdate PROVE Shape'
  <2>1. UNCHANGED task
    BY <1>1 DEF AgentStart, QueueUpdate
  <2>2. ad' = ad \/ Begun(ad', ad) \/ Updated(ad', ad)
    BY <1>1, AgentStartFlags, UpdateFlags
  <2> QED BY <1>0, <2>1, <2>2, ModestTurns, ShapeStays
<1>2. ASSUME AgentSettled \/ StateChanged PROVE Shape'
  <2> DEFINE t == At("stats", NoRow)
             u == Sent("load", NoRow)
  <2>1. /\ task[Consumer] = Done /\ ad' = ad
        /\ Moves(Consumer, t) \/ Moves(Consumer, u)
    BY <1>2, <1>s DEF AgentSettled, StateChanged, NextEvent, Moves
  <2>2. DOMAIN t = TaskFields /\ t.pc = "stats" /\ DOMAIN u = TaskFields /\ u.pc = "load"
    BY <1>s
  <2> HIDE DEF t, u
  <2> QED BY <1>0, <2>1, <2>2, ConsumerGoes
<1>3. ASSUME SlotIsCleared PROVE Shape'
  <2> DEFINE u == Settling(ad.mirror.running)
  <2>1. /\ task[Consumer].pc = "stats" /\ Moves(Consumer, u)
        /\ ad' = [ad EXCEPT !.agentRunning = FALSE, !.cancelling = FALSE,
                            !.mirror = ClearRunning(@)]
    BY <1>3, <1>s DEF SlotIsCleared, Moves
  <2>2. DOMAIN u = TaskFields /\ u.then = "goal"
    BY <1>s
  <2> HIDE DEF u
  <2>3. Cleared(ad', ad)
    BY <1>0, <2>1, ClearedFlags
  <2>4. Modest(ad', ad)
    BY <1>0, <2>3, ModestKinds
  <2> QED BY <2>1, <2>2, <2>4, ShapeGoesOn
<1>4. ASSUME MessageEnd PROVE Shape'
  <2>1. /\ task[Consumer] = Done
        /\ \/ ad' = ad /\ UNCHANGED task
           \/ FlushPendingSteering(ad)
    BY <1>4 DEF MessageEnd, NextEvent
  <2>2. CASE ad' = ad /\ UNCHANGED task
    BY <1>0, <2>2, ShapeStays
  <2>3. CASE FlushPendingSteering(ad)
    <3>1. Goes(Consumer, {"end", "steering"})
      BY <1>0, <1>s, <2>3, FlushFlags, TaskStates DEF Goes
    <3>2. Modest(ad', ad)
      BY <1>0, <2>3, FlushFlags, ModestKinds
    <3> QED BY <2>1, <3>1, <3>2, ConsumerGoes DEF Goes
  <2> QED BY <2>1, <2>2, <2>3
<1>5. ASSUME ExtensionMessage PROVE Shape'
  <2>1. task[Consumer] = Done
    BY <1>5 DEF ExtensionMessage, NextEvent
  <2>2. /\ Alike(ad', ad)
        /\ \/ Goes(Consumer, {"kick"})
           \/ UNCHANGED task
    BY <1>5, ExtensionFlags
  <2>3. Modest(ad', ad)
    BY <1>0, <2>2, ModestKinds
  <2>4. CASE Goes(Consumer, {"kick"})
    BY <2>1, <2>3, <2>4, ConsumerGoes DEF Goes
  <2> QED BY <2>2, <2>3, <2>4, ShapeStays
<1>6. ASSUME GoalMessage PROVE Shape'
  <2> DEFINE h == ApplyControl(ad.host, pi.goal)
  <2>1. UNCHANGED task /\ ad' = [ad EXCEPT !.host = h]
    BY <1>6 DEF GoalMessage
  <2> HIDE DEF h
  <2>2. Alike(ad', ad)
    BY <1>0, <2>1, RecordFlags, FlaggedAlike
  <2>3. Modest(ad', ad)
    BY <1>0, <2>2, ModestKinds
  <2> QED BY <2>1, <2>3, ShapeStays
<1>7. ASSUME Reloaded PROVE Shape'
  <2>1. /\ task[Consumer].pc = "load" /\ Moves(Consumer, Done)
        /\ ad' \in {ad, ReplaceBootstrap(ad)}
    BY <1>7, <1>s DEF Reloaded, Answered, Moves
  <2>2. Modest(ad', ad)
    BY <1>0, <2>1, ReplaceFlags, ModestKinds
  <2> QED BY <1>s, <2>1, <2>2, ShapeGoesOn
<1>8. ASSUME ProcessExit PROVE Shape'
  <2> DEFINE b == DropEverything(ad)
  <2>1. UNCHANGED task /\ ad' = [b EXCEPT !.agentRunning = FALSE, !.cancelling = FALSE]
    BY <1>8 DEF ProcessExit
  <2>2. /\ IsAdapter(b) /\ b.bashRunning = ad.bashRunning
        /\ b.active = {} /\ b.started = {} /\ Fresh(b, ad)
    BY <1>0, DropFlags
  <2> HIDE DEF b
  <2>3. Modest(ad', ad)
    BY <2>1, <2>2 DEF Modest, Fresh, IsAdapter, AdapterFields
  <2> QED BY <2>1, <2>3, ShapeStays
<1> QED BY <1>1, <1>2, <1>3, <1>4, <1>5, <1>6, <1>7, <1>8 DEF ConsumerStep

\* The end of a Bash command, the recovery, and the window of continuations.
LEMMA OtherShape ==
    ASSUME SchedInv, Shape, Counted', Grows,
           BashEnds \/ Respawn \/ Rebind \/ ContinuationExpires
    PROVE  Shape'
<1>0. /\ Accounts(ad) /\ IsAdapter(ad) /\ DOMAIN task = Tasks
      /\ ad.started \subseteq ad.active
      /\ Modest(ad, ad)
  <2>1. Accounts(ad) /\ DOMAIN task = Tasks /\ ad.started \subseteq ad.active
    BY DEF SchedInv, Shape, Tasked, Steady
  <2> QED BY <2>1, ModestKinds DEF Accounts
<1>1. ASSUME BashEnds PROVE Shape'
  <2>1. /\ task[BashTask].pc = "bash" /\ Moves(BashTask, Done) /\ UNCHANGED spent
        /\ ad' = [ad EXCEPT !.bashRunning = FALSE]
    BY <1>1, TaskKinds DEF BashEnds, Answered, Moves
  <2>2. /\ ad'.active = ad.active /\ ad'.started = ad.started
        /\ ad'.cancelling = ad.cancelling /\ ad'.outcome = ad.outcome
        /\ ad'.bashRunning = FALSE
    BY <1>0, <2>1 DEF IsAdapter, AdapterFields
  <2>3. /\ DOMAIN task' = Tasks /\ task'[BashTask] = Done /\ BashTask \in Tasks
        /\ \A q \in Tasks : q # BashTask => task'[q] = task[q]
    BY <1>0, <2>1, OthersWait
  <2>4. Fit(BashTask, Done) /\ Done.pc = "end"
    BY TaskStates DEF Fit
  <2>5. Tasked'
    BY <2>1, <2>2, <2>3, <2>4 DEF Shape, Tasked
  <2>6. Steady'
    BY <2>1, <2>2, <2>3, <2>4 DEF Shape, Steady
  <2> QED BY <2>5, <2>6 DEF Shape
<1>2. ASSUME Respawn \/ Rebind PROVE Shape'
  <2>1. UNCHANGED task /\ ad' \in {ad, ReplaceBootstrap(ad)}
    BY <1>2 DEF Respawn, Rebind
  <2>2. Modest(ad', ad)
    BY <1>0, <2>1, ReplaceFlags, ModestKinds
  <2> QED BY <2>1, <2>2, ShapeStays
<1>3. ASSUME ContinuationExpires PROVE Shape'
  <2> DEFINE h == [ad.host EXCEPT !.sends = @ - 1]
  <2>1. UNCHANGED task /\ ad' = [ad EXCEPT !.host = h]
    BY <1>3 DEF ContinuationExpires
  <2> HIDE DEF h
  <2>2. Alike(ad', ad)
    BY <1>0, <2>1, RecordFlags, FlaggedAlike
  <2>3. Modest(ad', ad)
    BY <1>0, <2>2, ModestKinds
  <2> QED BY <2>1, <2>3, ShapeStays
<1> QED BY <1>1, <1>2, <1>3

\* Pi answers the tasks that ask, and does what it likes.
LEMMA PiShape ==
    ASSUME SchedInv, Shape, Counted', Grows, PiStep
    PROVE  Shape'
<1>0. /\ DOMAIN task = Tasks /\ ad.started \subseteq ad.active /\ Modest(ad, ad)
      /\ \A o \in Tasks : Fit(o, task[o])
      /\ \A o \in Tasks : Unborn(o, ad.outcome, spent.cancel) => task[o] = Done
  <2>1. Accounts(ad) /\ DOMAIN task = Tasks /\ ad.started \subseteq ad.active
    BY DEF SchedInv, Shape, Tasked, Steady
  <2> QED BY <2>1, ModestKinds DEF Shape, Tasked
<1>1. ASSUME NEW o \in Tasks, PiReplies(o) PROVE Shape'
  <2>1. InFlight(o) /\ ad' = ad /\ \E r : Reply(o, r)
    BY <1>1 DEF PiReplies, PiAccepts, PiQueuesSteer, PiRefuses, PiAnswers
  <2>2. PICK t : Moves(o, t) /\ DOMAIN t = TaskFields
                 /\ t.pc = task[o].pc /\ t.then = task[o].then
    BY <1>0, <2>1, Replied DEF Fit
  <2>3. task[o].pc # "end"
    BY <2>1 DEF InFlight, Requesting
  <2>4. Fit(o, t)
    BY <1>0, <2>2 DEF Fit
  <2> QED BY <1>0, <2>1, <2>2, <2>3, <2>4, ShapeMoves
<1>2. ASSUME PiCrashes PROVE Shape'
  <2>1. /\ ad' = ad
        /\ task' = [o \in Tasks |-> IF InFlight(o) THEN [task[o] EXCEPT !.reply = "err"]
                                    ELSE task[o]]
    BY <1>2 DEF PiCrashes
  <2>2. ASSUME NEW o \in Tasks
        PROVE  /\ Fit(o, task'[o]) /\ task'[o].pc = task[o].pc
               /\ task[o] = Done => task'[o] = Done
    <3> DEFINE t == [task[o] EXCEPT !.reply = "err"]
    <3>1. /\ InFlight(o) => task'[o] = t
          /\ ~InFlight(o) => task'[o] = task[o]
      BY <2>1
    <3>2. Fit(o, t) /\ t.pc = task[o].pc
      <4>1. Fit(o, task[o])
        BY <1>0
      <4>2. DOMAIN t = TaskFields /\ t.pc = task[o].pc /\ t.then = task[o].then
        BY <4>1 DEF Fit, TaskFields
      <4> HIDE DEF t
      <4> QED BY <4>1, <4>2 DEF Fit
    <3>3. task[o] = Done => ~InFlight(o)
      BY TaskStates DEF InFlight, Requesting
    <3> HIDE DEF t
    <3> QED BY <1>0, <3>1, <3>2, <3>3
  <2>3. Shape /\ Counted /\ Counted' /\ Grows
    BY DEF Shape
  <2>4. /\ spent.cancel \in Nat /\ spent'.cancel \in Nat /\ spent.cancel <= spent'.cancel
        /\ spent'.bash = 0 => spent.bash = 0
        /\ spent'.cancel = 0 => spent.cancel = 0
    BY <2>3, CancelsBefore
  <2>5. ASSUME NEW o \in Tasks, Unborn(o, ad'.outcome, spent'.cancel) PROVE task'[o] = Done
    <3>1. Unborn(o, ad.outcome, spent.cancel)
      BY <2>1, <2>4, <2>5, StillUnborn
    <3> QED BY <1>0, <2>2, <3>1
  <2>6. Tasked'
    BY <2>1, <2>2, <2>5 DEF Tasked
  <2>7. Steady'
    BY <2>1, <2>2, <2>4, TaskKinds DEF Shape, Steady
  <2> QED BY <2>6, <2>7 DEF Shape
<1>3. CASE UNCHANGED <<ad, task>>
  BY <1>0, <1>3, ShapeStays
<1> QED BY <1>1, <1>2, <1>3 DEF PiStep, PiStartsTurn, PiQueuesFollowUp, PiEndsMessage,
            PiContinues, PiSettles, PiExtensionMessage, PiStateChanges, PiSetsGoal,
            PiEditsGoal, WriteGoal

\* In the first state every task is done.
LEMMA ShapeInitial == SchedInit => Shape
<1> SUFFICES ASSUME SchedInit PROVE Shape
  OBVIOUS
<1> DEFINE d == Done
<1>1. Counted /\ task = [o \in Tasks |-> d] /\ ad = InitialState
  BY SpentInitial DEF SchedInit
<1>2. DOMAIN d = TaskFields /\ d.pc = "end"
  BY TaskStates
<1> HIDE DEF d
<1>3. Tasked
  BY <1>1, <1>2 DEF Tasked, Fit, d
<1>4. Steady
  BY <1>1, <1>2, TaskKinds DEF Steady, InitialState
<1> QED BY <1>1, <1>3, <1>4 DEF Shape

\* The shape stays, whatever happens.
LEMMA ShapeInductive ==
    ASSUME SchedInv, Shape, [SchedNext]_schedVars
    PROVE  Shape'
<1>1. Counted' /\ Grows
  BY SpentGrows DEF Shape
<1>2. CASE UNCHANGED schedVars
  <2>1. UNCHANGED <<ad, task, spent>>
    BY <1>2 DEF schedVars
  <2> QED BY <2>1 DEF Shape, Counted, Tasked, Steady
<1>3. CASE SchedNext
  BY <1>1, <1>3, ClientShape, PromptShape, TaskShape, OtherShape, ConsumerShape, PiShape
     DEF SchedNext
<1> QED BY <1>2, <1>3

-----------------------------------------------------------------------------
(* While Pi neither refuses a prompt nor crashes.                          *)

\* Pi has refused nothing and has not exited.
Calm == spent.error = 0 /\ spent.crash = 0

\* No request has failed.
Unfailed == \A o \in Tasks : task[o].reply # "err"

\* The child is up, no request has failed, and its runs end.
Healthy == /\ pi.up /\ pi.recovery = "none" /\ pi.streaming \in BOOLEAN /\ Unfailed
           /\ Closed(pi.streaming, events)

\* What moves a task without a failure.
LEMMA UnfailedMoves ==
    ASSUME Unfailed, DOMAIN task = Tasks, NEW o, NEW t, Moves(o, t), t.reply # "err"
    PROVE  Unfailed'
<1>1. /\ DOMAIN task' = Tasks /\ task'[o] = t /\ o \in Tasks
      /\ \A q \in Tasks : q # o => task'[q] = task[q]
  BY OthersWait
<1> QED BY <1>1 DEF Unfailed

\* What leaves a probe behind.
LEMMA UnfailedSpawns ==
    ASSUME Unfailed, DOMAIN task = Tasks, NEW o \in Tasks, task[o].pc # "end", SpawnProbe(o)
    PROVE  Unfailed'
<1>1. PICK n \in 1 .. MaxProbes :
               /\ ProbeTask(n) \in Tasks
               /\ task'[o] = Done /\ task'[ProbeTask(n)] = At("doze", NoRow)
               /\ \A q \in Tasks : q # o /\ q # ProbeTask(n) => task'[q] = task[q]
  BY Spawned
<1>2. Done.reply = "none" /\ At("doze", NoRow).reply = "none"
  BY TaskStates
<1> QED BY <1>1, <1>2 DEF Unfailed

\* No task's own step fails.
LEMMA TaskUnfailed ==
    ASSUME SchedInv, Shape, pi.up, Unfailed, NEW o \in Tasks, TaskStep(o)
    PROVE  Unfailed' /\ PiSame /\ UNCHANGED events
<1>0. Accounts(ad) /\ Arrays(pi) /\ DOMAIN task = Tasks
  BY DEF SchedInv, Shape, Tasked
<1>s. /\ \A pc, row : /\ DOMAIN At(pc, row) = TaskFields /\ At(pc, row).reply = "none"
                      /\ DOMAIN Sent(pc, row) = TaskFields /\ Sent(pc, row).reply = "none"
      /\ \A row : Settling(row).reply = "none"
      /\ Done.reply = "none"
      /\ \A t : DOMAIN t = TaskFields => Onward(o, t).reply = t.reply
  BY TaskStates
<1>1. ASSUME Kick(o) \/ TurnEnds(o) PROVE Unfailed' /\ PiSame /\ UNCHANGED events
  <2>1. UNCHANGED events
    BY <1>1 DEF Kick, TurnEnds
  <2>2. PiSame /\ \E t : Moves(o, t) /\ t.reply = "none"
    BY <1>0, <1>1, DispatchFlags, TurnEndsFlags DEF Kick, Goes
  <2> QED BY <1>0, <2>1, <2>2, UnfailedMoves
<1>2. ASSUME Dispatch(o) \/ SendSteer(o) PROVE Unfailed' /\ PiSame /\ UNCHANGED events
  <2> DEFINE s == Sent("sent", task[o].row)
             t == Onward(o, s)
             u == Sent("steer", task[o].row)
  <2>1. /\ UNCHANGED <<pi, events>>
        /\ Moves(o, t) \/ Moves(o, u)
    BY <1>2 DEF Dispatch, SendSteer, Moves
  <2>2. t.reply = "none" /\ u.reply = "none"
    BY <1>s
  <2> HIDE DEF t, u
  <2> QED BY <1>0, <2>1, <2>2, UnfailedMoves DEF PiSame
<1>3. ASSUME DispatchAccepted(o) PROVE Unfailed' /\ PiSame /\ UNCHANGED events
  <2>1. SpawnProbe(o) /\ task[o].pc = "sent" /\ UNCHANGED <<pi, events>>
    BY <1>3 DEF DispatchAccepted, Answered
  <2> QED BY <1>0, <2>1, UnfailedSpawns DEF PiSame
<1>4. ~(DispatchFails(o) \/ SteerFails(o))
  BY DEF DispatchFails, SteerFails, Answered, Unfailed
<1>5. ASSUME SteerAccepted(o) PROVE Unfailed' /\ PiSame /\ UNCHANGED events
  <2>1. /\ UNCHANGED <<pi, events>>
        /\ \/ o = Consumer /\ FlushPendingSteering(ad)
           \/ Moves(o, Done)
    BY <1>5 DEF SteerAccepted, Moves
  <2>2. \E t : Moves(o, t) /\ t.reply = "none"
    BY <1>0, <1>s, <2>1, FlushFlags
  <2> QED BY <1>0, <2>1, <2>2, UnfailedMoves DEF PiSame
<1>6. ASSUME ProbeWakes(o) \/ ProbeAnswered(o) PROVE Unfailed' /\ PiSame /\ UNCHANGED events
  <2> DEFINE t == Sent("ask", NoRow)
             u == Settling(ad.mirror.running)
  <2>1. /\ UNCHANGED <<pi, events>>
        /\ Moves(o, t) \/ Moves(o, u) \/ Moves(o, Done)
    BY <1>6 DEF ProbeWakes, ProbeAnswered, Moves
  <2>2. t.reply = "none" /\ u.reply = "none"
    BY <1>s
  <2> HIDE DEF t, u
  <2> QED BY <1>0, <1>s, <2>1, <2>2, UnfailedMoves DEF PiSame
<1>7. ASSUME ContinueGoal(o) PROVE Unfailed' /\ PiSame /\ UNCHANGED events
  <2>1. UNCHANGED <<pi, events>>
    BY <1>7 DEF ContinueGoal
  <2>2. \E t : Moves(o, t) /\ t.reply = "none"
    BY <1>0, <1>7, ContinueFlags DEF Goes
  <2> QED BY <1>0, <2>1, <2>2, UnfailedMoves DEF PiSame
<1>8. ASSUME SettlePolls(o) \/ SettleAgain(o) PROVE Unfailed' /\ PiSame /\ UNCHANGED events
  <2> DEFINE n == IF task[o].pc = "poll" THEN task[o].polls
                  ELSE IF task[o].reply = "idle" THEN task[o].polls + 1 ELSE 0
             s == Sent("ask", NoRow)
             a == At("poll", NoRow)
             t == [s EXCEPT !.polls = n]
             u == [a EXCEPT !.polls = n]
  <2>1. /\ UNCHANGED <<pi, events>>
        /\ Moves(o, t) \/ Moves(o, u) \/ Moves(o, Done)
    BY <1>8 DEF SettlePolls, SettleAgain, Answered, Moves
  <2>2. DOMAIN s = TaskFields /\ s.reply = "none" /\ DOMAIN a = TaskFields /\ a.reply = "none"
    BY <1>s
  <2> HIDE DEF s, a, n
  <2>3. t.reply = "none" /\ u.reply = "none"
    BY <2>2 DEF TaskFields
  <2> HIDE DEF t, u
  <2> QED BY <1>0, <1>s, <2>1, <2>3, UnfailedMoves DEF PiSame
<1>9. ASSUME SettleConfirmed(o) \/ SettleGivesUp(o)
      PROVE  Unfailed' /\ PiSame /\ UNCHANGED events
  <2> DEFINE t == At("kick", NoRow)
  <2>1. /\ UNCHANGED <<pi, events>>
        /\ Moves(o, t) \/ Moves(o, Done)
    BY <1>9 DEF SettleConfirmed, SettleGivesUp, Moves
  <2>2. t.reply = "none"
    BY <1>s
  <2> HIDE DEF t
  <2> QED BY <1>0, <1>s, <2>1, <2>2, UnfailedMoves DEF PiSame
<1> QED BY <1>1, <1>2, <1>3, <1>4, <1>5, <1>6, <1>7, <1>8, <1>9 DEF TaskStep

\* Events of the kinds K.
Kindly(es, K) == IsSeq(es) /\ \A i \in DOMAIN es : es[i].kind \in K

\* The lists of events that Pi sends.
LEMMA KindlyLists ==
    ASSUME NEW K
    PROVE  /\ Kindly(<< >>, K)
           /\ \A e : e.kind \in K => Kindly(<<e>>, K)
           /\ \A e, d : e.kind \in K /\ d.kind \in K => Kindly(<<e, d>>, K)
           /\ \A x, y : Kindly(x, K) /\ Kindly(y, K) => Kindly(x \o y, K)
<1>1. Kindly(<< >>, K)
  BY SeqOps DEF Kindly
<1>2. ASSUME NEW e, e.kind \in K PROVE Kindly(<<e>>, K)
  <2> DEFINE es == <<e>>
  <2>1. es \in Seq({e}) /\ \A i \in DOMAIN es : es[i] \in {e}
    OBVIOUS
  <2> HIDE DEF es
  <2>3. Kindly(es, K)
    BY <1>2, <2>1 DEF Kindly, IsSeq
  <2> QED BY <2>3 DEF es
<1>3. ASSUME NEW e, NEW d, e.kind \in K, d.kind \in K
      PROVE  Kindly(<<e, d>>, K)
  <2> DEFINE es == <<e, d>>
  <2>1. es \in Seq({e, d}) /\ \A i \in DOMAIN es : es[i] \in {e, d}
    OBVIOUS
  <2> HIDE DEF es
  <2>3. Kindly(es, K)
    BY <1>3, <2>1 DEF Kindly, IsSeq
  <2> QED BY <2>3 DEF es
<1>4. ASSUME NEW x, NEW y, Kindly(x, K), Kindly(y, K) PROVE Kindly(x \o y, K)
  <2>1. PICK S : x \in Seq(S)
    BY <1>4 DEF Kindly, IsSeq
  <2>2. PICK T : y \in Seq(T)
    BY <1>4 DEF Kindly, IsSeq
  <2> DEFINE U == S \cup T
             z == x \o y
  <2>3. x \in Seq(U) /\ y \in Seq(U)
    BY <2>1, <2>2, SeqMore
  <2> HIDE DEF U
  <2>4. /\ z \in Seq(U)
        /\ \A i \in DOMAIN z :
               \/ i \in DOMAIN x /\ z[i] = x[i]
               \/ i - Len(x) \in DOMAIN y /\ z[i] = y[i - Len(x)]
    BY <2>3
  <2> HIDE DEF z
  <2>5. Kindly(z, K)
    BY <1>4, <2>4 DEF Kindly, IsSeq
  <2> QED BY <2>5 DEF z
<1> QED BY <1>1, <1>2, <1>3, <1>4

\* Events that come while Pi runs, and events that belong to no run.
LEMMA ClosedLists ==
    ASSUME NEW es, NEW str
    PROVE  /\ Kindly(es, {"agent_start", "queue_update", "message_end", "goal"}) /\ str
                  => Closed(str, es) /\ Ahead(str, es) /\ IsSeq(es)
           /\ Kindly(es, {"extension", "state_changed", "goal"})
                  => Closed(str, es) /\ IsSeq(es)
BY DEF Kindly, Closed, Ahead, InRun

\* The event that ends a run.
LEMMA ClosedEnd ==
    ASSUME NEW e, e.kind = "agent_settled", NEW str
    PROVE  Closed(str, <<e>>) /\ Ahead(str, <<e>>) /\ IsSeq(<<e>>)
<1> DEFINE es == <<e>>
<1>1. 1 \in DOMAIN es /\ es[1] = e
  OBVIOUS
<1>2. es \in Seq({e}) /\ \A i \in DOMAIN es : es[i] \in {e}
  OBVIOUS
<1> HIDE DEF es
<1>3. IsSeq(es)
  BY <1>2 DEF IsSeq
<1>4. Closed(str, es) /\ Ahead(str, es)
  BY <1>1, <1>2 DEF Closed, Ahead, InRun
<1> QED BY <1>3, <1>4 DEF es

\* What Pi sends, and how its run goes on.
Sends == \E es : /\ IsSeq(es) /\ events' = events \o es
                 /\ Closed(pi'.streaming, es)
                 /\ pi.streaming => Ahead(pi'.streaming, es)

\* The kinds of the events that Pi makes.
LEMMA EventKinds ==
    /\ \A kind : Event(kind).kind = kind
    /\ \A kind, lane : [Event(kind) EXCEPT !.lane = lane].kind = kind
    /\ ArraysEvent.kind = "queue_update"
BY DEF Event, ArraysEvent

\* The file of the goal, and the turn that a goal starts.
LEMMA GoalSends ==
    ASSUME Arrays(pi), pi.streaming \in BOOLEAN, NEW control, WriteGoal(control)
    PROVE  /\ Sends /\ pi'.up = pi.up /\ pi'.recovery = pi.recovery
           /\ pi'.streaming \in BOOLEAN /\ UNCHANGED <<ad, task>>
<1> DEFINE g == Event("goal")
           s == Event("agent_start")
           es == <<g>> \o (IF pi'.streaming = pi.streaming THEN << >> ELSE <<s>>)
           active == control.status = "active"
<1>1. /\ pi' = [pi EXCEPT !.goal = control, !.streaming = @ \/ active]
      /\ events' = events \o es /\ UNCHANGED <<ad, task>>
  BY DEF WriteGoal, Emit
<1> HIDE DEF active
<1>2. /\ pi'.up = pi.up /\ pi'.recovery = pi.recovery
      /\ pi'.streaming = (pi.streaming \/ active)
  BY <1>1 DEF Arrays, PiFields
<1>3. g.kind = "goal" /\ s.kind = "agent_start"
  BY EventKinds
<1> HIDE DEF g, s
<1>4. pi'.streaming \in BOOLEAN /\ (pi.streaming => pi'.streaming)
  BY <1>2
<1>5. CASE pi'.streaming = pi.streaming
  <2>1. es = <<g>> \o << >>
    BY <1>5
  <2> DEFINE K == {"extension", "state_changed", "goal"}
  <2>2. g.kind \in K
    BY <1>3
  <2> HIDE DEF es, K
  <2>a. Kindly(<<g>>, K) /\ Kindly(<< >>, K)
    BY <2>2, KindlyLists
  <2>b. Kindly(es, K)
    BY <2>1, <2>a, KindlyLists
  <2>3. Closed(pi'.streaming, es) /\ IsSeq(es)
    BY <2>b, ClosedLists DEF K
  <2>4. pi.streaming => Ahead(pi'.streaming, es)
    BY <1>4 DEF Ahead
  <2> QED BY <1>1, <1>2, <1>4, <2>3, <2>4 DEF Sends
<1>6. CASE pi'.streaming # pi.streaming
  <2>1. es = <<g>> \o <<s>>
    BY <1>6
  <2> DEFINE K == {"agent_start", "queue_update", "message_end", "goal"}
  <2>2. g.kind \in K /\ s.kind \in K
    BY <1>3
  <2> HIDE DEF K
  <2>a. Kindly(<<g>>, K) /\ Kindly(<<s>>, K)
    BY <2>2, KindlyLists
  <2>b. Kindly(es, K)
    BY <2>1, <2>a, KindlyLists
  <2>3. pi'.streaming
    BY <1>2, <1>4, <1>6
  <2> HIDE DEF es
  <2>4. Closed(pi'.streaming, es) /\ Ahead(pi'.streaming, es) /\ IsSeq(es)
    BY <2>b, <2>3, ClosedLists DEF K
  <2> QED BY <1>1, <1>2, <1>4, <2>4 DEF Sends
<1> QED BY <1>5, <1>6

\* Nothing is sent.
LEMMA SendsNothing ==
    ASSUME Unread(events), pi'.streaming = pi.streaming, UNCHANGED events
    PROVE  Sends
<1> DEFINE es == << >>
<1>1. PICK S : events \in Seq(S)
  BY DEF Unread, IsSeq
<1>2. events' = events \o es
  BY <1>1
<1>3. Kindly(es, {"extension", "state_changed", "goal"})
  BY KindlyLists
<1> HIDE DEF es
<1>4. Closed(pi'.streaming, es) /\ IsSeq(es)
  BY <1>3, ClosedLists
<1> QED BY <1>2, <1>4 DEF Sends, Ahead

\* Events are sent in a run, between runs, or at the end of a run.
LEMMA SendsEvents ==
    ASSUME NEW es, Emit(es)
    PROVE  /\ Kindly(es, {"agent_start", "queue_update", "message_end", "goal"})
              /\ pi'.streaming => Sends
           /\ Kindly(es, {"extension", "state_changed", "goal"})
              /\ pi'.streaming = pi.streaming => Sends
           /\ \A e : e.kind = "agent_settled" /\ es = <<e>> => Sends
<1>1. events' = events \o es
  BY DEF Emit
<1>2. ASSUME Kindly(es, {"agent_start", "queue_update", "message_end", "goal"}), pi'.streaming
      PROVE  Sends
  BY <1>1, <1>2, ClosedLists DEF Sends
<1>3. ASSUME Kindly(es, {"extension", "state_changed", "goal"}), pi'.streaming = pi.streaming
      PROVE  Sends
  BY <1>1, <1>3, ClosedLists DEF Sends, Ahead
<1>4. ASSUME NEW e, e.kind = "agent_settled", es = <<e>> PROVE Sends
  BY <1>1, <1>4, ClosedEnd DEF Sends
<1> QED BY <1>2, <1>3, <1>4

\* How Pi answers a task: a prompt is taken, and a question answered.
AnswersOne ==
    \E o \in Tasks : \E t :
        /\ InFlight(o) /\ Moves(o, t) /\ DOMAIN t = TaskFields
        /\ t.pc = task[o].pc /\ t.row = task[o].row
        /\ t.reply \in {"ok", "idle", "streaming"}
        /\ t.pc = "ask" => t.reply = "idle" \/ (t.reply = "streaming" /\ pi.streaming)

\* What Pi does while it neither refuses a prompt nor crashes.
LEMMA PiSends ==
    ASSUME SchedInv, Shape, Healthy, spent'.error = spent.error, spent'.crash = spent.crash,
           PiStep
    PROVE  /\ ad' = ad /\ Sends
           /\ pi'.up = pi.up /\ pi'.recovery = pi.recovery /\ pi'.streaming \in BOOLEAN
           /\ UNCHANGED task \/ AnswersOne
<1>0. /\ Arrays(pi) /\ Unread(events) /\ pi.streaming \in BOOLEAN /\ pi.up
      /\ DOMAIN task = Tasks /\ \A o \in Tasks : DOMAIN task[o] = TaskFields
      /\ Counted
  BY DEF SchedInv, Healthy, Shape, Tasked, Fit
<1>k. /\ \A kind : Event(kind).kind = kind
      /\ \A kind, lane : [Event(kind) EXCEPT !.lane = lane].kind = kind
      /\ ArraysEvent.kind = "queue_update"
  BY EventKinds
<1> DEFINE InOrder == {"agent_start", "queue_update", "message_end", "goal"}
           Apart == {"extension", "state_changed", "goal"}
<1>l. /\ "agent_start" \in InOrder /\ "queue_update" \in InOrder /\ "message_end" \in InOrder
      /\ "extension" \in Apart /\ "state_changed" \in Apart
  OBVIOUS
<1>e. ASSUME NEW es, Emit(es)
      PROVE  /\ Kindly(es, InOrder) /\ pi'.streaming => Sends
             /\ Kindly(es, Apart) /\ pi'.streaming = pi.streaming => Sends
  BY <1>e, SendsEvents
<1> HIDE DEF InOrder, Apart
<1> DEFINE Goal == /\ ad' = ad /\ Sends
                   /\ pi'.up = pi.up /\ pi'.recovery = pi.recovery /\ pi'.streaming \in BOOLEAN
                   /\ UNCHANGED task \/ AnswersOne
<1>1. ASSUME NEW o \in Tasks, PiReplies(o) PROVE Goal
  <2>r. ASSUME NEW r \in {"ok", "idle", "streaming"}, Reply(o, r), InFlight(o),
               task[o].pc = "ask" => r = "idle" \/ (r = "streaming" /\ pi.streaming)
        PROVE  AnswersOne
    <3>1. PICK t : /\ Moves(o, t) /\ DOMAIN t = TaskFields /\ t.reply = r
                   /\ t.pc = task[o].pc /\ t.row = task[o].row
      BY <1>0, <2>r, Replied
    <3> QED BY <2>r, <3>1 DEF AnswersOne
  <2>1. CASE PiAccepts(o)
    <3>1. /\ InFlight(o) /\ task[o].pc # "ask" /\ Reply(o, "ok") /\ ad' = ad
          /\ \/ pi' = [pi EXCEPT !.streaming = TRUE] /\ Emit(<<Event("agent_start")>>)
             \/ UNCHANGED <<pi, events>>
      BY <2>1 DEF PiAccepts
    <3>2. AnswersOne
      BY <2>r, <3>1
    <3>3. CASE UNCHANGED <<pi, events>>
      BY <1>0, <3>1, <3>2, <3>3, SendsNothing
    <3>4. CASE pi' = [pi EXCEPT !.streaming = TRUE] /\ Emit(<<Event("agent_start")>>)
      <4>1. pi'.up = pi.up /\ pi'.recovery = pi.recovery /\ pi'.streaming = TRUE
        BY <1>0, <3>4 DEF Arrays, PiFields
      <4>2. Kindly(<<Event("agent_start")>>, InOrder)
        BY <1>k, <1>l, KindlyLists
      <4> QED BY <1>e, <3>1, <3>2, <3>4, <4>1, <4>2
    <3> QED BY <3>1, <3>3, <3>4
  <2>2. CASE PiQueuesSteer(o)
    <3> DEFINE a == Append(pi.steering, task[o].row.text)
    <3>1. /\ InFlight(o) /\ task[o].pc # "ask" /\ Reply(o, "ok") /\ ad' = ad /\ pi.streaming
          /\ pi' = [pi EXCEPT !.steering = a] /\ Emit(<<ArraysEvent>>)
      BY <2>2 DEF PiQueuesSteer
    <3> HIDE DEF a
    <3>2. AnswersOne
      BY <2>r, <3>1
    <3>3. pi'.up = pi.up /\ pi'.recovery = pi.recovery /\ pi'.streaming = pi.streaming
      BY <1>0, <3>1 DEF Arrays, PiFields
    <3>4. Kindly(<<ArraysEvent>>, InOrder)
      BY <1>k, <1>l, KindlyLists
    <3> QED BY <1>0, <1>e, <3>1, <3>2, <3>3, <3>4
  <2>3. CASE PiRefuses(o)
    <3>1. Spend("error")
      BY <2>3 DEF PiRefuses
    <3>2. spent'.error = spent.error + 1 /\ spent.error \in Nat
      BY <1>0, <3>1, Spending DEF Kinds, Counted, Bounds
    <3> QED BY <3>2
  <2>4. CASE PiAnswers(o)
    <3>1. /\ InFlight(o) /\ UNCHANGED <<ad, pi, events>>
          /\ \/ task[o].pc = "ask" /\ Reply(o, IF pi.streaming THEN "streaming" ELSE "idle")
             \/ task[o].pc # "ask" /\ Reply(o, "ok")
      BY <2>4 DEF PiAnswers
    <3>2. AnswersOne
      BY <2>r, <3>1
    <3> QED BY <1>0, <3>1, <3>2, SendsNothing
  <2> QED BY <1>1, <2>1, <2>2, <2>3, <2>4 DEF PiReplies
<1>2. ASSUME PiStartsTurn PROVE Goal
  <2>1. /\ pi' = [pi EXCEPT !.streaming = TRUE] /\ Emit(<<Event("agent_start")>>)
        /\ UNCHANGED <<ad, task>>
    BY <1>2 DEF PiStartsTurn
  <2>2. pi'.up = pi.up /\ pi'.recovery = pi.recovery /\ pi'.streaming = TRUE
    BY <1>0, <2>1 DEF Arrays, PiFields
  <2>3. Kindly(<<Event("agent_start")>>, InOrder)
    BY <1>k, <1>l, KindlyLists
  <2> QED BY <1>e, <2>1, <2>2, <2>3
<1>3. ASSUME PiQueuesFollowUp PROVE Goal
  <2> DEFINE a == Append(pi.followUp, "pi")
  <2>1. /\ pi' = [pi EXCEPT !.followUp = a] /\ Emit(<<ArraysEvent>>)
        /\ pi.streaming /\ UNCHANGED <<ad, task>>
    BY <1>3 DEF PiQueuesFollowUp
  <2> HIDE DEF a
  <2>2. pi'.up = pi.up /\ pi'.recovery = pi.recovery /\ pi'.streaming = pi.streaming
    BY <1>0, <2>1 DEF Arrays, PiFields
  <2>3. Kindly(<<ArraysEvent>>, InOrder)
    BY <1>k, <1>l, KindlyLists
  <2> QED BY <1>0, <1>e, <2>1, <2>2, <2>3
<1>4. ASSUME PiEndsMessage PROVE Goal
  <2> DEFINE x == <<Event("message_end")>>
             y == IF pi.steering = << >> THEN << >> ELSE <<ArraysEvent>>
  <2>1. /\ pi' = [pi EXCEPT !.steering = << >>] /\ Emit(x \o y)
        /\ pi.streaming /\ UNCHANGED <<ad, task>>
    BY <1>4 DEF PiEndsMessage
  <2>2. pi'.up = pi.up /\ pi'.recovery = pi.recovery /\ pi'.streaming = pi.streaming
    BY <1>0, <2>1 DEF Arrays, PiFields
  <2>3. Kindly(x, InOrder)
    BY <1>k, <1>l, KindlyLists
  <2>4. Kindly(y, InOrder)
    <3>1. Kindly(<< >>, InOrder) /\ Kindly(<<ArraysEvent>>, InOrder)
      BY <1>k, <1>l, KindlyLists
    <3> QED BY <3>1
  <2> HIDE DEF x, y
  <2>5. Kindly(x \o y, InOrder)
    BY <2>3, <2>4, KindlyLists
  <2> QED BY <1>0, <1>e, <2>1, <2>2, <2>5
<1>5. ASSUME PiContinues PROVE Goal
  <2> DEFINE es == <<ArraysEvent, Event("agent_start")>>
             f == Tail(pi.followUp)
  <2>1. /\ pi' = [pi EXCEPT !.steering = << >>] \/ pi' = [pi EXCEPT !.followUp = f]
        /\ Emit(es) /\ pi.streaming /\ UNCHANGED <<ad, task>>
    BY <1>5 DEF PiContinues
  <2> HIDE DEF f
  <2>2. pi'.up = pi.up /\ pi'.recovery = pi.recovery /\ pi'.streaming = pi.streaming
    BY <1>0, <2>1 DEF Arrays, PiFields
  <2>3. Kindly(es, InOrder)
    BY <1>k, <1>l, KindlyLists
  <2> HIDE DEF es
  <2> QED BY <1>0, <1>e, <2>1, <2>2, <2>3
<1>6. ASSUME PiSettles PROVE Goal
  <2> DEFINE e == Event("agent_settled")
  <2>1. /\ pi' = [pi EXCEPT !.streaming = FALSE] /\ Emit(<<e>>) /\ UNCHANGED <<ad, task>>
    BY <1>6 DEF PiSettles
  <2>2. pi'.up = pi.up /\ pi'.recovery = pi.recovery /\ pi'.streaming = FALSE
    BY <1>0, <2>1 DEF Arrays, PiFields
  <2>3. e.kind = "agent_settled"
    BY <1>k
  <2> HIDE DEF e
  <2>4. Sends
    BY <2>1, <2>3, SendsEvents
  <2> QED BY <2>1, <2>2, <2>4
<1>7. ASSUME PiExtensionMessage PROVE Goal
  <2>1. PICK lane \in Lanes : Emit(<<[Event("extension") EXCEPT !.lane = lane]>>)
    BY <1>7 DEF PiExtensionMessage
  <2>2. UNCHANGED <<ad, task, pi>>
    BY <1>7 DEF PiExtensionMessage
  <2> DEFINE e == [Event("extension") EXCEPT !.lane = lane]
  <2>3. e.kind \in Apart
    BY <1>k, <1>l
  <2> HIDE DEF e
  <2>4. Kindly(<<e>>, Apart)
    BY <2>3, KindlyLists
  <2>5. Emit(<<e>>)
    BY <2>1 DEF e
  <2> QED BY <1>0, <1>e, <2>2, <2>4, <2>5
<1>8. ASSUME PiStateChanges PROVE Goal
  <2>1. Emit(<<Event("state_changed")>>) /\ UNCHANGED <<ad, task, pi>>
    BY <1>8 DEF PiStateChanges
  <2>2. Kindly(<<Event("state_changed")>>, Apart)
    BY <1>k, <1>l, KindlyLists
  <2> QED BY <1>0, <1>e, <2>1, <2>2
<1>9. ASSUME PiCrashes PROVE Goal
  <2>1. Spend("crash")
    BY <1>9 DEF PiCrashes
  <2>2. spent'.crash = spent.crash + 1 /\ spent.crash \in Nat
    BY <1>0, <2>1, Spending DEF Kinds, Counted, Bounds
  <2> QED BY <2>2
<1>10. ASSUME PiSetsGoal \/ PiEditsGoal PROVE Goal
  <2>1. \E control : WriteGoal(control)
    BY <1>10 DEF PiSetsGoal, PiEditsGoal
  <2> QED BY <1>0, <2>1, GoalSends
<1> QED BY <1>1, <1>2, <1>3, <1>4, <1>5, <1>6, <1>7, <1>8, <1>9, <1>10 DEF PiStep

\* What Pi sends closes its runs, and their ends stay ahead.
LEMMA SendsClosed ==
    ASSUME Unread(events), Closed(pi.streaming, events), Sends
    PROVE  /\ Closed(pi'.streaming, events')
           /\ Ahead(pi.streaming, events) => Ahead(pi'.streaming, events')
<1>1. PICK es : /\ IsSeq(es) /\ events' = events \o es
                /\ Closed(pi'.streaming, es)
                /\ pi.streaming => Ahead(pi'.streaming, es)
  BY DEF Sends
<1>2. IsSeq(events)
  BY DEF Unread
<1> QED BY <1>1, <1>2, ClosedCome

\* What the consumer reads leaves the runs closed.
LEMMA NextClosed ==
    ASSUME SchedInv, Closed(pi.streaming, events), NEW kind, NextEvent(kind)
    PROVE  /\ pi' = pi /\ Closed(pi'.streaming, events') /\ task[Consumer] = Done
           /\ kind # "exit"
           /\ kind # "agent_settled" /\ Ahead(pi.streaming, events)
                  => Ahead(pi'.streaming, events')
           /\ kind \in InRun => Ahead(pi'.streaming, events')
BY ClosedRead DEF SchedInv, Unread, NextEvent

\* The consumer's steps fail no request.
LEMMA ConsumerUnfailed ==
    ASSUME SchedInv, Shape, Healthy, ConsumerStep
    PROVE  /\ Unfailed' /\ pi' = pi /\ Closed(pi'.streaming, events')
           /\ ~AgentSettled /\ Ahead(pi.streaming, events) => Ahead(pi'.streaming, events')
           /\ AgentStart \/ QueueUpdate => Ahead(pi'.streaming, events')
           /\ ~ProcessExit
<1>0. /\ Accounts(ad) /\ DOMAIN task = Tasks /\ pi.up /\ Unfailed
      /\ Closed(pi.streaming, events) /\ Consumer \in Tasks
  BY TaskKinds DEF SchedInv, Shape, Tasked, Healthy
<1>s. /\ \A pc, row : At(pc, row).reply = "none" /\ Sent(pc, row).reply = "none"
      /\ \A row : Settling(row).reply = "none"
      /\ Done.reply = "none"
  BY <1>0, TaskStates
<1>1. ~ProcessExit
  BY <1>0, ClosedRead DEF SchedInv, Unread, ProcessExit
<1>2. Unfailed'
  <2>1. \/ UNCHANGED task
        \/ FlushPendingSteering(ad)
        \/ Goes(Consumer, {"kick"})
        \/ Moves(Consumer, At("stats", NoRow))
        \/ Moves(Consumer, Settling(ad.mirror.running))
        \/ Moves(Consumer, Sent("load", NoRow))
        \/ Moves(Consumer, Done)
    BY <1>0, <1>1, ExtensionFlags DEF ConsumerStep, AgentStart, AgentSettled, SlotIsCleared,
       MessageEnd, QueueUpdate, StateChanged, Reloaded, GoalMessage, Moves
  <2>2. CASE UNCHANGED task
    BY <1>0, <2>2 DEF Unfailed
  <2>3. CASE FlushPendingSteering(ad)
    BY <1>0, <1>s, <2>3, FlushFlags, UnfailedMoves
  <2>4. CASE Goes(Consumer, {"kick"})
    BY <1>0, <2>4, UnfailedMoves DEF Goes
  <2>5. CASE Moves(Consumer, At("stats", NoRow))
    <3>1. At("stats", NoRow).reply # "err"
      BY <1>s
    <3> QED BY <1>0, <2>5, <3>1, UnfailedMoves
  <2>6. CASE Moves(Consumer, Settling(ad.mirror.running))
    <3>1. Settling(ad.mirror.running).reply # "err"
      BY <1>s
    <3> QED BY <1>0, <2>6, <3>1, UnfailedMoves
  <2>7. CASE Moves(Consumer, Sent("load", NoRow))
    <3>1. Sent("load", NoRow).reply # "err"
      BY <1>s
    <3> QED BY <1>0, <2>7, <3>1, UnfailedMoves
  <2>8. CASE Moves(Consumer, Done)
    BY <1>0, <1>s, <2>8, UnfailedMoves
  <2> QED BY <2>1, <2>2, <2>3, <2>4, <2>5, <2>6, <2>7, <2>8
<1>3. \/ UNCHANGED <<pi, events>> /\ ~AgentSettled /\ ~AgentStart /\ ~QueueUpdate
      \/ \E kind : /\ NextEvent(kind) /\ (AgentSettled \/ kind # "agent_settled")
                   /\ AgentStart \/ QueueUpdate => kind \in InRun
  <2>1. ASSUME AgentSettled PROVE ~AgentStart /\ ~QueueUpdate /\ NextEvent("agent_settled")
    BY <2>1 DEF AgentSettled, AgentStart, QueueUpdate, NextEvent
  <2>2. ASSUME AgentStart PROVE NextEvent("agent_start") /\ "agent_start" \in InRun
    BY <2>2 DEF AgentStart, InRun
  <2>3. ASSUME QueueUpdate PROVE NextEvent("queue_update") /\ "queue_update" \in InRun
    BY <2>3 DEF QueueUpdate, InRun
  <2>4. ASSUME MessageEnd \/ ExtensionMessage \/ StateChanged \/ GoalMessage
        PROVE  \E kind : /\ NextEvent(kind) /\ kind # "agent_settled"
                         /\ ~AgentStart /\ ~QueueUpdate
    BY <2>4 DEF MessageEnd, ExtensionMessage, StateChanged, GoalMessage,
                AgentStart, QueueUpdate, NextEvent
  <2>5. ASSUME SlotIsCleared \/ Reloaded
        PROVE  UNCHANGED <<pi, events>> /\ ~AgentSettled /\ ~AgentStart /\ ~QueueUpdate
    <3>1. task[Consumer] # Done
      BY <2>5, TaskStates DEF SlotIsCleared, Reloaded, Answered
    <3> QED BY <2>5, <3>1 DEF SlotIsCleared, Reloaded, AgentSettled, AgentStart,
                             QueueUpdate, NextEvent
  <2> QED BY <1>1, <2>1, <2>2, <2>3, <2>4, <2>5 DEF ConsumerStep
<1> QED BY <1>0, <1>1, <1>2, <1>3, NextClosed

\* While nothing goes wrong, nothing has failed.
LEMMA HealthyInductive ==
    ASSUME SchedInv, Shape, Healthy, [SchedNext]_schedVars,
           spent'.error = spent.error, spent'.crash = spent.crash
    PROVE  Healthy'
<1>0. /\ Accounts(ad) /\ DOMAIN task = Tasks /\ pi.up /\ Unfailed
      /\ Unread(events) /\ pi.recovery = "none"
      /\ Closed(pi.streaming, events)
  BY DEF SchedInv, Shape, Tasked, Healthy
<1>s. /\ \A pc, row : At(pc, row).reply = "none" /\ Sent(pc, row).reply = "none"
      /\ Done.reply = "none" /\ Done.pc = "end"
  BY <1>0, TaskStates
<1>1. ASSUME Unfailed', PiSame, UNCHANGED events PROVE Healthy'
  BY <1>1 DEF Healthy, PiSame
<1>2. ASSUME NEW o, NEW t, task' = [task EXCEPT ![o] = t], t.reply # "err"
      PROVE  Unfailed'
  BY <1>0, <1>2 DEF Unfailed
<1>3. CASE ClientStep
  <2>1. UNCHANGED <<pi, events>>
    BY <1>3 DEF ClientStep, Prompt, Interject, Cancel, RemoveRows, BashStarts
  <2>2. ASSUME NEW p \in Clients, NEW lane \in Lanes, Prompt(p, lane) PROVE Unfailed'
    BY <1>2, <1>s, <2>2 DEF Prompt
  <2>3. ASSUME NEW p \in Clients, Interject(p) PROVE Unfailed'
    BY <1>0, <1>s, <2>3, InterjectFlags, UnfailedMoves
  <2>4. ASSUME Cancel \/ BashStarts PROVE Unfailed'
    BY <1>2, <1>s, <2>4 DEF Cancel, BashStarts
  <2>5. ASSUME NEW ids, RemoveRows(ids) PROVE Unfailed'
    BY <1>0, <2>5 DEF RemoveRows, Unfailed
  <2> QED BY <1>1, <1>3, <2>1, <2>2, <2>3, <2>4, <2>5 DEF ClientStep, PiSame
<1>4. ASSUME NEW p \in Clients, PromptStep(p) PROVE Healthy'
  <2> DEFINE o == PromptTask(p)
  <2>1. /\ UNCHANGED <<pi, events>>
        /\ \/ task' = [task EXCEPT ![o] = At("acked", NoRow)]
           \/ task' = [task EXCEPT ![o] = Done]
           \/ SpawnProbe(o) /\ task[o].pc = "acked"
    BY <1>4 DEF PromptStep, DirectAccepted, DirectFails
  <2>2. o \in Tasks
    BY TaskKinds
  <2> HIDE DEF o
  <2>3. Unfailed'
    BY <1>0, <1>2, <1>s, <2>1, <2>2, UnfailedSpawns
  <2> QED BY <1>1, <2>1, <2>3 DEF PiSame
<1>5. ASSUME NEW o \in Tasks, TaskStep(o) PROVE Healthy'
  BY <1>0, <1>1, <1>5, TaskUnfailed
<1>6. CASE ConsumerStep
  BY <1>0, <1>6, ConsumerUnfailed DEF Healthy
<1>7. CASE BashEnds \/ ContinuationExpires
  <2>1. UNCHANGED <<pi, events>>
        /\ (UNCHANGED task \/ task' = [task EXCEPT ![BashTask] = Done])
    BY <1>7 DEF BashEnds, ContinuationExpires
  <2>2. Unfailed'
    BY <1>0, <1>2, <1>s, <2>1 DEF Unfailed
  <2> QED BY <1>1, <2>1, <2>2 DEF PiSame
<1>8. ~Respawn /\ ~Rebind
  BY <1>0 DEF Respawn, Rebind
<1>9. CASE PiStep
  <2>1. /\ Sends /\ pi'.up = pi.up /\ pi'.recovery = pi.recovery
        /\ pi'.streaming \in BOOLEAN
        /\ UNCHANGED task \/ AnswersOne
    BY <1>9, PiSends
  <2>2. Closed(pi'.streaming, events')
    BY <1>0, <2>1, SendsClosed
  <2>3. Unfailed'
    BY <1>0, <2>1, UnfailedMoves DEF AnswersOne, Unfailed
  <2> QED BY <1>0, <2>1, <2>2, <2>3 DEF Healthy
<1>10. CASE UNCHANGED schedVars
  BY <1>1, <1>0, <1>10 DEF schedVars, Unfailed, PiSame
<1> QED BY <1>3, <1>4, <1>5, <1>6, <1>7, <1>8, <1>9, <1>10 DEF SchedNext

-----------------------------------------------------------------------------
(* Who will notice that Pi is idle.                                        *)

\* The end of Pi's run is ahead, or is being handled.
Live == Ahead(pi.streaming, events) \/ task[Consumer].pc = "stats"

\* A probe is about to ask Pi, or a task is about to start one.
IsProbe(o, t) ==
    \/ t.pc \in {"direct", "acked", "announce", "sent"}
    \/ o[1] = "probe" /\ t.pc = "doze"
    \/ o[1] = "probe" /\ t.pc = "ask" /\ t.reply \in {"none", "idle"}
Probing == \E o \in Tasks : IsProbe(o, task[o])

\* A task is about to answer the active prompts.
Settles == \E o \in Tasks : task[o].pc = "settled"

\* A cancel still asks Pi whether it is idle.
IsPoll(o, t) == o[1] = "settle" /\ t.pc \in {"poll", "ask"}
Polling == \E o \in Tasks : IsPoll(o, task[o])

\* Whatever makes the adapter busy, but a Bash command, somebody will end it.
Watched ==
    /\ ad.active # {} => Live \/ Settles \/ Probing
    /\ ad.started # {} => Live \/ Settles
    /\ ~ad.cancelling /\ (ad.agentRunning \/ ad.mirror.running # NoRow)
           => Live \/ Probing
    /\ ~ad.cancelling /\ ~(ad.agentRunning <=> ad.mirror.running # NoRow) => Live
    /\ ad.cancelling => ad.mirror.running = NoRow /\ Polling

\* The duties of the tasks are still there.
OnDuty ==
    /\ Live => Live'
    /\ Probing => Probing'
    /\ Settles => Settles'
    /\ Polling => Polling'

\* The end of Pi's run does not get out of sight.
StaysAhead == Ahead(pi.streaming, events) => Ahead(pi'.streaming, events')

\* A task moves, and takes over its own duties.
LEMMA Duties ==
    ASSUME DOMAIN task = Tasks, NEW o, NEW t, Moves(o, t)
    PROVE  /\ IsProbe(o, t) => Probing'
           /\ Probing => Probing' \/ IsProbe(o, task[o])
           /\ t.pc = "settled" => Settles'
           /\ Settles => Settles' \/ task[o].pc = "settled"
           /\ IsPoll(o, t) => Polling'
           /\ Polling => Polling' \/ IsPoll(o, task[o])
           /\ StaysAhead /\ task[o].pc # "stats" => (Live => Live')
           /\ o = Consumer /\ t.pc = "stats" => Live'
<1>1. /\ DOMAIN task' = Tasks /\ task'[o] = t /\ o \in Tasks
      /\ \A q \in Tasks : q # o => task'[q] = task[q]
  BY OthersWait
<1>2. Consumer \in Tasks
  BY TaskKinds
<1> QED BY <1>1, <1>2 DEF Probing, Settles, Polling, Live, StaysAhead

\* A task without duties moves.
LEMMA DutiesKept ==
    ASSUME DOMAIN task = Tasks, NEW o, NEW t, Moves(o, t), StaysAhead,
           ~IsProbe(o, task[o]), ~IsPoll(o, task[o]),
           task[o].pc \notin {"settled", "stats"}
    PROVE  OnDuty
BY Duties DEF OnDuty

\* No task moves.
LEMMA DutiesStay ==
    ASSUME UNCHANGED task, StaysAhead
    PROVE  OnDuty
BY DEF OnDuty, Live, Probing, Settles, Polling, StaysAhead

\* A task leaves a probe behind.
LEMMA DutiesSpawn ==
    ASSUME DOMAIN task = Tasks, NEW o \in Tasks, SpawnProbe(o), StaysAhead,
           task[o].pc \in {"acked", "sent"}
    PROVE  OnDuty /\ Probing'
<1>1. PICK n \in 1 .. MaxProbes :
               /\ ProbeTask(n) \in Tasks /\ task[ProbeTask(n)] = Done /\ ProbeTask(n) # o
               /\ DOMAIN task' = Tasks
               /\ task'[o] = Done /\ task'[ProbeTask(n)] = At("doze", NoRow)
               /\ \A q \in Tasks : q # o /\ q # ProbeTask(n) => task'[q] = task[q]
  BY Spawned
<1>2. At("doze", NoRow).pc = "doze" /\ ProbeTask(n)[1] = "probe" /\ Done.pc = "end"
      /\ Consumer \in Tasks
  BY TaskStates, TaskKinds
<1>3. Probing'
  BY <1>1, <1>2 DEF Probing, IsProbe
<1>4. Settles => Settles'
  BY <1>1, <1>2 DEF Settles
<1>5. Polling => Polling'
  BY <1>1, <1>2 DEF Polling, IsPoll
<1>6. Live => Live'
  BY <1>1, <1>2 DEF Live, StaysAhead
<1> QED BY <1>3, <1>4, <1>5, <1>6 DEF OnDuty

\* The flags stay, or change in one of the ways in which the code changes them.
LEMMA WatchedAlike ==
    ASSUME Watched, OnDuty, Alike(ad', ad)
    PROVE  Watched'
BY DEF Watched, OnDuty, Alike

\* The slot is cleared, and the turn's prompts are kept or about to be answered.
LEMMA WatchedCleared ==
    ASSUME Watched, Cleared(ad', ad), OnDuty \/ Settles'
    PROVE  Watched'
BY DEF Watched, OnDuty, Cleared

\* A turn starts, and is probed.
LEMMA WatchedRunning ==
    ASSUME ~AdapterBusy(ad), ad.started \subseteq ad.active, Running(ad', ad), Probing'
    PROVE  Watched'
BY DEF Watched, Running, AdapterBusy

\* A queued turn starts, and is probed.
LEMMA WatchedSeized ==
    ASSUME Seized(ad', ad), Probing'
    PROVE  Watched'
BY DEF Watched, Seized

\* A prompt joins a run.
LEMMA WatchedJoined ==
    ASSUME Watched, OnDuty, ~ad.cancelling, ad.agentRunning \/ ad.active # {},
           Joined(ad', ad)
    PROVE  Watched'
BY DEF Watched, OnDuty, Joined

\* The prompts of a turn are answered.
LEMMA WatchedEmptied ==
    ASSUME Watched, Emptied(ad', ad), Live => Live', Probing => Probing',
           Polling => Polling'
    PROVE  Watched'
BY DEF Watched, Emptied, Flagged

\* Pi runs, and its end is ahead.
LEMMA WatchedLive ==
    ASSUME Watched, Live', Polling => Polling', ad'.cancelling = ad.cancelling,
           ad.cancelling => ad'.mirror.running = NoRow
    PROVE  Watched'
BY DEF Watched

\* A prompt, an interjected row, a cancel.
LEMMA ClientWatched ==
    ASSUME SchedInv, Shape, Healthy, Watched, Counted', Grows, ClientStep
    PROVE  Watched'
<1>0. /\ Accounts(ad) /\ IsAdapter(ad) /\ DOMAIN task = Tasks
      /\ ad.started \subseteq ad.active /\ pi.up
      /\ \A o \in Tasks : Fit(o, task[o])
      /\ \A o \in Tasks : Unborn(o, ad.outcome, spent.cancel) => task[o] = Done
  BY DEF SchedInv, Shape, Tasked, Steady, Accounts, Healthy
<1>1. StaysAhead
  <2>1. UNCHANGED <<pi, events>>
    BY DEF ClientStep, Prompt, Interject, Cancel, RemoveRows, BashStarts
  <2> QED BY <2>1 DEF StaysAhead
<1>s. /\ \A pc, row : At(pc, row).pc = pc /\ Sent(pc, row).pc = pc
      /\ Done.pc = "end"
  BY TaskStates
<1>d. ASSUME NEW o, NEW t, Moves(o, t), task[o].pc \in {"end", "bash"}
      PROVE  OnDuty
  BY <1>0, <1>1, <1>d, DutiesKept DEF IsProbe, IsPoll
<1>2. ASSUME NEW p \in Clients, NEW lane \in Lanes, Prompt(p, lane) PROVE Watched'
  <2> DEFINE o == PromptTask(p)
             t == At("kick", NoRow)
             u == Sent("direct", NoRow)
  <2>1. /\ ad.outcome[p] = "new"
        /\ \/ Alike(ad', ad) /\ Moves(o, t)
           \/ ~AdapterBusy(ad) /\ Running(ad', ad) /\ Moves(o, u)
    BY <1>0, <1>2, PromptFlags
  <2>2. o \in Tasks /\ Unborn(o, ad.outcome, spent.cancel)
    BY <2>1, TaskKinds DEF Unborn
  <2>3. task[o].pc = "end"
    BY <1>0, <1>s, <2>2
  <2>4. u.pc = "direct"
    BY <1>s
  <2> HIDE DEF o, t, u
  <2>5. CASE Alike(ad', ad) /\ Moves(o, t)
    BY <1>d, <2>3, <2>5, WatchedAlike
  <2>6. CASE ~AdapterBusy(ad) /\ Running(ad', ad) /\ Moves(o, u)
    <3>1. IsProbe(o, u)
      BY <2>4 DEF IsProbe
    <3>2. Probing'
      BY <1>0, <2>6, <3>1, Duties
    <3> QED BY <1>0, <2>6, <3>2, WatchedRunning
  <2> QED BY <2>1, <2>5, <2>6
<1>3. ASSUME NEW p \in Clients, Interject(p) PROVE Watched'
  <2>1. task[InterjectTask(p)].pc = "end"
    BY <1>0, <1>3, <1>s, InterjectFlags
  <2>2. OnDuty
    BY <1>0, <1>3, <1>d, <2>1, InterjectFlags
  <2> QED BY <1>0, <1>3, <2>2, InterjectFlags, WatchedAlike, WatchedJoined
<1>4. CASE Cancel
  <2> DEFINE n == spent'.cancel
             o == SettleTask(n)
             t == At("poll", NoRow)
             b == DropEverything(ad)
  <2>1. /\ Spend("cancel") /\ ad' = [b EXCEPT !.cancelling = TRUE]
        /\ task' = [task EXCEPT ![o] = t]
    BY <1>4 DEF Cancel
  <2>2. /\ n = spent.cancel + 1 /\ spent.cancel < Bounds.cancel
        /\ spent.cancel \in Nat
    BY <2>1, Spending, SpentBefore DEF Shape, Kinds
  <2>3. n \in 1 .. MaxCancels
    BY <2>2, SchedulerBounds DEF Bounds
  <2>4. Moves(o, t) /\ o[1] = "settle"
    BY <2>1, <2>3, TaskKinds DEF Moves
  <2>5. t.pc = "poll"
    BY <1>s
  <2> HIDE DEF b, o, t, n
  <2>6. IsAdapter(b) /\ b.active = {} /\ b.started = {} /\ b.mirror.running = NoRow
    BY <1>0, DropFlags DEF b
  <2>7. /\ ad'.active = {} /\ ad'.started = {} /\ ad'.mirror.running = NoRow
        /\ ad'.cancelling = TRUE
    BY <2>1, <2>6 DEF IsAdapter, AdapterFields
  <2>8. IsPoll(o, t)
    BY <2>4, <2>5 DEF IsPoll
  <2>9. Polling'
    BY <1>0, <2>4, <2>8, Duties
  <2> QED BY <2>7, <2>9 DEF Watched
<1>5. ASSUME NEW ids, RemoveRows(ids) PROVE Watched'
  BY <1>0, <1>1, <1>5, RemoveFlags, DutiesStay, WatchedAlike
<1>6. CASE BashStarts
  <2>1. /\ ad' = [ad EXCEPT !.bashRunning = TRUE] /\ BashTask \in Tasks
        /\ Moves(BashTask, Sent("bash", NoRow)) /\ BashTask[1] = "bash"
    BY <1>6, TaskKinds DEF BashStarts, Moves
  <2>2. task[BashTask].pc \in {"end", "bash"}
    BY <1>0, <2>1 DEF Fit
  <2>3. OnDuty
    BY <1>d, <2>1, <2>2
  <2>4. /\ ad'.active = ad.active /\ ad'.started = ad.started
        /\ ad'.cancelling = ad.cancelling /\ ad'.agentRunning = ad.agentRunning
        /\ ad'.mirror = ad.mirror
    BY <1>0, <2>1 DEF IsAdapter, AdapterFields
  <2> QED BY <2>3, <2>4 DEF Watched, OnDuty
<1> QED BY <1>2, <1>3, <1>4, <1>5, <1>6 DEF ClientStep

\* The primary prompt is accepted.
LEMMA PromptWatched ==
    ASSUME SchedInv, Shape, Healthy, Watched, NEW p \in Clients, PromptStep(p)
    PROVE  Watched'
<1> DEFINE o == PromptTask(p)
           t == At("acked", NoRow)
<1>0. /\ Accounts(ad) /\ DOMAIN task = Tasks /\ Unfailed /\ o \in Tasks
      /\ Alike(ad, ad)
  BY TaskKinds DEF SchedInv, Shape, Tasked, Healthy, Accounts, Alike, Fresh
<1>1. StaysAhead
  BY DEF PromptStep, DirectAccepted, DirectFails, StaysAhead
<1>2. t.pc = "acked"
  BY TaskStates
<1>3. \/ /\ task[o].pc = "direct" /\ ad' = ad /\ Moves(o, t)
      \/ /\ task[o].pc = "acked" /\ ad' = ad /\ SpawnProbe(o)
  BY <1>0 DEF PromptStep, DirectAccepted, DirectFails, Answered, Moves, Unfailed
<1> HIDE DEF o, t
<1>4. CASE task[o].pc = "direct" /\ ad' = ad /\ Moves(o, t)
  <2>1. Probing'
    BY <1>0, <1>2, <1>4, Duties DEF IsProbe
  <2>2. OnDuty
    BY <1>0, <1>1, <1>4, <2>1, Duties DEF OnDuty, IsPoll
  <2> QED BY <1>0, <1>4, <2>2, WatchedAlike
<1>5. CASE task[o].pc = "acked" /\ ad' = ad /\ SpawnProbe(o)
  BY <1>0, <1>1, <1>5, DutiesSpawn, WatchedAlike
<1> QED BY <1>3, <1>4, <1>5

\* The tasks of the adapter.
LEMMA TaskWatched ==
    ASSUME SchedInv, Shape, Healthy, Watched, Counted', spent'.deadline = spent.deadline,
           NEW o \in Tasks, TaskStep(o)
    PROVE  Watched'
<1>0. /\ Accounts(ad) /\ IsAdapter(ad) /\ Arrays(pi) /\ DOMAIN task = Tasks
      /\ ad.started \subseteq ad.active /\ pi.up /\ Unfailed /\ Counted
      /\ Alike(ad, ad)
  BY DEF SchedInv, Shape, Tasked, Steady, Accounts, Healthy, Alike, Fresh
<1>1. StaysAhead
  BY <1>0, TaskUnfailed DEF StaysAhead, PiSame
<1>s. /\ \A pc, row : /\ DOMAIN At(pc, row) = TaskFields /\ At(pc, row).pc = pc
                      /\ DOMAIN Sent(pc, row) = TaskFields /\ Sent(pc, row).pc = pc
                      /\ At(pc, row).reply = "none" /\ Sent(pc, row).reply = "none"
      /\ \A row : Settling(row).pc = "settled"
      /\ Done.pc = "end"
      /\ \A t : DOMAIN t = TaskFields => Onward(o, t).pc = t.pc
  BY <1>0, TaskStates
<1>d. ASSUME NEW t, Moves(o, t),
             task[o].pc \in {"kick", "steering", "steer", "continue"}
      PROVE  OnDuty
  BY <1>0, <1>1, <1>d, DutiesKept DEF IsProbe, IsPoll
<1>2. ASSUME Kick(o) PROVE Watched'
  <2>1. task[o].pc = "kick"
    BY <1>2 DEF Kick
  <2>2. \/ /\ Alike(ad', ad)
           /\ \E t : Moves(o, t)
        \/ /\ ~AdapterBusy(ad) /\ Running(ad', ad)
           /\ \E t : Moves(o, t) /\ t.pc = "announce"
    BY <1>0, <1>2, DispatchFlags DEF Kick
  <2>3. CASE Alike(ad', ad) /\ \E t : Moves(o, t)
    BY <1>d, <2>1, <2>3, WatchedAlike
  <2>4. CASE /\ ~AdapterBusy(ad) /\ Running(ad', ad)
             /\ \E t : Moves(o, t) /\ t.pc = "announce"
    <3>1. Probing'
      BY <1>0, <2>4, Duties DEF IsProbe
    <3> QED BY <1>0, <2>4, <3>1, WatchedRunning
  <2> QED BY <2>2, <2>3, <2>4
<1>3. ASSUME Dispatch(o) PROVE Watched'
  <2> DEFINE t == Onward(o, Sent("sent", task[o].row))
  <2>1. task[o].pc = "announce" /\ Moves(o, t) /\ ad' = ad
    BY <1>3 DEF Dispatch, Moves
  <2>2. t.pc = "sent"
    BY <1>s
  <2> HIDE DEF t
  <2>3. Probing'
    BY <1>0, <2>1, <2>2, Duties DEF IsProbe
  <2>4. OnDuty
    BY <1>0, <1>1, <2>1, <2>3, Duties DEF OnDuty, IsPoll
  <2> QED BY <1>0, <2>1, <2>4, WatchedAlike
<1>4. ASSUME SendSteer(o) PROVE Watched'
  <2>1. task[o].pc = "steering" /\ Moves(o, Sent("steer", task[o].row)) /\ ad' = ad
    BY <1>4 DEF SendSteer, Moves
  <2> QED BY <1>0, <1>d, <2>1, WatchedAlike
<1>5. ASSUME DispatchAccepted(o) PROVE Watched'
  <2>1. /\ SpawnProbe(o) /\ task[o].pc = "sent"
        /\ ad' = ad \/ ad' = RecordContinuation(ad, task[o].goal)
    BY <1>5 DEF DispatchAccepted, Answered
  <2>2. Alike(ad', ad)
    BY <1>0, <2>1, RecordFlags, FlaggedAlike
  <2> QED BY <1>0, <1>1, <2>1, <2>2, DutiesSpawn, WatchedAlike
<1>6. ~(DispatchFails(o) \/ SteerFails(o))
  BY <1>0 DEF DispatchFails, SteerFails, Answered, Unfailed
<1>7. ASSUME SteerAccepted(o) PROVE Watched'
  <2>1. /\ task[o].pc = "steer"
        /\ \/ o = Consumer /\ FlushPendingSteering(ad)
           \/ ad' = ad /\ Moves(o, Done)
    BY <1>7 DEF SteerAccepted, Answered, Moves
  <2>2. CASE ad' = ad /\ Moves(o, Done)
    BY <1>0, <1>d, <2>1, <2>2, WatchedAlike
  <2>3. CASE o = Consumer /\ FlushPendingSteering(ad)
    <3>1. OnDuty
      BY <1>0, <1>d, <2>1, <2>3, FlushFlags
    <3> QED BY <1>0, <2>3, <3>1, FlushFlags, WatchedAlike, WatchedJoined
  <2> QED BY <2>1, <2>2, <2>3
<1>8. ASSUME ProbeWakes(o) PROVE Watched'
  <2> DEFINE t == Sent("ask", NoRow)
  <2>1. /\ task[o].pc = "doze" /\ ad' = ad
        /\ \/ Moves(o, t)
           \/ /\ Moves(o, Done) /\ ad.active = ad.started
              /\ ad.mirror.running = NoRow \/ ~ad.agentRunning
    BY <1>8 DEF ProbeWakes, Moves
  <2>2. t.pc = "ask" /\ t.reply = "none"
    BY <1>s
  <2> HIDE DEF t
  <2>3. /\ Live => Live'
        /\ Settles => Settles'
        /\ Polling => Polling'
    BY <1>0, <1>1, <2>1, Duties DEF IsPoll
  <2>4. CASE Moves(o, t)
    <3>1. Probing => Probing'
      BY <1>0, <2>1, <2>2, <2>4, Duties DEF IsProbe
    <3>2. OnDuty
      BY <2>3, <3>1 DEF OnDuty
    <3> QED BY <1>0, <2>1, <3>2, WatchedAlike
  <2>5. CASE /\ ad.active = ad.started
             /\ ad.mirror.running = NoRow \/ ~ad.agentRunning
    BY <2>1, <2>3, <2>5 DEF Watched
  <2> QED BY <2>1, <2>4, <2>5
<1>9. ASSUME ProbeAnswered(o) PROVE Watched'
  <2> DEFINE u == Settling(ad.mirror.running)
             b == [ad EXCEPT !.agentRunning = FALSE, !.cancelling = FALSE,
                             !.mirror = ClearRunning(@)]
  <2>1. /\ task[o].pc = "ask" /\ o[1] = "probe"
        /\ \/ Moves(o, u) /\ ad' = b
           \/ Moves(o, Done) /\ ad' = ad /\ task[o].reply \in {"streaming", "err"}
    BY <1>9 DEF ProbeAnswered, Answered, Moves
  <2>2. u.pc = "settled"
    BY <1>s
  <2> HIDE DEF u
  <2>3. Cleared(b, ad)
    BY <1>0, ClearedFlags
  <2> HIDE DEF b
  <2>4. CASE Moves(o, u) /\ ad' = b
    <3>1. Settles'
      BY <1>0, <2>2, <2>4, Duties
    <3> QED BY <2>3, <2>4, <3>1, WatchedCleared
  <2>5. CASE Moves(o, Done) /\ ad' = ad /\ task[o].reply \in {"streaming", "err"}
    <3>1. OnDuty
      BY <1>0, <1>1, <2>1, <2>5, DutiesKept DEF IsProbe, IsPoll
    <3> QED BY <1>0, <2>5, <3>1, WatchedAlike
  <2> QED BY <2>1, <2>4, <2>5
<1>10. ASSUME TurnEnds(o) PROVE Watched'
  <2>1. task[o].pc = "settled"
    BY <1>10 DEF TurnEnds
  <2>2. ASSUME NEW t, Moves(o, t)
        PROVE  /\ Live => Live'
               /\ Probing => Probing'
               /\ Polling => Polling'
    BY <1>0, <1>1, <2>1, <2>2, Duties DEF IsPoll, IsProbe
  <2>3. CASE Emptied(ad', ad)
    <3>1. \E t : Moves(o, t)
      BY <1>0, <1>10, TurnEndsFlags DEF Goes
    <3> QED BY <2>2, <2>3, <3>1, WatchedEmptied
  <2>4. CASE Seized(ad', ad) /\ Goes(o, {"announce"})
    <3>1. Probing'
      BY <1>0, <2>4, Duties DEF Goes, IsProbe
    <3> QED BY <2>4, <3>1, WatchedSeized
  <2> QED BY <1>0, <1>10, <2>3, <2>4, TurnEndsFlags
<1>11. ASSUME ContinueGoal(o) PROVE Watched'
  <2>1. task[o].pc = "continue"
    BY <1>11 DEF ContinueGoal
  <2>2. Alike(ad', ad) /\ \E t : Moves(o, t)
    BY <1>0, <1>11, ContinueFlags DEF Goes
  <2> QED BY <1>d, <2>1, <2>2, WatchedAlike
<1>12. ASSUME SettlePolls(o) \/ SettleAgain(o) PROVE Watched'
  <2> DEFINE n == IF task[o].pc = "poll" THEN task[o].polls
                  ELSE IF task[o].reply = "idle" THEN task[o].polls + 1 ELSE 0
             s == Sent("ask", NoRow)
             a == At("poll", NoRow)
             t == [s EXCEPT !.polls = n]
             u == [a EXCEPT !.polls = n]
  <2>1. /\ ad' = ad
        /\ \/ task[o].pc = "poll" /\ ad.cancelling /\ Moves(o, t)
           \/ task[o].pc = "poll" /\ ~ad.cancelling /\ Moves(o, Done)
           \/ task[o].pc = "ask" /\ o[1] = "settle" /\ Moves(o, u)
    BY <1>12 DEF SettlePolls, SettleAgain, Answered, Moves
  <2>2. DOMAIN s = TaskFields /\ s.pc = "ask" /\ DOMAIN a = TaskFields /\ a.pc = "poll"
    BY <1>s
  <2> HIDE DEF s, a, n
  <2>3. t.pc = "ask" /\ u.pc = "poll"
    BY <2>2 DEF TaskFields
  <2> HIDE DEF t, u
  <2>4. /\ Live => Live'
        /\ Settles => Settles'
    BY <1>0, <1>1, <2>1, Duties
  <2>5. Probing => Probing'
    BY <1>0, <2>1, Duties DEF IsProbe
  <2>6. ad.cancelling /\ Polling => Polling'
    BY <1>0, <2>1, <2>3, Duties DEF IsPoll
  <2> QED BY <2>1, <2>4, <2>5, <2>6 DEF Watched
<1>13. ASSUME SettleConfirmed(o) PROVE Watched'
  <2> DEFINE t == At("kick", NoRow)
             b == [ad EXCEPT !.agentRunning = FALSE, !.cancelling = FALSE,
                             !.mirror = ClearRunning(@)]
  <2>1. /\ task[o].pc = "ask" /\ o[1] = "settle"
        /\ \/ ad' = b /\ Moves(o, t)
           \/ /\ ad' = ad /\ Moves(o, Done)
              /\ ~(ad.cancelling /\ ad.mirror.running = NoRow)
    BY <1>13 DEF SettleConfirmed, Answered, Moves
  <2> HIDE DEF t
  <2>2. Cleared(b, ad)
    BY <1>0, ClearedFlags
  <2> HIDE DEF b
  <2>3. /\ Live => Live'
        /\ Settles => Settles'
        /\ Probing => Probing'
    BY <1>0, <1>1, <2>1, Duties DEF IsProbe
  <2>4. CASE ad' = b /\ Moves(o, t)
    BY <2>2, <2>3, <2>4 DEF Watched, Cleared
  <2>5. CASE ad' = ad /\ ~(ad.cancelling /\ ad.mirror.running = NoRow)
    BY <2>3, <2>5 DEF Watched
  <2> QED BY <2>1, <2>4, <2>5
<1>14. ~SettleGivesUp(o)
  <2>1. ASSUME Spend("deadline") PROVE FALSE
    <3>1. spent'.deadline = spent.deadline + 1 /\ spent.deadline \in Nat
      BY <1>0, <2>1, Spending DEF Kinds, Counted, Bounds
    <3> QED BY <3>1
  <2> QED BY <1>0, <2>1 DEF SettleGivesUp, Answered, Unfailed
<1> QED BY <1>2, <1>3, <1>4, <1>5, <1>6, <1>7, <1>8, <1>9, <1>10, <1>11, <1>12, <1>13, <1>14
        DEF TaskStep

\* The consumer handles one event.
LEMMA ConsumerWatched ==
    ASSUME SchedInv, Shape, Healthy, Watched, ConsumerStep
    PROVE  Watched'
<1>0. /\ Accounts(ad) /\ IsAdapter(ad) /\ DOMAIN task = Tasks /\ Consumer \in Tasks
      /\ Alike(ad, ad) /\ Consumer[1] = "consumer"
  BY TaskKinds DEF SchedInv, Shape, Tasked, Accounts, Alike, Fresh
<1>s. /\ \A pc, row : At(pc, row).pc = pc /\ Sent(pc, row).pc = pc
      /\ \A row : Settling(row).pc = "settled"
      /\ Done.pc = "end"
  BY TaskStates
<1>d. ASSUME StaysAhead, NEW t, Moves(Consumer, t), task[Consumer].pc \in {"end", "load"}
      PROVE  OnDuty
  BY <1>0, <1>d, DutiesKept DEF IsProbe, IsPoll
<1>1. CASE AgentSettled
  <2> DEFINE t == At("stats", NoRow)
  <2>1. /\ task[Consumer].pc = "end" /\ ad' = ad /\ Moves(Consumer, t)
    BY <1>0, <1>1, <1>s DEF AgentSettled, NextEvent, Moves
  <2>2. t.pc = "stats"
    BY <1>s
  <2> HIDE DEF t
  <2>3. Live'
    BY <1>0, <2>1, <2>2, Duties
  <2>4. OnDuty
    BY <1>0, <2>1, <2>3, Duties DEF OnDuty, IsProbe, IsPoll
  <2> QED BY <1>0, <2>1, <2>4, WatchedAlike
<1>2. ASSUME ~AgentSettled PROVE Watched'
  <2>0. StaysAhead /\ ~ProcessExit
    BY <1>2, ConsumerUnfailed DEF StaysAhead
  <2>1. ASSUME AgentStart \/ QueueUpdate PROVE Watched'
    <3>1. UNCHANGED task
      BY <2>1 DEF AgentStart, QueueUpdate
    <3>2. \/ ad' = ad
          \/ ~ad.cancelling /\ (Begun(ad', ad) \/ Updated(ad', ad))
      BY <2>1, AgentStartFlags, UpdateFlags
    <3>3. Live'
      BY <2>1, ConsumerUnfailed DEF Live
    <3>4. OnDuty
      BY <2>0, <3>1, DutiesStay
    <3>5. CASE ad' = ad
      BY <1>0, <3>4, <3>5, WatchedAlike
    <3>6. CASE ~ad.cancelling /\ (Begun(ad', ad) \/ Updated(ad', ad))
      <4>1. ad'.cancelling = ad.cancelling
        BY <3>6 DEF Begun, Updated
      <4>2. Polling => Polling'
        BY <3>4 DEF OnDuty
      <4> QED BY <3>3, <3>6, <4>1, <4>2, WatchedLive
    <3> QED BY <3>2, <3>5, <3>6
  <2>2. ASSUME SlotIsCleared PROVE Watched'
    <3> DEFINE u == Settling(ad.mirror.running)
    <3>1. /\ Moves(Consumer, u)
          /\ ad' = [ad EXCEPT !.agentRunning = FALSE, !.cancelling = FALSE,
                              !.mirror = ClearRunning(@)]
      BY <1>0, <2>2 DEF SlotIsCleared, Moves
    <3>2. u.pc = "settled"
      BY <1>s
    <3> HIDE DEF u
    <3>3. Cleared(ad', ad)
      BY <1>0, <3>1, ClearedFlags
    <3>4. Settles'
      BY <1>0, <3>1, <3>2, Duties
    <3> QED BY <3>3, <3>4, WatchedCleared
  <2>3. ASSUME MessageEnd PROVE Watched'
    <3>1. /\ task[Consumer].pc = "end"
          /\ \/ ad' = ad /\ UNCHANGED task
             \/ FlushPendingSteering(ad)
      BY <1>s, <2>3 DEF MessageEnd, NextEvent
    <3>2. CASE ad' = ad /\ UNCHANGED task
      BY <1>0, <2>0, <3>2, DutiesStay, WatchedAlike
    <3>3. CASE FlushPendingSteering(ad)
      <4>1. OnDuty
        BY <1>0, <1>d, <2>0, <3>1, <3>3, FlushFlags
      <4> QED BY <1>0, <3>3, <4>1, FlushFlags, WatchedAlike, WatchedJoined
    <3> QED BY <3>1, <3>2, <3>3
  <2>4. ASSUME ExtensionMessage PROVE Watched'
    <3>1. task[Consumer].pc = "end"
      BY <1>s, <2>4 DEF ExtensionMessage, NextEvent
    <3>2. /\ Alike(ad', ad)
          /\ \/ Goes(Consumer, {"kick"})
             \/ UNCHANGED task
      BY <2>4, ExtensionFlags
    <3>3. OnDuty
      BY <1>d, <2>0, <3>1, <3>2, DutiesStay DEF Goes
    <3> QED BY <3>2, <3>3, WatchedAlike
  <2>5. ASSUME GoalMessage PROVE Watched'
    <3> DEFINE h == ApplyControl(ad.host, pi.goal)
    <3>1. UNCHANGED task /\ ad' = [ad EXCEPT !.host = h]
      BY <2>5 DEF GoalMessage
    <3> HIDE DEF h
    <3>2. Alike(ad', ad)
      BY <1>0, <3>1, RecordFlags, FlaggedAlike
    <3> QED BY <2>0, <3>1, <3>2, DutiesStay, WatchedAlike
  <2>6. ASSUME StateChanged PROVE Watched'
    <3>1. /\ task[Consumer].pc = "end" /\ ad' = ad
          /\ Moves(Consumer, Sent("load", NoRow))
      BY <1>0, <1>s, <2>6 DEF StateChanged, NextEvent, Moves
    <3> QED BY <1>0, <1>d, <2>0, <3>1, WatchedAlike
  <2>7. ASSUME Reloaded PROVE Watched'
    <3>1. /\ task[Consumer].pc = "load" /\ Moves(Consumer, Done)
          /\ ad' \in {ad, ReplaceBootstrap(ad)}
      BY <1>0, <2>7 DEF Reloaded, Answered, Moves
    <3>2. OnDuty
      BY <1>d, <2>0, <3>1
    <3> QED BY <1>0, <3>1, <3>2, ReplaceFlags, WatchedAlike, WatchedCleared
  <2> QED BY <1>2, <2>0, <2>1, <2>2, <2>3, <2>4, <2>5, <2>6, <2>7 DEF ConsumerStep
<1> QED BY <1>1, <1>2

\* The end of a Bash command, and the window of continuations.
LEMMA OtherWatched ==
    ASSUME SchedInv, Shape, Healthy, Watched, BashEnds \/ ContinuationExpires
    PROVE  Watched'
<1>0. /\ Accounts(ad) /\ IsAdapter(ad) /\ DOMAIN task = Tasks
  BY DEF SchedInv, Shape, Tasked, Accounts
<1>1. StaysAhead
  BY DEF BashEnds, ContinuationExpires, StaysAhead
<1>2. CASE BashEnds
  <2>1. /\ task[BashTask].pc = "bash" /\ Moves(BashTask, Done)
        /\ ad' = [ad EXCEPT !.bashRunning = FALSE]
    BY <1>2, TaskKinds DEF BashEnds, Answered, Moves
  <2>2. /\ ad'.active = ad.active /\ ad'.started = ad.started
        /\ ad'.cancelling = ad.cancelling /\ ad'.agentRunning = ad.agentRunning
        /\ ad'.mirror = ad.mirror
    BY <1>0, <2>1 DEF IsAdapter, AdapterFields
  <2>3. OnDuty
    BY <1>0, <1>1, <2>1, DutiesKept DEF IsProbe, IsPoll
  <2> QED BY <2>2, <2>3 DEF Watched, OnDuty
<1>3. CASE ContinuationExpires
  <2> DEFINE h == [ad.host EXCEPT !.sends = @ - 1]
  <2>1. UNCHANGED task /\ ad' = [ad EXCEPT !.host = h]
    BY <1>3 DEF ContinuationExpires
  <2> HIDE DEF h
  <2>2. Alike(ad', ad)
    BY <1>0, <2>1, RecordFlags, FlaggedAlike
  <2> QED BY <1>1, <2>1, <2>2, DutiesStay, WatchedAlike
<1> QED BY <1>2, <1>3

\* Pi answers: a probe that finds Pi streaming leaves the end to agent_settled.
LEMMA PiWatched ==
    ASSUME SchedInv, Shape, Healthy, Watched, PiStep,
           spent'.error = spent.error, spent'.crash = spent.crash
    PROVE  Watched'
<1>0. /\ Accounts(ad) /\ DOMAIN task = Tasks /\ Alike(ad, ad)
      /\ Unread(events) /\ Closed(pi.streaming, events)
  BY DEF SchedInv, Shape, Tasked, Healthy, Accounts, Alike, Fresh
<1>1. ad' = ad /\ Sends /\ (UNCHANGED task \/ AnswersOne)
  BY PiSends
<1>2. StaysAhead
  BY <1>0, <1>1, SendsClosed DEF StaysAhead
<1>3. CASE UNCHANGED task
  BY <1>0, <1>1, <1>2, <1>3, DutiesStay, WatchedAlike
<1>4. CASE AnswersOne
  <2>a. PICK o \in Tasks : \E t :
            /\ InFlight(o) /\ Moves(o, t)
            /\ t.pc = task[o].pc
            /\ t.reply \in {"ok", "idle", "streaming"}
            /\ t.pc = "ask" => t.reply = "idle" \/ (t.reply = "streaming" /\ pi.streaming)
    BY <1>4 DEF AnswersOne
  <2>1. PICK t :
            /\ InFlight(o) /\ Moves(o, t)
            /\ t.pc = task[o].pc
            /\ t.reply \in {"ok", "idle", "streaming"}
            /\ t.pc = "ask" => t.reply = "idle" \/ (t.reply = "streaming" /\ pi.streaming)
    BY <2>a
  <2>2. task[o].pc # "stats" /\ task[o].reply = "none"
    BY <2>1 DEF InFlight, Requesting
  <2>3. /\ Live => Live'
        /\ Settles => Settles'
        /\ Polling => Polling'
    BY <1>0, <1>2, <2>1, <2>2, Duties DEF IsPoll, InFlight, Requesting
  <2>4. CASE t.reply = "streaming" /\ pi.streaming
    <3>1. Live'
      BY <1>2, <2>4 DEF StaysAhead, Ahead, Live
    <3>2. ad.cancelling => ad'.mirror.running = NoRow
      BY <1>1 DEF Watched
    <3> QED BY <1>1, <2>3, <3>1, <3>2, WatchedLive
  <2>5. CASE t.pc = "ask" => t.reply = "idle"
    <3>1. Probing => Probing'
      BY <1>0, <2>1, <2>2, <2>5, Duties DEF IsProbe
    <3> QED BY <1>0, <1>1, <2>3, <3>1, WatchedAlike DEF OnDuty
  <2> QED BY <2>1, <2>4, <2>5
<1> QED BY <1>1, <1>3, <1>4

\* Nothing makes the adapter busy at first.
LEMMA WatchedInitial == SchedInit => Healthy /\ Watched
<1> SUFFICES ASSUME SchedInit PROVE Healthy /\ Watched
  OBVIOUS
<1> DEFINE d == Done
<1>1. /\ task = [o \in Tasks |-> d] /\ ad = InitialState /\ events = << >>
      /\ pi.up = TRUE /\ pi.streaming = FALSE /\ pi.recovery = "none"
  BY DEF SchedInit
<1>2. d.reply = "none"
  BY TaskStates
<1> HIDE DEF d
<1>3. Unfailed
  BY <1>1, <1>2 DEF Unfailed
<1>4. Closed(pi.streaming, events)
  BY <1>1 DEF Closed
<1>5. Watched
  BY <1>1 DEF Watched, InitialState, EmptyMirror
<1> QED BY <1>1, <1>3, <1>4, <1>5 DEF Healthy

\* While nothing goes wrong, somebody watches.
LEMMA WatchedInductive ==
    ASSUME SchedInv, Shape, Healthy, Watched, [SchedNext]_schedVars,
           spent'.error = spent.error, spent'.crash = spent.crash,
           spent'.deadline = spent.deadline
    PROVE  Watched'
<1>1. Counted' /\ Grows
  BY SpentGrows DEF Shape
<1>2. ~Respawn /\ ~Rebind
  BY DEF Healthy, Respawn, Rebind
<1>3. CASE UNCHANGED schedVars
  <2>1. UNCHANGED <<ad, task, pi, events>>
    BY <1>3 DEF schedVars
  <2>2. StaysAhead /\ Alike(ad', ad)
    BY <2>1 DEF StaysAhead, Alike, Fresh, SchedInv, Accounts
  <2> QED BY <2>1, <2>2, DutiesStay, WatchedAlike
<1>4. CASE SchedNext
  BY <1>1, <1>2, <1>4, ClientWatched, PromptWatched, TaskWatched, ConsumerWatched,
     OtherWatched, PiWatched DEF SchedNext
<1> QED BY <1>3, <1>4

\* The invariant: as long as Pi refuses nothing and does not crash, and no
\* cancel has run out of time, somebody watches.
Guarded == Calm => Healthy /\ (spent.deadline = 0 => Watched)

\* The invariant stays.
LEMMA GuardedInductive ==
    ASSUME SchedInv, Shape, Guarded, [SchedNext]_schedVars
    PROVE  Guarded'
<1>1. Counted /\ Counted' /\ Grows
  BY SpentGrows DEF Shape
<1>2. \A b \in {"error", "crash", "deadline"} : spent'[b] = 0 => spent[b] = 0
  BY <1>1, SpentBefore DEF Kinds
<1>3. ASSUME Calm' PROVE Healthy' /\ (spent'.deadline = 0 => Watched')
  <2>1. Calm /\ spent'.error = spent.error /\ spent'.crash = spent.crash
    BY <1>2, <1>3 DEF Calm
  <2>2. Healthy'
    BY <2>1, HealthyInductive DEF Guarded
  <2>3. ASSUME spent'.deadline = 0 PROVE Watched'
    BY <1>2, <2>1, <2>3, WatchedInductive DEF Guarded
  <2> QED BY <2>2, <2>3
<1> QED BY <1>3 DEF Guarded

\* A guarded adapter has no ghost run.
LEMMA GuardedRest ==
    ASSUME Shape, Guarded, Calm
    PROVE  NoGhostRun
<1> SUFFICES ASSUME AtRest, spent.deadline = 0 PROVE ~AdapterBusy(ad)
  BY DEF NoGhostRun
<1>1. /\ \A o \in Tasks : task[o].pc = "end"
      /\ Consumer \in Tasks /\ BashTask \in Tasks
      /\ events = << >> /\ pi.streaming = FALSE
  BY TaskStates, TaskKinds DEF AtRest, Guarded, Healthy
<1>2. ~Live /\ ~Settles /\ ~Probing /\ ~Polling
  BY <1>1 DEF Live, Ahead, Settles, Probing, IsProbe, Polling, IsPoll
<1>3. Watched
  BY DEF Guarded
<1>4. ~ad.bashRunning
  BY <1>1 DEF Shape, Steady
<1> QED BY <1>2, <1>3, <1>4 DEF Watched, AdapterBusy

\* No ghost runs: while Pi refuses no prompt and does not exit, the adapter
\* knows that it is idle once everything is at rest.
THEOREM SchedNoGhostRun ==
    SchedSafeSpec => [](spent.error = 0 /\ spent.crash = 0 => NoGhostRun)
<1>1. SchedInit => SchedInv /\ Shape /\ Guarded
  BY SchedInitial, ShapeInitial, WatchedInitial DEF Guarded
<1>2. SchedInv /\ Shape /\ Guarded /\ [SchedNext]_schedVars => (SchedInv /\ Shape /\ Guarded)'
  BY SchedInductive, ShapeInductive, GuardedInductive
<1>3. SchedInv /\ Shape /\ Guarded => (spent.error = 0 /\ spent.crash = 0 => NoGhostRun)
  BY GuardedRest DEF Calm
<1> QED BY <1>1, <1>2, <1>3, PTL DEF SchedSafeSpec

-----------------------------------------------------------------------------
(* Held rows are served.                                                   *)

\* The awaits behind which a task asks for the next row.
Serving == {"kick", "settled"}
Served == \E o \in Tasks : task[o].pc \in Serving

\* The held rows are the same, and a busy adapter stays busy.
SameRows(b, a) ==
    /\ b.mirror.local = a.mirror.local
    /\ AdapterBusy(a) => AdapterBusy(b)

\* A task that does not serve moves, or one that will serve.
LEMMA ServedMoves ==
    ASSUME DOMAIN task = Tasks, NEW o, NEW t, Moves(o, t)
    PROVE  /\ t.pc \in Serving => Served'
           /\ task[o].pc \notin Serving => (Served => Served')
<1>1. /\ DOMAIN task' = Tasks /\ task'[o] = t /\ o \in Tasks
      /\ \A q \in Tasks : q # o => task'[q] = task[q]
  BY OthersWait
<1> QED BY <1>1 DEF Served

\* A task leaves a probe behind.
LEMMA ServedSpawns ==
    ASSUME DOMAIN task = Tasks, NEW o \in Tasks, SpawnProbe(o),
           task[o].pc \in {"acked", "sent"}
    PROVE  Served => Served'
<1>1. PICK n \in 1 .. MaxProbes :
               /\ ProbeTask(n) \in Tasks /\ task[ProbeTask(n)] = Done /\ ProbeTask(n) # o
               /\ DOMAIN task' = Tasks
               /\ task'[o] = Done /\ task'[ProbeTask(n)] = At("doze", NoRow)
               /\ \A q \in Tasks : q # o /\ q # ProbeTask(n) => task'[q] = task[q]
  BY Spawned
<1>2. Done.pc = "end"
  BY TaskStates
<1> QED BY <1>1, <1>2 DEF Served, Serving

\* The rows and the flags stay.
LEMMA StillServed ==
    ASSUME NoStrandedRows, SameRows(ad', ad), Served => Served'
    PROVE  NoStrandedRows'
BY DEF NoStrandedRows, SameRows, Served, Serving

\* The adapter is busy, or has no rows, or some task serves them.
LEMMA NowServed ==
    ASSUME AdapterBusy(ad') \/ ad'.mirror.local = << >> \/ Served'
    PROVE  NoStrandedRows'
BY DEF NoStrandedRows, Served, Serving

\* What keeps the adapter busy.
LEMMA BusyKept ==
    ASSUME NEW a, NEW b
    PROVE  /\ Alike(b, a) => (AdapterBusy(b) <=> AdapterBusy(a))
           /\ Running(b, a) \/ Seized(b, a) \/ Begun(b, a) => AdapterBusy(b)
           /\ Joined(b, a) /\ (a.agentRunning \/ a.active # {}) => AdapterBusy(b)
           /\ Flagged(b, a) /\ b.active = a.active => SameRows(b, a)
           /\ Updated(b, a) => SameRows(b, a)
<1>1. Alike(b, a) => (AdapterBusy(b) <=> AdapterBusy(a))
  BY DEF Alike, AdapterBusy
<1>2. Running(b, a) \/ Seized(b, a) \/ Begun(b, a) => AdapterBusy(b)
  BY DEF Running, Seized, Begun, AdapterBusy
<1>3. Joined(b, a) /\ (a.agentRunning \/ a.active # {}) => AdapterBusy(b)
  BY DEF Joined, AdapterBusy
<1>4. Flagged(b, a) /\ b.active = a.active => SameRows(b, a)
  BY DEF Flagged, SameRows, AdapterBusy
<1>5. Updated(b, a) => SameRows(b, a)
  BY DEF Updated, SameRows, AdapterBusy
<1> QED BY <1>1, <1>2, <1>3, <1>4, <1>5

\* Dropping everything leaves no row behind.
LEMMA NothingLeft ==
    ASSUME NEW a, Accounts(a)
    PROVE  DropEverything(a).mirror.local = << >>
<1> DEFINE q == ClearMirror(ClearRunning(ClearLocal(a.mirror)))
           gone == IdsOf(a.mirror.local)
           c == [a EXCEPT !.mirror = q]
           reason == "Cancelled"
           d == FinishQueuedEntries(c, gone, reason)
           e == FinishPrompts(d, reason)
           run == a.mirror.running
           f == CompleteServerTurn(e, run)
<1>0. IsAdapter(a)
  BY DEF Accounts
<1>1. DropEverything(a) = f
  BY DEF DropEverything
<1>2. q.local = << >>
  <2> DEFINE x == ClearRunning(ClearLocal(a.mirror))
  <2>1. q = [EmptyMirror EXCEPT !.seq = x.seq]
    BY DEF ClearMirror
  <2> HIDE DEF x
  <2> QED BY <2>1 DEF EmptyMirror
<1> HIDE DEF q, gone
<1>3. IsAdapter(c) /\ c.mirror = q
  BY <1>0 DEF IsAdapter, AdapterFields
<1>9. reason # "new"
  OBVIOUS
<1> HIDE DEF c, reason
<1>4. Flagged(d, c)
  BY <1>3, <1>9, QueuedFlags
<1> HIDE DEF d
<1>5. Flagged(e, d)
  BY <1>4, <1>9, FinishFlags DEF Flagged
<1> HIDE DEF e, run
<1>6. Flagged(f, e)
  BY <1>5, CompleteFlags DEF Flagged
<1> HIDE DEF f
<1> QED BY <1>1, <1>2, <1>3, <1>4, <1>5, <1>6 DEF Flagged

\* A prompt, an interjected row, a cancel.
LEMMA ClientServed ==
    ASSUME SchedInv, Shape, NoStrandedRows, ClientStep, spent'.bash = spent.bash
    PROVE  NoStrandedRows'
<1>0. Accounts(ad) /\ IsAdapter(ad) /\ DOMAIN task = Tasks /\ Counted
  BY DEF SchedInv, Shape, Tasked, Accounts
<1>k. At("kick", NoRow).pc \in Serving
  BY TaskStates DEF Serving
<1>1. ASSUME NEW p \in Clients, NEW lane \in Lanes, Prompt(p, lane) PROVE NoStrandedRows'
  <2> DEFINE t == At("kick", NoRow)
  <2>1. t.pc \in Serving
    BY <1>k
  <2> HIDE DEF t
  <2>2. Moves(PromptTask(p), t) \/ Running(ad', ad)
    BY <1>0, <1>1, PromptFlags DEF t
  <2> QED BY <1>0, <2>1, <2>2, ServedMoves, BusyKept, NowServed
<1>2. ASSUME NEW p \in Clients, Interject(p) PROVE NoStrandedRows'
  <2> DEFINE t == At("kick", NoRow)
  <2>1. t.pc \in Serving
    BY <1>k
  <2> HIDE DEF t
  <2>2. \/ /\ ad.agentRunning \/ ad.active # {}
           /\ Joined(ad', ad)
        \/ Alike(ad', ad) /\ ad.cancelling
        \/ Moves(InterjectTask(p), t)
    BY <1>0, <1>2, InterjectFlags DEF t
  <2>3. ad.cancelling => AdapterBusy(ad)
    BY DEF AdapterBusy
  <2> QED BY <1>0, <2>1, <2>2, <2>3, ServedMoves, BusyKept, NowServed
<1>3. CASE Cancel
  <2> DEFINE b == DropEverything(ad)
  <2>1. ad' = [b EXCEPT !.cancelling = TRUE]
    BY <1>3 DEF Cancel
  <2>2. IsAdapter(b) /\ b.mirror.local = << >>
    BY <1>0, DropFlags, NothingLeft
  <2> HIDE DEF b
  <2>3. ad'.mirror.local = << >>
    BY <2>1, <2>2 DEF IsAdapter, AdapterFields
  <2> QED BY <2>3, NowServed
<1>4. ASSUME NEW ids, RemoveRows(ids) PROVE NoStrandedRows'
  <2>1. Alike(ad', ad) /\ UNCHANGED task /\ ad.mirror.local # << >>
    BY <1>0, <1>4, RemoveFlags
  <2>2. AdapterBusy(ad') <=> AdapterBusy(ad)
    BY <2>1, BusyKept
  <2> QED BY <2>1, <2>2 DEF NoStrandedRows
<1>5. ~BashStarts
  <2>1. ASSUME Spend("bash") PROVE FALSE
    <3>1. spent'.bash = spent.bash + 1 /\ spent.bash \in Nat
      BY <1>0, <2>1, Spending DEF Kinds, Counted, Bounds
    <3> QED BY <3>1
  <2> QED BY <2>1 DEF BashStarts
<1> QED BY <1>1, <1>2, <1>3, <1>4, <1>5 DEF ClientStep

\* The primary prompt is accepted.
LEMMA PromptServed ==
    ASSUME SchedInv, Shape, Healthy, NoStrandedRows, NEW p \in Clients, PromptStep(p)
    PROVE  NoStrandedRows'
<1> DEFINE o == PromptTask(p)
           t == At("acked", NoRow)
<1>0. DOMAIN task = Tasks /\ Unfailed /\ o \in Tasks /\ SameRows(ad, ad)
  BY TaskKinds DEF Shape, Tasked, Healthy, SameRows
<1>1. \/ /\ task[o].pc = "direct" /\ ad' = ad /\ Moves(o, t)
      \/ /\ task[o].pc = "acked" /\ ad' = ad /\ SpawnProbe(o)
  BY <1>0 DEF PromptStep, DirectAccepted, DirectFails, Answered, Moves, Unfailed
<1> HIDE DEF o, t
<1>2. Served => Served'
  BY <1>0, <1>1, ServedMoves, ServedSpawns DEF Serving
<1> QED BY <1>0, <1>1, <1>2, StillServed

\* The tasks of the adapter.
LEMMA TaskServed ==
    ASSUME SchedInv, Shape, Healthy, NoStrandedRows, spent'.deadline = spent.deadline,
           NEW o \in Tasks, TaskStep(o)
    PROVE  NoStrandedRows'
<1>0. /\ Accounts(ad) /\ IsAdapter(ad) /\ Arrays(pi) /\ DOMAIN task = Tasks
      /\ Unfailed /\ Counted /\ SameRows(ad, ad)
  BY DEF SchedInv, Shape, Tasked, Accounts, Healthy, SameRows
<1>s. /\ \A pc, row : At(pc, row).pc = pc
      /\ \A row : Settling(row).pc = "settled"
  BY TaskStates
<1>1. ASSUME Kick(o) PROVE NoStrandedRows'
  <2>1. \/ /\ AdapterBusy(ad) \/ ad.mirror.local = << >>
           /\ Alike(ad', ad) /\ ad'.mirror = ad.mirror
        \/ Running(ad', ad)
    BY <1>0, <1>1, DispatchFlags DEF Kick
  <2> QED BY <2>1, BusyKept, NowServed
<1>2. ASSUME TurnEnds(o) PROVE NoStrandedRows'
  <2>1. \/ Goes(o, Serving)
        \/ AdapterBusy(ad') \/ ad'.mirror.local = << >>
        \/ Seized(ad', ad)
    <3>1. {"kick"} \subseteq Serving
      BY DEF Serving
    <3> QED BY <1>0, <1>2, <3>1, TurnEndsFlags DEF Goes
  <2>2. Goes(o, Serving) => Served'
    BY <1>0, ServedMoves DEF Goes
  <2> QED BY <2>1, <2>2, BusyKept, NowServed
<1>3. ASSUME ContinueGoal(o) PROVE NoStrandedRows'
  <2>1. \/ Goes(o, Serving)
        \/ Alike(ad', ad) /\ ad.cancelling
    <3>1. {"kick"} \subseteq Serving
      BY DEF Serving
    <3> QED BY <1>0, <1>3, <3>1, ContinueFlags DEF Goes
  <2>2. Goes(o, Serving) => Served'
    BY <1>0, ServedMoves DEF Goes
  <2>3. ad.cancelling => AdapterBusy(ad)
    BY DEF AdapterBusy
  <2> QED BY <2>1, <2>2, <2>3, BusyKept, NowServed
<1>4. ASSUME ProbeAnswered(o) \/ SettleConfirmed(o) PROVE NoStrandedRows'
  <2> DEFINE u == Settling(ad.mirror.running)
             t == At("kick", NoRow)
  <2>1. /\ task[o].pc = "ask"
        /\ \/ Moves(o, u) \/ Moves(o, t)
           \/ Moves(o, Done) /\ ad' = ad
    BY <1>4 DEF ProbeAnswered, SettleConfirmed, Answered, Moves
  <2>2. u.pc \in Serving /\ t.pc \in Serving
    BY <1>s DEF Serving
  <2> HIDE DEF u, t
  <2>3. Served' \/ (ad' = ad /\ (Served => Served'))
    BY <1>0, <2>1, <2>2, ServedMoves DEF Serving
  <2> QED BY <1>0, <2>3, StillServed, NowServed
<1>5. ASSUME Dispatch(o) \/ SendSteer(o) \/ ProbeWakes(o) \/ SettlePolls(o) \/ SettleAgain(o)
      PROVE  NoStrandedRows'
  <2>1. /\ task[o].pc \notin Serving /\ ad' = ad /\ \E t : Moves(o, t)
    BY <1>5 DEF Dispatch, SendSteer, ProbeWakes, SettlePolls, SettleAgain, Answered,
                Moves, Serving
  <2>2. Served => Served'
    BY <1>0, <2>1, ServedMoves
  <2> QED BY <1>0, <2>1, <2>2, StillServed
<1>6. ASSUME DispatchAccepted(o) PROVE NoStrandedRows'
  <2>1. /\ SpawnProbe(o) /\ task[o].pc = "sent"
        /\ ad' = ad \/ ad' = RecordContinuation(ad, task[o].goal)
    BY <1>6 DEF DispatchAccepted, Answered
  <2>2. SameRows(ad', ad)
    BY <1>0, <2>1, RecordFlags, BusyKept
  <2> QED BY <1>0, <2>1, <2>2, ServedSpawns, StillServed
<1>7. ASSUME SteerAccepted(o) PROVE NoStrandedRows'
  <2>1. /\ task[o].pc = "steer"
        /\ \/ o = Consumer /\ FlushPendingSteering(ad)
           \/ ad' = ad /\ Moves(o, Done)
    BY <1>7 DEF SteerAccepted, Answered, Moves
  <2>2. \/ ad' = ad /\ Moves(o, Done)
        \/ Joined(ad', ad) /\ ad.agentRunning
    BY <1>0, <2>1, FlushFlags
  <2>3. Moves(o, Done) => (Served => Served')
    BY <1>0, <2>1, ServedMoves DEF Serving
  <2> QED BY <1>0, <2>2, <2>3, BusyKept, StillServed, NowServed
<1>8. ~(DispatchFails(o) \/ SteerFails(o))
  BY <1>0 DEF DispatchFails, SteerFails, Answered, Unfailed
<1>9. ~SettleGivesUp(o)
  <2>1. ASSUME Spend("deadline") PROVE FALSE
    <3>1. spent'.deadline = spent.deadline + 1 /\ spent.deadline \in Nat
      BY <1>0, <2>1, Spending DEF Kinds, Counted, Bounds
    <3> QED BY <3>1
  <2> QED BY <1>0, <2>1 DEF SettleGivesUp, Answered, Unfailed
<1> QED BY <1>1, <1>2, <1>3, <1>4, <1>5, <1>6, <1>7, <1>8, <1>9 DEF TaskStep

\* The consumer handles one event.
LEMMA ConsumerServed ==
    ASSUME SchedInv, Shape, Healthy, NoStrandedRows, ConsumerStep
    PROVE  NoStrandedRows'
<1>0. /\ Accounts(ad) /\ IsAdapter(ad) /\ DOMAIN task = Tasks /\ Consumer \in Tasks
      /\ SameRows(ad, ad)
  BY TaskKinds DEF SchedInv, Shape, Tasked, Accounts, SameRows
<1>s. /\ \A row : Settling(row).pc = "settled"
      /\ Done.pc = "end"
  BY TaskStates
<1>1. ASSUME AgentStart \/ QueueUpdate PROVE NoStrandedRows'
  <2>1. UNCHANGED task
    BY <1>1 DEF AgentStart, QueueUpdate
  <2>2. ad' = ad \/ Begun(ad', ad) \/ Updated(ad', ad)
    BY <1>1, AgentStartFlags, UpdateFlags
  <2>3. Served => Served'
    BY <2>1 DEF Served
  <2> QED BY <1>0, <2>2, <2>3, BusyKept, StillServed, NowServed
<1>2. ASSUME AgentSettled \/ StateChanged PROVE NoStrandedRows'
  <2>1. /\ task[Consumer].pc \notin Serving /\ ad' = ad /\ \E t : Moves(Consumer, t)
    BY <1>0, <1>2, <1>s DEF AgentSettled, StateChanged, NextEvent, Moves, Serving
  <2> QED BY <1>0, <2>1, ServedMoves, StillServed
<1>3. ASSUME SlotIsCleared PROVE NoStrandedRows'
  <2> DEFINE u == Settling(ad.mirror.running)
  <2>1. Moves(Consumer, u) /\ u.pc \in Serving
    BY <1>0, <1>3, <1>s DEF SlotIsCleared, Moves, Serving
  <2> HIDE DEF u
  <2> QED BY <1>0, <2>1, ServedMoves, NowServed
<1>4. ASSUME MessageEnd PROVE NoStrandedRows'
  <2>1. /\ task[Consumer].pc = "end"
        /\ \/ ad' = ad /\ UNCHANGED task
           \/ FlushPendingSteering(ad)
    BY <1>s, <1>4 DEF MessageEnd, NextEvent
  <2>2. \/ ad' = ad /\ UNCHANGED task
        \/ ad' = ad /\ Moves(Consumer, Done)
        \/ Joined(ad', ad) /\ ad.agentRunning
    BY <1>0, <2>1, FlushFlags
  <2>3. UNCHANGED task \/ Moves(Consumer, Done) => (Served => Served')
    BY <1>0, <2>1, ServedMoves DEF Served, Serving
  <2> QED BY <1>0, <2>2, <2>3, BusyKept, StillServed, NowServed
<1>5. ASSUME ExtensionMessage PROVE NoStrandedRows'
  <2>1. {"kick"} \subseteq Serving
    BY DEF Serving
  <2>2. Goes(Consumer, Serving) \/ (ad' = ad /\ UNCHANGED task)
    BY <1>5, <2>1, ExtensionFlags DEF Goes
  <2>3. Goes(Consumer, Serving) => Served'
    BY <1>0, ServedMoves DEF Goes
  <2>4. UNCHANGED task => (Served => Served')
    BY DEF Served
  <2> QED BY <1>0, <2>2, <2>3, <2>4, StillServed, NowServed
<1>6. ASSUME GoalMessage PROVE NoStrandedRows'
  <2> DEFINE h == ApplyControl(ad.host, pi.goal)
  <2>1. UNCHANGED task /\ ad' = [ad EXCEPT !.host = h]
    BY <1>6 DEF GoalMessage
  <2> HIDE DEF h
  <2>2. SameRows(ad', ad)
    BY <1>0, <2>1, RecordFlags, BusyKept
  <2>3. Served => Served'
    BY <2>1 DEF Served
  <2> QED BY <2>2, <2>3, StillServed
<1>7. ASSUME Reloaded PROVE NoStrandedRows'
  <2>1. /\ task[Consumer].pc = "load" /\ Moves(Consumer, Done)
        /\ ad' \in {ad, ReplaceBootstrap(ad)}
    BY <1>0, <1>7 DEF Reloaded, Answered, Moves
  <2>2. ReplaceBootstrap(ad).mirror.local = << >>
    BY <1>0, ReplaceFlags DEF EmptyMirror
  <2>3. Served => Served'
    BY <1>0, <2>1, ServedMoves DEF Serving
  <2> QED BY <1>0, <2>1, <2>2, <2>3, StillServed, NowServed
<1>8. ~ProcessExit
  BY ConsumerUnfailed
<1> QED BY <1>1, <1>2, <1>3, <1>4, <1>5, <1>6, <1>7, <1>8 DEF ConsumerStep

\* While nothing goes wrong, held rows are served.
LEMMA ServedInductive ==
    ASSUME SchedInv, Shape, Healthy, NoStrandedRows, [SchedNext]_schedVars,
           spent'.error = spent.error, spent'.crash = spent.crash,
           spent'.deadline = spent.deadline, spent'.bash = 0, spent.bash = 0
    PROVE  NoStrandedRows'
<1>0. DOMAIN task = Tasks /\ IsAdapter(ad) /\ SameRows(ad, ad)
  BY DEF SchedInv, Accounts, Shape, Tasked, SameRows
<1>1. ~Respawn /\ ~Rebind
  BY DEF Healthy, Respawn, Rebind
<1>2. ~BashEnds
  BY DEF Shape, Steady, BashEnds, Answered
<1>3. CASE ContinuationExpires
  <2> DEFINE h == [ad.host EXCEPT !.sends = @ - 1]
  <2>1. UNCHANGED task /\ ad' = [ad EXCEPT !.host = h]
    BY <1>3 DEF ContinuationExpires
  <2> HIDE DEF h
  <2>2. SameRows(ad', ad)
    BY <1>0, <2>1, RecordFlags, BusyKept
  <2>3. Served => Served'
    BY <2>1 DEF Served
  <2> QED BY <2>2, <2>3, StillServed
<1>4. CASE PiStep
  <2>1. ad' = ad /\ (UNCHANGED task \/ AnswersOne)
    BY <1>4, PiSends
  <2>2. CASE UNCHANGED task
    BY <1>0, <2>1, <2>2, StillServed DEF Served
  <2>3. CASE AnswersOne
    <3>1. PICK o \in Tasks : InFlight(o) /\ \E t : Moves(o, t)
      BY <2>3 DEF AnswersOne
    <3>2. task[o].pc \notin Serving
      BY <3>1 DEF InFlight, Requesting, Serving
    <3> QED BY <1>0, <2>1, <3>1, <3>2, ServedMoves, StillServed
  <2> QED BY <2>1, <2>2, <2>3
<1>5. CASE UNCHANGED schedVars
  <2>1. UNCHANGED <<ad, task>>
    BY <1>5 DEF schedVars
  <2> QED BY <2>1 DEF NoStrandedRows, AdapterBusy
<1>6. CASE SchedNext
  BY <1>1, <1>2, <1>3, <1>4, <1>6, ClientServed, PromptServed, TaskServed, ConsumerServed
     DEF SchedNext
<1> QED BY <1>5, <1>6

\* The invariant: without a refusal, an exit, an expired cancel and a Bash
\* command, no row is stranded.
RowsServed == Calm /\ spent.deadline = 0 /\ spent.bash = 0 => NoStrandedRows

\* The invariant stays.
LEMMA RowsServedInductive ==
    ASSUME SchedInv, Shape, Guarded, RowsServed, [SchedNext]_schedVars
    PROVE  RowsServed'
<1>1. Counted /\ Counted' /\ Grows
  BY SpentGrows DEF Shape
<1>2. \A b \in {"error", "crash", "deadline", "bash"} : spent'[b] = 0 => spent[b] = 0
  BY <1>1, SpentBefore DEF Kinds
<1>3. ASSUME Calm', spent'.deadline = 0, spent'.bash = 0 PROVE NoStrandedRows'
  <2>1. /\ Calm /\ spent'.error = spent.error /\ spent'.crash = spent.crash
        /\ spent'.deadline = spent.deadline /\ spent.bash = 0 /\ spent.deadline = 0
    BY <1>2, <1>3 DEF Calm
  <2> QED BY <1>3, <2>1, ServedInductive DEF RowsServed, Guarded
<1> QED BY <1>3 DEF RowsServed

\* A held row is never stranded: without a refusal, an exit of Pi, an expired
\* cancel and a direct Bash command, the rows that an idle adapter holds have a
\* task on its way to dispatch_next_queued().
THEOREM SchedNoStrandedRows ==
    SchedSafeSpec => []((spent.error = 0 /\ spent.crash = 0 /\ spent.deadline = 0
                            /\ spent.bash = 0) => NoStrandedRows)
<1>1. SchedInit => SchedInv /\ Shape /\ Guarded /\ RowsServed
  <2>1. SchedInit => NoStrandedRows
    BY DEF SchedInit, InitialState, EmptyMirror, NoStrandedRows
  <2> QED BY <2>1, SchedInitial, ShapeInitial, WatchedInitial DEF Guarded, RowsServed
<1>2. SchedInv /\ Shape /\ Guarded /\ RowsServed /\ [SchedNext]_schedVars
          => (SchedInv /\ Shape /\ Guarded /\ RowsServed)'
  BY SchedInductive, ShapeInductive, GuardedInductive, RowsServedInductive
<1>3. RowsServed => ((spent.error = 0 /\ spent.crash = 0 /\ spent.deadline = 0
                         /\ spent.bash = 0) => NoStrandedRows)
  BY DEF RowsServed, Calm
<1> QED BY <1>1, <1>2, <1>3, PTL DEF SchedSafeSpec

=============================================================================
