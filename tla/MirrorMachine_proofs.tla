------------------------ MODULE MirrorMachine_proofs ------------------------
(***************************************************************************)
(* Proofs about MirrorMachine: the ids of the mirrored queue are unique,   *)
(* an update shows Pi's arrays and keeps the ids of the rows that stay,    *)
(* and no started follow-up is lost, for any texts and client ids.         *)
(*                                                                         *)
(* That no id is in two places is not inductive: a new row must also get   *)
(* an id nothing has.  MirrorInv therefore adds the types and that every   *)
(* generated id is behind the counter (GoodMirror).  One lemma for each    *)
(* action shows that it keeps MirrorInv; the action properties follow from *)
(* it and from what the loop of apply_queue_update returns                 *)
(* (QueueMirror_proofs!MatchArraysLoop).                                   *)
(***************************************************************************)
EXTENDS MirrorMachine, QueueMirror_proofs, FiniteSetTheorems

\* The inductive invariant.
MirrorInv ==
    /\ GoodMirror(m, Rows)
    /\ steering \in Seq(Texts) /\ followUp \in Seq(Texts)

\* The rows of the mirror are closed under what the operations do to them.
LEMMA RowsAreRows ==
    /\ IsRowSet(Rows, Texts)
    /\ NoRow \notin Rows
    /\ \A id \in ClientIds, text \in Texts, lane \in Lanes :
           Row(id, text, lane, "Client") \in Rows
    /\ \A n \in Nat, text \in Texts, lane \in Lanes :
           Row(n + 1, text, lane, "Extension") \in Rows
<1>1. \A e \in Rows : e = [id |-> e.id, text |-> e.text, lane |-> e.lane,
                           origin |-> e.origin, ver |-> e.ver]
  BY DEF Rows
<1>2. \A e \in Rows, text \in Texts : [e EXCEPT !.text = text] \in Rows
  BY DEF Rows
<1>3. \A n \in Nat \ {0}, text \in Texts, lane \in Lanes, o \in Origins :
          Row(n, text, lane, o) \in Rows
  BY DEF Rows, Row
<1>4. \A id \in ClientIds, text \in Texts, lane \in Lanes, o \in Origins :
          Row(id, text, lane, o) \in Rows
  BY DEF Rows, Row
<1>5. NoRow \notin Rows
  BY DEF Rows, NoRow, Lanes
<1>6. \A n \in Nat : n + 1 \in Nat \ {0}
  OBVIOUS
<1> QED BY <1>1, <1>2, <1>3, <1>4, <1>5, <1>6 DEF IsRowSet, Origins

\* A row may be rewritten in its version, its lane, and its text.
LEMMA Rewritten ==
    /\ \A row \in Rows : Renewable(row, Rows)
    /\ \A text \in Texts : Editable(text, Rows)
    /\ \A e \in Rows :
           /\ [[e EXCEPT !.lane = "Steering"] EXCEPT !.ver = 0] \in Rows
           /\ [[e EXCEPT !.lane = "Steering"] EXCEPT !.ver = 0].id = e.id
           /\ [e EXCEPT !.lane = "Steering"].id = e.id
<1>1. \A row \in Rows : Renewable(row, Rows)
  BY DEF Rows, Renewable
<1>2. ASSUME NEW e \in Rows, NEW text \in Texts
      PROVE  /\ [e EXCEPT !.text = text, !.ver = @ + 1] \in Rows
             /\ [e EXCEPT !.text = text, !.ver = @ + 1].id = e.id
  <2>1. e = [id |-> e.id, text |-> e.text, lane |-> e.lane,
             origin |-> e.origin, ver |-> e.ver]
    BY DEF Rows
  <2>2. PICK d : d = [e EXCEPT !.text = text, !.ver = @ + 1]
    OBVIOUS
  <2>3. d = [id |-> e.id, text |-> text, lane |-> e.lane, origin |-> e.origin,
             ver |-> e.ver + 1]
    BY <2>1, <2>2
  <2>4. d \in Rows /\ d.id = e.id
    BY <2>3 DEF Rows
  <2> QED BY <2>2, <2>4
<1>3. ASSUME NEW e \in Rows
      PROVE  /\ [[e EXCEPT !.lane = "Steering"] EXCEPT !.ver = 0] \in Rows
             /\ [[e EXCEPT !.lane = "Steering"] EXCEPT !.ver = 0].id = e.id
             /\ [e EXCEPT !.lane = "Steering"].id = e.id
  BY DEF Rows, Lanes
<1>4. \A text \in Texts : Editable(text, Rows)
  BY <1>2 DEF Editable
<1> QED BY <1>1, <1>3, <1>4

\* enqueue_client queues a row whose id is not in the mirror.
LEMMA QueueClientGood ==
    ASSUME MirrorInv, NEW id \in ClientIds, NEW text \in Texts, NEW lane \in Lanes,
           QueueClient(id, text, lane)
    PROVE  MirrorInv'
<1> DEFINE row == Row(id, text, lane, "Client")
<1>1. row \in Rows /\ row.id = id
  BY RowsAreRows DEF Row
<1> HIDE DEF row
<1>2. /\ m' = EnqueueLocal(m, row) /\ UNCHANGED <<steering, followUp>>
      /\ id \notin Seen
  BY DEF QueueClient, PiUnchanged, row
<1>3. IsMirror(m) /\ m.local \in Seq(Rows) /\ Distinct(m.local) /\ m.seq \in Nat
  BY DEF MirrorInv, GoodMirror, RowsTyped, UniqueIds
<1>4. PICK l \in Seq(Rows) :
          /\ m' = Mirror(l, m.pi, m.reserved, m.parked, m.running, m.seq)
          /\ IdsOf(l) = IdsOf(m.local) \cup {id}
          /\ Distinct(l)
  <2>1. Renewable(row, Rows)
    BY <1>1, Rewritten
  <2> QED BY <1>1, <1>2, <1>3, <2>1, EnqueueLocalIds
<1>5. id \notin AllIds(m)
  BY <1>2 DEF Seen, AllIds, Slot
<1>6. id \notin Nat
  BY ClientIdAssumption
<1>7. GoodMirror(m', Rows)
  BY <1>3, <1>4, <1>5, <1>6, GoodNew DEF MirrorInv
<1> QED BY <1>2, <1>7 DEF MirrorInv

\* enqueue_extension takes the next id of the counter, which is new.
LEMMA QueueExtensionGood ==
    ASSUME MirrorInv, NEW text \in Texts, NEW lane \in Lanes,
           QueueExtension(text, lane)
    PROVE  MirrorInv'
<1> DEFINE n == m.seq + 1
           row == Row(n, text, lane, "Extension")
           x == [m EXCEPT !.seq = n]
<1>1. IsMirror(m) /\ m.local \in Seq(Rows) /\ Distinct(m.local) /\ m.seq \in Nat
  BY DEF MirrorInv, GoodMirror, RowsTyped, UniqueIds
<1>2. row \in Rows /\ row.id = n
  BY <1>1, RowsAreRows DEF Row
<1>3. m' = EnqueueLocal(x, row) /\ UNCHANGED <<steering, followUp>>
  BY DEF QueueExtension, EnqueueGenerated, NextId, PiUnchanged
<1>4. n \in Nat /\ n >= m.seq /\ ~(n <= m.seq) /\ n <= n
  BY <1>1
<1>5. n \notin AllIds(m)
  BY <1>4 DEF MirrorInv, GoodMirror, Behind
<1> HIDE DEF n, row
<1>6. /\ IsMirror(x) /\ x.local = m.local /\ x.pi = m.pi
      /\ x.reserved = m.reserved /\ x.parked = m.parked
      /\ x.running = m.running /\ x.seq = n
  BY <1>1, NumberedFields
<1> HIDE DEF x
<1>7. Renewable(row, Rows)
  BY <1>2, Rewritten
<1>8. PICK l \in Seq(Rows) :
          /\ EnqueueLocal(x, row)
               = Mirror(l, x.pi, x.reserved, x.parked, x.running, x.seq)
          /\ IdsOf(l) = IdsOf(x.local) \cup {row.id}
          /\ Distinct(x.local) => Distinct(l)
  BY <1>1, <1>2, <1>6, <1>7, EnqueueLocalIds
<1>9. /\ m' = Mirror(l, m.pi, m.reserved, m.parked, m.running, n)
      /\ IdsOf(l) = IdsOf(m.local) \cup {n} /\ Distinct(l)
  BY <1>1, <1>2, <1>3, <1>6, <1>8
<1>10. GoodMirror(m', Rows)
  BY <1>4, <1>5, <1>9, GoodNew DEF MirrorInv
<1> QED BY <1>3, <1>10 DEF MirrorInv

\* A prompt with a new id takes the free slot.
LEMMA RunDirectlyGood ==
    ASSUME MirrorInv, NEW id \in ClientIds, NEW text \in Texts,
           RunDirectly(id, text)
    PROVE  MirrorInv'
<1> DEFINE row == Row(id, text, "FollowUp", "Client")
<1>1. row \in Rows /\ row.id = id
  BY RowsAreRows DEF Row, Lanes
<1>2. IsMirror(m) /\ m.local \in Seq(Rows) /\ Distinct(m.local)
  BY DEF MirrorInv, GoodMirror, RowsTyped, UniqueIds
<1>3. /\ m' = [m EXCEPT !.running = row] /\ UNCHANGED <<steering, followUp>>
      /\ m.running = NoRow /\ id \notin Seen
  BY DEF RunDirectly, SetRunningPrimary, SetRunning, PiUnchanged
<1> HIDE DEF row
<1>4. m' = Mirror(m.local, m.pi, m.reserved, m.parked, row, m.seq)
  BY <1>2, <1>3, MirrorExcept
<1>5. row.id \notin AllIds(m) /\ row.id \notin Nat /\ row.id \notin IdsOf(m.local)
  BY <1>1, <1>3, ClientIdAssumption DEF Seen, AllIds, Slot
<1>6. GoodMirror(m', Rows)
  BY <1>1, <1>2, <1>3, <1>4, <1>5, RowsAreRows, GoodRun DEF MirrorInv
<1> QED BY <1>3, <1>6 DEF MirrorInv

\* The first local row moves to the free slot.
LEMMA DispatchGood ==
    ASSUME MirrorInv, Dispatch
    PROVE  MirrorInv'
<1> DEFINE row == Head(m.local)
           l == Tail(m.local)
           n == PopNextLocal(m)
<1>1. IsMirror(m) /\ m.local \in Seq(Rows) /\ Distinct(m.local)
  BY DEF MirrorInv, GoodMirror, RowsTyped, UniqueIds
<1>2. /\ m' = SetRunning(n, row) /\ UNCHANGED <<steering, followUp>>
      /\ m.running = NoRow /\ m.local # << >>
  BY DEF Dispatch, PiUnchanged
<1>3. /\ l \in Seq(Rows) /\ row \in Rows /\ row.id \in IdsOf(m.local)
      /\ IdsOf(l) \subseteq IdsOf(m.local) /\ Distinct(l) /\ row.id \notin IdsOf(l)
  BY <1>1, <1>2, TailIds
<1>4. n = Mirror(l, m.pi, m.reserved, m.parked, m.running, m.seq)
  BY <1>1, Operations
<1> HIDE DEF l, row
<1> HIDE DEF n
<1>5. /\ IsMirror(n) /\ n.local = l /\ n.pi = m.pi /\ n.reserved = m.reserved
      /\ n.parked = m.parked /\ n.seq = m.seq
  BY <1>4, MirrorFields
<1>6. m' = Mirror(l, m.pi, m.reserved, m.parked, row, m.seq)
  BY <1>2, <1>5, Operations
<1>7. GoodMirror(m', Rows)
  BY <1>2, <1>3, <1>6, RowsAreRows, GoodRun DEF MirrorInv
<1> QED BY <1>2, <1>7 DEF MirrorInv

\* What every action uses of the invariant.
LEMMA InvFields ==
    ASSUME MirrorInv
    PROVE  /\ GoodMirror(m, Rows) /\ IsMirror(m) /\ RowsTyped(m, Rows)
           /\ m.local \in Seq(Rows) /\ m.pi \in Seq(Rows)
           /\ m.reserved \in Seq(Rows) /\ m.parked \in Seq(Rows)
           /\ m.running \in Rows \cup {NoRow} /\ m.seq \in Nat
           /\ Distinct(m.local) /\ Distinct(m.pi)
           /\ Distinct(m.reserved) /\ Distinct(m.parked)
BY DEF MirrorInv, GoodMirror, RowsTyped, UniqueIds

\* The row that take_local finds, and the mirror without it.
LEMMA TakeFound ==
    ASSUME MirrorInv, NEW id, NEW ver, NEW i, i = LocalIndex(m, id, ver), i # 0
    PROVE  /\ i \in DOMAIN m.local /\ m.local[i] \in Rows /\ m.local[i].id = id
           /\ \E l \in Seq(Rows) :
                 /\ TakeLocal(m, i) = Mirror(l, m.pi, m.reserved, m.parked,
                                             m.running, m.seq)
                 /\ IdsOf(l) = IdsOf(m.local) \ {id} /\ Distinct(l)
<1> DEFINE x == LocalIndex(m, id, ver)
<1>0. x # 0 => x \in DOMAIN m.local /\ m.local[x].id = id
  <2>1. m.local \in Seq(Rows)
    BY InvFields
  <2> QED BY <2>1, LocalIndexFinds
<1>1. i \in DOMAIN m.local /\ m.local[i].id = id
  BY <1>0
<1>2. m.local[i] \in Rows
  BY <1>1, InvFields
<1> DEFINE l == RemoveAt(m.local, i)
<1>3. l \in Seq(Rows)
  BY <1>1, InvFields, RemoveAtRow
<1>4. IdsOf(m.local) = {id} \cup IdsOf(l) /\ Distinct(l) /\ id \notin IdsOf(l)
  BY <1>1, InvFields, RemoveIds
<1>5. TakeLocal(m, i) = Mirror(l, m.pi, m.reserved, m.parked, m.running, m.seq)
  BY InvFields, Operations
<1> HIDE DEF l
<1>6. IdsOf(l) = IdsOf(m.local) \ {id}
  BY <1>4
<1> QED BY <1>1, <1>2, <1>3, <1>4, <1>5, <1>6

\* A row leaves the local queue.
LEMMA RemoveRowGood ==
    ASSUME MirrorInv, NEW id, NEW ver, RemoveRow(id, ver)
    PROVE  MirrorInv'
<1> DEFINE i == LocalIndex(m, id, ver)
<1>1. i # 0 /\ m' = TakeLocal(m, i) /\ UNCHANGED <<steering, followUp>>
  BY DEF RemoveRow, PiUnchanged
<1> HIDE DEF i
<1>2. PICK l \in Seq(Rows) :
          /\ m' = Mirror(l, m.pi, m.reserved, m.parked, m.running, m.seq)
          /\ IdsOf(l) = IdsOf(m.local) \ {id} /\ Distinct(l)
  BY <1>1, TakeFound DEF i
<1>3. GoodMirror(m', Rows)
  BY <1>2, InvFields, GoodLocal
<1> QED BY <1>1, <1>3 DEF MirrorInv

\* A local row changes its text and version.
LEMMA EditRowGood ==
    ASSUME MirrorInv, NEW id, NEW text \in Texts, EditRow(id, text)
    PROVE  MirrorInv'
<1>1. m' = EditLocal(m, id, text) /\ UNCHANGED <<steering, followUp>>
  BY DEF EditRow, PiUnchanged
<1>2. PICK l \in Seq(Rows) :
          /\ m' = Mirror(l, m.pi, m.reserved, m.parked, m.running, m.seq)
          /\ IdsOf(l) = IdsOf(m.local)
          /\ Distinct(m.local) => Distinct(l)
  BY <1>1, InvFields, Rewritten, EditLocalIds
<1>3. GoodMirror(m', Rows)
  BY <1>2, InvFields, GoodLocal
<1> QED BY <1>1, <1>3 DEF MirrorInv

\* The local rows change their order.
LEMMA ReorderRowsGood ==
    ASSUME MirrorInv, NEW order, NEW n \in Nat, DOMAIN order = 1 .. n,
           ReorderRows(order)
    PROVE  MirrorInv'
<1>1. m' = ReorderLocal(m, order) /\ UNCHANGED <<steering, followUp>>
  BY DEF ReorderRows, PiUnchanged
<1>2. PICK l \in Seq(Rows) :
          /\ m' = Mirror(l, m.pi, m.reserved, m.parked, m.running, m.seq)
          /\ IdsOf(l) = IdsOf(m.local)
          /\ Distinct(m.local) => Distinct(l)
  BY <1>1, InvFields, ReorderIds
<1>3. GoodMirror(m', Rows)
  BY <1>2, InvFields, GoodLocal
<1> QED BY <1>1, <1>3 DEF MirrorInv

\* A local row moves to the reservations.
LEMMA InterjectRowGood ==
    ASSUME MirrorInv, NEW id, NEW text \in Texts, InterjectRow(id, text)
    PROVE  MirrorInv'
<1> DEFINE i == LocalIndex(m, id, AnyVersion)
           d == TakeLocal(m, i)
           row == [m.local[i] EXCEPT !.lane = "Steering"]
           new == [row EXCEPT !.ver = 0]
           r == Append(Without(m.reserved, {row.id}), new)
<1>1. /\ i # 0 /\ m' = Reserve(d, row)
      /\ steering' = Append(steering, text) /\ followUp' = followUp
  BY DEF InterjectRow
<1>2. i \in DOMAIN m.local /\ m.local[i] \in Rows /\ m.local[i].id = id
  BY <1>1, TakeFound
<1>3. row.id = id /\ new \in Rows /\ new.id = id
  BY <1>2, Rewritten
<1>4. PICK l \in Seq(Rows) :
          /\ d = Mirror(l, m.pi, m.reserved, m.parked, m.running, m.seq)
          /\ IdsOf(l) = IdsOf(m.local) \ {id} /\ Distinct(l)
  BY <1>1, TakeFound
<1> HIDE DEF i, d
<1>5. /\ IsMirror(d) /\ d.local = l /\ d.pi = m.pi /\ d.reserved = m.reserved
      /\ d.parked = m.parked /\ d.running = m.running /\ d.seq = m.seq
  BY <1>4, MirrorFields
<1>6. m' = Mirror(l, m.pi, r, m.parked, m.running, m.seq)
  BY <1>1, <1>5, Operations
<1>7. id \in IdsOf(m.local)
  BY <1>2 DEF IdsOf
<1> HIDE DEF row, new
<1> DEFINE w == Without(m.reserved, {row.id})
<1>8. /\ w \in Seq(Rows) /\ IdsOf(w) = IdsOf(m.reserved) \ {id} /\ Distinct(w)
  BY <1>3, InvFields, WithoutIds
<1> HIDE DEF w
<1>9. /\ Append(w, new) \in Seq(Rows) /\ Distinct(Append(w, new))
      /\ IdsOf(Append(w, new)) \subseteq IdsOf(m.reserved) \cup {id}
  BY <1>3, <1>8, AppendIds
<1>10. r \in Seq(Rows) /\ Distinct(r) /\ IdsOf(r) \subseteq IdsOf(m.reserved) \cup {id}
  BY <1>9 DEF w
<1> HIDE DEF r
<1>11. GoodMirror(m', Rows)
  BY <1>4, <1>6, <1>7, <1>10, InvFields, GoodReserve
<1>12. steering' \in Seq(Texts)
  BY <1>1 DEF MirrorInv
<1> QED BY <1>1, <1>11, <1>12 DEF MirrorInv

\* A local row moves to the front of the local queue.
LEMMA InterjectBackGood ==
    ASSUME MirrorInv, NEW id, InterjectBack(id)
    PROVE  MirrorInv'
<1> DEFINE i == LocalIndex(m, id, AnyVersion)
           d == TakeLocal(m, i)
           row == m.local[i]
<1>1. i # 0 /\ m' = PushFrontLocal(d, row) /\ UNCHANGED <<steering, followUp>>
  BY DEF InterjectBack, PiUnchanged
<1>2. i \in DOMAIN m.local /\ row \in Rows /\ row.id = id
  BY <1>1, TakeFound
<1>3. PICK k \in Seq(Rows) :
          /\ d = Mirror(k, m.pi, m.reserved, m.parked, m.running, m.seq)
          /\ IdsOf(k) = IdsOf(m.local) \ {id} /\ Distinct(k)
  BY <1>1, TakeFound
<1>4. row.id \in IdsOf(m.local)
  BY <1>2 DEF IdsOf
<1> HIDE DEF i, d, row
<1>5. /\ IsMirror(d) /\ d.local = k /\ d.pi = m.pi /\ d.reserved = m.reserved
      /\ d.parked = m.parked /\ d.running = m.running /\ d.seq = m.seq
  BY <1>3, MirrorFields
<1>6. PICK l \in Seq(Rows) :
          /\ m' = Mirror(l, m.pi, m.reserved, m.parked, m.running, m.seq)
          /\ IdsOf(l) = IdsOf(k) \cup {row.id}
          /\ Distinct(k) => Distinct(l)
  BY <1>1, <1>2, <1>5, PushFrontIds
<1>7. IdsOf(l) \subseteq IdsOf(m.local) /\ Distinct(l)
  BY <1>3, <1>4, <1>6
<1>8. GoodMirror(m', Rows)
  BY <1>6, <1>7, InvFields, GoodLocal
<1> QED BY <1>1, <1>8 DEF MirrorInv

\* A reservation is dropped.
LEMMA ReleaseRowGood ==
    ASSUME MirrorInv, NEW id, ReleaseRow(id)
    PROVE  MirrorInv'
<1> DEFINE r == Without(m.reserved, {id})
<1>1. m' = ReleaseReservation(m, id) /\ UNCHANGED <<steering, followUp>>
  BY DEF ReleaseRow, PiUnchanged
<1>2. m' = Mirror(m.local, m.pi, r, m.parked, m.running, m.seq)
  BY <1>1, InvFields, Operations
<1>3. r \in Seq(Rows) /\ IdsOf(r) \subseteq IdsOf(m.reserved) /\ Distinct(r)
  BY InvFields, WithoutIds
<1> HIDE DEF r
<1>4. GoodMirror(m', Rows)
  BY <1>2, <1>3, InvFields, RowsAreRows, GoodDrop
<1> QED BY <1>1, <1>4 DEF MirrorInv

\* The slot and the reservations are cleared.
LEMMA TurnSettlesGood ==
    ASSUME MirrorInv, TurnSettles
    PROVE  MirrorInv'
<1>1. m' = ClearRunning(m) /\ UNCHANGED <<steering, followUp>>
  BY DEF TurnSettles, PiUnchanged
<1>2. m' = Mirror(m.local, m.pi, << >>, m.parked, NoRow, m.seq)
  BY <1>1, InvFields, Operations
<1>3. << >> \in Seq(Rows) /\ IdsOf(<< >>) \subseteq IdsOf(m.reserved) /\ Distinct(<< >>)
  BY NoRows
<1>4. GoodMirror(m', Rows)
  BY <1>2, <1>3, InvFields, RowsAreRows, GoodDrop
<1> QED BY <1>1, <1>4 DEF MirrorInv

\* A queue_update arrives.
LEMMA UpdateKeepsGood ==
    ASSUME MirrorInv, Update
    PROVE  MirrorInv'
<1>1. m' = ApplyQueueUpdate(m, steering, followUp) /\ UNCHANGED <<steering, followUp>>
  BY DEF Update, PiUnchanged
<1>2. GoodMirror(m', Rows)
  BY <1>1, InvFields, RowsAreRows, UpdateGood DEF MirrorInv
<1> QED BY <1>1, <1>2 DEF MirrorInv

\* agent_start: the newest parked row takes the free slot.
LEMMA TurnStartsGood ==
    ASSUME MirrorInv, TurnStarts
    PROVE  MirrorInv'
<1>1. /\ m.running = NoRow /\ m' = PromoteParkedRunning(m)
      /\ UNCHANGED <<steering, followUp>>
  BY DEF TurnStarts, PiUnchanged
<1>2. CASE m.parked = << >>
  <2>1. m' = m
    BY <1>1, <1>2, InvFields, PromoteTakesNewest
  <2> QED BY <1>1, <2>1 DEF MirrorInv
<1>3. CASE m.parked # << >>
  <2> DEFINE i == Len(m.parked)
             k == SubSeq(m.parked, 1, i - 1)
             row == m.parked[i]
  <2>1. i \in DOMAIN m.parked
        /\ m' = Mirror(m.local, m.pi, m.reserved, k, row, m.seq)
    BY <1>1, <1>3, InvFields, PromoteTakesNewest
  <2> HIDE DEF i
  <2>2. /\ k \in Seq(Rows) /\ IdsOf(k) \subseteq IdsOf(m.parked) /\ Distinct(k)
        /\ row.id \notin IdsOf(k)
    BY <2>1, InvFields, PrefixIds
  <2>3. row \in Rows /\ row.id \in IdsOf(m.parked)
    BY <2>1, InvFields DEF IdsOf
  <2> HIDE DEF k, row
  <2>4. GoodMirror(m', Rows)
    BY <2>1, <2>2, <2>3, InvFields, RowsAreRows, GoodDrop
  <2> QED BY <1>1, <2>4 DEF MirrorInv
<1> QED BY <1>2, <1>3

\* A mirror without rows.
LEMMA EmptyIsGood ==
    ASSUME NEW s \in Nat, NEW d, d = Mirror(<< >>, << >>, << >>, << >>, NoRow, s)
    PROVE  GoodMirror(d, Rows)
<1>1. /\ IsMirror(d) /\ d.local = << >> /\ d.pi = << >> /\ d.reserved = << >>
      /\ d.parked = << >> /\ d.running = NoRow /\ d.seq = s
  BY MirrorFields
<1>2. RowsTyped(d, Rows)
  BY <1>1, << >> \in Seq(Rows) DEF RowsTyped
<1>3. UniqueIds(d) /\ AllIds(d) = {}
  BY <1>1, NoRows DEF UniqueIds, AllIds, Slot
<1> QED BY <1>2, <1>3 DEF GoodMirror, Behind

\* What cancel leaves of the mirror.
LEMMA DropAllIs ==
    ASSUME IsMirror(m), DropAll
    PROVE  /\ m' = Mirror(<< >>, << >>, << >>, << >>, NoRow, m.seq)
           /\ m' = ClearMirror(m)
<1> DEFINE a == ClearLocal(m)
           b == ClearRunning(a)
<1>1. m' = ClearMirror(b)
  BY DEF DropAll
<1>2. a = Mirror(<< >>, m.pi, m.reserved, m.parked, m.running, m.seq)
  BY Operations
<1> HIDE DEF a
<1>3. IsMirror(a) /\ a.seq = m.seq
  BY <1>2, MirrorFields
<1>4. b = Mirror(a.local, a.pi, << >>, a.parked, NoRow, a.seq)
  BY <1>3, Operations
<1> HIDE DEF b
<1>5. IsMirror(b) /\ b.seq = m.seq
  BY <1>3, <1>4, MirrorFields
<1> QED BY <1>1, <1>5, Operations

\* cancel clears everything but the counter.
LEMMA DropAllGood ==
    ASSUME MirrorInv, DropAll
    PROVE  MirrorInv'
<1>1. GoodMirror(m', Rows)
  BY InvFields, DropAllIs, EmptyIsGood
<1>2. UNCHANGED <<steering, followUp>>
  BY DEF DropAll, PiUnchanged
<1> QED BY <1>1, <1>2 DEF MirrorInv

\* Pi changes its arrays; the mirror does not know yet.
LEMMA PiGood ==
    ASSUME MirrorInv,
           \/ PiDequeues
           \/ \E text \in Texts : PiQueues(text)
    PROVE  MirrorInv'
<1> SUFFICES m' = m /\ steering' \in Seq(Texts) /\ followUp' \in Seq(Texts)
  BY DEF MirrorInv
<1>1. steering \in Seq(Texts) /\ followUp \in Seq(Texts)
  BY DEF MirrorInv
<1>2. CASE PiDequeues
  <2>1. /\ steering # << >> => Tail(steering) \in Seq(Texts)
        /\ followUp # << >> => Tail(followUp) \in Seq(Texts)
    BY <1>1
  <2> QED BY <1>1, <1>2, <2>1 DEF PiDequeues
<1>3. ASSUME NEW text \in Texts, PiQueues(text)
      PROVE  m' = m /\ steering' \in Seq(Texts) /\ followUp' \in Seq(Texts)
  <2>1. Append(steering, text) \in Seq(Texts) /\ Append(followUp, text) \in Seq(Texts)
    BY <1>1
  <2> QED BY <1>1, <1>3, <2>1 DEF PiQueues
<1> QED BY <1>2, <1>3

\* The empty mirror is good.
LEMMA MirrorInitial == MirrorInit => MirrorInv
<1>1. EmptyMirror = Mirror(<< >>, << >>, << >>, << >>, NoRow, 0)
  BY DEF EmptyMirror, Mirror
<1> QED BY <1>1, EmptyIsGood DEF MirrorInit, MirrorInv

\* Every step keeps the invariant.
LEMMA MirrorInductive == MirrorInv /\ [MirrorNext]_mirrorVars => MirrorInv'
<1> SUFFICES ASSUME MirrorInv, [MirrorNext]_mirrorVars
             PROVE  MirrorInv'
  OBVIOUS
<1>1. CASE UNCHANGED mirrorVars
  BY <1>1 DEF mirrorVars, MirrorInv
<1>2. ASSUME NEW id \in ClientIds, NEW text \in Texts, NEW lane \in Lanes,
             QueueClient(id, text, lane)
      PROVE  MirrorInv'
  BY <1>2, QueueClientGood
<1>3. ASSUME NEW id \in ClientIds, NEW text \in Texts, RunDirectly(id, text)
      PROVE  MirrorInv'
  BY <1>3, RunDirectlyGood
<1>4. ASSUME NEW text \in Texts, NEW lane \in Lanes, QueueExtension(text, lane)
      PROVE  MirrorInv'
  BY <1>4, QueueExtensionGood
<1>5. CASE Dispatch
  BY <1>5, DispatchGood
<1>6. ASSUME NEW id \in IdsOf(m.local), NEW ver \in 0 .. MaxVersion,
             RemoveRow(id, ver)
      PROVE  MirrorInv'
  BY <1>6, RemoveRowGood
<1>7. ASSUME NEW id \in IdsOf(m.local), NEW text \in Texts,
             EditRow(id, text) \/ InterjectRow(id, text)
      PROVE  MirrorInv'
  BY <1>7, EditRowGood, InterjectRowGood
<1>8. ASSUME NEW id \in IdsOf(m.local), InterjectBack(id)
      PROVE  MirrorInv'
  BY <1>8, InterjectBackGood
<1>9. ASSUME NEW order \in UNION {[1 .. n -> IdsOf(m.local)] : n \in 1 .. 2},
             ReorderRows(order)
      PROVE  MirrorInv'
  <2>1. PICK n \in 1 .. 2 : order \in [1 .. n -> IdsOf(m.local)]
    BY <1>9
  <2>2. n \in Nat /\ DOMAIN order = 1 .. n
    BY <2>1
  <2> QED BY <1>9, <2>2, ReorderRowsGood
<1>10. ASSUME NEW id \in IdsOf(m.reserved), ReleaseRow(id)
       PROVE  MirrorInv'
  BY <1>10, ReleaseRowGood
<1>11. CASE PiDequeues \/ \E text \in Texts : PiQueues(text)
  BY <1>11, PiGood
<1>12. CASE Update
  BY <1>12, UpdateKeepsGood
<1>13. CASE TurnStarts
  BY <1>13, TurnStartsGood
<1>14. CASE TurnSettles
  BY <1>14, TurnSettlesGood
<1>15. CASE DropAll
  BY <1>15, DropAllGood
<1> QED BY <1>1, <1>2, <1>3, <1>4, <1>5, <1>6, <1>7, <1>8, <1>9, <1>10, <1>11,
           <1>12, <1>13, <1>14, <1>15 DEF MirrorNext

\* Operations on the local rows leave the rest of the mirror alone.
LEMMA OnlyLocal ==
    ASSUME NEW q, IsMirror(q)
    PROVE  /\ \A x : /\ IsMirror([q EXCEPT !.local = x])
                     /\ [q EXCEPT !.local = x].pi = q.pi
                     /\ [q EXCEPT !.local = x].reserved = q.reserved
                     /\ [q EXCEPT !.local = x].parked = q.parked
                     /\ [q EXCEPT !.local = x].running = q.running
           /\ \A row : \E x : EnqueueLocal(q, row) = [q EXCEPT !.local = x]
<1>1. ASSUME NEW x
      PROVE  /\ IsMirror([q EXCEPT !.local = x])
             /\ [q EXCEPT !.local = x].pi = q.pi
             /\ [q EXCEPT !.local = x].reserved = q.reserved
             /\ [q EXCEPT !.local = x].parked = q.parked
             /\ [q EXCEPT !.local = x].running = q.running
  <2>1. [q EXCEPT !.local = x]
            = Mirror(x, q.pi, q.reserved, q.parked, q.running, q.seq)
    BY MirrorExcept
  <2> QED BY <2>1, MirrorFields
<1>2. ASSUME NEW row
      PROVE  \E x : EnqueueLocal(q, row) = [q EXCEPT !.local = x]
  <2> DEFINE a == [i \in DOMAIN q.local |->
                     IF q.local[i].id = row.id THEN [row EXCEPT !.ver = q.local[i].ver]
                                               ELSE q.local[i]]
             b == Append(q.local, row)
  <2>1. EnqueueLocal(q, row) = IF HasRow(q.local, row.id)
                               THEN [q EXCEPT !.local = a] ELSE [q EXCEPT !.local = b]
    BY DEF EnqueueLocal
  <2> HIDE DEF a, b
  <2> QED BY <2>1
<1> QED BY <1>1, <1>2

\* The actions that leave Pi's rows and the parked rows alone, and fill the
\* running slot only if it is free.
Quiet == /\ m'.pi = m.pi /\ m'.parked = m.parked
         /\ m.running # NoRow => m'.running \in {m.running, NoRow}

\* A quiet step, from the parts of the new mirror.
LEMMA QuietMirror ==
    ASSUME NEW l, NEW r, NEW run, NEW s,
           m' = Mirror(l, m.pi, r, m.parked, run, s),
           run = m.running \/ run = NoRow \/ m.running = NoRow
    PROVE  Quiet
<1>1. m'.pi = m.pi /\ m'.parked = m.parked /\ m'.running = run
  BY MirrorFields
<1> QED BY <1>1 DEF Quiet

\* A step that changes local rows only is quiet.
LEMMA QuietLocal ==
    ASSUME NEW q, IsMirror(q), q.pi = m.pi, q.parked = m.parked,
           q.running = m.running, NEW x, m' = [q EXCEPT !.local = x]
    PROVE  Quiet
<1>1. m'.pi = m.pi /\ m'.parked = m.parked /\ m'.running = m.running
  BY OnlyLocal
<1> QED BY <1>1 DEF Quiet

\* Only an update, agent_start and cancel touch Pi's rows or the parked ones.
LEMMA Steps ==
    ASSUME MirrorInv, MirrorNext
    PROVE  Quiet \/ Update \/ TurnStarts \/ DropAll
<1>0. IsMirror(m)
  BY InvFields
<1>1. ASSUME NEW id, NEW text, NEW lane, QueueClient(id, text, lane)
      PROVE  Quiet
  <2>1. \E row : m' = EnqueueLocal(m, row)
    BY <1>1 DEF QueueClient
  <2>2. \E x : m' = [m EXCEPT !.local = x]
    BY <1>0, <2>1, OnlyLocal
  <2> QED BY <1>0, <2>2, QuietLocal
<1>2. ASSUME NEW id, NEW text, RunDirectly(id, text)
      PROVE  Quiet
  <2>1. PICK row : m' = SetRunning(m, row)
    BY <1>2 DEF RunDirectly, SetRunningPrimary
  <2>2. m' = Mirror(m.local, m.pi, m.reserved, m.parked, row, m.seq)
    BY <1>0, <2>1, Operations
  <2>3. m.running = NoRow
    BY <1>2 DEF RunDirectly
  <2> QED BY <2>2, <2>3, QuietMirror
<1>3. ASSUME NEW text, NEW lane, QueueExtension(text, lane)
      PROVE  Quiet
  <2> DEFINE q == [m EXCEPT !.seq = NextId(m)]
  <2>1. \E row : m' = EnqueueLocal(q, row)
    BY <1>3 DEF QueueExtension, EnqueueGenerated
  <2>2. IsMirror(q) /\ q.pi = m.pi /\ q.parked = m.parked /\ q.running = m.running
    BY <1>0, NumberedFields
  <2> HIDE DEF q
  <2>3. \E x : m' = [q EXCEPT !.local = x]
    BY <2>1, <2>2, OnlyLocal
  <2> QED BY <2>2, <2>3, QuietLocal
<1>4. CASE Dispatch
  <2> DEFINE q == PopNextLocal(m)
             row == Head(m.local)
  <2>1. m' = SetRunning(q, row) /\ m.running = NoRow
    BY <1>4 DEF Dispatch
  <2>2. q = Mirror(Tail(m.local), m.pi, m.reserved, m.parked, m.running, m.seq)
    BY <1>0, Operations
  <2> HIDE DEF q, row
  <2>3. IsMirror(q) /\ q.pi = m.pi /\ q.parked = m.parked
    BY <2>2, MirrorFields
  <2>4. m' = Mirror(q.local, m.pi, q.reserved, m.parked, row, q.seq)
    BY <2>1, <2>3, Operations
  <2> QED BY <2>1, <2>4, QuietMirror
<1>5. ASSUME NEW id, NEW ver, RemoveRow(id, ver)
      PROVE  Quiet
  <2>1. \E x : m' = [m EXCEPT !.local = x]
    BY <1>5 DEF RemoveRow, TakeLocal
  <2> QED BY <1>0, <2>1, QuietLocal
<1>6. ASSUME NEW id, NEW text, EditRow(id, text)
      PROVE  Quiet
  <2> DEFINE l == [i \in DOMAIN m.local |->
                     IF m.local[i].id = id
                     THEN [m.local[i] EXCEPT !.text = text, !.ver = @ + 1]
                     ELSE m.local[i]]
  <2>1. m' = [m EXCEPT !.local = l]
    BY <1>6 DEF EditRow, EditLocal
  <2> HIDE DEF l
  <2> QED BY <1>0, <2>1, QuietLocal
<1>7. ASSUME NEW id, NEW text, InterjectRow(id, text)
      PROVE  Quiet
  <2> DEFINE i == LocalIndex(m, id, AnyVersion)
             q == TakeLocal(m, i)
             row == [m.local[i] EXCEPT !.lane = "Steering"]
  <2>1. m' = Reserve(q, row)
    BY <1>7 DEF InterjectRow
  <2>2. q = Mirror(RemoveAt(m.local, i), m.pi, m.reserved, m.parked, m.running, m.seq)
    BY <1>0, Operations
  <2> HIDE DEF i, q, row
  <2>3. IsMirror(q) /\ q.pi = m.pi /\ q.parked = m.parked /\ q.running = m.running
    BY <2>2, MirrorFields
  <2> DEFINE r == Append(Without(q.reserved, {row.id}), [row EXCEPT !.ver = 0])
  <2>4. m' = Mirror(q.local, m.pi, r, m.parked, m.running, q.seq)
    BY <2>1, <2>3, Operations
  <2> HIDE DEF r
  <2> QED BY <2>4, QuietMirror
<1>8. ASSUME NEW id, InterjectBack(id)
      PROVE  Quiet
  <2> DEFINE i == LocalIndex(m, id, AnyVersion)
             q == TakeLocal(m, i)
             row == m.local[i]
  <2>1. m' = PushFrontLocal(q, row)
    BY <1>8 DEF InterjectBack
  <2>2. q = Mirror(RemoveAt(m.local, i), m.pi, m.reserved, m.parked, m.running, m.seq)
    BY <1>0, Operations
  <2> HIDE DEF i, q, row
  <2>3. IsMirror(q) /\ q.pi = m.pi /\ q.parked = m.parked /\ q.running = m.running
    BY <2>2, MirrorFields
  <2>4. \E x : m' = [q EXCEPT !.local = x]
    BY <2>1 DEF PushFrontLocal
  <2> QED BY <2>3, <2>4, QuietLocal
<1>9. ASSUME NEW order, ReorderRows(order)
      PROVE  Quiet
  <2> DEFINE l == Chosen(m, order).chosen \o Chosen(m, order).rest
  <2>1. m' = IF Len(m.local) < 2 THEN m ELSE [m EXCEPT !.local = l]
    BY <1>9 DEF ReorderRows, ReorderLocal, Chosen, ChooseStart
  <2> HIDE DEF l
  <2>2. CASE m' = m
    BY <2>2 DEF Quiet
  <2>3. CASE m' = [m EXCEPT !.local = l]
    BY <1>0, <2>3, QuietLocal
  <2> QED BY <2>1, <2>2, <2>3
<1>10. ASSUME NEW id, ReleaseRow(id)
       PROVE  Quiet
  <2>1. m' = ReleaseReservation(m, id)
    BY <1>10 DEF ReleaseRow
  <2>2. m' = Mirror(m.local, m.pi, Without(m.reserved, {id}), m.parked, m.running,
                    m.seq)
    BY <1>0, <2>1, Operations
  <2> QED BY <2>2, QuietMirror
<1>11. CASE PiDequeues \/ \E text \in Texts : PiQueues(text)
  <2>1. m' = m
    BY <1>11 DEF PiDequeues, PiQueues
  <2> QED BY <2>1 DEF Quiet
<1>12. CASE TurnSettles
  <2>1. m' = Mirror(m.local, m.pi, << >>, m.parked, NoRow, m.seq)
    BY <1>0, <1>12, Operations DEF TurnSettles
  <2> QED BY <2>1, QuietMirror
<1> QED BY <1>1, <1>2, <1>3, <1>4, <1>5, <1>6, <1>7, <1>8, <1>9, <1>10, <1>11,
           <1>12 DEF MirrorNext

\* Ids that are distinct within each part of the mirror, and from part to part,
\* are distinct in all of it.
LEMMA GoodIsUnique == MirrorInv => IdsAreUnique
<1> SUFFICES ASSUME MirrorInv PROVE IdsAreUnique
  OBVIOUS
<1> DEFINE run == IF m.running = NoRow THEN << >> ELSE <<m.running>>
           a == m.local \o m.pi
           b == a \o m.reserved
           c == b \o m.parked
<1>1. UniqueIds(m)
  BY DEF MirrorInv, GoodMirror
<1>2. run \in Seq(Rows) /\ IdsOf(run) = Slot(m) /\ Distinct(run)
  <2>1. CASE m.running = NoRow
    <3>1. run = << >> /\ Slot(m) = {}
      BY <2>1 DEF Slot
    <3> QED BY <3>1, NoRows
  <2>2. CASE m.running # NoRow
    <3>1. run = <<m.running>> /\ Slot(m) = {m.running.id} /\ m.running \in Rows
      BY <2>2, InvFields DEF Slot
    <3> QED BY <3>1, OneRow
  <2> QED BY <2>1, <2>2
<1>3. a \in Seq(Rows) /\ IdsOf(a) = IdsOf(m.local) \cup IdsOf(m.pi) /\ Distinct(a)
  <2>1. IdsOf(m.local) \cap IdsOf(m.pi) = {}
    BY <1>1 DEF UniqueIds
  <2> QED BY <2>1, InvFields, ConcatIds
<1> HIDE DEF a, run
<1>4. b \in Seq(Rows) /\ IdsOf(b) = IdsOf(a) \cup IdsOf(m.reserved) /\ Distinct(b)
  <2>1. IdsOf(a) \cap IdsOf(m.reserved) = {}
    BY <1>1, <1>3 DEF UniqueIds
  <2> QED BY <1>3, <2>1, InvFields, ConcatIds
<1> HIDE DEF b
<1>5. c \in Seq(Rows) /\ IdsOf(c) = IdsOf(b) \cup IdsOf(m.parked) /\ Distinct(c)
  <2>1. IdsOf(b) \cap IdsOf(m.parked) = {}
    BY <1>1, <1>3, <1>4 DEF UniqueIds
  <2> QED BY <1>4, <2>1, InvFields, ConcatIds
<1> HIDE DEF c
<1>6. Distinct(c \o run)
  <2>1. IdsOf(c) \cap IdsOf(run) = {}
    BY <1>1, <1>2, <1>3, <1>4, <1>5 DEF UniqueIds
  <2> QED BY <1>2, <1>5, <2>1, ConcatIds
<1> QED BY <1>6 DEF IdsAreUnique, a, b, c, run

\* What an update does to Pi's rows, as far as the properties tell.
LEMMA UpdateIs ==
    ASSUME MirrorInv, Update, NEW a, a = UpdateAcc(m, steering, followUp)
    PROVE  /\ m' = ApplyQueueUpdate(m, steering, followUp)
           /\ m'.pi = a.next
           /\ IsAcc(a, Rows) /\ Owned(a, m) /\ Kept(a, m) /\ Greedy(a, m)
           /\ Contents(a, Len(steering) + Len(followUp),
                       Desired(steering, "Steering") \o Desired(followUp, "FollowUp"))
<1>1. m' = ApplyQueueUpdate(m, steering, followUp)
  BY DEF Update
<1>2. m'.pi = a.next
  BY <1>1, InvFields, UpdateParts, MirrorFields
<1>3. Loop(a, Len(steering) + Len(followUp), m,
           Desired(steering, "Steering") \o Desired(followUp, "FollowUp"), Rows)
  BY InvFields, RowsAreRows, UpdateLoop DEF MirrorInv
<1> QED BY <1>1, <1>2, <1>3 DEF Loop

\* The rows after an update, compared with the texts of Pi's arrays.
LEMMA UpdateShowsArrays ==
    ASSUME MirrorInv, Update
    PROVE  /\ Len(m'.pi) = Len(steering) + Len(followUp)
           /\ \A i \in DOMAIN m'.pi :
                 IF i <= Len(steering)
                 THEN m'.pi[i].lane = "Steering" /\ m'.pi[i].text = steering[i]
                 ELSE /\ m'.pi[i].lane = "FollowUp"
                      /\ m'.pi[i].text = followUp[i - Len(steering)]
<1> DEFINE a == UpdateAcc(m, steering, followUp)
           d == Desired(steering, "Steering") \o Desired(followUp, "FollowUp")
           n == Len(steering) + Len(followUp)
<1>1. m'.pi = a.next /\ Contents(a, n, d) /\ a.next \in Seq(Rows)
  BY UpdateIs DEF IsAcc
<1>2. steering \in Seq(Texts) /\ followUp \in Seq(Texts)
  BY DEF MirrorInv
<1>3. \A i \in 1 .. n : d[i] = IF i <= Len(steering)
                               THEN [text |-> steering[i], lane |-> "Steering"]
                               ELSE [text |-> followUp[i - Len(steering)],
                                     lane |-> "FollowUp"]
  BY <1>2, DesiredRows
<1> HIDE DEF a, d
<1>4. Len(a.next) = n /\ DOMAIN a.next = 1 .. n
  BY <1>1 DEF Contents
<1>5. \A i \in 1 .. n : a.next[i].lane = d[i].lane /\ a.next[i].text = d[i].text
  BY <1>1 DEF Contents
<1> HIDE DEF n
<1>6. ASSUME NEW i \in 1 .. n
      PROVE  IF i <= Len(steering)
             THEN a.next[i].lane = "Steering" /\ a.next[i].text = steering[i]
             ELSE /\ a.next[i].lane = "FollowUp"
                  /\ a.next[i].text = followUp[i - Len(steering)]
  <2> DEFINE s == [text |-> steering[i], lane |-> "Steering"]
             f == [text |-> followUp[i - Len(steering)], lane |-> "FollowUp"]
  <2>1. d[i] = IF i <= Len(steering) THEN s ELSE f
    BY <1>3
  <2>2. /\ s.lane = "Steering" /\ s.text = steering[i] /\ f.lane = "FollowUp"
        /\ f.text = followUp[i - Len(steering)]
    OBVIOUS
  <2> HIDE DEF s, f
  <2> QED BY <1>5, <2>1, <2>2
<1> QED BY <1>1, <1>4, <1>6 DEF n

\* One more row of a text in the mirror than Pi's array holds is needed for a
\* row to lose its id.
LEMMA UpdateKeepsIds ==
    ASSUME MirrorInv, Update, NEW i \in DOMAIN m.pi,
           Occurrences(m'.pi, m.pi[i].lane, m.pi[i].text)
             >= Occurrences(m.pi, m.pi[i].lane, m.pi[i].text)
    PROVE  m.pi[i].id \in IdsOf(m'.pi)
<1> DEFINE a == UpdateAcc(m, steering, followUp)
           e == m.pi[i]
           A == {y \in DOMAIN a.next : a.next[y].lane = e.lane /\ a.next[y].text = e.text}
           B == {j \in DOMAIN m.pi : m.pi[j].lane = e.lane /\ m.pi[j].text = e.text}
<1>1. /\ m'.pi = a.next /\ a.next \in Seq(Rows) /\ Distinct(a.next)
      /\ Kept(a, m) /\ Greedy(a, m)
  BY UpdateIs DEF IsAcc, Owned, Unshared
<1>2. Cardinality(A) >= Cardinality(B)
  BY <1>1 DEF Occurrences
<1> HIDE DEF a
<1> SUFFICES ASSUME e.id \notin IdsOf(a.next)
             PROVE  FALSE
  BY <1>1
<1>3. PICK x \in DOMAIN a.prev : a.prev[x] = e
  <2>1. ~IsIn(e, a.next)
    BY DEF IsIn, IdsOf
  <2> QED BY <1>1, <2>1 DEF Kept, IsIn
<1>4. \A y \in A : \E j \in DOMAIN m.pi : m.pi[j] = a.next[y]
  BY <1>1, <1>3 DEF Greedy, IsIn
<1> DEFINE T == B \ {i}
           f == [y \in A |-> CHOOSE j \in DOMAIN m.pi : m.pi[j] = a.next[y]]
<1>5. \A y \in A : f[y] \in DOMAIN m.pi /\ m.pi[f[y]] = a.next[y]
  BY <1>4
<1>6. f \in [A -> T]
  <2>1. ASSUME NEW y \in A PROVE f[y] \in T
    <3>1. f[y] \in DOMAIN m.pi /\ m.pi[f[y]] = a.next[y]
      BY <1>5
    <3>2. f[y] # i
      BY <3>1 DEF IdsOf
    <3> HIDE DEF f
    <3> QED BY <3>1, <3>2
  <2> QED BY <2>1
<1>7. \A y, z \in A : f[y] = f[z] => y = z
  <2> HIDE DEF f
  <2> QED BY <1>1, <1>5 DEF Distinct
<1>8. IsFiniteSet(A) /\ IsFiniteSet(B)
  <2>1. DOMAIN a.next = 1 .. Len(a.next) /\ Len(a.next) \in Int
    BY <1>1
  <2>2. DOMAIN m.pi = 1 .. Len(m.pi) /\ Len(m.pi) \in Int
    BY InvFields
  <2>3. IsFiniteSet(DOMAIN a.next) /\ IsFiniteSet(DOMAIN m.pi)
    BY <2>1, <2>2, FS_Interval
  <2> QED BY <2>3, FS_Subset
<1>9. i \in B
  OBVIOUS
<1> HIDE DEF A, B, f
<1>10. /\ IsFiniteSet(T) /\ Cardinality(T) = Cardinality(B) - 1
       /\ Cardinality(A) \in Nat /\ Cardinality(B) \in Nat
  BY <1>8, <1>9, FS_RemoveElement, FS_CardinalityType
<1>11. Cardinality(T) < Cardinality(A)
  BY <1>2, <1>10
<1> HIDE DEF T
<1> QED BY <1>6, <1>7, <1>8, <1>10, <1>11, FS_PigeonHole

\* A follow-up that leaves Pi's rows in an update runs or is parked.
LEMMA UpdateKeepsTurns ==
    ASSUME MirrorInv, Update
    PROVE  /\ PiTurns(m) \subseteq PiTurns(m') \cup {NoRow.id}
           /\ m'.running = NoRow => m.running = NoRow
           /\ m.running # NoRow => m'.running = m.running
<1> DEFINE a == UpdateAcc(m, steering, followUp)
           left == InLane(a.prev, "FollowUp")
<1>1. /\ m'.pi = a.next /\ a.next \in Seq(Rows) /\ Kept(a, m)
      /\ a.prev \in Seq(Rows) /\ Distinct(a.prev)
      /\ m' = ApplyQueueUpdate(m, steering, followUp)
  BY UpdateIs DEF IsAcc, Owned, Unshared
<1>2. /\ IdsOf(m'.parked) \cup Slot(m')
             = IdsOf(m.parked) \cup Slot(m) \cup IdsOf(left)
      /\ m.running # NoRow => m'.running = m.running
  BY <1>1, InvFields, RowsAreRows, StartedRows DEF Left
<1>3. \A i \in DOMAIN a.prev : a.prev[i].lane = "FollowUp" => a.prev[i].id \in IdsOf(left)
  BY <1>1, InLaneRows
<1> HIDE DEF a, left
<1>4. Slot(m') \subseteq {m'.running.id} /\ {m.running.id} \subseteq Slot(m) \cup {NoRow.id}
  BY DEF Slot
<1>5. IdsOf(m.parked) \cup Slot(m) \cup IdsOf(left) \subseteq PiTurns(m')
  BY <1>2, <1>4 DEF PiTurns
<1>6. ASSUME NEW i \in DOMAIN m.pi, m.pi[i].lane = "FollowUp"
      PROVE  m.pi[i].id \in PiTurns(m')
  <2>1. CASE IsIn(m.pi[i], a.prev)
    BY <1>3, <1>5, <1>6, <2>1 DEF IsIn
  <2>2. CASE IsIn(m.pi[i], a.next)
    BY <1>1, <1>6, <2>2 DEF IsIn, PiTurns
  <2> QED BY <1>1, <2>1, <2>2 DEF Kept
<1>7. PiTurns(m) \subseteq PiTurns(m') \cup {NoRow.id}
  BY <1>4, <1>5, <1>6 DEF PiTurns
<1> QED BY <1>2, <1>7

\* agent_start moves the newest parked row to the running slot.
LEMMA TurnStartsKeeps ==
    ASSUME MirrorInv, TurnStarts
    PROVE  /\ m'.pi = m.pi /\ m.running = NoRow
           /\ PiTurns(m) \subseteq PiTurns(m') \cup {NoRow.id}
<1>1. m.running = NoRow /\ m' = PromoteParkedRunning(m)
  BY DEF TurnStarts
<1>2. CASE m.parked = << >>
  <2>1. m' = m
    BY <1>1, <1>2, InvFields, PromoteTakesNewest
  <2> QED BY <1>1, <2>1
<1>3. CASE m.parked # << >>
  <2> DEFINE n == Len(m.parked)
             k == SubSeq(m.parked, 1, n - 1)
             row == m.parked[n]
  <2>1. /\ n \in DOMAIN m.parked
        /\ m' = Mirror(m.local, m.pi, m.reserved, k, row, m.seq)
    BY <1>1, <1>3, InvFields, PromoteTakesNewest
  <2>2. IdsOf(m.parked) \subseteq IdsOf(k) \cup {row.id}
    <3>1. \A j \in DOMAIN m.parked : j = n \/ (j \in DOMAIN k /\ k[j] = m.parked[j])
      BY <2>1, InvFields
    <3> HIDE DEF k, n
    <3> QED BY <3>1 DEF IdsOf
  <2> HIDE DEF k, row
  <2>3. m'.pi = m.pi /\ m'.parked = k /\ m'.running = row
    BY <2>1, MirrorFields
  <2> QED BY <1>1, <2>2, <2>3 DEF PiTurns
<1> QED BY <1>2, <1>3

-----------------------------------------------------------------------------
(* The theorems.                                                           *)

\* The inductive invariant holds in every reachable state.
THEOREM MirrorInvariant == MirrorSpec => []MirrorInv
BY MirrorInitial, MirrorInductive, PTL DEF MirrorSpec

\* The rows and Pi's arrays have their types, for any texts and client ids.
THEOREM MirrorTyped == MirrorSpec => []MirrorTypeOK
<1>1. MirrorInv => MirrorTypeOK
  BY InvFields DEF MirrorTypeOK, MirrorInv
<1> QED BY <1>1, MirrorInvariant, PTL

\* No id is in two places of the mirror at once, whatever the adapter and Pi do.
THEOREM MirrorIdsAreUnique == MirrorSpec => []IdsAreUnique
BY GoodIsUnique, MirrorInvariant, PTL

\* Whenever apply_queue_update changes the mirrored rows they are Pi's arrays,
\* lane by lane and in order.
THEOREM MirrorShowsPi == MirrorSpec => UpdateMirrorsPi
<1> DEFINE Shows == m'.pi # m.pi /\ m'.pi # << >> =>
              /\ Len(m'.pi) = Len(steering) + Len(followUp)
              /\ \A i \in DOMAIN m'.pi :
                    IF i <= Len(steering)
                    THEN m'.pi[i].lane = "Steering" /\ m'.pi[i].text = steering[i]
                    ELSE /\ m'.pi[i].lane = "FollowUp"
                         /\ m'.pi[i].text = followUp[i - Len(steering)]
<1>1. ASSUME MirrorInv, [MirrorNext]_mirrorVars
      PROVE  [Shows]_mirrorVars
  <2>1. CASE UNCHANGED mirrorVars
    BY <2>1
  <2>2. CASE MirrorNext
    <3>1. CASE Update
      BY <1>1, <3>1, UpdateShowsArrays
    <3>2. CASE Quiet \/ TurnStarts
      BY <1>1, <3>2, TurnStartsKeeps DEF Quiet
    <3>3. CASE DropAll
      <4>1. m'.pi = << >>
        BY <1>1, <3>3, InvFields, DropAllIs, MirrorFields
      <4> QED BY <4>1
    <3> QED BY <1>1, <2>2, <3>1, <3>2, <3>3, Steps
  <2> QED BY <1>1, <2>1, <2>2
<1>2. MirrorSpec => [][Shows]_mirrorVars
  BY <1>1, MirrorInvariant, PTL DEF MirrorSpec
<1> QED BY <1>2 DEF UpdateMirrorsPi

\* A message that Pi still holds keeps the id of its row over every update.
THEOREM MirrorRowsKeepTheirIds == MirrorSpec => RowsKeepTheirIds
<1> DEFINE Keeps == \A i \in DOMAIN m.pi :
                       (/\ m'.pi # << >>
                        /\ Occurrences(m'.pi, m.pi[i].lane, m.pi[i].text)
                             >= Occurrences(m.pi, m.pi[i].lane, m.pi[i].text))
                       => m.pi[i].id \in IdsOf(m'.pi)
<1>1. ASSUME MirrorInv, [MirrorNext]_mirrorVars
      PROVE  [Keeps]_mirrorVars
  <2>1. CASE UNCHANGED mirrorVars
    BY <2>1
  <2>2. CASE MirrorNext
    <3>1. CASE Update
      BY <1>1, <3>1, UpdateKeepsIds
    <3>2. CASE Quiet \/ TurnStarts
      <4>1. m'.pi = m.pi
        BY <1>1, <3>2, TurnStartsKeeps DEF Quiet
      <4> QED BY <4>1 DEF IdsOf
    <3>3. CASE DropAll
      <4>1. m'.pi = << >>
        BY <1>1, <3>3, InvFields, DropAllIs, MirrorFields
      <4> QED BY <4>1
    <3> QED BY <1>1, <2>2, <3>1, <3>2, <3>3, Steps
  <2> QED BY <1>1, <2>1, <2>2
<1>2. MirrorSpec => [][Keeps]_mirrorVars
  BY <1>1, MirrorInvariant, PTL DEF MirrorSpec
<1> QED BY <1>2 DEF RowsKeepTheirIds

\* A row leaves the running slot only when the slot is cleared.
THEOREM MirrorSlotIsNotStolen == MirrorSpec => SlotIsNotStolen
<1> DEFINE Stays == m.running # NoRow => m'.running \in {m.running, NoRow}
<1>1. ASSUME MirrorInv, [MirrorNext]_mirrorVars
      PROVE  [Stays]_mirrorVars
  <2>1. CASE UNCHANGED mirrorVars
    BY <2>1
  <2>2. CASE MirrorNext
    <3>1. CASE Update
      BY <1>1, <3>1, UpdateKeepsTurns
    <3>2. CASE Quiet \/ TurnStarts
      BY <3>2 DEF Quiet, TurnStarts
    <3>3. CASE DropAll
      BY <1>1, <3>3, InvFields, DropAllIs, MirrorFields
    <3> QED BY <1>1, <2>2, <3>1, <3>2, <3>3, Steps
  <2> QED BY <1>1, <2>1, <2>2
<1>2. MirrorSpec => [][Stays]_mirrorVars
  BY <1>1, MirrorInvariant, PTL DEF MirrorSpec
<1> QED BY <1>2 DEF SlotIsNotStolen

\* Until the adapter drops everything, the only follow-up that leaves the
\* mirror is the one whose turn has settled.
THEOREM MirrorStartedTurnsAreKept == MirrorSpec => StartedTurnsAreKept
<1> DEFINE Kept2 == m' # ClearMirror(m) => PiTurns(m) \ PiTurns(m') \subseteq
                       IF m'.running = NoRow THEN {m.running.id} ELSE {NoRow.id}
<1>1. ASSUME MirrorInv, [MirrorNext]_mirrorVars
      PROVE  [Kept2]_mirrorVars
  <2>1. CASE UNCHANGED mirrorVars
    BY <2>1
  <2>2. CASE MirrorNext
    <3>1. CASE Update
      BY <1>1, <3>1, UpdateKeepsTurns
    <3>2. CASE Quiet
      BY <3>2 DEF Quiet, PiTurns
    <3>3. CASE TurnStarts
      BY <1>1, <3>3, TurnStartsKeeps
    <3>4. CASE DropAll
      BY <1>1, <3>4, InvFields, DropAllIs
    <3> QED BY <1>1, <2>2, <3>1, <3>2, <3>3, <3>4, Steps
  <2> QED BY <1>1, <2>1, <2>2
<1>2. MirrorSpec => [][Kept2]_mirrorVars
  BY <1>1, MirrorInvariant, PTL DEF MirrorSpec
<1> QED BY <1>2 DEF StartedTurnsAreKept

=============================================================================
