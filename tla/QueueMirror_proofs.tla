---- MODULE QueueMirror_proofs ----
(***************************************************************************)
(* Lemmas about the operators of QueueMirror, for queues of any length.    *)
(*                                                                         *)
(* Retain, ReorderLocal and MatchArrays are folds, so what they compute is *)
(* proved by induction.  The induction is first-order: a set of numbers    *)
(* with 0 and closed under successor holds every number (Induct, from the  *)
(* well-foundedness of <).  MatchSteps, ChooseSteps and RetainSteps turn a *)
(* fold into the sequence of its intermediate states, and Reaches carries  *)
(* a loop invariant from the first of them to the last.                    *)
(*                                                                         *)
(* The lemma the theorems rest on is MatchArraysLoop: apply_queue_update's *)
(* loop returns the desired rows in order, loses no previous row, shares   *)
(* no id, and takes a reserved or new row only if no previous row fits.    *)
(***************************************************************************)
EXTENDS QueueMirror, WellFoundedInduction, SequenceTheorems, TLAPS

\* A set of numbers that is not empty has a least one.
LEMMA Least ==
    ASSUME NEW T \in SUBSET Nat, T # {}
    PROVE  \E x \in T : \A y \in T : x <= y
<1> DEFINE R == OpToRel(<,Nat)
<1>1. IsWellFoundedOn(R, Nat)
  BY NatLessThanWellFounded
<1>3. \A x, y \in Nat : x < y => <<x,y>> \in R
  BY DEF OpToRel
<1> HIDE DEF R
<1>2. PICK x \in T : \A y \in T : ~ (<<y, x>> \in R)
  BY <1>1, WFMin
<1>4. ASSUME NEW y \in T PROVE x <= y
  <2>1. x \in Nat /\ y \in Nat
     OBVIOUS
  <2>2. ~(y < x)
     BY <1>2, <1>3, <2>1
  <2> QED BY <2>1, <2>2
<1> QED BY <1>4

\* Induction over the natural numbers, with a set in place of a predicate.
LEMMA Induct ==
    ASSUME NEW S, 0 \in S, \A n \in Nat : n \in S => n + 1 \in S
    PROVE  Nat \subseteq S
<1> SUFFICES ASSUME Nat \ S # {} PROVE FALSE
  OBVIOUS
<1>1. PICK x \in Nat \ S : \A y \in Nat \ S : x <= y
  BY Least
<1>2. x # 0 /\ x - 1 \in Nat
  BY <1>1
<1>3. x - 1 \in S
  BY <1>1, <1>2
<1> QED BY <1>3, <1>2

\* The maximum of a set of numbers is the number that bounds the others.
LEMMA MaxIs ==
    ASSUME NEW S \in SUBSET Nat, NEW x \in S, \A y \in S : y <= x
    PROVE  Max(S) = x
<1>1. \A y \in S : x >= y
  OBVIOUS
<1>2. PICK z : z = Max(S)
  OBVIOUS
<1>3. z \in S /\ \A y \in S : z >= y
  BY <1>1, <1>2 DEF Max
<1> QED BY <1>1, <1>2, <1>3

\* The state in which apply_queue_update's loop starts.
MatchStart(m) == [prev |-> m.pi, next |-> << >>, reserved |-> m.reserved,
                  seq |-> m.seq]

\* MatchArrays, one desired row after the other.
LEMMA MatchSteps ==
    ASSUME NEW m, NEW desired, NEW n \in Nat, DOMAIN desired = 1 .. n
    PROVE  \E f : /\ f[0] = MatchStart(m)
                  /\ \A k \in 1 .. n : f[k] = MatchRow(f[k - 1], desired[k].text,
                                                       desired[k].lane)
                  /\ f[n] = MatchArrays(m, desired)
<1> DEFINE Body(g, s) == IF s = {} THEN MatchStart(m)
                         ELSE MatchRow(g[s \ {Max(s)}], desired[Max(s)].text,
                                       desired[Max(s)].lane)
           Good(g, k) == g = [s \in SUBSET (1 .. k) |-> Body(g, s)]
           Ks == {k \in Nat : \E g : Good(g, k)}
<1>1. 0 \in Ks
  <2> DEFINE g == [s \in SUBSET (1 .. 0) |-> MatchStart(m)]
  <2>1. Good(g, 0)
    OBVIOUS
  <2> QED BY <2>1
<1>2. ASSUME NEW k \in Nat, k \in Ks PROVE k + 1 \in Ks
  <2>1. PICK g : Good(g, k)
    BY <1>2
  <2> DEFINE h == [s \in SUBSET (1 .. (k + 1)) |->
                     IF k + 1 \in s THEN Body(g, s) ELSE g[s]]
  <2>2. ASSUME NEW s \in SUBSET (1 .. (k + 1)) PROVE h[s] = Body(h, s)
    <3>1. CASE k + 1 \in s
      <4>1. Max(s) = k + 1
        BY <3>1, MaxIs
      <4>2. s \ {k + 1} \in SUBSET (1 .. k)
        OBVIOUS
      <4>3. h[s \ {Max(s)}] = g[s \ {Max(s)}]
        BY <4>1, <4>2
      <4> QED BY <3>1, <4>3
    <3>2. CASE k + 1 \notin s
      <4>1. s \in SUBSET (1 .. k)
        BY <3>2
      <4>2. h[s] = Body(g, s)
        BY <3>2, <4>1, <2>1
      <4>3. CASE s # {}
        <5>1. h[s \ {Max(s)}] = g[s \ {Max(s)}]
          BY <3>2, <4>1
        <5> QED BY <4>2, <5>1
      <4> QED BY <4>2, <4>3
    <3> QED BY <3>1, <3>2
  <2>3. h = [s \in SUBSET (1 .. (k + 1)) |-> Body(h, s)]
    <3> DEFINE e == [s \in SUBSET (1 .. (k + 1)) |-> Body(h, s)]
    <3>1. \A s \in SUBSET (1 .. (k + 1)) : h[s] = e[s]
      BY <2>2
    <3> QED BY <3>1
  <2>4. Good(h, k + 1)
    BY <2>3
  <2> HIDE DEF h, Good
  <2>5. \E x : Good(x, k + 1)
    BY <2>4
  <2> QED BY <2>5
<1>3. n \in Ks
  <2> HIDE DEF Ks
  <2> QED BY <1>1, <1>2, Induct
<1> DEFINE iter == CHOOSE g : Good(g, n)
<1>4. Good(iter, n)
  BY <1>3
<1>5. iter[1 .. n] = MatchArrays(m, desired)
  BY DEF FoldLeft, MapThenFoldSet, MatchArrays, MatchStart
<1> HIDE DEF iter
<1>6. ASSUME NEW s \in SUBSET (1 .. n) PROVE iter[s] = Body(iter, s)
  BY <1>4
<1> DEFINE f == [k \in 0 .. n |-> iter[1 .. k]]
<1>7. f[0] = MatchStart(m)
  <2>1. 1 .. 0 = {}
    OBVIOUS
  <2>2. iter[{}] = MatchStart(m)
    BY <1>6
  <2> QED BY <2>1, <2>2
<1>8. ASSUME NEW k \in 1 .. n
      PROVE  f[k] = MatchRow(f[k - 1], desired[k].text,
                                                       desired[k].lane)
  <2>1. Max(1 .. k) = k
    BY MaxIs
  <2>2. (1 .. k) \ {k} = 1 .. (k - 1)
    OBVIOUS
  <2>3. 1 .. k \in SUBSET (1 .. n)
    OBVIOUS
  <2>4. 1 .. k # {}
    <3>1. k \in 1 .. k
      OBVIOUS
    <3> QED BY <3>1
  <2>5. iter[1 .. k] = Body(iter, 1 .. k)
    BY <1>6, <2>3
  <2>6. f[k] = iter[1 .. k] /\ f[k - 1] = iter[1 .. (k - 1)]
    OBVIOUS
  <2> HIDE DEF f
  <2> QED BY <2>1, <2>2, <2>4, <2>5, <2>6
<1>9. f[n] = MatchArrays(m, desired)
  BY <1>5
<1> HIDE DEF f
<1> QED BY <1>7, <1>8, <1>9

\* The state in which reorder_local's loop starts, and what it returns.
ChooseStart(m) == [chosen |-> << >>, rest |-> m.local]
Chosen(m, order) == FoldLeft(ChooseRow, ChooseStart(m), order)

\* Chosen, one id after the other.
LEMMA ChooseSteps ==
    ASSUME NEW m, NEW order, NEW n \in Nat, DOMAIN order = 1 .. n
    PROVE  \E f : /\ f[0] = ChooseStart(m)
                  /\ \A k \in 1 .. n : f[k] = ChooseRow(f[k - 1], order[k])
                  /\ f[n] = Chosen(m, order)
<1> DEFINE Body(g, s) == IF s = {} THEN ChooseStart(m)
                         ELSE ChooseRow(g[s \ {Max(s)}], order[Max(s)])
           Good(g, k) == g = [s \in SUBSET (1 .. k) |-> Body(g, s)]
           Ks == {k \in Nat : \E g : Good(g, k)}
<1>1. 0 \in Ks
  <2> DEFINE g == [s \in SUBSET (1 .. 0) |-> ChooseStart(m)]
  <2>1. Good(g, 0)
    OBVIOUS
  <2> QED BY <2>1
<1>2. ASSUME NEW k \in Nat, k \in Ks PROVE k + 1 \in Ks
  <2>1. PICK g : Good(g, k)
    BY <1>2
  <2> DEFINE h == [s \in SUBSET (1 .. (k + 1)) |->
                     IF k + 1 \in s THEN Body(g, s) ELSE g[s]]
  <2>2. ASSUME NEW s \in SUBSET (1 .. (k + 1)) PROVE h[s] = Body(h, s)
    <3>1. CASE k + 1 \in s
      <4>1. Max(s) = k + 1
        BY <3>1, MaxIs
      <4>2. s \ {k + 1} \in SUBSET (1 .. k)
        OBVIOUS
      <4>3. h[s \ {Max(s)}] = g[s \ {Max(s)}]
        BY <4>1, <4>2
      <4> QED BY <3>1, <4>3
    <3>2. CASE k + 1 \notin s
      <4>1. s \in SUBSET (1 .. k)
        BY <3>2
      <4>2. h[s] = Body(g, s)
        BY <3>2, <4>1, <2>1
      <4>3. CASE s # {}
        <5>1. h[s \ {Max(s)}] = g[s \ {Max(s)}]
          BY <3>2, <4>1
        <5> QED BY <4>2, <5>1
      <4> QED BY <4>2, <4>3
    <3> QED BY <3>1, <3>2
  <2>3. h = [s \in SUBSET (1 .. (k + 1)) |-> Body(h, s)]
    <3> DEFINE e == [s \in SUBSET (1 .. (k + 1)) |-> Body(h, s)]
    <3>1. \A s \in SUBSET (1 .. (k + 1)) : h[s] = e[s]
      BY <2>2
    <3> QED BY <3>1
  <2>4. Good(h, k + 1)
    BY <2>3
  <2> HIDE DEF h, Good
  <2>5. \E x : Good(x, k + 1)
    BY <2>4
  <2> QED BY <2>5
<1>3. n \in Ks
  <2> HIDE DEF Ks
  <2> QED BY <1>1, <1>2, Induct
<1> DEFINE iter == CHOOSE g : Good(g, n)
<1>4. Good(iter, n)
  BY <1>3
<1>5. iter[1 .. n] = Chosen(m, order)
  BY DEF FoldLeft, MapThenFoldSet, Chosen
<1> HIDE DEF iter
<1>6. ASSUME NEW s \in SUBSET (1 .. n) PROVE iter[s] = Body(iter, s)
  BY <1>4
<1> DEFINE f == [k \in 0 .. n |-> iter[1 .. k]]
<1>7. f[0] = ChooseStart(m)
  <2>1. 1 .. 0 = {}
    OBVIOUS
  <2>2. iter[{}] = ChooseStart(m)
    BY <1>6
  <2> QED BY <2>1, <2>2
<1>8. ASSUME NEW k \in 1 .. n
      PROVE  f[k] = ChooseRow(f[k - 1], order[k])
  <2>1. Max(1 .. k) = k
    BY MaxIs
  <2>2. (1 .. k) \ {k} = 1 .. (k - 1)
    OBVIOUS
  <2>3. 1 .. k \in SUBSET (1 .. n)
    OBVIOUS
  <2>4. 1 .. k # {}
    <3>1. k \in 1 .. k
      OBVIOUS
    <3> QED BY <3>1
  <2>5. iter[1 .. k] = Body(iter, 1 .. k)
    BY <1>6, <2>3
  <2>6. f[k] = iter[1 .. k] /\ f[k - 1] = iter[1 .. (k - 1)]
    OBVIOUS
  <2> HIDE DEF f
  <2> QED BY <2>1, <2>2, <2>4, <2>5, <2>6
<1>9. f[n] = Chosen(m, order)
  BY <1>5
<1> HIDE DEF f
<1> QED BY <1>7, <1>8, <1>9

\* Vec::retain at one index.
RetainRow(acc, rows, I, i) == IF i \in I THEN Append(acc, rows[i]) ELSE acc

\* Retain, one row after the other.
LEMMA RetainSteps ==
    ASSUME NEW rows, NEW I, NEW n \in Nat, DOMAIN rows = 1 .. n
    PROVE  \E f : /\ f[0] = << >>
                  /\ \A k \in 1 .. n : f[k] = RetainRow(f[k - 1], rows, I, k)
                  /\ f[n] = Retain(rows, I)
<1> DEFINE ids == [i \in DOMAIN rows |-> i]
<1>0. DOMAIN ids = 1 .. n /\ \A k \in 1 .. n : ids[k] = k
  OBVIOUS
<1> DEFINE Body(g, s) == IF s = {} THEN << >>
                         ELSE RetainRow(g[s \ {Max(s)}], rows, I, ids[Max(s)])
           Good(g, k) == g = [s \in SUBSET (1 .. k) |-> Body(g, s)]
           Ks == {k \in Nat : \E g : Good(g, k)}
<1>1. 0 \in Ks
  <2> DEFINE g == [s \in SUBSET (1 .. 0) |-> << >>]
  <2>1. Good(g, 0)
    OBVIOUS
  <2> QED BY <2>1
<1>2. ASSUME NEW k \in Nat, k \in Ks PROVE k + 1 \in Ks
  <2> HIDE DEF ids
  <2>1. PICK g : Good(g, k)
    BY <1>2
  <2> DEFINE h == [s \in SUBSET (1 .. (k + 1)) |->
                     IF k + 1 \in s THEN Body(g, s) ELSE g[s]]
  <2>2. ASSUME NEW s \in SUBSET (1 .. (k + 1)) PROVE h[s] = Body(h, s)
    <3>1. CASE k + 1 \in s
      <4>1. Max(s) = k + 1
        BY <3>1, MaxIs
      <4>2. s \ {k + 1} \in SUBSET (1 .. k)
        OBVIOUS
      <4>3. h[s \ {Max(s)}] = g[s \ {Max(s)}]
        BY <4>1, <4>2
      <4> QED BY <3>1, <4>3
    <3>2. CASE k + 1 \notin s
      <4>1. s \in SUBSET (1 .. k)
        BY <3>2
      <4>2. h[s] = Body(g, s)
        BY <3>2, <4>1, <2>1
      <4>3. CASE s # {}
        <5>1. h[s \ {Max(s)}] = g[s \ {Max(s)}]
          BY <3>2, <4>1
        <5> QED BY <4>2, <5>1
      <4> QED BY <4>2, <4>3
    <3> QED BY <3>1, <3>2
  <2>3. h = [s \in SUBSET (1 .. (k + 1)) |-> Body(h, s)]
    <3> DEFINE e == [s \in SUBSET (1 .. (k + 1)) |-> Body(h, s)]
    <3>1. \A s \in SUBSET (1 .. (k + 1)) : h[s] = e[s]
      BY <2>2
    <3> QED BY <3>1
  <2>4. Good(h, k + 1)
    BY <2>3
  <2> HIDE DEF h, Good
  <2>5. \E x : Good(x, k + 1)
    BY <2>4
  <2> QED BY <2>5
<1>3. n \in Ks
  <2> HIDE DEF Ks
  <2> QED BY <1>1, <1>2, Induct
<1> DEFINE iter == CHOOSE g : Good(g, n)
<1>4. Good(iter, n)
  BY <1>3
<1>5. iter[1 .. n] = Retain(rows, I)
  BY DEF FoldLeft, MapThenFoldSet, FoldLeftDomain, Retain, RetainRow
<1> HIDE DEF iter
<1>6. ASSUME NEW s \in SUBSET (1 .. n) PROVE iter[s] = Body(iter, s)
  BY <1>4
<1> DEFINE f == [k \in 0 .. n |-> iter[1 .. k]]
<1>7. f[0] = << >>
  <2>1. 1 .. 0 = {}
    OBVIOUS
  <2>2. iter[{}] = << >>
    BY <1>6
  <2> QED BY <2>1, <2>2
<1>8. ASSUME NEW k \in 1 .. n
      PROVE  f[k] = RetainRow(f[k - 1], rows, I, k)
  <2>1. Max(1 .. k) = k
    BY MaxIs
  <2>2. (1 .. k) \ {k} = 1 .. (k - 1)
    OBVIOUS
  <2>3. 1 .. k \in SUBSET (1 .. n)
    OBVIOUS
  <2>4. 1 .. k # {}
    <3>1. k \in 1 .. k
      OBVIOUS
    <3> QED BY <3>1
  <2>5. iter[1 .. k] = Body(iter, 1 .. k)
    BY <1>6, <2>3
  <2>6. f[k] = iter[1 .. k] /\ f[k - 1] = iter[1 .. (k - 1)]
    OBVIOUS
  <2> HIDE DEF f, ids
  <2> QED BY <1>0, <2>1, <2>2, <2>4, <2>5, <2>6
<1>9. f[n] = Retain(rows, I)
  BY <1>5
<1> HIDE DEF f
<1> QED BY <1>7, <1>8, <1>9

-----------------------------------------------------------------------------
(* What the operations on sequences of rows do to their ids.               *)

\* The ids of two sequences in a row.
LEMMA ConcatIds ==
    ASSUME NEW R, NEW a \in Seq(R), NEW b \in Seq(R)
    PROVE  /\ a \o b \in Seq(R)
           /\ IdsOf(a \o b) = IdsOf(a) \cup IdsOf(b)
           /\ Distinct(a) /\ Distinct(b) /\ IdsOf(a) \cap IdsOf(b) = {}
                <=> Distinct(a \o b)
<1> DEFINE c == a \o b
<1>1. /\ c \in Seq(R)
      /\ Len(c) = Len(a) + Len(b)
      /\ \A i \in 1 .. Len(c) : c[i] = IF i <= Len(a) THEN a[i] ELSE b[i - Len(a)]
  BY ConcatProperties
<1>2. /\ DOMAIN a = 1 .. Len(a) /\ DOMAIN b = 1 .. Len(b)
      /\ DOMAIN c = 1 .. Len(c) /\ Len(a) \in Nat /\ Len(b) \in Nat
  BY <1>1, LenProperties
<1> HIDE DEF c
<1>3. /\ \A i \in DOMAIN a : i \in DOMAIN c /\ c[i] = a[i]
      /\ \A i \in DOMAIN b : Len(a) + i \in DOMAIN c /\ c[Len(a) + i] = b[i]
  BY <1>1, <1>2
<1>4. \A i \in DOMAIN c : \/ i \in DOMAIN a /\ c[i] = a[i]
                          \/ i - Len(a) \in DOMAIN b /\ c[i] = b[i - Len(a)]
  BY <1>1, <1>2
<1>5. IdsOf(c) = IdsOf(a) \cup IdsOf(b)
  BY <1>3, <1>4 DEF IdsOf
<1>6. ASSUME Distinct(a), Distinct(b), IdsOf(a) \cap IdsOf(b) = {}
      PROVE  Distinct(c)
  <2> SUFFICES ASSUME NEW i \in DOMAIN c, NEW j \in DOMAIN c, c[i].id = c[j].id
               PROVE  i = j
    BY DEF Distinct
  <2>1. CASE i \in DOMAIN a /\ j \in DOMAIN a
    BY <1>3, <1>6, <2>1 DEF Distinct
  <2>2. CASE i \notin DOMAIN a /\ j \notin DOMAIN a
    <3>1. i - Len(a) = j - Len(a)
      BY <1>4, <1>6, <2>2 DEF Distinct
    <3> QED BY <1>2, <3>1
  <2>3. CASE i \in DOMAIN a /\ j \notin DOMAIN a
    <3>1. c[i].id \in IdsOf(a)
      BY <1>3, <2>3 DEF IdsOf
    <3>2. c[j].id \in IdsOf(b)
      BY <1>4, <2>3 DEF IdsOf
    <3> QED BY <1>6, <3>1, <3>2
  <2>4. CASE i \notin DOMAIN a /\ j \in DOMAIN a
    <3>1. c[j].id \in IdsOf(a)
      BY <1>3, <2>4 DEF IdsOf
    <3>2. c[i].id \in IdsOf(b)
      BY <1>4, <2>4 DEF IdsOf
    <3> QED BY <1>6, <3>1, <3>2
  <2> QED BY <2>1, <2>2, <2>3, <2>4
<1>7. ASSUME Distinct(c)
      PROVE  Distinct(a) /\ Distinct(b) /\ IdsOf(a) \cap IdsOf(b) = {}
  <2>1. Distinct(a)
    BY <1>3, <1>7 DEF Distinct
  <2>2. Distinct(b)
    <3> SUFFICES ASSUME NEW i \in DOMAIN b, NEW j \in DOMAIN b, b[i].id = b[j].id
                 PROVE  i = j
      BY DEF Distinct
    <3>1. Len(a) + i = Len(a) + j
      BY <1>3, <1>7 DEF Distinct
    <3> QED BY <1>2, <3>1
  <2>3. ASSUME NEW i \in DOMAIN a, NEW j \in DOMAIN b PROVE a[i].id # b[j].id
    <3>1. i # Len(a) + j
      BY <1>2
    <3> QED BY <1>3, <1>7, <3>1 DEF Distinct
  <2> QED BY <2>1, <2>2, <2>3 DEF IdsOf
<1> QED BY <1>1, <1>5, <1>6, <1>7 DEF c

\* A sequence of one row.
LEMMA OneRow ==
    ASSUME NEW R, NEW e \in R
    PROVE  /\ <<e>> \in Seq(R)
           /\ IdsOf(<<e>>) = {e.id}
           /\ Distinct(<<e>>)
<1>1. DOMAIN <<e>> = {1} /\ <<e>>[1] = e
  OBVIOUS
<1> QED BY <1>1 DEF IdsOf, Distinct

\* The empty sequence has no ids.
LEMMA NoRows == IdsOf(<< >>) = {} /\ Distinct(<< >>)
BY DEF IdsOf, Distinct

\* A row at the end adds its id, and is distinct if its id is new.
LEMMA AppendIds ==
    ASSUME NEW R, NEW a \in Seq(R), NEW e \in R
    PROVE  /\ Append(a, e) \in Seq(R)
           /\ IdsOf(Append(a, e)) = IdsOf(a) \cup {e.id}
           /\ Distinct(a) /\ e.id \notin IdsOf(a) <=> Distinct(Append(a, e))
<1>1. Append(a, e) = a \o <<e>>
  BY AppendIsConcat
<1>2. /\ <<e>> \in Seq(R)
      /\ IdsOf(<<e>>) = {e.id}
      /\ Distinct(<<e>>)
  BY OneRow
<1> DEFINE b == <<e>>
<1> HIDE DEF b
<1>3. /\ a \o b \in Seq(R)
      /\ IdsOf(a \o b) = IdsOf(a) \cup IdsOf(b)
      /\ Distinct(a) /\ Distinct(b) /\ IdsOf(a) \cap IdsOf(b) = {}
                <=> Distinct(a \o b)
  BY <1>2, ConcatIds DEF b
<1> QED BY <1>1, <1>2, <1>3 DEF b

\* An id of a sequence is the id of one of its rows.
LEMMA SomeRow ==
    ASSUME NEW rows, NEW e \in IdsOf(rows)
    PROVE  \E i \in DOMAIN rows : rows[i].id = e
BY DEF IdsOf

\* A part of a sequence that takes some of its rows in order.
LEMMA PartIds ==
    ASSUME NEW a, NEW c, NEW p \in [DOMAIN c -> DOMAIN a],
           \A j \in DOMAIN c : c[j] = a[p[j]],
           \A j, k \in DOMAIN c : p[j] = p[k] => j = k
    PROVE  /\ IdsOf(c) = {a[p[j]].id : j \in DOMAIN c}
           /\ IdsOf(c) \subseteq IdsOf(a)
           /\ Distinct(a) => Distinct(c)
BY DEF IdsOf, Distinct

\* Without its first row a sequence loses the id of that row, and no other.
LEMMA TailIds ==
    ASSUME NEW R, NEW a \in Seq(R), a # << >>
    PROVE  /\ Tail(a) \in Seq(R) /\ Head(a) \in R /\ Head(a).id \in IdsOf(a)
           /\ IdsOf(a) = {Head(a).id} \cup IdsOf(Tail(a))
           /\ Distinct(a) => /\ Distinct(Tail(a))
                             /\ Head(a).id \notin IdsOf(Tail(a))
<1>1. /\ Head(a) \in R /\ Tail(a) \in Seq(R) /\ Head(a) = a[1] /\ 1 \in DOMAIN a
      /\ DOMAIN Tail(a) = 1 .. (Len(a) - 1) /\ DOMAIN a = 1 .. Len(a)
      /\ Len(a) \in Nat
      /\ \A i \in 1 .. (Len(a) - 1) : Tail(a)[i] = a[i + 1]
  OBVIOUS
<1> DEFINE t == Tail(a)
           h == Head(a)
<1> HIDE DEF t, h
<1>2. \A i \in DOMAIN t : i + 1 \in DOMAIN a /\ t[i] = a[i + 1] /\ i + 1 # 1
  BY <1>1 DEF t
<1>3. \A i \in DOMAIN a : i = 1 \/ (i - 1 \in DOMAIN t /\ a[i] = t[i - 1])
  BY <1>1 DEF t
<1>4. IdsOf(a) = {h.id} \cup IdsOf(t)
  BY <1>1, <1>2, <1>3 DEF IdsOf, h
<1>5. ASSUME Distinct(a) PROVE Distinct(t) /\ h.id \notin IdsOf(t)
  <2>1. h.id \notin IdsOf(t)
    BY <1>1, <1>2, <1>5 DEF IdsOf, Distinct, h
  <2>2. ASSUME NEW i \in DOMAIN t, NEW j \in DOMAIN t, t[i].id = t[j].id
        PROVE  i = j
    <3>1. i + 1 = j + 1
      BY <1>2, <1>5, <2>2 DEF Distinct
    <3> QED BY <1>1, <3>1 DEF t
  <2> QED BY <2>1, <2>2 DEF Distinct
<1> QED BY <1>1, <1>4, <1>5 DEF t, h

\* Vec::remove: the rows behind the removed one move up.
LEMMA RemoveAtRow ==
    ASSUME NEW R, NEW a \in Seq(R), NEW i \in DOMAIN a
    PROVE  /\ RemoveAt(a, i) \in Seq(R)
           /\ Len(RemoveAt(a, i)) = Len(a) - 1
           /\ \A j \in DOMAIN RemoveAt(a, i) :
                  RemoveAt(a, i)[j] = IF j < i THEN a[j] ELSE a[j + 1]
<1>1. i \in 1 .. Len(a) /\ Len(a) \in Nat
  OBVIOUS
<1> DEFINE x == SubSeq(a, 1, i - 1)
           y == SubSeq(a, i + 1, Len(a))
<1>2. /\ x \in Seq(R) /\ Len(x) = i - 1
      /\ \A j \in 1 .. (i - 1) : x[j] = a[j]
  BY <1>1
<1>3. /\ y \in Seq(R) /\ Len(y) = Len(a) - i
      /\ \A j \in 1 .. (Len(a) - i) : y[j] = a[j + i]
  BY <1>1
<1> HIDE DEF x, y
<1>4. /\ x \o y \in Seq(R) /\ Len(x \o y) = Len(a) - 1
      /\ \A j \in 1 .. (Len(a) - 1) :
             (x \o y)[j] = IF j <= i - 1 THEN x[j] ELSE y[j - (i - 1)]
  <2>1. /\ x \o y \in Seq(R) /\ Len(x \o y) = Len(x) + Len(y)
        /\ \A j \in 1 .. (Len(x) + Len(y)) :
               (x \o y)[j] = IF j <= Len(x) THEN x[j] ELSE y[j - Len(x)]
    BY <1>2, <1>3, ConcatProperties
  <2>2. Len(x) + Len(y) = Len(a) - 1
    BY <1>1, <1>2, <1>3
  <2> QED BY <1>2, <2>1, <2>2
<1>5. RemoveAt(a, i) = x \o y
  BY DEF RemoveAt, x, y
<1>6. ASSUME NEW j \in 1 .. (Len(a) - 1)
      PROVE  (x \o y)[j] = IF j < i THEN a[j] ELSE a[j + 1]
  <2>1. CASE j < i
    BY <1>1, <1>2, <1>4, <2>1
  <2>2. CASE ~(j < i)
    <3>1. j - (i - 1) \in 1 .. (Len(a) - i) /\ (j - (i - 1)) + i = j + 1
      BY <1>1, <2>2
    <3>2. y[j - (i - 1)] = a[j + 1]
      BY <1>3, <3>1
    <3> QED BY <1>1, <1>4, <2>2, <3>2
  <2> QED BY <2>1, <2>2
<1> DEFINE c == x \o y
<1> HIDE DEF c
<1>7. /\ c \in Seq(R) /\ Len(c) = Len(a) - 1
      /\ \A j \in 1 .. (Len(a) - 1) : c[j] = IF j < i THEN a[j] ELSE a[j + 1]
  BY <1>4, <1>6 DEF c
<1>8. DOMAIN c = 1 .. (Len(a) - 1)
  BY <1>7
<1>9. RemoveAt(a, i) = c
  BY <1>5 DEF c
<1> QED BY <1>7, <1>8, <1>9

\* Vec::remove takes away one row and its id.
LEMMA RemoveIds ==
    ASSUME NEW R, NEW a \in Seq(R), NEW i \in DOMAIN a
    PROVE  /\ \A j \in DOMAIN RemoveAt(a, i) :
                  \E k \in DOMAIN a : k # i /\ RemoveAt(a, i)[j] = a[k]
           /\ \A k \in DOMAIN a : k # i =>
                  \E j \in DOMAIN RemoveAt(a, i) : RemoveAt(a, i)[j] = a[k]
           /\ IdsOf(a) = {a[i].id} \cup IdsOf(RemoveAt(a, i))
           /\ Distinct(a) => /\ Distinct(RemoveAt(a, i))
                             /\ a[i].id \notin IdsOf(RemoveAt(a, i))
<1> DEFINE c == RemoveAt(a, i)
<1>1. /\ c \in Seq(R) /\ Len(c) = Len(a) - 1
      /\ \A j \in DOMAIN c : c[j] = IF j < i THEN a[j] ELSE a[j + 1]
  BY RemoveAtRow
<1> HIDE DEF c
<1>2. /\ DOMAIN c = 1 .. (Len(a) - 1) /\ DOMAIN a = 1 .. Len(a)
      /\ Len(a) \in Nat /\ i \in Nat
  BY <1>1
<1> DEFINE p == [j \in DOMAIN c |-> IF j < i THEN j ELSE j + 1]
<1>3. /\ p \in [DOMAIN c -> DOMAIN a]
      /\ \A j \in DOMAIN c : c[j] = a[p[j]] /\ p[j] # i
      /\ \A j, k \in DOMAIN c : p[j] = p[k] => j = k
  BY <1>1, <1>2
<1>4. ASSUME NEW k \in DOMAIN a, k # i
      PROVE  \E j \in DOMAIN c : p[j] = k
  <2>1. CASE k < i
    <3>1. k \in DOMAIN c /\ p[k] = k
      BY <1>2, <2>1
    <3> QED BY <3>1
  <2>2. CASE i < k
    <3>1. k - 1 \in DOMAIN c /\ p[k - 1] = k
      BY <1>2, <2>2
    <3> QED BY <3>1
  <2> QED BY <1>2, <1>4, <2>1, <2>2
<1> HIDE DEF p
<1>5. /\ \A j \in DOMAIN c : \E k \in DOMAIN a : k # i /\ c[j] = a[k]
      /\ \A k \in DOMAIN a : k # i => \E j \in DOMAIN c : c[j] = a[k]
  BY <1>3, <1>4
<1>6. IdsOf(a) = {a[i].id} \cup IdsOf(c)
  BY <1>5 DEF IdsOf
<1>7. ASSUME Distinct(a) PROVE Distinct(c) /\ a[i].id \notin IdsOf(c)
  <2>1. Distinct(c)
    BY <1>3, <1>7 DEF Distinct
  <2>2. a[i].id \notin IdsOf(c)
    BY <1>5, <1>7 DEF Distinct, IdsOf
  <2> QED BY <2>1, <2>2
<1> QED BY <1>5, <1>6, <1>7 DEF c

\* The rows before an index do not have the id of the row there.
LEMMA PrefixIds ==
    ASSUME NEW R, NEW a \in Seq(R), NEW i \in DOMAIN a
    PROVE  /\ SubSeq(a, 1, i - 1) \in Seq(R)
           /\ IdsOf(SubSeq(a, 1, i - 1)) \subseteq IdsOf(a)
           /\ Distinct(a) => /\ Distinct(SubSeq(a, 1, i - 1))
                             /\ a[i].id \notin IdsOf(SubSeq(a, 1, i - 1))
<1> DEFINE c == SubSeq(a, 1, i - 1)
<1>1. /\ c \in Seq(R) /\ Len(c) = i - 1 /\ i \in Nat
      /\ \A j \in 1 .. (i - 1) : j \in DOMAIN a /\ j # i /\ c[j] = a[j]
      /\ DOMAIN c = 1 .. (i - 1)
  OBVIOUS
<1> HIDE DEF c
<1>2. IdsOf(c) \subseteq IdsOf(a)
  BY <1>1 DEF IdsOf
<1>3. ASSUME Distinct(a) PROVE Distinct(c) /\ a[i].id \notin IdsOf(c)
  BY <1>1, <1>3 DEF IdsOf, Distinct
<1> QED BY <1>1, <1>2, <1>3 DEF c

\* The rows c are the rows at the indices I, each of them once and in order.
Picks(c, rows, I, p) ==
    /\ p \in [DOMAIN c -> I]
    /\ \A j \in DOMAIN c : c[j] = rows[p[j]]
    /\ \A j, k \in DOMAIN c : j < k => p[j] < p[k]
    /\ \A i \in I : \E j \in DOMAIN c : p[j] = i

\* Vec::retain keeps the chosen rows, all of them, once, and in order.
LEMMA RetainRows ==
    ASSUME NEW R, NEW rows \in Seq(R), NEW I \in SUBSET DOMAIN rows
    PROVE  /\ Retain(rows, I) \in Seq(R)
           /\ \E p : Picks(Retain(rows, I), rows, I, p)
<1> DEFINE n == Len(rows)
<1>1. n \in Nat /\ DOMAIN rows = 1 .. n
  OBVIOUS
<1> HIDE DEF n
<1>2. PICK f : /\ f[0] = << >>
               /\ \A k \in 1 .. n : f[k] = RetainRow(f[k - 1], rows, I, k)
               /\ f[n] = Retain(rows, I)
  BY <1>1, RetainSteps
<1> DEFINE Part(c, p, k) == c \in Seq(R) /\ Picks(c, rows, I \cap (1 .. k), p)
           Has(k) == \E p : Part(f[k], p, k)
           Ks == {k \in Nat : k <= n => Has(k)}
<1>3. 0 \in Ks
  <2> DEFINE c == << >>
             p == [j \in {} |-> 0]
  <2>1. Part(c, p, 0)
    BY DEF Picks
  <2> HIDE DEF Part, p
  <2> QED BY <1>2, <2>1
<1>4. ASSUME NEW k \in Nat, k \in Ks PROVE k + 1 \in Ks
  <2> HIDE DEF Has
  <2> SUFFICES ASSUME k + 1 <= n PROVE Has(k + 1)
    OBVIOUS
  <2> DEFINE c == f[k]
             d == f[k + 1]
  <2>0. Has(k)
    BY <1>1, <1>4
  <2>1. PICK p : Part(c, p, k)
    BY <2>0 DEF Has
  <2>2. k + 1 \in 1 .. n /\ (k + 1) - 1 = k
    BY <1>1
  <2>3. d = RetainRow(c, rows, I, k + 1)
    BY <1>2, <2>2
  <2> HIDE DEF c, d
  <2>4. CASE k + 1 \notin I
    <3>1. d = c /\ I \cap (1 .. (k + 1)) = I \cap (1 .. k)
      BY <2>3, <2>4 DEF RetainRow
    <3>2. Part(d, p, k + 1)
      BY <2>1, <3>1
    <3> HIDE DEF Part
    <3> QED BY <3>2 DEF d, Has
  <2>5. CASE k + 1 \in I
    <3>1. d = Append(c, rows[k + 1]) /\ rows[k + 1] \in R
      BY <2>2, <2>3, <2>5, <1>1 DEF RetainRow
    <3> DEFINE l == Len(c) + 1
               q == [j \in 1 .. l |-> IF j = l THEN k + 1 ELSE p[j]]
    <3>2. /\ l \in Nat /\ l >= 1 /\ DOMAIN c = 1 .. (l - 1) /\ d \in Seq(R)
          /\ DOMAIN d = 1 .. l /\ d[l] = rows[k + 1]
          /\ \A j \in 1 .. (l - 1) : d[j] = c[j]
      BY <2>1, <3>1
    <3> HIDE DEF l
    <3>3. \A j \in 1 .. (l - 1) : p[j] \in I \cap (1 .. k) /\ q[j] = p[j]
      BY <2>1, <3>2 DEF Picks
    <3>4. q[l] = k + 1 /\ l \in 1 .. l
      BY <3>2
    <3>5. q \in [DOMAIN d -> I \cap (1 .. (k + 1))]
      <4>1. \A j \in 1 .. l : q[j] \in I \cap (1 .. (k + 1))
        <5> SUFFICES ASSUME NEW j \in 1 .. l PROVE q[j] \in I \cap (1 .. (k + 1))
          OBVIOUS
        <5>1. CASE j = l
          BY <2>5, <3>4, <5>1
        <5>2. CASE j # l
          <6>1. j \in 1 .. (l - 1)
            BY <3>2, <5>2
          <6>2. q[j] \in I \cap (1 .. k)
            BY <3>3, <6>1
          <6> QED BY <6>2
        <5> QED BY <5>1, <5>2
      <4> QED BY <3>2, <4>1
    <3>6. \A j \in DOMAIN d : d[j] = rows[q[j]]
      BY <3>2, <3>3, <3>4, <2>1 DEF Picks
    <3>7. \A j, x \in DOMAIN d : j < x => q[j] < q[x]
      <4> SUFFICES ASSUME NEW j \in DOMAIN d, NEW x \in DOMAIN d, j < x
                   PROVE  q[j] < q[x]
        OBVIOUS
      <4>1. j \in 1 .. (l - 1)
        BY <3>2
      <4>2. CASE x = l
        <5>1. q[j] \in 1 .. k
          BY <3>3, <4>1
        <5> QED BY <3>4, <4>2, <5>1
      <4>3. CASE x # l
        <5>1. x \in 1 .. (l - 1)
          BY <3>2, <4>3
        <5> QED BY <2>1, <3>2, <3>3, <4>1, <5>1 DEF Picks
      <4> QED BY <4>2, <4>3
    <3>8. \A i \in I \cap (1 .. (k + 1)) : \E j \in DOMAIN d : q[j] = i
      <4> SUFFICES ASSUME NEW i \in I \cap (1 .. (k + 1))
                   PROVE  \E j \in DOMAIN d : q[j] = i
        OBVIOUS
      <4>1. CASE i = k + 1
        BY <3>2, <3>4, <4>1
      <4>2. CASE i # k + 1
        <5>1. i \in I \cap (1 .. k)
          BY <4>2
        <5>2. PICK j \in DOMAIN c : p[j] = i
          BY <2>1, <5>1 DEF Picks
        <5> QED BY <3>2, <3>3, <5>2
      <4> QED BY <4>1, <4>2
    <3>9. Part(d, q, k + 1)
      BY <3>2, <3>5, <3>6, <3>7, <3>8 DEF Picks
    <3> HIDE DEF Part, q
    <3> QED BY <3>9 DEF d, Has
  <2> QED BY <2>4, <2>5
<1>5. n \in Ks
  <2> HIDE DEF Ks
  <2> QED BY <1>1, <1>3, <1>4, Induct
<1>6. PICK p : Part(Retain(rows, I), p, n)
  <2>1. Has(n)
    <3> HIDE DEF Has
    <3> QED BY <1>1, <1>5
  <2> QED BY <1>2, <2>1
<1>7. I \cap (1 .. n) = I
  BY <1>1
<1> DEFINE c == Retain(rows, I)
<1> HIDE DEF c
<1> QED BY <1>6, <1>7 DEF c

\* The ids after Vec::retain are those of the chosen rows.
LEMMA RetainIds ==
    ASSUME NEW R, NEW rows \in Seq(R), NEW I \in SUBSET DOMAIN rows
    PROVE  /\ Retain(rows, I) \in Seq(R)
           /\ \A j \in DOMAIN Retain(rows, I) :
                  \E i \in I : Retain(rows, I)[j] = rows[i]
           /\ \A i \in I : \E j \in DOMAIN Retain(rows, I) :
                  Retain(rows, I)[j] = rows[i]
           /\ IdsOf(Retain(rows, I)) = {rows[i].id : i \in I}
           /\ Distinct(rows) => Distinct(Retain(rows, I))
<1> DEFINE c == Retain(rows, I)
<1>1. c \in Seq(R) /\ \E p : Picks(c, rows, I, p)
  BY RetainRows
<1> HIDE DEF c
<1>2. PICK p : Picks(c, rows, I, p)
  BY <1>1
<1>3. /\ \A j \in DOMAIN c : \E i \in I : c[j] = rows[i]
      /\ \A i \in I : \E j \in DOMAIN c : c[j] = rows[i]
  BY <1>2 DEF Picks
<1>4. IdsOf(c) = {rows[i].id : i \in I}
  <2>1. ASSUME NEW e \in IdsOf(c) PROVE e \in {rows[i].id : i \in I}
    BY <1>3, <2>1 DEF IdsOf
  <2>2. ASSUME NEW i \in I PROVE rows[i].id \in IdsOf(c)
    BY <1>3 DEF IdsOf
  <2> QED BY <2>1, <2>2
<1>5. ASSUME Distinct(rows) PROVE Distinct(c)
  <2> SUFFICES ASSUME NEW j \in DOMAIN c, NEW k \in DOMAIN c, c[j].id = c[k].id
               PROVE  j = k
    BY DEF Distinct
  <2>1. p[j] \in DOMAIN rows /\ p[k] \in DOMAIN rows
    BY <1>2 DEF Picks
  <2>2. rows[p[j]].id = rows[p[k]].id
    BY <1>2 DEF Picks
  <2>3. p[j] = p[k]
    BY <1>5, <2>1, <2>2 DEF Distinct
  <2>4. p[j] \in Nat
    BY <2>1
  <2>5. j \in Nat /\ k \in Nat
    <3>1. DOMAIN c = 1 .. Len(c)
      BY <1>1
    <3> QED BY <3>1
  <2> QED BY <1>2, <2>3, <2>4, <2>5 DEF Picks
<1> QED BY <1>1, <1>3, <1>4, <1>5 DEF c

\* Removing rows by id removes exactly these ids.
LEMMA WithoutIds ==
    ASSUME NEW R, NEW rows \in Seq(R), NEW ids
    PROVE  /\ Without(rows, ids) \in Seq(R)
           /\ \A j \in DOMAIN Without(rows, ids) :
                  \E i \in DOMAIN rows : /\ Without(rows, ids)[j] = rows[i]
                                         /\ rows[i].id \notin ids
           /\ IdsOf(Without(rows, ids)) = IdsOf(rows) \ ids
           /\ Distinct(rows) => Distinct(Without(rows, ids))
<1> DEFINE I == {i \in DOMAIN rows : rows[i].id \notin ids}
           c == Retain(rows, I)
<1>1. I \in SUBSET DOMAIN rows /\ \A i \in I : rows[i].id \notin ids
  OBVIOUS
<1>2. c = Without(rows, ids)
  BY DEF Without
<1>3. {rows[i].id : i \in I} = IdsOf(rows) \ ids
  BY DEF IdsOf
<1> HIDE DEF I
<1>4. /\ c \in Seq(R)
      /\ \A j \in DOMAIN c : \E i \in I : c[j] = rows[i]
      /\ IdsOf(c) = {rows[i].id : i \in I}
      /\ Distinct(rows) => Distinct(c)
  BY <1>1, RetainIds
<1> HIDE DEF c
<1> QED BY <1>1, <1>2, <1>3, <1>4

\* The rows in a lane: all of them and no others.
LEMMA InLaneRows ==
    ASSUME NEW R, NEW rows \in Seq(R), NEW lane
    PROVE  /\ InLane(rows, lane) \in Seq(R)
           /\ \A j \in DOMAIN InLane(rows, lane) :
                  \E i \in DOMAIN rows : /\ InLane(rows, lane)[j] = rows[i]
                                         /\ rows[i].lane = lane
           /\ \A i \in DOMAIN rows : rows[i].lane = lane =>
                  rows[i].id \in IdsOf(InLane(rows, lane))
           /\ IdsOf(InLane(rows, lane)) \subseteq IdsOf(rows)
           /\ Distinct(rows) => Distinct(InLane(rows, lane))
<1> DEFINE I == {i \in DOMAIN rows : rows[i].lane = lane}
           c == Retain(rows, I)
<1>1. I \in SUBSET DOMAIN rows /\ \A i \in DOMAIN rows : i \in I <=> rows[i].lane = lane
  OBVIOUS
<1>2. c = InLane(rows, lane)
  BY DEF InLane
<1> HIDE DEF I
<1>4. /\ c \in Seq(R)
      /\ \A j \in DOMAIN c : \E i \in I : c[j] = rows[i]
      /\ IdsOf(c) = {rows[i].id : i \in I}
      /\ Distinct(rows) => Distinct(c)
  BY <1>1, RetainIds
<1> HIDE DEF c
<1>5. /\ \A i \in DOMAIN rows : rows[i].lane = lane => rows[i].id \in IdsOf(c)
      /\ IdsOf(c) \subseteq IdsOf(rows)
  BY <1>1, <1>4 DEF IdsOf
<1> QED BY <1>1, <1>2, <1>4, <1>5

\* The minimum of a set of numbers is in it.
LEMMA MinIn ==
    ASSUME NEW S \in SUBSET Nat, S # {}
    PROVE  Min(S) \in S
<1>1. \E x \in S : \A y \in S : x <= y
  BY Least
<1> QED BY <1>1 DEF Min

\* take_local finds a row with the id.
LEMMA LocalIndexFinds ==
    ASSUME NEW R, NEW m, m.local \in Seq(R), NEW id, NEW ver
    PROVE  /\ LocalIndex(m, id, ver) # 0 =>
                  /\ LocalIndex(m, id, ver) \in DOMAIN m.local
                  /\ m.local[LocalIndex(m, id, ver)].id = id
           /\ ver = AnyVersion /\ LocalIndex(m, id, ver) = 0
                  => id \notin IdsOf(m.local)
<1> DEFINE S == {i \in 1 .. Len(m.local) : m.local[i].id = id
                        /\ ver \in {AnyVersion, m.local[i].ver}}
<1>1. LocalIndex(m, id, ver) = IF S # {} THEN Min(S) ELSE 0
  BY DEF LocalIndex, SelectInSeq
<1>2. S \in SUBSET Nat /\ DOMAIN m.local = 1 .. Len(m.local)
  OBVIOUS
<1>3. \A i \in S : i \in DOMAIN m.local /\ m.local[i].id = id
  OBVIOUS
<1>4. ASSUME ver = AnyVersion, S = {} PROVE id \notin IdsOf(m.local)
  BY <1>2, <1>4 DEF IdsOf
<1>5. 0 \notin S
  OBVIOUS
<1> HIDE DEF S
<1> QED BY <1>1, <1>2, <1>3, <1>4, <1>5, MinIn

\* next_local_in_lane finds a row of the lane.
LEMMA LaneIndexFinds ==
    ASSUME NEW R, NEW m, m.local \in Seq(R), NEW lane
    PROVE  NextLocalInLane(m, lane) # 0 =>
                  /\ NextLocalInLane(m, lane) \in DOMAIN m.local
                  /\ m.local[NextLocalInLane(m, lane)].lane = lane
<1> DEFINE S == {i \in 1 .. Len(m.local) : m.local[i].lane = lane}
<1>1. NextLocalInLane(m, lane) = IF S # {} THEN Min(S) ELSE 0
  BY DEF NextLocalInLane, SelectInSeq
<1>2. S \in SUBSET Nat /\ DOMAIN m.local = 1 .. Len(m.local)
  OBVIOUS
<1>3. \A i \in S : i \in DOMAIN m.local /\ m.local[i].lane = lane
  OBVIOUS
<1> HIDE DEF S
<1> QED BY <1>1, <1>2, <1>3, MinIn

-----------------------------------------------------------------------------
(* apply_queue_update.                                                     *)

\* A set of rows that holds the rows Pi makes and the rewritten ones.
IsRowSet(R, Txts) ==
    /\ \A e \in R : e = [id |-> e.id, text |-> e.text, lane |-> e.lane,
                         origin |-> e.origin, ver |-> e.ver]
    /\ \A e \in R, text \in Txts : [e EXCEPT !.text = text] \in R
    /\ \A n \in Nat \ {0}, text \in Txts, lane \in Lanes :
           Row(n, text, lane, "Pi") \in R

\* The state of the loop.
IsAcc(acc, R) == /\ acc.prev \in Seq(R) /\ acc.next \in Seq(R)
                 /\ acc.reserved \in Seq(R) /\ acc.seq \in Nat
                 /\ acc = [prev |-> acc.prev, next |-> acc.next,
                           reserved |-> acc.reserved, seq |-> acc.seq]

\* What one turn of the loop does: it takes a row from the previous ones, or
\* from the reservations, or makes a new one.
FromPrev(a, b, text, lane) ==
    \E p \in DOMAIN a.prev :
        /\ a.prev[p].lane = lane /\ a.prev[p].text = text
        /\ b.next = Append(a.next, a.prev[p])
        /\ b.prev = RemoveAt(a.prev, p)
        /\ b.reserved = a.reserved /\ b.seq = a.seq
FromReserved(a, b, text, lane) ==
    \E r \in DOMAIN a.reserved :
        /\ a.reserved[r].lane = lane
        /\ b.next = Append(a.next, [a.reserved[r] EXCEPT !.text = text])
        /\ b.prev = a.prev
        /\ b.reserved = RemoveAt(a.reserved, r) /\ b.seq = a.seq
NewRow(a, b, text, lane) ==
    /\ b.next = Append(a.next, Row(a.seq + 1, text, lane, "Pi"))
    /\ b.prev = a.prev
    /\ b.reserved = a.reserved /\ b.seq = a.seq + 1
NonePrevious(a, text, lane) ==
    \A p \in DOMAIN a.prev : ~(a.prev[p].lane = lane /\ a.prev[p].text = text)

\* The three cases of the loop's body, in the order the code tries them.
LEMMA MatchRowCases ==
    ASSUME NEW R, NEW a, IsAcc(a, R), NEW text, NEW lane, NEW b,
           b = MatchRow(a, text, lane)
    PROVE  /\ b = [prev |-> b.prev, next |-> b.next, reserved |-> b.reserved,
                   seq |-> b.seq]
           /\ \/ FromPrev(a, b, text, lane)
              \/ NonePrevious(a, text, lane) /\ FromReserved(a, b, text, lane)
              \/ NonePrevious(a, text, lane) /\ NewRow(a, b, text, lane)
<1> DEFINE P == {i \in 1 .. Len(a.prev) : a.prev[i].lane = lane
                                            /\ a.prev[i].text = text}
           E == {i \in 1 .. Len(a.reserved) : a.reserved[i].lane = lane
                                                /\ a.reserved[i].text = text}
           L == {i \in 1 .. Len(a.reserved) : a.reserved[i].lane = lane}
           p == IF P # {} THEN Min(P) ELSE 0
           exact == IF E # {} THEN Min(E) ELSE 0
           r == IF exact # 0 THEN exact ELSE IF L # {} THEN Min(L) ELSE 0
<1>1. b = IF p # 0
          THEN [a EXCEPT !.next = Append(@, a.prev[p]), !.prev = RemoveAt(@, p)]
          ELSE IF r # 0
          THEN [a EXCEPT !.next = Append(@, [a.reserved[r] EXCEPT !.text = text]),
                         !.reserved = RemoveAt(@, r)]
          ELSE [a EXCEPT !.next = Append(@, Row(a.seq + 1, text, lane, "Pi")),
                         !.seq = @ + 1]
  BY DEF MatchRow, SelectInSeq
<1>2. /\ DOMAIN a.prev = 1 .. Len(a.prev)
      /\ DOMAIN a.reserved = 1 .. Len(a.reserved)
  BY DEF IsAcc
<1>3. p # 0 => p \in DOMAIN a.prev /\ a.prev[p].lane = lane /\ a.prev[p].text = text
  <2>1. P \in SUBSET Nat
    OBVIOUS
  <2>2. P # {} => Min(P) \in P
    BY <2>1, MinIn
  <2> QED BY <1>2, <2>2
<1>4. p = 0 => NonePrevious(a, text, lane)
  <2>1. P \in SUBSET Nat /\ 0 \notin P
    OBVIOUS
  <2>2. P # {} => Min(P) \in P
    BY <2>1, MinIn
  <2>3. p = 0 => P = {}
    BY <2>1, <2>2
  <2> QED BY <1>2, <2>3 DEF NonePrevious
<1>5. r # 0 => r \in DOMAIN a.reserved /\ a.reserved[r].lane = lane
  <2>1. E \in SUBSET Nat /\ L \in SUBSET Nat
    OBVIOUS
  <2>2. E # {} => Min(E) \in E
    BY <2>1, MinIn
  <2>3. L # {} => Min(L) \in L
    BY <2>1, MinIn
  <2> QED BY <1>2, <2>2, <2>3
<1> HIDE DEF p, r, P, E, L, exact
<1>6. a = [prev |-> a.prev, next |-> a.next, reserved |-> a.reserved,
           seq |-> a.seq]
  BY DEF IsAcc
<1>7. CASE p # 0
  <2>1. b = [prev |-> RemoveAt(a.prev, p), next |-> Append(a.next, a.prev[p]),
             reserved |-> a.reserved, seq |-> a.seq]
    BY <1>1, <1>6, <1>7
  <2> QED BY <1>3, <1>7, <2>1 DEF FromPrev
<1>8. CASE p = 0 /\ r # 0
  <2>1. b = [prev |-> a.prev,
             next |-> Append(a.next, [a.reserved[r] EXCEPT !.text = text]),
             reserved |-> RemoveAt(a.reserved, r), seq |-> a.seq]
    BY <1>1, <1>6, <1>8
  <2> QED BY <1>4, <1>5, <1>8, <2>1 DEF FromReserved
<1>9. CASE p = 0 /\ r = 0
  <2>1. b = [prev |-> a.prev,
             next |-> Append(a.next, Row(a.seq + 1, text, lane, "Pi")),
             reserved |-> a.reserved, seq |-> a.seq + 1]
    BY <1>1, <1>6, <1>9
  <2> QED BY <1>4, <1>9, <2>1 DEF NewRow
<1> QED BY <1>7, <1>8, <1>9

\* The desired rows: a text and a lane each.
Wanted(Txts) == [text : Txts, lane : Lanes]

\* The states of the loop, one for each desired row.
IsRun(f, m, desired) ==
    /\ f[0] = MatchStart(m)
    /\ \A k \in 1 .. Len(desired) :
           f[k] = MatchRow(f[k - 1], desired[k].text, desired[k].lane)
    /\ f[Len(desired)] = MatchArrays(m, desired)

\* An iteration that preserves a set of indices reaches the last one.
LEMMA Reaches ==
    ASSUME NEW n \in Nat, NEW Ks, 0 \in Ks,
           \A k \in Nat : k + 1 <= n /\ k \in Ks => k + 1 \in Ks
    PROVE  \A k \in 0 .. n : k \in Ks
<1> DEFINE S == {k \in Nat : k <= n => k \in Ks}
<1>1. 0 \in S
  OBVIOUS
<1>2. ASSUME NEW k \in Nat, k \in S PROVE k + 1 \in S
  BY <1>2
<1> HIDE DEF S
<1>3. Nat \subseteq S
  BY <1>1, <1>2, Induct
<1> QED BY <1>3 DEF S

\* The loop's intermediate states exist.
LEMMA RunExists ==
    ASSUME NEW m, NEW W, NEW desired \in Seq(W)
    PROVE  \E f : IsRun(f, m, desired)
<1>1. Len(desired) \in Nat /\ DOMAIN desired = 1 .. Len(desired)
  OBVIOUS
<1> QED BY <1>1, MatchSteps DEF IsRun

\* What a set of rows is closed under, ready to cite.
LEMMA RowTypes ==
    ASSUME NEW R, NEW Txts, IsRowSet(R, Txts)
    PROVE  /\ \A n \in Nat, text \in Txts, lane \in Lanes :
                  Row(n + 1, text, lane, "Pi") \in R
           /\ \A e \in R, text \in Txts :
                  /\ [e EXCEPT !.text = text] \in R
                  /\ [e EXCEPT !.text = text].id = e.id
                  /\ [e EXCEPT !.text = text].lane = e.lane
                  /\ [e EXCEPT !.text = text].text = text
                  /\ [e EXCEPT !.text = text].origin = e.origin
<1>1. \A n \in Nat : n + 1 \in Nat \ {0}
  OBVIOUS
<1> QED BY <1>1 DEF IsRowSet

\* One turn of the loop keeps the types.
LEMMA MatchRowTypes ==
    ASSUME NEW R, NEW Txts, IsRowSet(R, Txts),
           NEW a, IsAcc(a, R),
           NEW text \in Txts, NEW lane \in Lanes
    PROVE  IsAcc(MatchRow(a, text, lane), R)
<1> DEFINE b == MatchRow(a, text, lane)
<1>0. /\ a.prev \in Seq(R) /\ a.next \in Seq(R) /\ a.reserved \in Seq(R)
      /\ a.seq \in Nat
  BY DEF IsAcc
<1>1. /\ b = [prev |-> b.prev, next |-> b.next, reserved |-> b.reserved,
              seq |-> b.seq]
      /\ FromPrev(a, b, text, lane) \/ FromReserved(a, b, text, lane)
            \/ NewRow(a, b, text, lane)
  BY MatchRowCases
<1>2. /\ \A e \in R : [e EXCEPT !.text = text] \in R
      /\ Row(a.seq + 1, text, lane, "Pi") \in R
  BY <1>0, RowTypes
<1> HIDE DEF b
<1>3. CASE FromPrev(a, b, text, lane)
  <2>1. PICK p \in DOMAIN a.prev :
            /\ b.next = Append(a.next, a.prev[p])
            /\ b.prev = RemoveAt(a.prev, p)
            /\ b.reserved = a.reserved /\ b.seq = a.seq
    BY <1>3 DEF FromPrev
  <2>2. a.prev[p] \in R
    BY <1>0
  <2>3. RemoveAt(a.prev, p) \in Seq(R) /\ Append(a.next, a.prev[p]) \in Seq(R)
    BY <1>0, <2>2, RemoveAtRow, AppendIds
  <2> QED BY <1>0, <1>1, <2>1, <2>3 DEF IsAcc, b
<1>4. CASE FromReserved(a, b, text, lane)
  <2>1. PICK r \in DOMAIN a.reserved :
            /\ b.next = Append(a.next, [a.reserved[r] EXCEPT !.text = text])
            /\ b.prev = a.prev
            /\ b.reserved = RemoveAt(a.reserved, r) /\ b.seq = a.seq
    BY <1>4 DEF FromReserved
  <2> DEFINE e == [a.reserved[r] EXCEPT !.text = text]
  <2>2. e \in R
    BY <1>0, <1>2
  <2> HIDE DEF e
  <2>3. RemoveAt(a.reserved, r) \in Seq(R) /\ Append(a.next, e) \in Seq(R)
    BY <1>0, <2>2, RemoveAtRow, AppendIds
  <2> QED BY <1>0, <1>1, <2>1, <2>3 DEF IsAcc, b, e
<1>5. CASE NewRow(a, b, text, lane)
  <2> DEFINE e == Row(a.seq + 1, text, lane, "Pi")
  <2> HIDE DEF e
  <2>1. b.next = Append(a.next, e) /\ Append(a.next, e) \in Seq(R)
    BY <1>0, <1>2, <1>5, AppendIds DEF NewRow, e
  <2> QED BY <1>0, <1>1, <1>5, <2>1 DEF IsAcc, NewRow, b
<1> QED BY <1>1, <1>3, <1>4, <1>5

\* The counter behind the generated ids, whatever the rows are.
LEMMA MatchSeq ==
    ASSUME NEW m, m.seq \in Nat, NEW W, NEW desired \in Seq(W)
    PROVE  MatchArrays(m, desired).seq \in Nat
<1> DEFINE n == Len(desired)
           Ok(a) == /\ a = [prev |-> a.prev, next |-> a.next,
                            reserved |-> a.reserved, seq |-> a.seq]
                    /\ a.seq \in Nat
<1>0. PICK f : IsRun(f, m, desired)
  BY RunExists
<1> DEFINE Ks == {k \in 0 .. n : Ok(f[k])}
<1>1. n \in Nat
  OBVIOUS
<1> HIDE DEF n
<1>2. 0 \in Ks
  <2>1. Ok(MatchStart(m))
    BY DEF MatchStart
  <2> QED BY <1>0, <1>1, <2>1 DEF IsRun
<1>3. ASSUME NEW k \in Nat, k + 1 <= n, k \in Ks PROVE k + 1 \in Ks
  <2>1. k + 1 \in 1 .. n /\ (k + 1) - 1 = k /\ k + 1 \in 0 .. n
    BY <1>1, <1>3
  <2> DEFINE a == f[k]
             b == f[k + 1]
             text == desired[k + 1].text
             lane == desired[k + 1].lane
  <2>2. b = MatchRow(a, text, lane)
    BY <1>0, <2>1 DEF IsRun, n
  <2>3. /\ a = [prev |-> a.prev, next |-> a.next, reserved |-> a.reserved,
                seq |-> a.seq]
        /\ a.seq \in Nat
    BY <1>3
  <2> HIDE DEF a, b, text, lane
  <2> DEFINE P == {i \in 1 .. Len(a.prev) : a.prev[i].lane = lane
                                              /\ a.prev[i].text = text}
             E == {i \in 1 .. Len(a.reserved) : a.reserved[i].lane = lane
                                                  /\ a.reserved[i].text = text}
             L == {i \in 1 .. Len(a.reserved) : a.reserved[i].lane = lane}
             p == IF P # {} THEN Min(P) ELSE 0
             exact == IF E # {} THEN Min(E) ELSE 0
             r == IF exact # 0 THEN exact ELSE IF L # {} THEN Min(L) ELSE 0
  <2>4. b = IF p # 0
               THEN [a EXCEPT !.next = Append(@, a.prev[p]), !.prev = RemoveAt(@, p)]
               ELSE IF r # 0
               THEN [a EXCEPT !.next = Append(@, [a.reserved[r] EXCEPT !.text = text]),
                              !.reserved = RemoveAt(@, r)]
               ELSE [a EXCEPT !.next = Append(@, Row(a.seq + 1, text, lane, "Pi")),
                              !.seq = @ + 1]
    BY <2>2 DEF MatchRow, SelectInSeq
  <2> HIDE DEF p, r
  <2>5. \/ \E x, y, z : b = [prev |-> x, next |-> y, reserved |-> z,
                             seq |-> a.seq]
        \/ \E x, y, z : b = [prev |-> x, next |-> y, reserved |-> z,
                             seq |-> a.seq + 1]
    <3>1. CASE p # 0
      <4>1. b = [prev |-> RemoveAt(a.prev, p), next |-> Append(a.next, a.prev[p]),
                 reserved |-> a.reserved, seq |-> a.seq]
        BY <2>3, <2>4, <3>1
      <4> QED BY <4>1
    <3>2. CASE p = 0 /\ r # 0
      <4>1. b = [prev |-> a.prev,
                 next |-> Append(a.next, [a.reserved[r] EXCEPT !.text = text]),
                 reserved |-> RemoveAt(a.reserved, r), seq |-> a.seq]
        BY <2>3, <2>4, <3>2
      <4> QED BY <4>1
    <3>3. CASE p = 0 /\ r = 0
      <4>1. b = [prev |-> a.prev,
                 next |-> Append(a.next, Row(a.seq + 1, text, lane, "Pi")),
                 reserved |-> a.reserved, seq |-> a.seq + 1]
        BY <2>3, <2>4, <3>3
      <4> QED BY <4>1
    <3> QED BY <3>1, <3>2, <3>3
  <2>6. Ok(b)
    BY <2>3, <2>5
  <2> QED BY <2>1, <2>6 DEF b
<1> HIDE DEF Ks
<1>4. \A k \in 0 .. n : k \in Ks
  BY <1>1, <1>2, <1>3, Reaches
<1>5. n \in 0 .. n
  BY <1>1
<1> QED BY <1>0, <1>4, <1>5 DEF Ks, n, IsRun

\* The rows found so far are the first k desired ones.
Contents(a, k, desired) ==
    /\ Len(a.next) = k
    /\ \A i \in 1 .. k : /\ a.next[i].lane = desired[i].lane
                         /\ a.next[i].text = desired[i].text

\* No previous row is lost.
IsIn(e, rows) == \E j \in DOMAIN rows : rows[j] = e
Kept(a, m) == \A i \in DOMAIN m.pi : IsIn(m.pi[i], a.prev) \/ IsIn(m.pi[i], a.next)

\* The three sequences of the loop share no id, and an id is an old one of
\* the mirror or was generated in the loop.
Generated(from, to) == {id \in Nat : from < id /\ id <= to}
Unshared(a) ==
    /\ Distinct(a.prev) /\ Distinct(a.next) /\ Distinct(a.reserved)
    /\ IdsOf(a.prev) \cap IdsOf(a.next) = {}
    /\ IdsOf(a.prev) \cap IdsOf(a.reserved) = {}
    /\ IdsOf(a.next) \cap IdsOf(a.reserved) = {}
AccIds(a) == IdsOf(a.prev) \cup IdsOf(a.next) \cup IdsOf(a.reserved)
Owned(a, m) ==
    /\ Unshared(a)
    /\ a.seq >= m.seq
    /\ AccIds(a) \subseteq IdsOf(m.pi) \cup IdsOf(m.reserved)
                              \cup Generated(m.seq, a.seq)

\* The ids that were generated are behind the counter.
Behind(ids, seq) == \A id \in ids : id \in Nat => id <= seq

\* The rows of a sequence with one more.
LEMMA AppendRow ==
    ASSUME NEW R, NEW a \in Seq(R), NEW e \in R
    PROVE  /\ Len(Append(a, e)) = Len(a) + 1
           /\ Append(a, e)[Len(a) + 1] = e
           /\ \A i \in 1 .. Len(a) : Append(a, e)[i] = a[i]
           /\ IsIn(e, Append(a, e))
           /\ \A x : IsIn(x, a) => IsIn(x, Append(a, e))
<1> DEFINE c == Append(a, e)
<1>1. /\ Len(c) = Len(a) + 1 /\ Len(a) \in Nat /\ DOMAIN a = 1 .. Len(a)
      /\ c[Len(a) + 1] = e /\ DOMAIN c = 1 .. (Len(a) + 1)
      /\ \A i \in 1 .. Len(a) : c[i] = a[i]
  BY AppendProperties
<1> HIDE DEF c
<1>2. Len(a) + 1 \in DOMAIN c /\ \A i \in DOMAIN a : i \in DOMAIN c
  BY <1>1
<1> QED BY <1>1, <1>2 DEF c, IsIn

\* A row of a longer sequence is the new one or an old one.
LEMMA Appended ==
    ASSUME NEW R, NEW a \in Seq(R), NEW e \in R
    PROVE  \A i \in DOMAIN Append(a, e) :
               \/ Append(a, e)[i] = e
               \/ \E j \in DOMAIN a : Append(a, e)[i] = a[j]
<1> DEFINE c == Append(a, e)
<1>1. /\ DOMAIN a = 1 .. Len(a) /\ Len(a) \in Nat
      /\ c[Len(a) + 1] = e /\ DOMAIN c = 1 .. (Len(a) + 1)
      /\ \A i \in 1 .. Len(a) : c[i] = a[i]
  BY AppendProperties
<1> HIDE DEF c
<1>2. \A i \in DOMAIN c : i = Len(a) + 1 \/ i \in DOMAIN a
  BY <1>1
<1> QED BY <1>1, <1>2 DEF c

\* One turn of the loop adds the next desired row at the end.
LEMMA MatchRowContents ==
    ASSUME NEW R, NEW Txts, IsRowSet(R, Txts),
           NEW a, IsAcc(a, R), NEW k \in Nat,
           NEW desired \in Seq(Wanted(Txts)), k + 1 \in DOMAIN desired,
           Contents(a, k, desired)
    PROVE  Contents(MatchRow(a, desired[k + 1].text, desired[k + 1].lane),
                    k + 1, desired)
<1> DEFINE text == desired[k + 1].text
           lane == desired[k + 1].lane
           b == MatchRow(a, text, lane)
<1>0. /\ a.prev \in Seq(R) /\ a.next \in Seq(R) /\ a.reserved \in Seq(R)
      /\ a.seq \in Nat
  BY DEF IsAcc
<1>1. text \in Txts /\ lane \in Lanes
  <2>1. desired[k + 1] \in Wanted(Txts)
    OBVIOUS
  <2> QED BY <2>1 DEF Wanted
<1>2. FromPrev(a, b, text, lane) \/ FromReserved(a, b, text, lane)
            \/ NewRow(a, b, text, lane)
  BY MatchRowCases
<1>3. /\ \A e \in R : /\ [e EXCEPT !.text = text] \in R
                      /\ [e EXCEPT !.text = text].text = text
                      /\ [e EXCEPT !.text = text].lane = e.lane
      /\ Row(a.seq + 1, text, lane, "Pi") \in R
      /\ Row(a.seq + 1, text, lane, "Pi").lane = lane
      /\ Row(a.seq + 1, text, lane, "Pi").text = text
  <2>1. /\ \A e \in R : /\ [e EXCEPT !.text = text] \in R
                        /\ [e EXCEPT !.text = text].text = text
                        /\ [e EXCEPT !.text = text].lane = e.lane
        /\ Row(a.seq + 1, text, lane, "Pi") \in R
    BY <1>0, <1>1, RowTypes
  <2>2. /\ Row(a.seq + 1, text, lane, "Pi").lane = lane
        /\ Row(a.seq + 1, text, lane, "Pi").text = text
    BY DEF Row
  <2> QED BY <2>1, <2>2
<1> HIDE DEF b, text, lane
<1>4. \E e \in R : e.lane = lane /\ e.text = text /\ b.next = Append(a.next, e)
  <2>1. CASE FromPrev(a, b, text, lane)
    BY <1>0, <2>1 DEF FromPrev
  <2>2. CASE FromReserved(a, b, text, lane)
    <3>1. PICK r \in DOMAIN a.reserved :
            /\ a.reserved[r].lane = lane
            /\ b.next = Append(a.next, [a.reserved[r] EXCEPT !.text = text])
      BY <2>2 DEF FromReserved
    <3>2. a.reserved[r] \in R
      BY <1>0
    <3> QED BY <1>3, <3>1, <3>2
  <2>3. CASE NewRow(a, b, text, lane)
    BY <1>3, <2>3 DEF NewRow
  <2> QED BY <1>2, <2>1, <2>2, <2>3
<1>5. PICK e \in R : e.lane = lane /\ e.text = text /\ b.next = Append(a.next, e)
  BY <1>4
<1>6. /\ Len(b.next) = Len(a.next) + 1
      /\ b.next[Len(a.next) + 1] = e
      /\ \A i \in 1 .. Len(a.next) : b.next[i] = a.next[i]
  BY <1>0, <1>5, AppendRow
<1>7. \A i \in 1 .. (k + 1) : i \in 1 .. k \/ i = k + 1
  OBVIOUS
<1> QED BY <1>5, <1>6, <1>7 DEF Contents, b, text, lane

\* One turn of the loop loses no previous row.
LEMMA MatchRowKept ==
    ASSUME NEW R, NEW Txts, IsRowSet(R, Txts),
           NEW a, IsAcc(a, R), NEW m, Kept(a, m),
           NEW text \in Txts, NEW lane \in Lanes
    PROVE  Kept(MatchRow(a, text, lane), m)
<1> DEFINE b == MatchRow(a, text, lane)
<1>0. /\ a.prev \in Seq(R) /\ a.next \in Seq(R) /\ a.reserved \in Seq(R)
      /\ a.seq \in Nat
  BY DEF IsAcc
<1>1. FromPrev(a, b, text, lane) \/ FromReserved(a, b, text, lane)
            \/ NewRow(a, b, text, lane)
  BY MatchRowCases
<1>2. /\ \A e \in R : [e EXCEPT !.text = text] \in R
      /\ Row(a.seq + 1, text, lane, "Pi") \in R
  BY <1>0, RowTypes
<1> HIDE DEF b
<1>3. CASE FromPrev(a, b, text, lane)
  <2>1. PICK p \in DOMAIN a.prev :
            /\ b.next = Append(a.next, a.prev[p])
            /\ b.prev = RemoveAt(a.prev, p)
    BY <1>3 DEF FromPrev
  <2>2. a.prev[p] \in R
    BY <1>0
  <2>3. /\ IsIn(a.prev[p], b.next)
        /\ \A x : IsIn(x, a.next) => IsIn(x, b.next)
    BY <1>0, <2>1, <2>2, AppendRow
  <2>4. \A j \in DOMAIN a.prev : j # p => IsIn(a.prev[j], b.prev)
    BY <1>0, <2>1, RemoveIds DEF IsIn
  <2>5. \A x : IsIn(x, a.prev) => IsIn(x, b.prev) \/ IsIn(x, b.next)
    BY <2>3, <2>4 DEF IsIn
  <2> QED BY <2>3, <2>5 DEF Kept, b
<1>4. CASE FromReserved(a, b, text, lane) \/ NewRow(a, b, text, lane)
  <2>1. PICK e \in R : b.next = Append(a.next, e)
    <3>1. CASE FromReserved(a, b, text, lane)
      <4>1. PICK r \in DOMAIN a.reserved :
              b.next = Append(a.next, [a.reserved[r] EXCEPT !.text = text])
        BY <3>1 DEF FromReserved
      <4>2. a.reserved[r] \in R
        BY <1>0
      <4> QED BY <1>2, <4>1, <4>2
    <3>2. CASE NewRow(a, b, text, lane)
      BY <1>2, <3>2 DEF NewRow
    <3> QED BY <1>4, <3>1, <3>2
  <2>2. \A x : IsIn(x, a.next) => IsIn(x, b.next)
    BY <1>0, <2>1, AppendRow
  <2>3. b.prev = a.prev
    BY <1>4 DEF FromReserved, NewRow
  <2> QED BY <2>2, <2>3 DEF Kept, b
<1> QED BY <1>1, <1>3, <1>4

\* One turn of the loop gives no id to two rows: it moves one, or takes the
\* next number of the counter.
LEMMA MatchRowOwned ==
    ASSUME NEW R, NEW Txts, IsRowSet(R, Txts),
           NEW a, IsAcc(a, R), NEW m, m.seq \in Nat,
           Behind(IdsOf(m.pi) \cup IdsOf(m.reserved), m.seq), Owned(a, m),
           NEW text \in Txts, NEW lane \in Lanes
    PROVE  Owned(MatchRow(a, text, lane), m)
<1> DEFINE b == MatchRow(a, text, lane)
<1>0. /\ a.prev \in Seq(R) /\ a.next \in Seq(R) /\ a.reserved \in Seq(R)
      /\ a.seq \in Nat /\ a.seq >= m.seq
  BY DEF IsAcc, Owned
<1>1. FromPrev(a, b, text, lane) \/ FromReserved(a, b, text, lane)
            \/ NewRow(a, b, text, lane)
  BY MatchRowCases
<1>2. /\ \A e \in R : /\ [e EXCEPT !.text = text] \in R
                      /\ [e EXCEPT !.text = text].id = e.id
      /\ Row(a.seq + 1, text, lane, "Pi") \in R
      /\ Row(a.seq + 1, text, lane, "Pi").id = a.seq + 1
  <2>1. /\ \A e \in R : /\ [e EXCEPT !.text = text] \in R
                        /\ [e EXCEPT !.text = text].id = e.id
        /\ Row(a.seq + 1, text, lane, "Pi") \in R
    BY <1>0, RowTypes
  <2>2. Row(a.seq + 1, text, lane, "Pi").id = a.seq + 1
    BY DEF Row
  <2> QED BY <2>1, <2>2
<1> HIDE DEF b
<1>3. CASE FromPrev(a, b, text, lane)
  <2>1. PICK p \in DOMAIN a.prev :
            /\ b.next = Append(a.next, a.prev[p])
            /\ b.prev = RemoveAt(a.prev, p)
            /\ b.reserved = a.reserved /\ b.seq = a.seq
    BY <1>3 DEF FromPrev
  <2> DEFINE e == a.prev[p]
  <2>2. e \in R
    BY <1>0
  <2>3. /\ IdsOf(b.next) = IdsOf(a.next) \cup {e.id}
        /\ Distinct(a.next) /\ e.id \notin IdsOf(a.next) => Distinct(b.next)
    BY <1>0, <2>1, <2>2, AppendIds
  <2>4. /\ IdsOf(a.prev) = {e.id} \cup IdsOf(b.prev)
        /\ Distinct(a.prev) => Distinct(b.prev) /\ e.id \notin IdsOf(b.prev)
    BY <1>0, <2>1, RemoveIds
  <2> HIDE DEF e
  <2>5. Unshared(b)
    BY <2>1, <2>3, <2>4 DEF Owned, Unshared
  <2>6. AccIds(b) = AccIds(a)
    BY <2>1, <2>3, <2>4 DEF AccIds
  <2> QED BY <2>1, <2>5, <2>6 DEF Owned, b
<1>4. CASE FromReserved(a, b, text, lane)
  <2>1. PICK r \in DOMAIN a.reserved :
            /\ b.next = Append(a.next, [a.reserved[r] EXCEPT !.text = text])
            /\ b.prev = a.prev
            /\ b.reserved = RemoveAt(a.reserved, r) /\ b.seq = a.seq
    BY <1>4 DEF FromReserved
  <2> DEFINE e == a.reserved[r]
             x == [e EXCEPT !.text = text]
  <2>2. e \in R /\ x \in R /\ x.id = e.id
    BY <1>0, <1>2
  <2>3. /\ IdsOf(a.reserved) = {e.id} \cup IdsOf(b.reserved)
        /\ Distinct(a.reserved) => /\ Distinct(b.reserved)
                                   /\ e.id \notin IdsOf(b.reserved)
    BY <1>0, <2>1, RemoveIds
  <2>4. b.next = Append(a.next, x)
    BY <2>1
  <2> HIDE DEF x, e
  <2>5. /\ IdsOf(b.next) = IdsOf(a.next) \cup {e.id}
        /\ Distinct(a.next) /\ e.id \notin IdsOf(a.next) => Distinct(b.next)
    BY <1>0, <2>2, <2>4, AppendIds
  <2>6. Unshared(b)
    BY <2>1, <2>3, <2>5 DEF Owned, Unshared
  <2>7. AccIds(b) = AccIds(a)
    BY <2>1, <2>3, <2>5 DEF AccIds
  <2> QED BY <2>1, <2>6, <2>7 DEF Owned, b
<1>5. CASE NewRow(a, b, text, lane)
  <2> DEFINE x == Row(a.seq + 1, text, lane, "Pi")
             i == a.seq + 1
  <2>1. /\ b.next = Append(a.next, x) /\ b.prev = a.prev
        /\ b.reserved = a.reserved /\ b.seq = i
    BY <1>5 DEF NewRow
  <2>2. x \in R /\ x.id = i
    BY <1>2
  <2> HIDE DEF x
  <2>3. /\ IdsOf(b.next) = IdsOf(a.next) \cup {i}
        /\ Distinct(a.next) /\ i \notin IdsOf(a.next) => Distinct(b.next)
    BY <1>0, <2>1, <2>2, AppendIds
  <2>4. i \notin AccIds(a)
    <3> SUFFICES ASSUME i \in AccIds(a) PROVE FALSE
      OBVIOUS
    <3>1. i \in IdsOf(m.pi) \cup IdsOf(m.reserved) \cup Generated(m.seq, a.seq)
      BY DEF Owned
    <3>2. i \notin Generated(m.seq, a.seq)
      BY <1>0 DEF Generated
    <3>3. i \in Nat /\ ~(i <= m.seq)
      BY <1>0
    <3> QED BY <3>1, <3>2, <3>3 DEF Behind
  <2>5. Unshared(b)
    BY <2>1, <2>3, <2>4 DEF Owned, Unshared, AccIds
  <2>6. AccIds(b) = AccIds(a) \cup {i}
    BY <2>1, <2>3 DEF AccIds
  <2>7. Generated(m.seq, a.seq) \cup {i} \subseteq Generated(m.seq, i)
    BY <1>0 DEF Generated
  <2>8. i >= m.seq
    BY <1>0
  <2> QED BY <2>1, <2>5, <2>6, <2>7, <2>8 DEF Owned, b
<1> QED BY <1>1, <1>3, <1>4, <1>5

\* The rows left over are previous ones, and as long as one is left over its
\* lane and text were never given to a row that is not a previous one.
Greedy(a, m) ==
    /\ \A x \in DOMAIN a.prev : IsIn(a.prev[x], m.pi)
    /\ \A x \in DOMAIN a.prev, y \in DOMAIN a.next :
           a.prev[x].lane = a.next[y].lane /\ a.prev[x].text = a.next[y].text
              => IsIn(a.next[y], m.pi)

\* One turn of the loop takes another row only when no previous one fits.
LEMMA MatchRowGreedy ==
    ASSUME NEW R, NEW Txts, IsRowSet(R, Txts),
           NEW a, IsAcc(a, R), NEW m, Greedy(a, m),
           NEW text \in Txts, NEW lane \in Lanes
    PROVE  Greedy(MatchRow(a, text, lane), m)
<1> DEFINE b == MatchRow(a, text, lane)
<1>0. /\ a.prev \in Seq(R) /\ a.next \in Seq(R) /\ a.reserved \in Seq(R)
      /\ a.seq \in Nat
  BY DEF IsAcc
<1>1. \/ FromPrev(a, b, text, lane)
      \/ NonePrevious(a, text, lane) /\ FromReserved(a, b, text, lane)
      \/ NonePrevious(a, text, lane) /\ NewRow(a, b, text, lane)
  BY MatchRowCases
<1>2. /\ \A e \in R : /\ [e EXCEPT !.text = text] \in R
                      /\ [e EXCEPT !.text = text].text = text
                      /\ [e EXCEPT !.text = text].lane = e.lane
      /\ Row(a.seq + 1, text, lane, "Pi") \in R
  BY <1>0, RowTypes
<1>3. /\ Row(a.seq + 1, text, lane, "Pi").lane = lane
      /\ Row(a.seq + 1, text, lane, "Pi").text = text
  BY DEF Row
<1> HIDE DEF b
<1>4. CASE FromPrev(a, b, text, lane)
  <2>1. PICK p \in DOMAIN a.prev :
            /\ b.next = Append(a.next, a.prev[p])
            /\ b.prev = RemoveAt(a.prev, p)
    BY <1>4 DEF FromPrev
  <2>2. a.prev[p] \in R /\ IsIn(a.prev[p], m.pi)
    BY <1>0 DEF Greedy
  <2>3. \A x \in DOMAIN b.prev : \E i \in DOMAIN a.prev : b.prev[x] = a.prev[i]
    BY <1>0, <2>1, RemoveIds
  <2>4. \A y \in DOMAIN b.next :
            b.next[y] = a.prev[p] \/ \E i \in DOMAIN a.next : b.next[y] = a.next[i]
    BY <1>0, <2>1, <2>2, Appended
  <2> QED BY <2>2, <2>3, <2>4 DEF Greedy, b
<1>5. CASE /\ NonePrevious(a, text, lane)
           /\ FromReserved(a, b, text, lane) \/ NewRow(a, b, text, lane)
  <2>1. PICK e \in R : b.next = Append(a.next, e) /\ e.lane = lane /\ e.text = text
    <3>1. CASE FromReserved(a, b, text, lane)
      <4>1. PICK r \in DOMAIN a.reserved :
              /\ a.reserved[r].lane = lane
              /\ b.next = Append(a.next, [a.reserved[r] EXCEPT !.text = text])
        BY <3>1 DEF FromReserved
      <4>2. a.reserved[r] \in R
        BY <1>0
      <4> QED BY <1>2, <4>1, <4>2
    <3>2. CASE NewRow(a, b, text, lane)
      BY <1>2, <1>3, <3>2 DEF NewRow
    <3> QED BY <1>5, <3>1, <3>2
  <2>2. b.prev = a.prev
    BY <1>5 DEF FromReserved, NewRow
  <2>3. \A y \in DOMAIN b.next :
            b.next[y] = e \/ \E i \in DOMAIN a.next : b.next[y] = a.next[i]
    BY <1>0, <2>1, Appended
  <2>4. \A x \in DOMAIN b.prev : ~(b.prev[x].lane = e.lane /\ b.prev[x].text = e.text)
    BY <1>5, <2>1, <2>2 DEF NonePrevious
  <2> QED BY <2>2, <2>3, <2>4 DEF Greedy, b
<1> QED BY <1>1, <1>4, <1>5

\* The loop invariant, after k desired rows.
Loop(a, k, m, desired, R) ==
    /\ IsAcc(a, R)
    /\ Contents(a, k, desired)
    /\ Kept(a, m)
    /\ Owned(a, m)
    /\ Greedy(a, m)

\* The loop invariant holds before the first desired row.
LEMMA LoopStarts ==
    ASSUME NEW R, NEW Txts, IsRowSet(R, Txts), NEW m,
           m.pi \in Seq(R), m.reserved \in Seq(R),
           m.seq \in Nat, Distinct(m.pi), Distinct(m.reserved),
           IdsOf(m.pi) \cap IdsOf(m.reserved) = {}, NEW desired
    PROVE  Loop(MatchStart(m), 0, m, desired, R)
<1> DEFINE a == MatchStart(m)
<1>1. /\ a.prev = m.pi /\ a.next = << >> /\ a.reserved = m.reserved
      /\ a.seq = m.seq
      /\ a = [prev |-> a.prev, next |-> a.next, reserved |-> a.reserved,
              seq |-> a.seq]
  BY DEF MatchStart
<1> HIDE DEF a
<1>2. IsAcc(a, R)
  BY <1>1, EmptySeq DEF IsAcc
<1>3. Contents(a, 0, desired)
  BY <1>1 DEF Contents
<1>4. Kept(a, m)
  BY <1>1 DEF Kept, IsIn
<1>5. Owned(a, m)
  <2>1. Unshared(a)
    BY <1>1, NoRows DEF Unshared
  <2>2. AccIds(a) = IdsOf(m.pi) \cup IdsOf(m.reserved)
    BY <1>1, NoRows DEF AccIds
  <2>3. a.seq >= m.seq
    BY <1>1
  <2> QED BY <2>1, <2>2, <2>3 DEF Owned
<1>6. Greedy(a, m)
  BY <1>1 DEF Greedy, IsIn
<1> QED BY <1>2, <1>3, <1>4, <1>5, <1>6 DEF Loop, a

\* What MatchArrays returns, for arrays of any length.
LEMMA MatchArraysLoop ==
    ASSUME NEW R, NEW Txts, IsRowSet(R, Txts), NEW m,
           m.pi \in Seq(R), m.reserved \in Seq(R),
           m.seq \in Nat, Distinct(m.pi), Distinct(m.reserved),
           IdsOf(m.pi) \cap IdsOf(m.reserved) = {},
           Behind(IdsOf(m.pi) \cup IdsOf(m.reserved), m.seq),
           NEW desired \in Seq(Wanted(Txts))
    PROVE  Loop(MatchArrays(m, desired), Len(desired), m, desired,
                R)
<1> DEFINE n == Len(desired)
<1>0. PICK f : IsRun(f, m, desired)
  BY RunExists
<1> DEFINE Ks == {k \in 0 .. n : Loop(f[k], k, m, desired, R)}
<1>1. /\ n \in Nat /\ DOMAIN desired = 1 .. n
      /\ \A k \in 1 .. n : desired[k].text \in Txts /\ desired[k].lane \in Lanes
  <2>1. n \in Nat /\ DOMAIN desired = 1 .. n
    OBVIOUS
  <2>2. \A k \in 1 .. n : desired[k] \in Wanted(Txts)
    OBVIOUS
  <2> QED BY <2>1, <2>2 DEF Wanted
<1> HIDE DEF n
<1>2. 0 \in Ks
  <2>1. Loop(MatchStart(m), 0, m, desired, R)
    BY LoopStarts
  <2> QED BY <1>0, <1>1, <2>1 DEF IsRun
<1>3. ASSUME NEW k \in Nat, k + 1 <= n, k \in Ks PROVE k + 1 \in Ks
  <2>1. k + 1 \in 1 .. n /\ (k + 1) - 1 = k /\ k + 1 \in 0 .. n
    BY <1>1, <1>3
  <2> DEFINE a == f[k]
             b == f[k + 1]
  <2>2. b = MatchRow(a, desired[k + 1].text, desired[k + 1].lane)
    BY <1>0, <2>1 DEF IsRun, n
  <2>3. Loop(a, k, m, desired, R)
    BY <1>3
  <2> HIDE DEF a, b
  <2>4. /\ IsAcc(a, R) /\ Contents(a, k, desired) /\ Kept(a, m) /\ Owned(a, m)
        /\ Greedy(a, m)
    BY <2>3 DEF Loop
  <2>5. desired[k + 1].text \in Txts /\ desired[k + 1].lane \in Lanes
    BY <1>1, <2>1
  <2>6. IsAcc(b, R)
    BY <2>2, <2>4, <2>5, MatchRowTypes
  <2>7. Contents(b, k + 1, desired)
    BY <1>1, <2>1, <2>2, <2>4, MatchRowContents
  <2>8. Kept(b, m)
    BY <2>2, <2>4, <2>5, MatchRowKept
  <2>9. Owned(b, m)
    BY <2>2, <2>4, <2>5, MatchRowOwned
  <2>10. Greedy(b, m)
    BY <2>2, <2>4, <2>5, MatchRowGreedy
  <2>11. Loop(b, k + 1, m, desired, R)
    BY <2>6, <2>7, <2>8, <2>9, <2>10 DEF Loop
  <2> QED BY <2>1, <2>11 DEF b
<1> HIDE DEF Ks
<1>4. \A k \in 0 .. n : k \in Ks
  BY <1>1, <1>2, <1>3, Reaches
<1>5. n \in 0 .. n
  BY <1>1
<1> QED BY <1>0, <1>4, <1>5 DEF Ks, n, IsRun

-----------------------------------------------------------------------------
(* The operations on a mirror.                                             *)

\* A mirror with the given parts.
Mirror(local, pi, reserved, parked, running, seq) ==
    [local |-> local, pi |-> pi, reserved |-> reserved, parked |-> parked,
     running |-> running, seq |-> seq]
IsMirror(m) ==
    m = Mirror(m.local, m.pi, m.reserved, m.parked, m.running, m.seq)

\* The parts of a mirror.
LEMMA MirrorFields ==
    ASSUME NEW l, NEW p, NEW r, NEW k, NEW run, NEW s
    PROVE  /\ IsMirror(Mirror(l, p, r, k, run, s))
           /\ Mirror(l, p, r, k, run, s).local = l
           /\ Mirror(l, p, r, k, run, s).pi = p
           /\ Mirror(l, p, r, k, run, s).reserved = r
           /\ Mirror(l, p, r, k, run, s).parked = k
           /\ Mirror(l, p, r, k, run, s).running = run
           /\ Mirror(l, p, r, k, run, s).seq = s
BY DEF Mirror, IsMirror

\* A mirror with one part replaced.
LEMMA MirrorExcept ==
    ASSUME NEW m, IsMirror(m)
    PROVE  /\ \A x : [m EXCEPT !.local = x]
                = Mirror(x, m.pi, m.reserved, m.parked, m.running, m.seq)
           /\ \A x : [m EXCEPT !.reserved = x]
                = Mirror(m.local, m.pi, x, m.parked, m.running, m.seq)
           /\ \A x : [m EXCEPT !.parked = x]
                = Mirror(m.local, m.pi, m.reserved, x, m.running, m.seq)
           /\ \A x : [m EXCEPT !.running = x]
                = Mirror(m.local, m.pi, m.reserved, m.parked, x, m.seq)
           /\ \A x : [m EXCEPT !.seq = x]
                = Mirror(m.local, m.pi, m.reserved, m.parked, m.running, x)
<1>1. m = Mirror(m.local, m.pi, m.reserved, m.parked, m.running, m.seq)
  BY DEF IsMirror
<1> DEFINE l == m.local
           p == m.pi
           r == m.reserved
           k == m.parked
           run == m.running
           s == m.seq
<1>2. m = [local |-> l, pi |-> p, reserved |-> r, parked |-> k, running |-> run,
           seq |-> s]
  BY <1>1 DEF Mirror
<1> HIDE DEF l, p, r, k, run, s
<1>3. \A x : [m EXCEPT !.local = x] = Mirror(x, p, r, k, run, s)
  BY <1>2 DEF Mirror
<1>4. \A x : [m EXCEPT !.reserved = x] = Mirror(l, p, x, k, run, s)
  BY <1>2 DEF Mirror
<1>5. \A x : [m EXCEPT !.parked = x] = Mirror(l, p, r, x, run, s)
  BY <1>2 DEF Mirror
<1>6. \A x : [m EXCEPT !.running = x] = Mirror(l, p, r, k, x, s)
  BY <1>2 DEF Mirror
<1>7. \A x : [m EXCEPT !.seq = x] = Mirror(l, p, r, k, run, x)
  BY <1>2 DEF Mirror
<1> QED BY <1>3, <1>4, <1>5, <1>6, <1>7 DEF l, p, r, k, run, s

\* The parts of the mirror after each of the operations.
LEMMA Operations ==
    ASSUME NEW m, IsMirror(m)
    PROVE  /\ \A row : SetRunning(m, row)
                = Mirror(m.local, m.pi, m.reserved, m.parked, row, m.seq)
           /\ PopNextLocal(m)
                = Mirror(Tail(m.local), m.pi, m.reserved, m.parked, m.running,
                         m.seq)
           /\ \A i : TakeLocal(m, i)
                = Mirror(RemoveAt(m.local, i), m.pi, m.reserved, m.parked,
                         m.running, m.seq)
           /\ \A row : Reserve(m, row)
                = Mirror(m.local, m.pi,
                         Append(Without(m.reserved, {row.id}),
                                [row EXCEPT !.ver = 0]),
                         m.parked, m.running, m.seq)
           /\ \A id : ReleaseReservation(m, id)
                = Mirror(m.local, m.pi, Without(m.reserved, {id}), m.parked,
                         m.running, m.seq)
           /\ ClearRunning(m)
                = Mirror(m.local, m.pi, << >>, m.parked, NoRow, m.seq)
           /\ ClearLocal(m)
                = Mirror(<< >>, m.pi, m.reserved, m.parked, m.running, m.seq)
           /\ ClearMirror(m)
                = Mirror(<< >>, << >>, << >>, << >>, NoRow, m.seq)
<1>1. \A row : SetRunning(m, row)
          = Mirror(m.local, m.pi, m.reserved, m.parked, row, m.seq)
  BY MirrorExcept DEF SetRunning
<1>2. PopNextLocal(m)
        = Mirror(Tail(m.local), m.pi, m.reserved, m.parked, m.running, m.seq)
  BY MirrorExcept DEF PopNextLocal
<1>3. \A i : TakeLocal(m, i)
          = Mirror(RemoveAt(m.local, i), m.pi, m.reserved, m.parked, m.running,
                   m.seq)
  BY MirrorExcept DEF TakeLocal
<1>4. ASSUME NEW row
      PROVE  Reserve(m, row)
                = Mirror(m.local, m.pi,
                         Append(Without(m.reserved, {row.id}),
                                [row EXCEPT !.ver = 0]),
                         m.parked, m.running, m.seq)
  <2> DEFINE r == Append(Without(m.reserved, {row.id}), [row EXCEPT !.ver = 0])
  <2>1. Reserve(m, row) = [m EXCEPT !.reserved = r]
    BY DEF Reserve
  <2> HIDE DEF r
  <2>2. Reserve(m, row) = Mirror(m.local, m.pi, r, m.parked, m.running, m.seq)
    BY <2>1, MirrorExcept
  <2> QED BY <2>2 DEF r
<1>5. \A id : ReleaseReservation(m, id)
          = Mirror(m.local, m.pi, Without(m.reserved, {id}), m.parked,
                   m.running, m.seq)
  BY MirrorExcept DEF ReleaseReservation
<1>6. ClearRunning(m) = Mirror(m.local, m.pi, << >>, m.parked, NoRow, m.seq)
  <2>1. m = [local |-> m.local, pi |-> m.pi, reserved |-> m.reserved,
             parked |-> m.parked, running |-> m.running, seq |-> m.seq]
    BY DEF IsMirror, Mirror
  <2> DEFINE none == NoRow
  <2> HIDE DEF none
  <2>2. PICK d : d = [m EXCEPT !.reserved = << >>, !.running = none]
    OBVIOUS
  <2>3. d = Mirror(m.local, m.pi, << >>, m.parked, none, m.seq)
    BY <2>1, <2>2 DEF Mirror
  <2> QED BY <2>2, <2>3 DEF ClearRunning, none
<1>7. ClearLocal(m)
        = Mirror(<< >>, m.pi, m.reserved, m.parked, m.running, m.seq)
  BY MirrorExcept DEF ClearLocal
<1>8. ClearMirror(m) = Mirror(<< >>, << >>, << >>, << >>, NoRow, m.seq)
  BY DEF ClearMirror, EmptyMirror, Mirror
<1> QED BY <1>1, <1>2, <1>3, <1>4, <1>5, <1>6, <1>7, <1>8

\* The rows of a sequence over R are in R.
LEMMA RowsIn ==
    ASSUME NEW R, NEW a \in Seq(R)
    PROVE  \A i \in DOMAIN a : a[i] \in R
OBVIOUS

\* Rows that keep their ids.
LEMMA SameIds ==
    ASSUME NEW R, NEW a \in Seq(R), NEW b, b \in [DOMAIN a -> R],
           \A i \in DOMAIN a : b[i].id = a[i].id
    PROVE  /\ b \in Seq(R)
           /\ IdsOf(b) = IdsOf(a)
           /\ Distinct(a) => Distinct(b)
<1>1. DOMAIN a = 1 .. Len(a) /\ Len(a) \in Nat
  OBVIOUS
<1>2. b \in Seq(R)
  BY <1>1, IsASeq
<1>3. DOMAIN b = DOMAIN a
  OBVIOUS
<1>4. IdsOf(b) = IdsOf(a)
  BY <1>3 DEF IdsOf
<1>5. Distinct(a) => Distinct(b)
  BY <1>3 DEF Distinct
<1> QED BY <1>2, <1>4, <1>5

\* A row may take the version of the row it replaces.
Renewable(row, R) ==
    \A e \in R : /\ [row EXCEPT !.ver = e.ver] \in R
                 /\ [row EXCEPT !.ver = e.ver].id = row.id

\* enqueue_local adds the id of the row, replacing a row that has it.
LEMMA EnqueueLocalIds ==
    ASSUME NEW R, NEW m, IsMirror(m), m.local \in Seq(R), NEW row \in R,
           Renewable(row, R)
    PROVE  \E l \in Seq(R) :
               /\ EnqueueLocal(m, row)
                    = Mirror(l, m.pi, m.reserved, m.parked, m.running, m.seq)
               /\ IdsOf(l) = IdsOf(m.local) \cup {row.id}
               /\ Distinct(m.local) => Distinct(l)
<1>1. CASE HasRow(m.local, row.id)
  <2> DEFINE l == [i \in DOMAIN m.local |->
                     IF m.local[i].id = row.id
                     THEN [row EXCEPT !.ver = m.local[i].ver]
                     ELSE m.local[i]]
  <2>1. EnqueueLocal(m, row)
          = Mirror(l, m.pi, m.reserved, m.parked, m.running, m.seq)
    <3>1. EnqueueLocal(m, row) = [m EXCEPT !.local = l]
      BY <1>1 DEF EnqueueLocal
    <3> HIDE DEF l
    <3> QED BY <3>1, MirrorExcept
  <2>2. \A i \in DOMAIN m.local : m.local[i] \in R
    OBVIOUS
  <2>3. l \in [DOMAIN m.local -> R] /\ \A i \in DOMAIN m.local : l[i].id = m.local[i].id
    BY <2>2 DEF Renewable
  <2> HIDE DEF l
  <2>4. /\ l \in Seq(R) /\ IdsOf(l) = IdsOf(m.local)
        /\ Distinct(m.local) => Distinct(l)
    BY <2>3, SameIds
  <2>5. row.id \in IdsOf(m.local)
    BY <1>1 DEF HasRow, IdsOf
  <2> QED BY <2>1, <2>4, <2>5
<1>2. CASE ~HasRow(m.local, row.id)
  <2> DEFINE l == Append(m.local, row)
  <2>1. EnqueueLocal(m, row)
          = Mirror(l, m.pi, m.reserved, m.parked, m.running, m.seq)
    <3>1. EnqueueLocal(m, row) = [m EXCEPT !.local = l]
      BY <1>2 DEF EnqueueLocal
    <3> QED BY <3>1, MirrorExcept
  <2>2. row.id \notin IdsOf(m.local)
    BY <1>2 DEF HasRow, IdsOf
  <2>3. /\ l \in Seq(R) /\ IdsOf(l) = IdsOf(m.local) \cup {row.id}
        /\ Distinct(m.local) => Distinct(l)
    BY <2>2, AppendIds
  <2> HIDE DEF l
  <2> QED BY <2>1, <2>3
<1> QED BY <1>1, <1>2

\* Advancing the counter changes nothing else.
LEMMA NumberedFields ==
    ASSUME NEW m, IsMirror(m), NEW n, NEW x, x = [m EXCEPT !.seq = n]
    PROVE  /\ IsMirror(x) /\ x.local = m.local /\ x.pi = m.pi
           /\ x.reserved = m.reserved /\ x.parked = m.parked
           /\ x.running = m.running /\ x.seq = n
<1>1. x = Mirror(m.local, m.pi, m.reserved, m.parked, m.running, n)
  BY MirrorExcept
<1> QED BY <1>1, MirrorFields

\* push_front_local adds the id of the row, replacing a row that has it.
LEMMA PushFrontIds ==
    ASSUME NEW R, NEW m, IsMirror(m), m.local \in Seq(R), NEW row \in R
    PROVE  \E l \in Seq(R) :
               /\ PushFrontLocal(m, row)
                    = Mirror(l, m.pi, m.reserved, m.parked, m.running, m.seq)
               /\ IdsOf(l) = IdsOf(m.local) \cup {row.id}
               /\ Distinct(m.local) => Distinct(l)
<1> DEFINE w == Without(m.local, {row.id})
           f == <<row>>
           l == f \o w
<1>1. /\ w \in Seq(R) /\ IdsOf(w) = IdsOf(m.local) \ {row.id}
      /\ Distinct(m.local) => Distinct(w)
  BY WithoutIds
<1>2. f \in Seq(R) /\ IdsOf(f) = {row.id} /\ Distinct(f)
  BY OneRow
<1>3. PushFrontLocal(m, row)
          = Mirror(l, m.pi, m.reserved, m.parked, m.running, m.seq)
  BY MirrorExcept DEF PushFrontLocal
<1> HIDE DEF w, f
<1>4. /\ l \in Seq(R) /\ IdsOf(l) = IdsOf(f) \cup IdsOf(w)
      /\ Distinct(f) /\ Distinct(w) /\ IdsOf(f) \cap IdsOf(w) = {} => Distinct(l)
  BY <1>1, <1>2, ConcatIds
<1> HIDE DEF l
<1> QED BY <1>1, <1>2, <1>3, <1>4

\* A row set that is closed under edits to a text.
Editable(text, R) ==
    \A e \in R : /\ [e EXCEPT !.text = text, !.ver = @ + 1] \in R
                 /\ [e EXCEPT !.text = text, !.ver = @ + 1].id = e.id

\* edit_local changes no id.
LEMMA EditLocalIds ==
    ASSUME NEW R, NEW m, IsMirror(m), m.local \in Seq(R), NEW id, NEW text,
           Editable(text, R)
    PROVE  \E l \in Seq(R) :
               /\ EditLocal(m, id, text)
                    = Mirror(l, m.pi, m.reserved, m.parked, m.running, m.seq)
               /\ IdsOf(l) = IdsOf(m.local)
               /\ Distinct(m.local) => Distinct(l)
<1> DEFINE l == [i \in DOMAIN m.local |->
                   IF m.local[i].id = id
                   THEN [m.local[i] EXCEPT !.text = text, !.ver = @ + 1]
                   ELSE m.local[i]]
<1>1. EditLocal(m, id, text)
          = Mirror(l, m.pi, m.reserved, m.parked, m.running, m.seq)
  <2>1. EditLocal(m, id, text) = [m EXCEPT !.local = l]
    BY DEF EditLocal
  <2> HIDE DEF l
  <2> QED BY <2>1, MirrorExcept
<1>2. \A i \in DOMAIN m.local : m.local[i] \in R
  BY RowsIn
<1>3. l \in [DOMAIN m.local -> R] /\ \A i \in DOMAIN m.local : l[i].id = m.local[i].id
  BY <1>2 DEF Editable
<1> HIDE DEF l
<1> QED BY <1>1, <1>3, SameIds

\* The state of reorder_local's loop.
Split(c, m, R) ==
    /\ c.chosen \in Seq(R) /\ c.rest \in Seq(R)
    /\ IdsOf(c.chosen) \cup IdsOf(c.rest) = IdsOf(m.local)
    /\ Distinct(m.local) => /\ Distinct(c.chosen) /\ Distinct(c.rest)
                            /\ IdsOf(c.chosen) \cap IdsOf(c.rest) = {}

\* One turn of reorder_local's loop moves a row from the rest to the chosen.
LEMMA ChooseRowSplits ==
    ASSUME NEW R, NEW m, NEW c, Split(c, m, R), NEW id
    PROVE  Split(ChooseRow(c, id), m, R)
<1> DEFINE I == {i \in 1 .. Len(c.rest) : c.rest[i].id = id}
           i == IF I # {} THEN Min(I) ELSE 0
           d == ChooseRow(c, id)
<1>1. d = IF i = 0 THEN c ELSE [chosen |-> Append(c.chosen, c.rest[i]),
                                rest |-> RemoveAt(c.rest, i)]
  BY DEF ChooseRow, SelectInSeq
<1>2. i # 0 => i \in DOMAIN c.rest
  <2>1. I \in SUBSET Nat /\ DOMAIN c.rest = 1 .. Len(c.rest)
    BY DEF Split
  <2>2. I # {} => Min(I) \in I
    BY <2>1, MinIn
  <2> QED BY <2>1, <2>2
<1> HIDE DEF i, d
<1>3. CASE i = 0
  BY <1>1, <1>3 DEF d
<1>4. CASE i # 0
  <2> DEFINE e == c.rest[i]
  <2>1. d.chosen = Append(c.chosen, e) /\ d.rest = RemoveAt(c.rest, i)
    BY <1>1, <1>4
  <2>2. c.chosen \in Seq(R) /\ c.rest \in Seq(R) /\ e \in R /\ i \in DOMAIN c.rest
    BY <1>2, <1>4 DEF Split
  <2>3. /\ d.rest \in Seq(R)
        /\ IdsOf(c.rest) = {e.id} \cup IdsOf(d.rest)
        /\ Distinct(c.rest) => Distinct(d.rest) /\ e.id \notin IdsOf(d.rest)
    BY <2>1, <2>2, RemoveAtRow, RemoveIds
  <2>4. /\ d.chosen \in Seq(R) /\ IdsOf(d.chosen) = IdsOf(c.chosen) \cup {e.id}
        /\ Distinct(c.chosen) /\ e.id \notin IdsOf(c.chosen) => Distinct(d.chosen)
    BY <2>1, <2>2, AppendIds
  <2> HIDE DEF e
  <2> QED BY <2>3, <2>4 DEF Split, d
<1> QED BY <1>3, <1>4

\* reorder_local loses no row and doubles none, whatever ids the client names.
LEMMA ReorderIds ==
    ASSUME NEW R, NEW m, IsMirror(m), m.local \in Seq(R),
           NEW order, NEW n \in Nat, DOMAIN order = 1 .. n
    PROVE  \E l \in Seq(R) :
               /\ ReorderLocal(m, order)
                    = Mirror(l, m.pi, m.reserved, m.parked, m.running, m.seq)
               /\ IdsOf(l) = IdsOf(m.local)
               /\ Distinct(m.local) => Distinct(l)
<1>1. PICK f : /\ f[0] = ChooseStart(m)
               /\ \A k \in 1 .. n : f[k] = ChooseRow(f[k - 1], order[k])
               /\ f[n] = Chosen(m, order)
  BY ChooseSteps
<1> DEFINE Ks == {k \in 0 .. n : Split(f[k], m, R)}
<1>2. 0 \in Ks
  <2>1. Split(ChooseStart(m), m, R)
    BY NoRows, EmptySeq DEF Split, ChooseStart
  <2> QED BY <1>1, <2>1
<1>3. ASSUME NEW k \in Nat, k + 1 <= n, k \in Ks PROVE k + 1 \in Ks
  <2>1. k + 1 \in 1 .. n /\ (k + 1) - 1 = k /\ k + 1 \in 0 .. n
    BY <1>3
  <2>2. f[k + 1] = ChooseRow(f[k], order[k + 1])
    BY <1>1, <2>1
  <2>3. Split(f[k + 1], m, R)
    BY <1>3, <2>2, ChooseRowSplits
  <2> QED BY <2>1, <2>3
<1> HIDE DEF Ks
<1>4. \A k \in 0 .. n : k \in Ks
  BY <1>2, <1>3, Reaches
<1> DEFINE c == Chosen(m, order)
           l == c.chosen \o c.rest
<1>5. Split(c, m, R)
  <2>1. n \in 0 .. n
    OBVIOUS
  <2> QED BY <1>1, <1>4, <2>1 DEF Ks
<1>6. ReorderLocal(m, order) = IF Len(m.local) < 2 THEN m
                               ELSE [m EXCEPT !.local = l]
  BY DEF ReorderLocal, Chosen, ChooseStart
<1> HIDE DEF c
<1>7. /\ l \in Seq(R) /\ IdsOf(l) = IdsOf(m.local)
      /\ Distinct(m.local) => Distinct(l)
  BY <1>5, ConcatIds DEF Split
<1> HIDE DEF l
<1>8. m = Mirror(m.local, m.pi, m.reserved, m.parked, m.running, m.seq)
  BY DEF IsMirror
<1> QED BY <1>6, <1>7, <1>8, MirrorExcept

-----------------------------------------------------------------------------
(* A mirror in which an id names one row.                                  *)

\* The id in the running slot, and ids that are in one place of the mirror only.
Slot(m) == IF m.running = NoRow THEN {} ELSE {m.running.id}
UniqueIds(m) ==
    /\ Distinct(m.local) /\ Distinct(m.pi)
    /\ Distinct(m.reserved) /\ Distinct(m.parked)
    /\ IdsOf(m.local) \cap IdsOf(m.pi) = {}
    /\ IdsOf(m.local) \cap IdsOf(m.reserved) = {}
    /\ IdsOf(m.local) \cap IdsOf(m.parked) = {}
    /\ IdsOf(m.local) \cap Slot(m) = {}
    /\ IdsOf(m.pi) \cap IdsOf(m.reserved) = {}
    /\ IdsOf(m.pi) \cap IdsOf(m.parked) = {}
    /\ IdsOf(m.pi) \cap Slot(m) = {}
    /\ IdsOf(m.reserved) \cap IdsOf(m.parked) = {}
    /\ IdsOf(m.reserved) \cap Slot(m) = {}
    /\ IdsOf(m.parked) \cap Slot(m) = {}
\* All ids of the mirror.
AllIds(m) == IdsOf(m.local) \cup IdsOf(m.pi) \cup IdsOf(m.reserved)
                \cup IdsOf(m.parked) \cup Slot(m)

\* The types, and with them the invariant of the mirror: unique ids, of which
\* the generated ones are behind the counter.
RowsTyped(m, R) ==
    /\ IsMirror(m)
    /\ m.local \in Seq(R) /\ m.pi \in Seq(R)
    /\ m.reserved \in Seq(R) /\ m.parked \in Seq(R)
    /\ m.running \in R \cup {NoRow}
    /\ m.seq \in Nat
GoodMirror(m, R) ==
    RowsTyped(m, R) /\ UniqueIds(m) /\ Behind(AllIds(m), m.seq)

\* The desired rows are Pi's steering texts, then its follow-ups.
LEMMA DesiredRows ==
    ASSUME NEW Txts, NEW s \in Seq(Txts), NEW f \in Seq(Txts)
    PROVE  /\ Desired(s, "Steering") \o Desired(f, "FollowUp") \in Seq(Wanted(Txts))
           /\ Len(Desired(s, "Steering") \o Desired(f, "FollowUp")) = Len(s) + Len(f)
           /\ \A i \in 1 .. (Len(s) + Len(f)) :
                  (Desired(s, "Steering") \o Desired(f, "FollowUp"))[i] =
                      IF i <= Len(s) THEN [text |-> s[i], lane |-> "Steering"]
                      ELSE [text |-> f[i - Len(s)], lane |-> "FollowUp"]
<1>1. ASSUME NEW t \in Seq(Txts), NEW lane \in Lanes
      PROVE  /\ Desired(t, lane) \in Seq(Wanted(Txts))
             /\ Len(Desired(t, lane)) = Len(t)
             /\ \A i \in 1 .. Len(t) :
                    Desired(t, lane)[i] = [text |-> t[i], lane |-> lane]
  <2>1. DOMAIN t = 1 .. Len(t) /\ Len(t) \in Nat /\ \A i \in 1 .. Len(t) : t[i] \in Txts
    OBVIOUS
  <2>2. Desired(t, lane) = [i \in 1 .. Len(t) |-> [text |-> t[i], lane |-> lane]]
    BY <2>1 DEF Desired
  <2>3. \A i \in 1 .. Len(t) : [text |-> t[i], lane |-> lane] \in Wanted(Txts)
    BY <2>1 DEF Wanted
  <2> QED BY <2>1, <2>2, <2>3
<1> DEFINE a == Desired(s, "Steering")
           b == Desired(f, "FollowUp")
<1>2. /\ a \in Seq(Wanted(Txts)) /\ Len(a) = Len(s)
      /\ \A i \in 1 .. Len(s) : a[i] = [text |-> s[i], lane |-> "Steering"]
  BY <1>1 DEF Lanes
<1>3. /\ b \in Seq(Wanted(Txts)) /\ Len(b) = Len(f)
      /\ \A i \in 1 .. Len(f) : b[i] = [text |-> f[i], lane |-> "FollowUp"]
  BY <1>1 DEF Lanes
<1> HIDE DEF a, b
<1>4. /\ a \o b \in Seq(Wanted(Txts)) /\ Len(a \o b) = Len(a) + Len(b)
      /\ \A i \in 1 .. (Len(a) + Len(b)) :
             (a \o b)[i] = IF i <= Len(a) THEN a[i] ELSE b[i - Len(a)]
  <2>1. a \in Seq(Wanted(Txts)) /\ b \in Seq(Wanted(Txts))
    BY <1>2, <1>3
  <2> QED BY <2>1, ConcatProperties
<1>5. Len(s) \in Nat /\ Len(f) \in Nat
  OBVIOUS
<1>6. ASSUME NEW i \in 1 .. (Len(s) + Len(f))
      PROVE  (a \o b)[i] = IF i <= Len(s) THEN [text |-> s[i], lane |-> "Steering"]
                           ELSE [text |-> f[i - Len(s)], lane |-> "FollowUp"]
  <2>1. CASE i <= Len(s)
    BY <1>2, <1>3, <1>4, <1>5, <2>1
  <2>2. CASE ~(i <= Len(s))
    <3>1. i - Len(s) \in 1 .. Len(f)
      BY <1>5, <2>2
    <3> QED BY <1>2, <1>3, <1>4, <2>2, <3>1
  <2> QED BY <2>1, <2>2
<1> QED BY <1>2, <1>3, <1>4, <1>6 DEF a, b

\* The parts of an update: what the loop returns, and the follow-ups that left.
UpdateAcc(m, s, f) ==
    MatchArrays(m, Desired(s, "Steering") \o Desired(f, "FollowUp"))
Left(m, s, f) == InLane(UpdateAcc(m, s, f).prev, "FollowUp")
Promoted(m, s, f) == m.running = NoRow /\ Left(m, s, f) # << >>

\* apply_queue_update, part by part.
LEMMA UpdateParts ==
    ASSUME NEW m, IsMirror(m), NEW s, NEW f
    PROVE  ApplyQueueUpdate(m, s, f) =
             Mirror(m.local, UpdateAcc(m, s, f).next,
                    Without(UpdateAcc(m, s, f).reserved,
                            IdsOf(UpdateAcc(m, s, f).next)),
                    m.parked \o (IF Promoted(m, s, f) THEN Tail(Left(m, s, f))
                                 ELSE Left(m, s, f)),
                    IF Promoted(m, s, f) THEN Head(Left(m, s, f)) ELSE m.running,
                    UpdateAcc(m, s, f).seq)
<1> DEFINE acc == UpdateAcc(m, s, f)
           left == Left(m, s, f)
           promote == Promoted(m, s, f)
           r == Without(acc.reserved, IdsOf(acc.next))
           t == IF promote THEN Head(left) ELSE m.running
           k == m.parked \o (IF promote THEN Tail(left) ELSE left)
<1>1. ApplyQueueUpdate(m, s, f) =
        [m EXCEPT !.pi = acc.next, !.seq = acc.seq, !.reserved = r,
                  !.running = t, !.parked = k]
  BY DEF ApplyQueueUpdate, UpdateAcc, Left, Promoted
<1>2. m = [local |-> m.local, pi |-> m.pi, reserved |-> m.reserved,
           parked |-> m.parked, running |-> m.running, seq |-> m.seq]
  BY DEF IsMirror, Mirror
<1> HIDE DEF acc, left, promote, r, t, k
<1>3. PICK d : d = ApplyQueueUpdate(m, s, f)
  OBVIOUS
<1>4. d = Mirror(m.local, acc.next, r, k, t, acc.seq)
  BY <1>1, <1>2, <1>3 DEF Mirror
<1> QED BY <1>3, <1>4 DEF acc, left, promote, r, t, k

\* What the loop returns in an update of a good mirror.
LEMMA UpdateLoop ==
    ASSUME NEW R, NEW Txts, IsRowSet(R, Txts), NEW m, GoodMirror(m, R),
           NEW s \in Seq(Txts), NEW f \in Seq(Txts)
    PROVE  Loop(UpdateAcc(m, s, f), Len(s) + Len(f), m,
                Desired(s, "Steering") \o Desired(f, "FollowUp"), R)
<1> DEFINE d == Desired(s, "Steering") \o Desired(f, "FollowUp")
<1>1. d \in Seq(Wanted(Txts)) /\ Len(d) = Len(s) + Len(f)
  BY DesiredRows
<1> HIDE DEF d
<1>2. /\ m.pi \in Seq(R) /\ m.reserved \in Seq(R) /\ m.seq \in Nat
      /\ Distinct(m.pi) /\ Distinct(m.reserved)
      /\ IdsOf(m.pi) \cap IdsOf(m.reserved) = {}
  BY DEF GoodMirror, RowsTyped, UniqueIds
<1>3. Behind(IdsOf(m.pi) \cup IdsOf(m.reserved), m.seq)
  BY DEF GoodMirror, Behind, AllIds
<1>4. Loop(MatchArrays(m, d), Len(d), m, d, R)
  BY <1>1, <1>2, <1>3, MatchArraysLoop
<1> QED BY <1>1, <1>4 DEF UpdateAcc, d

\* The follow-ups that left Pi's arrays are in the slot or parked.
LEMMA StartedRows ==
    ASSUME NEW R, NoRow \notin R, NEW m, RowsTyped(m, R), NEW s, NEW f,
           UpdateAcc(m, s, f).prev \in Seq(R), Distinct(UpdateAcc(m, s, f).prev),
           NEW d, d = ApplyQueueUpdate(m, s, f)
    PROVE  /\ d.parked \in Seq(R) /\ d.running \in R \cup {NoRow}
           /\ IdsOf(d.parked) \cup Slot(d) =
                  IdsOf(m.parked) \cup Slot(m) \cup IdsOf(Left(m, s, f))
           /\ (/\ Distinct(m.parked) /\ IdsOf(m.parked) \cap Slot(m) = {}
               /\ (IdsOf(m.parked) \cup Slot(m)) \cap IdsOf(Left(m, s, f)) = {})
              => Distinct(d.parked) /\ IdsOf(d.parked) \cap Slot(d) = {}
           /\ m.running # NoRow => d.running = m.running
<1> DEFINE left == Left(m, s, f)
           promote == Promoted(m, s, f)
           added == IF promote THEN Tail(left) ELSE left
<1>1. /\ d.parked = m.parked \o added
      /\ d.running = IF promote THEN Head(left) ELSE m.running
  <2>1. IsMirror(m)
    BY DEF RowsTyped
  <2> DEFINE acc == UpdateAcc(m, s, f)
             r == Without(acc.reserved, IdsOf(acc.next))
             run == IF promote THEN Head(left) ELSE m.running
             k == m.parked \o added
  <2>2. d = Mirror(m.local, acc.next, r, k, run, acc.seq)
    BY <2>1, UpdateParts
  <2> HIDE DEF acc, r, run, k
  <2>3. d.parked = k /\ d.running = run
    BY <2>2, MirrorFields
  <2> QED BY <2>3 DEF run, k
<1>2. left \in Seq(R) /\ Distinct(left)
  BY InLaneRows DEF Left
<1>3. promote <=> m.running = NoRow /\ left # << >>
  BY DEF Promoted
<1>4. m.parked \in Seq(R) /\ m.running \in R \cup {NoRow}
  BY DEF RowsTyped
<1> HIDE DEF left, promote, added
<1>5. CASE promote
  <2>1. /\ Tail(left) \in Seq(R) /\ Head(left) \in R
        /\ IdsOf(left) = {Head(left).id} \cup IdsOf(Tail(left))
        /\ Distinct(Tail(left)) /\ Head(left).id \notin IdsOf(Tail(left))
    BY <1>2, <1>3, <1>5, TailIds
  <2> DEFINE t == Tail(left)
             h == Head(left)
  <2>2. added = t /\ d.running = h
    BY <1>1, <1>5 DEF added
  <2> HIDE DEF t, h
  <2>3. /\ m.parked \o t \in Seq(R)
        /\ IdsOf(m.parked \o t) = IdsOf(m.parked) \cup IdsOf(t)
        /\ Distinct(m.parked) /\ IdsOf(m.parked) \cap IdsOf(t) = {}
              => Distinct(m.parked \o t)
    BY <1>4, <2>1, ConcatIds DEF t
  <2>4. Slot(m) = {} /\ Slot(d) = {h.id} /\ h \in R
    BY <1>3, <1>5, <2>1, <2>2 DEF Slot, h
  <2>5. IdsOf(left) = {h.id} \cup IdsOf(t) /\ h.id \notin IdsOf(t)
    BY <2>1 DEF t, h
  <2>6. /\ d.parked \in Seq(R)
        /\ IdsOf(d.parked) = IdsOf(m.parked) \cup IdsOf(t)
        /\ Distinct(m.parked) /\ IdsOf(m.parked) \cap IdsOf(t) = {}
              => Distinct(d.parked)
    BY <1>1, <2>2, <2>3
  <2>7. d.running \in R \cup {NoRow} /\ m.running = NoRow
    BY <1>3, <1>5, <2>2, <2>4
  <2>8. IdsOf(Left(m, s, f)) = {h.id} \cup IdsOf(t)
    BY <2>5 DEF left
  <2> QED BY <2>4, <2>5, <2>6, <2>7, <2>8
<1>6. CASE ~promote
  <2>1. /\ m.parked \o left \in Seq(R)
        /\ IdsOf(m.parked \o left) = IdsOf(m.parked) \cup IdsOf(left)
        /\ Distinct(m.parked) /\ IdsOf(m.parked) \cap IdsOf(left) = {}
              => Distinct(m.parked \o left)
    BY <1>2, <1>4, ConcatIds
  <2>2. d.parked = m.parked \o left /\ d.running = m.running
    BY <1>1, <1>6 DEF added
  <2>3. Slot(d) = Slot(m)
    BY <2>2 DEF Slot
  <2>4. /\ d.parked \in Seq(R)
        /\ IdsOf(d.parked) = IdsOf(m.parked) \cup IdsOf(left)
        /\ Distinct(m.parked) /\ IdsOf(m.parked) \cap IdsOf(left) = {}
              => Distinct(d.parked)
    BY <2>1, <2>2
  <2>5. IdsOf(Left(m, s, f)) = IdsOf(left)
    BY DEF left
  <2>6. /\ (IdsOf(m.parked) \cup Slot(m)) \cap IdsOf(left) = {} =>
              /\ IdsOf(m.parked) \cap IdsOf(left) = {}
              /\ Slot(m) \cap IdsOf(left) = {}
        /\ IdsOf(d.parked) \cup Slot(d)
              = IdsOf(m.parked) \cup Slot(m) \cup IdsOf(left)
        /\ IdsOf(m.parked) \cap Slot(m) = {} /\ Slot(m) \cap IdsOf(left) = {}
              => IdsOf(d.parked) \cap Slot(d) = {}
    BY <2>3, <2>4
  <2> QED BY <1>4, <2>2, <2>4, <2>5, <2>6
<1> QED BY <1>5, <1>6

\* apply_queue_update keeps a mirror good.
LEMMA UpdateGood ==
    ASSUME NEW R, NEW Txts, IsRowSet(R, Txts), NoRow \notin R,
           NEW m, GoodMirror(m, R), NEW s \in Seq(Txts), NEW f \in Seq(Txts)
    PROVE  GoodMirror(ApplyQueueUpdate(m, s, f), R)
<1> DEFINE acc == UpdateAcc(m, s, f)
           left == Left(m, s, f)
           d == ApplyQueueUpdate(m, s, f)
           old == IdsOf(m.pi) \cup IdsOf(m.reserved)
           new == Generated(m.seq, acc.seq)
<1>1. IsAcc(acc, R) /\ Owned(acc, m)
  BY UpdateLoop DEF Loop
<1>2. /\ acc.prev \in Seq(R) /\ acc.next \in Seq(R) /\ acc.reserved \in Seq(R)
      /\ acc.seq \in Nat
  BY <1>1 DEF IsAcc
<1>3. /\ Distinct(acc.prev) /\ Distinct(acc.next) /\ Distinct(acc.reserved)
      /\ IdsOf(acc.prev) \cap IdsOf(acc.next) = {}
      /\ IdsOf(acc.prev) \cap IdsOf(acc.reserved) = {}
      /\ IdsOf(acc.next) \cap IdsOf(acc.reserved) = {}
      /\ acc.seq >= m.seq
      /\ IdsOf(acc.prev) \subseteq old \cup new
      /\ IdsOf(acc.next) \subseteq old \cup new
      /\ IdsOf(acc.reserved) \subseteq old \cup new
  BY <1>1 DEF Owned, Unshared, AccIds
<1>4. /\ IsMirror(m) /\ m.local \in Seq(R) /\ m.parked \in Seq(R)
      /\ m.running \in R \cup {NoRow} /\ m.seq \in Nat
  BY DEF GoodMirror, RowsTyped
<1>5. /\ IsMirror(d) /\ d.local = m.local /\ d.pi = acc.next
      /\ d.reserved = Without(acc.reserved, IdsOf(acc.next)) /\ d.seq = acc.seq
  BY <1>4, UpdateParts, MirrorFields
<1>6. /\ d.reserved \in Seq(R) /\ Distinct(d.reserved)
      /\ IdsOf(d.reserved) \subseteq IdsOf(acc.reserved)
  BY <1>2, <1>3, <1>5, WithoutIds
<1>7. IdsOf(left) \subseteq IdsOf(acc.prev)
  BY <1>2, InLaneRows DEF Left
<1>8. new \cap AllIds(m) = {}
  <2> SUFFICES ASSUME NEW i \in new, i \in AllIds(m) PROVE FALSE
    OBVIOUS
  <2>1. i \in Nat /\ m.seq < i
    BY DEF Generated
  <2>2. i <= m.seq
    BY <2>1 DEF GoodMirror, Behind
  <2> QED BY <1>4, <2>1, <2>2
<1>9. (IdsOf(m.parked) \cup Slot(m) \cup IdsOf(m.local)) \cap (old \cup new) = {}
  BY <1>8 DEF GoodMirror, UniqueIds, AllIds
<1>10. /\ d.parked \in Seq(R) /\ d.running \in R \cup {NoRow}
       /\ IdsOf(d.parked) \cup Slot(d) = IdsOf(m.parked) \cup Slot(m) \cup IdsOf(left)
       /\ Distinct(d.parked) /\ IdsOf(d.parked) \cap Slot(d) = {}
  <2>1. /\ RowsTyped(m, R) /\ Distinct(m.parked)
        /\ IdsOf(m.parked) \cap Slot(m) = {}
    BY DEF GoodMirror, UniqueIds
  <2>2. (IdsOf(m.parked) \cup Slot(m)) \cap IdsOf(left) = {}
    BY <1>3, <1>7, <1>9
  <2> HIDE DEF acc
  <2>3. UpdateAcc(m, s, f).prev \in Seq(R) /\ Distinct(UpdateAcc(m, s, f).prev)
    BY <1>2, <1>3 DEF acc
  <2> QED BY <2>1, <2>2, <2>3, StartedRows
<1> HIDE DEF acc, left, d
<1>11. RowsTyped(d, R)
  BY <1>2, <1>4, <1>5, <1>6, <1>10 DEF RowsTyped
<1>12. UniqueIds(d)
  <2>1. /\ Distinct(d.local) /\ Distinct(d.pi) /\ Distinct(d.reserved)
        /\ Distinct(d.parked) /\ IdsOf(d.parked) \cap Slot(d) = {}
    BY <1>3, <1>5, <1>6, <1>10 DEF GoodMirror, UniqueIds
  <2>2. /\ IdsOf(d.local) = IdsOf(m.local) /\ IdsOf(d.pi) = IdsOf(acc.next)
        /\ IdsOf(d.parked) \cup Slot(d)
              \subseteq IdsOf(m.parked) \cup Slot(m) \cup IdsOf(acc.prev)
    BY <1>5, <1>7, <1>10
  <2>3. IdsOf(m.local) \cap (IdsOf(m.parked) \cup Slot(m)) = {}
    BY DEF GoodMirror, UniqueIds
  <2> QED BY <1>3, <1>6, <1>9, <2>1, <2>2, <2>3 DEF UniqueIds
<1>13. Behind(AllIds(d), d.seq)
  <2>1. AllIds(d) \subseteq AllIds(m) \cup new
    BY <1>3, <1>5, <1>6, <1>7, <1>10 DEF AllIds
  <2>2. \A i \in new : i <= acc.seq
    BY DEF Generated
  <2>3. \A i \in AllIds(m) : i \in Nat => i <= acc.seq
    <3> SUFFICES ASSUME NEW i \in AllIds(m), i \in Nat PROVE i <= acc.seq
      OBVIOUS
    <3>1. i <= m.seq
      BY DEF GoodMirror, Behind
    <3> QED BY <1>2, <1>3, <1>4, <3>1
  <2> QED BY <1>5, <2>1, <2>2, <2>3 DEF Behind
<1> QED BY <1>11, <1>12, <1>13 DEF GoodMirror, d

\* Rows of the local queue leave it, change or move.
LEMMA GoodLocal ==
    ASSUME NEW R, NEW m, GoodMirror(m, R), NEW l \in Seq(R),
           IdsOf(l) \subseteq IdsOf(m.local), Distinct(l), NEW d,
           d = Mirror(l, m.pi, m.reserved, m.parked, m.running, m.seq)
    PROVE  GoodMirror(d, R)
<1>1. /\ IsMirror(d) /\ d.local = l /\ d.pi = m.pi /\ d.reserved = m.reserved
      /\ d.parked = m.parked /\ d.running = m.running /\ d.seq = m.seq
  BY MirrorFields
<1>2. RowsTyped(d, R)
  BY <1>1 DEF GoodMirror, RowsTyped
<1>3. Slot(d) = Slot(m)
  BY <1>1 DEF Slot
<1>4. UniqueIds(d)
  BY <1>1, <1>3 DEF GoodMirror, UniqueIds
<1>5. AllIds(d) \subseteq AllIds(m)
  BY <1>1, <1>3 DEF AllIds
<1>6. Behind(AllIds(d), d.seq)
  BY <1>1, <1>5 DEF GoodMirror, Behind
<1> QED BY <1>2, <1>4, <1>6 DEF GoodMirror

\* A row with a new id enters the local queue.
LEMMA GoodNew ==
    ASSUME NEW R, NEW m, GoodMirror(m, R), NEW l \in Seq(R),
           NEW x, x \notin AllIds(m), NEW s \in Nat, s >= m.seq,
           x \in Nat => x <= s,
           IdsOf(l) = IdsOf(m.local) \cup {x}, Distinct(l), NEW d,
           d = Mirror(l, m.pi, m.reserved, m.parked, m.running, s)
    PROVE  GoodMirror(d, R)
<1>1. /\ IsMirror(d) /\ d.local = l /\ d.pi = m.pi /\ d.reserved = m.reserved
      /\ d.parked = m.parked /\ d.running = m.running /\ d.seq = s
  BY MirrorFields
<1>2. RowsTyped(d, R)
  BY <1>1 DEF GoodMirror, RowsTyped
<1>3. Slot(d) = Slot(m)
  BY <1>1 DEF Slot
<1>4. UniqueIds(d)
  BY <1>1, <1>3 DEF GoodMirror, UniqueIds, AllIds
<1>5. AllIds(d) = AllIds(m) \cup {x}
  BY <1>1, <1>3 DEF AllIds
<1>6. Behind(AllIds(d), d.seq)
  <2> SUFFICES ASSUME NEW i \in AllIds(d), i \in Nat PROVE i <= s
    BY <1>1 DEF Behind
  <2>1. CASE i = x
    BY <2>1
  <2>2. CASE i \in AllIds(m)
    <3>1. i <= m.seq /\ m.seq \in Nat
      BY <2>2 DEF GoodMirror, Behind, RowsTyped
    <3> QED BY <3>1
  <2> QED BY <1>5, <2>1, <2>2
<1> QED BY <1>2, <1>4, <1>6 DEF GoodMirror

\* A row takes the free slot: a new one, or one from the local queue.
LEMMA GoodRun ==
    ASSUME NEW R, NoRow \notin R, NEW m, GoodMirror(m, R), m.running = NoRow,
           NEW l \in Seq(R), IdsOf(l) \subseteq IdsOf(m.local), Distinct(l),
           NEW row \in R, row.id \notin IdsOf(l),
           \/ row.id \notin AllIds(m) /\ row.id \notin Nat
           \/ row.id \in IdsOf(m.local), NEW d,
           d = Mirror(l, m.pi, m.reserved, m.parked, row, m.seq)
    PROVE  GoodMirror(d, R)
<1>1. /\ IsMirror(d) /\ d.local = l /\ d.pi = m.pi /\ d.reserved = m.reserved
      /\ d.parked = m.parked /\ d.running = row /\ d.seq = m.seq
  BY MirrorFields
<1>2. RowsTyped(d, R)
  BY <1>1 DEF GoodMirror, RowsTyped
<1>3. Slot(d) = {row.id} /\ Slot(m) = {}
  BY <1>1 DEF Slot
<1>4. UniqueIds(d)
  BY <1>1, <1>3 DEF GoodMirror, UniqueIds, AllIds
<1>5. AllIds(d) \subseteq AllIds(m) \cup {row.id}
  BY <1>1, <1>3 DEF AllIds
<1>6. row.id \in Nat => row.id \in AllIds(m)
  BY DEF AllIds
<1>7. Behind(AllIds(d), d.seq)
  BY <1>1, <1>5, <1>6 DEF GoodMirror, Behind
<1> QED BY <1>2, <1>4, <1>7 DEF GoodMirror

\* A row leaves the local queue for a reservation.
LEMMA GoodReserve ==
    ASSUME NEW R, NEW m, GoodMirror(m, R), NEW l \in Seq(R), NEW r \in Seq(R),
           Distinct(l), Distinct(r), NEW x \in IdsOf(m.local),
           IdsOf(l) \subseteq IdsOf(m.local) \ {x},
           IdsOf(r) \subseteq IdsOf(m.reserved) \cup {x}, NEW d,
           d = Mirror(l, m.pi, r, m.parked, m.running, m.seq)
    PROVE  GoodMirror(d, R)
<1>1. /\ IsMirror(d) /\ d.local = l /\ d.pi = m.pi /\ d.reserved = r
      /\ d.parked = m.parked /\ d.running = m.running /\ d.seq = m.seq
  BY MirrorFields
<1>2. RowsTyped(d, R)
  BY <1>1 DEF GoodMirror, RowsTyped
<1>3. Slot(d) = Slot(m)
  BY <1>1 DEF Slot
<1>4. UniqueIds(d)
  BY <1>1, <1>3 DEF GoodMirror, UniqueIds
<1>5. AllIds(d) \subseteq AllIds(m)
  BY <1>1, <1>3 DEF AllIds
<1>6. Behind(AllIds(d), d.seq)
  BY <1>1, <1>5 DEF GoodMirror, Behind
<1> QED BY <1>2, <1>4, <1>6 DEF GoodMirror

\* Reservations or parked rows are dropped; the slot is cleared, or a parked
\* row takes it.
LEMMA GoodDrop ==
    ASSUME NEW R, NoRow \notin R, NEW m, GoodMirror(m, R),
           NEW r \in Seq(R), IdsOf(r) \subseteq IdsOf(m.reserved), Distinct(r),
           NEW k \in Seq(R), IdsOf(k) \subseteq IdsOf(m.parked), Distinct(k),
           NEW run \in R \cup {NoRow},
           \/ run = NoRow \/ run = m.running
           \/ run.id \in IdsOf(m.parked) /\ run.id \notin IdsOf(k), NEW d,
           d = Mirror(m.local, m.pi, r, k, run, m.seq)
    PROVE  GoodMirror(d, R)
<1>1. /\ IsMirror(d) /\ d.local = m.local /\ d.pi = m.pi /\ d.reserved = r
      /\ d.parked = k /\ d.running = run /\ d.seq = m.seq
  BY MirrorFields
<1>2. RowsTyped(d, R)
  BY <1>1 DEF GoodMirror, RowsTyped
<1>3. /\ Slot(d) \subseteq Slot(m) \cup IdsOf(m.parked)
      /\ Slot(d) \cap IdsOf(k) = {}
  <2>1. CASE run = NoRow
    BY <1>1, <2>1 DEF Slot
  <2>2. CASE run = m.running
    BY <1>1, <2>2 DEF Slot, GoodMirror, UniqueIds
  <2>3. CASE run.id \in IdsOf(m.parked) /\ run.id \notin IdsOf(k)
    BY <1>1, <2>3 DEF Slot
  <2> QED BY <2>1, <2>2, <2>3
<1>4. UniqueIds(d)
  BY <1>1, <1>3 DEF GoodMirror, UniqueIds
<1>5. AllIds(d) \subseteq AllIds(m)
  BY <1>1, <1>3 DEF AllIds
<1>6. Behind(AllIds(d), d.seq)
  BY <1>1, <1>5 DEF GoodMirror, Behind
<1> QED BY <1>2, <1>4, <1>6 DEF GoodMirror

\* agent_start takes the newest parked row, for none is in a queue again.
LEMMA PromoteTakesNewest ==
    ASSUME NEW R, NEW m, GoodMirror(m, R), m.running = NoRow
    PROVE  IF m.parked = << >> THEN PromoteParkedRunning(m) = m
           ELSE /\ Len(m.parked) \in DOMAIN m.parked
                /\ PromoteParkedRunning(m) =
                     Mirror(m.local, m.pi, m.reserved,
                            SubSeq(m.parked, 1, Len(m.parked) - 1),
                            m.parked[Len(m.parked)], m.seq)
<1> DEFINE queued == IdsOf(m.pi) \cup IdsOf(m.local)
           I == {i \in 1 .. Len(m.parked) : m.parked[i].id \notin queued}
           n == IF I # {} THEN Max(I) ELSE 0
<1>1. PromoteParkedRunning(m) =
        IF n = 0 THEN [m EXCEPT !.parked = << >>]
        ELSE [m EXCEPT !.running = m.parked[n],
                       !.parked = SubSeq(m.parked, 1, n - 1)]
  BY DEF PromoteParkedRunning, SelectLastInSeq
<1>2. /\ m.parked \in Seq(R) /\ DOMAIN m.parked = 1 .. Len(m.parked)
      /\ Len(m.parked) \in Nat /\ IsMirror(m)
  BY DEF GoodMirror, RowsTyped
<1>3. I = 1 .. Len(m.parked)
  <2>1. IdsOf(m.parked) \cap queued = {}
    BY DEF GoodMirror, UniqueIds
  <2>2. \A i \in 1 .. Len(m.parked) : m.parked[i].id \in IdsOf(m.parked)
    BY <1>2 DEF IdsOf
  <2> QED BY <2>1, <2>2
<1> HIDE DEF I
<1>4. CASE m.parked = << >>
  <2>1. n = 0
    <3>1. I = {}
      BY <1>3, <1>4
    <3> QED BY <3>1
  <2> HIDE DEF n
  <2>2. [m EXCEPT !.parked = << >>] = m
    <3>1. [m EXCEPT !.parked = << >>]
            = Mirror(m.local, m.pi, m.reserved, << >>, m.running, m.seq)
      BY <1>2, MirrorExcept
    <3>2. m = Mirror(m.local, m.pi, m.reserved, m.parked, m.running, m.seq)
      BY <1>2 DEF IsMirror
    <3> QED BY <1>4, <3>1, <3>2
  <2> QED BY <1>1, <1>4, <2>1, <2>2
<1>5. CASE m.parked # << >>
  <2>1. Len(m.parked) \in I /\ Len(m.parked) # 0
    <3>1. Len(m.parked) # 0
      BY <1>2, <1>5, EmptySeq
    <3> QED BY <1>2, <1>3, <3>1
  <2>2. n = Len(m.parked)
    <3>1. I \in SUBSET Nat /\ \A y \in I : y <= Len(m.parked)
      BY <1>3
    <3> QED BY <2>1, <3>1, MaxIs
  <2> HIDE DEF n
  <2>3. PromoteParkedRunning(m) =
          Mirror(m.local, m.pi, m.reserved, SubSeq(m.parked, 1, n - 1),
                 m.parked[n], m.seq)
    <3> DEFINE k == SubSeq(m.parked, 1, n - 1)
               row == m.parked[n]
    <3> HIDE DEF k, row
    <3>1. PromoteParkedRunning(m) = [m EXCEPT !.running = row, !.parked = k]
      BY <1>1, <2>1, <2>2 DEF k, row
    <3>2. PICK d : d = PromoteParkedRunning(m)
      OBVIOUS
    <3>3. m = [local |-> m.local, pi |-> m.pi, reserved |-> m.reserved,
               parked |-> m.parked, running |-> m.running, seq |-> m.seq]
      BY <1>2 DEF IsMirror, Mirror
    <3>4. d = Mirror(m.local, m.pi, m.reserved, k, row, m.seq)
      BY <3>1, <3>2, <3>3 DEF Mirror
    <3> QED BY <3>2, <3>4 DEF k, row
  <2> QED BY <1>2, <1>3, <1>5, <2>1, <2>2, <2>3
<1> QED BY <1>4, <1>5

=============================================================================
