------------------------ MODULE CircuitBreaker_proofs ------------------------
(***************************************************************************)
(* Proofs about the circuit breaker, for any set of callers and any        *)
(* configuration.  Three invariants are found along the way:               *)
(*                                                                         *)
(*   AdmittedBound  the bound on admitted requests is checked on entry to  *)
(*                  check() and counted on its way out, so the callers in  *)
(*                  between must be counted as well;                       *)
(*   MirrorInv      while transitions do not overlap, at most one thread   *)
(*                  is midway through one, and the state is the one it     *)
(*                  stored; only outside them does the mirror agree;       *)
(*   SlotInv        the probe counter also holds the callers that will     *)
(*                  take themselves off again, so the number of slots that *)
(*                  were handed out is the counter less those callers.     *)
(***************************************************************************)
EXTENDS CircuitBreaker, FiniteSetTheorems, SequenceTheorems, TLAPS

\* The types of a thread's locals, of the window and of the history.
Locals == [pc : Pcs, now : Times, claimed : Times, probe : BOOLEAN,
           fail : BOOLEAN, seen : States]
Windows == Seq([fail : BOOLEAN, at : Times])
Episodes == [since : Times, fresh : Nat, taken : Nat, raced : BOOLEAN]

-----------------------------------------------------------------------------
(* A usize.                                                                *)

\* Sums that stay in the word, and sums that leave it once.
LEMMA Words ==
    ASSUME NEW n \in Nat
    PROVE  /\ n % WordSize \in 0 .. (WordSize - 1)
           /\ n < WordSize => n % WordSize = n
           /\ n < WordSize => (n + WordSize) % WordSize = n
  <1>0. WordSize \in Nat /\ 0 < WordSize
    <2>1. Cardinality(Threads) \in Nat
      BY BreakerAssumption, FS_CardinalityType
    <2> QED BY <2>1, BreakerAssumption
  <1>1. n % WordSize \in 0 .. (WordSize - 1)
    BY <1>0
  <1>2. n < WordSize => n % WordSize = n
    BY <1>0
  <1>3. n < WordSize => (n + WordSize) % WordSize = n
    BY <1>0
  <1> QED BY <1>1, <1>2, <1>3

\* The window after an outcome or a look at the clock is a window.
LEMMA WindowTypes ==
    ASSUME NEW w \in Windows, NEW at \in Times, NEW fail \in BOOLEAN
    PROVE  Evict(w, at) \in Windows /\ Push(w, fail, at) \in Windows
  <1>1. Evict(w, at) \in Windows
    <2> DEFINE old == {i \in 1 .. Len(w) :
                          \A j \in 1 .. i : w[j].at < at - WindowDuration}
    <2>1. IsFiniteSet(old) /\ Cardinality(old) \in Nat
      <3>1. IsFiniteSet(1 .. Len(w))
        BY FS_Interval DEF Windows
      <3> QED BY <3>1, FS_Subset, FS_CardinalityType
    <2>2. Evict(w, at) = SubSeq(w, 1 + Cardinality(old), Len(w))
      BY DEF Evict
    <2> HIDE DEF old
    <2> DEFINE E == [fail : BOOLEAN, at : Times]
    <2>3. Len(w) \in Nat /\ \A i \in 1 .. Len(w) : w[i] \in E
      <3> HIDE DEF E
      <3>1. w \in Seq(E)
        BY DEF Windows, E
      <3> QED BY <3>1, ElementOfSeq, LenProperties
    <2>4. \A i \in (1 + Cardinality(old)) .. Len(w) : w[i] \in E
      BY <2>1, <2>3
    <2> HIDE DEF E
    <2>5. SubSeq(w, 1 + Cardinality(old), Len(w)) \in Seq(E)
      BY <2>1, <2>3, <2>4, SubSeqProperties
    <2> QED BY <2>2, <2>5 DEF Windows, E
  <1>2. Push(w, fail, at) \in Windows
    <2>1. [fail |-> fail, at |-> at] \in [fail : BOOLEAN, at : Times]
      OBVIOUS
    <2>2. IF Len(w) >= MaxEntries THEN w # << >> ELSE TRUE
      BY BreakerAssumption DEF Windows
    <2>3. (IF Len(w) >= MaxEntries THEN Tail(w) ELSE w) \in Windows
      BY <2>2 DEF Windows
    <2> QED BY <2>1, <2>3 DEF Push, Windows
  <1> QED BY <1>1, <1>2

-----------------------------------------------------------------------------
(* Types.                                                                  *)

\* The locals a step leaves behind.
LEMMA LocalTypes ==
    ASSUME BreakerTypeOK, NEW t \in Threads
    PROVE  /\ th[t] \in Locals /\ Idle \in Locals
           /\ \A pc \in Pcs : /\ [th[t] EXCEPT !.pc = pc] \in Locals
                              /\ [Idle EXCEPT !.pc = pc] \in Locals
           /\ \A pc \in Pcs : [th[t] EXCEPT !.now = now, !.pc = pc] \in Locals
           /\ [th[t] EXCEPT !.pc = "reclaim", !.claimed = claimedAt] \in Locals
           /\ \A p \in BOOLEAN :
                  [Idle EXCEPT !.pc = "running", !.probe = p] \in Locals
           /\ \A f \in BOOLEAN : [Idle EXCEPT !.pc = "push", !.fail = f,
                                      !.now = now, !.seen = state] \in Locals
  <1>0. 0 \in Times
    BY BreakerAssumption DEF Times
  <1>1. th[t] \in Locals
    BY DEF BreakerTypeOK, Locals
  <1>2. Idle \in Locals
    BY <1>0 DEF Idle, Locals, Pcs, States
  <1>3. ASSUME NEW r \in Locals, NEW pc \in Pcs
        PROVE  [r EXCEPT !.pc = pc] \in Locals
    BY DEF Locals
  <1>4. ASSUME NEW r \in Locals, NEW pc \in Pcs, NEW n \in Times
        PROVE  /\ [r EXCEPT !.now = n, !.pc = pc] \in Locals
               /\ [r EXCEPT !.pc = pc, !.claimed = n] \in Locals
    BY DEF Locals
  <1>5. ASSUME NEW r \in Locals, NEW pc \in Pcs, NEW p \in BOOLEAN
        PROVE  [r EXCEPT !.pc = pc, !.probe = p] \in Locals
    BY DEF Locals
  <1>6. ASSUME NEW r \in Locals, NEW pc \in Pcs, NEW f \in BOOLEAN,
               NEW n \in Times, NEW s \in States
        PROVE  [r EXCEPT !.pc = pc, !.fail = f, !.now = n, !.seen = s] \in Locals
    BY DEF Locals
  <1>7. now \in Times /\ claimedAt \in Times /\ state \in States
    BY DEF BreakerTypeOK
  <1>8. {"reclaim", "running", "push"} \subseteq Pcs
    BY DEF Pcs
  <1> QED BY <1>1, <1>2, <1>3, <1>4, <1>5, <1>6, <1>7, <1>8

\* A step of a thread changes its own locals only.
LEMMA LocalStep ==
    ASSUME BreakerTypeOK, NEW t \in Threads, NEW r \in Locals, Local(t, r)
    PROVE  /\ th' \in [Threads -> Locals] /\ th'[t] = r
           /\ \A u \in Threads \ {t} : th'[u] = th[u]
  BY DEF Local, BreakerTypeOK, Locals

\* The threads that are at one of the places P.
At(P) == {t \in Threads : th[t].pc \in P}

\* How the number of threads at a set of places changes with a step.
LEMMA CountStep ==
    ASSUME BreakerTypeOK, NEW t \in Threads, NEW r \in Locals, Local(t, r),
           NEW P
    PROVE  /\ IsFiniteSet(At(P))
           /\ Cardinality(At(P)) \in Nat /\ Cardinality(At(P)') \in Nat
           /\ Cardinality(At(P)) <= Cardinality(Threads)
           /\ th[t].pc \notin P =>
                  Cardinality(At(P)) <= Cardinality(Threads) - 1
           /\ th[t].pc \in P => Cardinality(At(P)) >= 1
           /\ (th[t].pc \in P <=> r.pc \in P) =>
                  Cardinality(At(P)') = Cardinality(At(P))
           /\ th[t].pc \in P /\ r.pc \notin P =>
                  Cardinality(At(P)') = Cardinality(At(P)) - 1
           /\ th[t].pc \notin P /\ r.pc \in P =>
                  Cardinality(At(P)') = Cardinality(At(P)) + 1
  <1>1. IsFiniteSet(Threads) /\ Cardinality(Threads) \in Nat
    BY BreakerAssumption, FS_CardinalityType
  <1>2. /\ IsFiniteSet(At(P)) /\ Cardinality(At(P)) \in Nat
        /\ Cardinality(At(P)) <= Cardinality(Threads)
    <2>1. At(P) \in SUBSET Threads
      BY DEF At
    <2> QED BY <1>1, <2>1, FS_Subset, FS_CardinalityType
  <1>3. th[t].pc \notin P => Cardinality(At(P)) <= Cardinality(Threads) - 1
    <2> SUFFICES ASSUME th[t].pc \notin P
                 PROVE  Cardinality(At(P)) <= Cardinality(Threads) - 1
      OBVIOUS
    <2>1. At(P) \in SUBSET (Threads \ {t})
      BY DEF At
    <2>2. /\ IsFiniteSet(Threads \ {t})
          /\ Cardinality(Threads \ {t}) = Cardinality(Threads) - 1
      BY <1>1, FS_RemoveElement
    <2>3. Cardinality(At(P)) <= Cardinality(Threads \ {t})
      BY <2>1, <2>2, FS_Subset
    <2> QED BY <2>2, <2>3
  <1>4. th[t].pc \in P => Cardinality(At(P)) >= 1
    <2> SUFFICES ASSUME th[t].pc \in P PROVE Cardinality(At(P)) >= 1
      OBVIOUS
    <2>1. At(P) # {}
      BY DEF At
    <2>2. Cardinality(At(P)) # 0
      BY <1>2, <2>1, FS_EmptySet
    <2> QED BY <1>2, <2>2
  <1>5. r.pc \in P => At(P)' = At(P) \cup {t}
    BY LocalStep DEF At
  <1>6. r.pc \notin P => At(P)' = At(P) \ {t}
    BY LocalStep DEF At
  <1>7. t \in At(P) <=> th[t].pc \in P
    BY DEF At
  <1>8. CASE r.pc \in P
    <2>1. /\ IsFiniteSet(At(P) \cup {t})
          /\ Cardinality(At(P) \cup {t}) =
               IF t \in At(P) THEN Cardinality(At(P)) ELSE Cardinality(At(P)) + 1
      BY <1>2, FS_AddElement
    <2>2. Cardinality(At(P)') = IF th[t].pc \in P THEN Cardinality(At(P))
                                ELSE Cardinality(At(P)) + 1
      BY <1>5, <1>7, <1>8, <2>1
    <2>3. Cardinality(At(P)') \in Nat
      BY <1>2, <2>2
    <2> QED BY <1>2, <1>3, <1>4, <1>8, <2>2, <2>3
  <1>9. CASE r.pc \notin P
    <2>1. /\ IsFiniteSet(At(P) \ {t})
          /\ Cardinality(At(P) \ {t}) =
               IF t \in At(P) THEN Cardinality(At(P)) - 1 ELSE Cardinality(At(P))
      BY <1>2, FS_RemoveElement
    <2>2. Cardinality(At(P) \ {t}) \in Nat
      BY <2>1, FS_CardinalityType
    <2>3. Cardinality(At(P)') = IF th[t].pc \in P THEN Cardinality(At(P)) - 1
                                ELSE Cardinality(At(P))
      BY <1>6, <1>7, <1>9, <2>1
    <2>4. Cardinality(At(P)') \in Nat
      BY <1>6, <1>9, <2>2
    <2> QED BY <1>2, <1>3, <1>4, <1>9, <2>3, <2>4
  <1> QED BY <1>8, <1>9

\* The places inside check().
Checking == {"open", "cas", "lost", "mirror", "probe", "claim", "unclaim",
             "lease", "reclaim"}

\* Callers on their way through check() are counted as if they were admitted.
AdmittedBound ==
    admitted + Cardinality(At(Checking)) <= MaxRequests + Cardinality(Threads)

TypeInv == BreakerTypeOK /\ AdmittedBound

\* Steps that change no more of the shared state than their lemma says.

\* A new breaker is closed, and nobody is inside check().
LEMMA BreakerTypeInit == BreakerInit => TypeInv
  <1> SUFFICES ASSUME BreakerInit PROVE TypeInv
    OBVIOUS
  <1>0. /\ 0 \in Times /\ Cardinality(Threads) \in Nat
        /\ MaxRequests \in Nat /\ WordSize \in Nat /\ WordSize > 0
    BY BreakerAssumption, FS_CardinalityType DEF Times
  <1>1. Idle \in Locals
    BY <1>0 DEF Idle, Locals, Pcs, States
  <1>2. episode \in Episodes
    BY <1>0 DEF BreakerInit, Episodes
  <1>3. window \in Windows
    BY DEF BreakerInit, Windows
  <1>4. At(Checking) = {}
    BY DEF BreakerInit, At, Checking, Idle
  <1>5. AdmittedBound
    BY <1>0, <1>4, FS_EmptySet DEF AdmittedBound, BreakerInit
  <1>6. BreakerTypeOK
    <2>1. th \in [Threads -> Locals]
      BY <1>1 DEF BreakerInit
    <2>2. admitted \in 0 .. (MaxRequests + Cardinality(Threads))
      BY <1>0 DEF BreakerInit
    <2>3. probes \in 0 .. (WordSize - 1)
      BY <1>0 DEF BreakerInit
    <2>4. /\ state \in States /\ fast \in BOOLEAN /\ overlap \in BOOLEAN
          /\ openedAt \in Times /\ claimedAt \in Times /\ now \in Times
      BY <1>0 DEF BreakerInit, States
    <2> QED BY <1>2, <1>3, <2>1, <2>2, <2>3, <2>4
            DEF BreakerTypeOK, Locals, Windows, Episodes
  <1> QED BY <1>5, <1>6 DEF TypeInv

\* What a step of a thread that leaves the locals r does to the bound: it is
\* inside check() afterwards only if it was before or may be admitted, and it
\* is admitted from inside check() or while it may be.
Admission(t, r) ==
    \/ /\ admitted' = admitted
       /\ r.pc \in Checking => \/ th[t].pc \in Checking
                               \/ th[t].pc = "idle" /\ admitted < MaxRequests
    \/ /\ admitted' = admitted + 1 /\ r.pc = "running"
       /\ \/ th[t].pc \in Checking
          \/ th[t].pc = "idle" /\ admitted < MaxRequests

ThreadAction(t) ==
    \/ Check(t) \/ CheckStep(t) \/ Cancelled(t) \/ RecordStep(t)
    \/ \E fail \in BOOLEAN : Record(t, fail)

\* A thread that goes on with the locals it has; the next lemmas are about one
\* that returns and one whose check() returned Ok.
LEMMA GotoStep ==
    ASSUME BreakerTypeOK, NEW t \in Threads, NEW pc \in Pcs, Goto(t, pc)
    PROVE  \E r \in Locals : Local(t, r) /\ r.pc = pc
  <1> DEFINE r == [th[t] EXCEPT !.pc = pc]
  <1>1. r \in Locals /\ r.pc = pc
    <2>1. th[t] \in Locals
      BY LocalTypes
    <2> QED BY <2>1 DEF Locals
  <1>2. Local(t, r)
    BY DEF Goto
  <1> HIDE DEF r
  <1> QED BY <1>1, <1>2

\* A call that returns leaves no locals.
LEMMA ReturnStep ==
    ASSUME BreakerTypeOK, NEW t \in Threads, Return(t)
    PROVE  \E r \in Locals : Local(t, r) /\ r.pc = "idle"
  BY LocalTypes DEF Return, Idle

\* An admitted request runs, as a probe or not.
LEMMA AdmitStep ==
    ASSUME BreakerTypeOK, NEW t \in Threads, NEW p \in BOOLEAN, Admit(t, p)
    PROVE  \E r \in Locals : Local(t, r) /\ r.pc = "running"
  <1> DEFINE r == [Idle EXCEPT !.pc = "running", !.probe = p]
  <1>1. r \in Locals
    BY LocalTypes
  <1>2. r.pc = "running"
    BY DEF Idle
  <1>3. Local(t, r)
    BY DEF Admit
  <1> HIDE DEF r
  <1> QED BY <1>1, <1>2, <1>3

\* Every access of check() and record() leaves typed locals, and is admitted
\* from inside check() or from its entry, where the bound was read.
LEMMA ThreadStep ==
    ASSUME BreakerTypeOK, NEW t \in Threads, ThreadAction(t)
    PROVE  \E r \in Locals : Local(t, r) /\ Admission(t, r)
  <1> USE DEF Checking
  <1>p. \A pc \in {"open", "cas", "lost", "mirror", "probe", "claim", "unclaim",
                   "lease", "reclaim", "trip1", "trip2", "trip3", "trip4",
                   "close1", "close2", "close3", "close4"} : pc \in Pcs
    BY DEF Pcs
  <1>1. CASE Check(t)
    <2>1. CASE state = "Closed"
      BY <1>1, <2>1, AdmitStep DEF Check, Admit, Admission
    <2>2. CASE state # "Closed"
      <3>1. PICK pc \in {"open", "probe"} : Goto(t, pc)
        BY <1>1, <2>2 DEF Check
      <3> QED BY <1>1, <1>p, <2>2, <3>1, GotoStep DEF Check, Admission
    <2> QED BY <2>1, <2>2
  <1>2. CASE CheckOpen(t)
    BY <1>2, <1>p, GotoStep, ReturnStep DEF CheckOpen, Admission
  <1>3. CASE CasWon(t) \/ CasLost(t) \/ ClearMirror(t) \/ FetchSub(t)
    BY <1>3, <1>p, GotoStep
       DEF CasWon, CasLost, ClearMirror, FetchSub, Admission
  <1>4. CASE Reevaluate(t)
    <2>1. state \in {"Closed", "HalfOpen", "Open"}
      BY DEF BreakerTypeOK, States
    <2>2. \/ Admit(t, FALSE)
          \/ Goto(t, "probe") /\ admitted' = admitted
          \/ Return(t) /\ admitted' = admitted
      BY <1>4, <2>1 DEF Reevaluate
    <2>3. th[t].pc = "lost"
      BY <1>4 DEF Reevaluate
    <2> QED BY <1>p, <2>2, <2>3, AdmitStep, GotoStep, ReturnStep
            DEF Admit, Admission
  <1>5. CASE FetchAdd(t)
    <2>1. PICK pc \in {"claim", "unclaim"} :
              Local(t, [th[t] EXCEPT !.now = now, !.pc = pc])
      BY <1>5 DEF FetchAdd
    <2> DEFINE r == [th[t] EXCEPT !.now = now, !.pc = pc]
    <2>2. r \in Locals
      BY <1>p, LocalTypes
    <2>3. th[t].pc \in Checking /\ admitted' = admitted
      BY <1>5 DEF FetchAdd
    <2> HIDE DEF r
    <2> QED BY <2>1, <2>2, <2>3 DEF Admission, r
  <1>6. CASE Claim(t) \/ ReclaimWon(t)
    BY <1>6, AdmitStep DEF Claim, ReclaimWon, Admit, Admission
  <1>7. CASE ReadLease(t)
    <2> DEFINE r == [th[t] EXCEPT !.pc = "reclaim", !.claimed = claimedAt]
    <2>1. Local(t, r) \/ Return(t)
      BY <1>7 DEF ReadLease
    <2>2. r \in Locals
      BY LocalTypes
    <2>3. th[t].pc \in Checking /\ admitted' = admitted
      BY <1>7 DEF ReadLease
    <2> HIDE DEF r
    <2> QED BY <2>1, <2>2, <2>3, ReturnStep DEF Admission
  <1>8. CASE ReclaimLost(t) \/ Cancelled(t) \/ TripMirror(t) \/ CloseMirror(t)
    BY <1>8, ReturnStep
       DEF ReclaimLost, Cancelled, TripMirror, CloseMirror, Admission
  <1>9. ASSUME NEW fail \in BOOLEAN, Record(t, fail)
        PROVE  \E r \in Locals : Local(t, r) /\ Admission(t, r)
    <2>0. admitted' = admitted
      BY <1>9 DEF Record
    <2>1. CASE state = "HalfOpen"
      <3>1. PICK pc \in {"trip1", "close1"} : Local(t, [Idle EXCEPT !.pc = pc])
        BY <1>9, <2>1 DEF Record
      <3> DEFINE r == [Idle EXCEPT !.pc = pc]
      <3>2. r \in Locals /\ r.pc = pc
        BY <1>p, LocalTypes DEF Idle
      <3> HIDE DEF r
      <3> QED BY <2>0, <3>1, <3>2 DEF Admission, r
    <2>2. CASE state # "HalfOpen"
      <3> DEFINE r == [Idle EXCEPT !.pc = "push", !.fail = fail, !.now = now,
                                   !.seen = state]
      <3>1. Local(t, r)
        BY <1>9, <2>2 DEF Record
      <3>2. r \in Locals /\ r.pc = "push"
        BY LocalTypes DEF Idle
      <3> HIDE DEF r
      <3> QED BY <2>0, <3>1, <3>2 DEF Admission
    <2> QED BY <2>1, <2>2
  <1>10. CASE RecordInWindow(t)
    <2> DEFINE r == [Idle EXCEPT !.pc = "trip1"]
    <2>1. Local(t, r) \/ Return(t)
      BY <1>10 DEF RecordInWindow
    <2>2. r \in Locals /\ r.pc = "trip1"
      BY <1>p, LocalTypes DEF Idle
    <2>3. admitted' = admitted
      BY <1>10 DEF RecordInWindow
    <2> HIDE DEF r
    <2> QED BY <2>1, <2>2, <2>3, ReturnStep DEF Admission
  <1>11. CASE \/ TripState(t) \/ TripOpenedAt(t) \/ TripProbes(t)
              \/ CloseState(t) \/ CloseWindow(t) \/ CloseProbes(t)
    <2>1. PICK pc \in {"trip2", "trip3", "trip4", "close2", "close3", "close4"} :
              Goto(t, pc)
      BY <1>11 DEF TripState, TripOpenedAt, TripProbes, CloseState, CloseWindow,
                   CloseProbes, ZeroProbes
    <2>2. admitted' = admitted
      BY <1>11 DEF TripState, TripOpenedAt, TripProbes, CloseState, CloseWindow,
                   CloseProbes, ZeroProbes
    <2> QED BY <1>p, <2>1, <2>2, GotoStep DEF Admission
  <1> QED BY <1>1, <1>2, <1>3, <1>4, <1>5, <1>6, <1>7, <1>8, <1>9, <1>10,
             <1>11 DEF ThreadAction, CheckStep, RecordStep

\* So a step of a thread keeps the bound on admitted requests.
LEMMA ThreadBound ==
    ASSUME TypeInv, NEW t \in Threads, ThreadAction(t)
    PROVE  /\ th' \in [Threads -> Locals]
           /\ admitted' \in 0 .. (MaxRequests + Cardinality(Threads))
           /\ AdmittedBound'
  <1>1. PICK r \in Locals : Local(t, r) /\ Admission(t, r)
    BY ThreadStep DEF TypeInv
  <1>2. th' \in [Threads -> Locals]
    BY <1>1, LocalStep DEF TypeInv
  <1> DEFINE c == Cardinality(At(Checking))
             d == Cardinality(At(Checking)')
             n == Cardinality(Threads)
  <1>3. /\ c \in Nat /\ d \in Nat /\ c <= n
        /\ th[t].pc \notin Checking => c <= n - 1
        /\ th[t].pc \in Checking => c >= 1
        /\ (th[t].pc \in Checking <=> r.pc \in Checking) => d = c
        /\ th[t].pc \in Checking /\ r.pc \notin Checking => d = c - 1
        /\ th[t].pc \notin Checking /\ r.pc \in Checking => d = c + 1
    BY <1>1, CountStep DEF TypeInv
  <1>4. /\ n \in Nat /\ admitted \in Nat /\ MaxRequests \in Nat
        /\ admitted + c <= MaxRequests + n
    BY BreakerAssumption, FS_CardinalityType
       DEF TypeInv, BreakerTypeOK, AdmittedBound
  <1>5. "idle" \notin Checking /\ "running" \notin Checking
    BY DEF Checking
  <1> HIDE DEF c, d, n
  <1>6. admitted' \in Nat /\ admitted' + d <= MaxRequests + n
    BY <1>1, <1>3, <1>4, <1>5 DEF Admission
  <1>7. admitted' \in 0 .. (MaxRequests + n)
    BY <1>3, <1>4, <1>6
  <1> QED BY <1>2, <1>6, <1>7 DEF AdmittedBound, c, d, n

\* The shared state and the history keep their types in a step of a thread.
LEMMA SharedTypes ==
    ASSUME BreakerTypeOK, NEW t \in Threads, ThreadAction(t)
    PROVE  /\ state' \in States /\ openedAt' \in Times /\ claimedAt' \in Times
           /\ now' \in Times /\ probes' \in 0 .. (WordSize - 1)
           /\ fast' \in BOOLEAN /\ overlap' \in BOOLEAN
           /\ window' \in Windows /\ episode' \in Episodes
  <1>0. /\ th[t] \in Locals /\ window \in Windows /\ episode \in Episodes
        /\ probes \in Nat /\ probes < WordSize /\ WordSize \in Nat
        /\ th[t].now \in Times /\ th[t].fail \in BOOLEAN
    <2>1. th[t] \in Locals
      BY LocalTypes
    <2>2. th[t].now \in Times /\ th[t].fail \in BOOLEAN
      BY <2>1 DEF Locals
    <2>3. probes \in Nat /\ probes < WordSize /\ WordSize \in Nat
      BY BreakerAssumption DEF BreakerTypeOK
    <2> QED BY <2>1, <2>2, <2>3 DEF BreakerTypeOK, Windows, Episodes
  <1>1. CASE \/ Check(t) \/ CheckOpen(t) \/ CasLost(t) \/ Reevaluate(t)
             \/ ReadLease(t) \/ ReclaimLost(t) \/ Cancelled(t)
             \/ \E fail \in BOOLEAN : Record(t, fail)
    <2>1. UNCHANGED <<shared, now, episode, overlap>>
      BY <1>1 DEF Check, CheckOpen, CasLost, Reevaluate, ReadLease, ReclaimLost,
                  Cancelled, Record
    <2> QED BY <1>0, <2>1 DEF shared, BreakerTypeOK
  <1>2. CASE CasWon(t)
    <2> DEFINE b == probes # 0 \/ \E u \in Threads : th[u].pc = "unclaim"
    <2>1. /\ episode' = [since |-> now, fresh |-> 0, taken |-> 0, raced |-> b]
          /\ state' = "HalfOpen" /\ overlap' \in BOOLEAN
          /\ UNCHANGED <<openedAt, probes, claimedAt, fast, window, now>>
      BY <1>2 DEF CasWon, Transition
    <2>2. b \in BOOLEAN /\ now \in Times
      BY DEF BreakerTypeOK
    <2> HIDE DEF b
    <2>3. episode' \in Episodes
      BY <2>1, <2>2 DEF Episodes
    <2> QED BY <1>0, <2>1, <2>3 DEF BreakerTypeOK, States
  <1>3. CASE ClearMirror(t) \/ TripMirror(t) \/ CloseMirror(t)
    BY <1>0, <1>3 DEF ClearMirror, TripMirror, CloseMirror, BreakerTypeOK
  <1>4. CASE FetchAdd(t)
    <2>1. probes' \in 0 .. (WordSize - 1)
      BY <1>0, <1>4, Words DEF FetchAdd
    <2>2. episode' \in Episodes
      <3>1. episode' = episode \/ episode' = [episode EXCEPT !.fresh = @ + 1]
        BY <1>4 DEF FetchAdd
      <3> QED BY <1>0, <3>1 DEF Episodes
    <2> QED BY <1>0, <1>4, <2>1, <2>2 DEF FetchAdd, BreakerTypeOK
  <1>5. CASE Claim(t)
    BY <1>0, <1>5 DEF Claim, BreakerTypeOK
  <1>6. CASE FetchSub(t)
    <2>1. probes' \in 0 .. (WordSize - 1)
      BY <1>0, <1>6, Words DEF FetchSub
    <2> QED BY <1>0, <1>6, <2>1 DEF FetchSub, BreakerTypeOK
  <1>7. CASE ReclaimWon(t)
    <2>1. episode' \in Episodes
      BY <1>0, <1>7 DEF ReclaimWon, Episodes
    <2> QED BY <1>0, <1>7, <2>1 DEF ReclaimWon, BreakerTypeOK
  <1>8. CASE RecordInWindow(t)
    <2>1. window' \in Windows
      BY <1>0, <1>8, WindowTypes DEF RecordInWindow
    <2> QED BY <1>0, <1>8, <2>1 DEF RecordInWindow, BreakerTypeOK
  <1>9. CASE TripState(t) \/ CloseState(t)
    <2>1. state' \in States /\ overlap' \in BOOLEAN
      BY <1>9 DEF TripState, CloseState, Transition, States
    <2> QED BY <1>0, <1>9, <2>1 DEF TripState, CloseState, BreakerTypeOK
  <1>10. CASE TripOpenedAt(t)
    BY <1>0, <1>10 DEF TripOpenedAt, BreakerTypeOK
  <1>11. CASE TripProbes(t) \/ CloseProbes(t)
    <2>1. PICK next : ZeroProbes(t, next)
      BY <1>11 DEF TripProbes, CloseProbes
    <2>2. episode' \in Episodes
      BY <1>0, <2>1 DEF ZeroProbes, Episodes
    <2>3. probes' \in 0 .. (WordSize - 1)
      BY <1>0, <2>1 DEF ZeroProbes
    <2> QED BY <1>0, <2>1, <2>2, <2>3 DEF ZeroProbes, BreakerTypeOK
  <1>12. CASE CloseWindow(t)
    <2>1. window' \in Windows
      BY <1>12 DEF CloseWindow, Windows
    <2> QED BY <1>0, <1>12, <2>1 DEF CloseWindow, BreakerTypeOK
  <1> QED BY <1>1, <1>2, <1>3, <1>4, <1>5, <1>6, <1>7, <1>8, <1>9, <1>10,
             <1>11, <1>12 DEF ThreadAction, CheckStep, RecordStep

\* Every step keeps the types, the one of the probe counter included.
LEMMA BreakerTypeNext == TypeInv /\ [BreakerNext]_vars => TypeInv'
  <1> SUFFICES ASSUME TypeInv, [BreakerNext]_vars PROVE TypeInv'
    OBVIOUS
  <1>0. now \in Times /\ window \in Windows
    BY DEF TypeInv, BreakerTypeOK, Windows
  <1>1. CASE Tick
    <2>1. now' \in Times
      BY <1>0, <1>1, BreakerAssumption DEF Tick, Times
    <2>2. AdmittedBound'
      BY <1>1 DEF Tick, TypeInv, AdmittedBound, At
    <2> QED BY <1>1, <2>1, <2>2 DEF Tick, shared, TypeInv, BreakerTypeOK
  <1>2. CASE ErrorRate
    <2>1. window' \in Windows
      BY <1>0, <1>2, WindowTypes DEF ErrorRate
    <2>2. AdmittedBound'
      BY <1>2 DEF ErrorRate, TypeInv, AdmittedBound, At
    <2> QED BY <1>2, <2>1, <2>2 DEF ErrorRate, TypeInv, BreakerTypeOK, Windows
  <1>3. ASSUME NEW t \in Threads, ThreadAction(t) PROVE TypeInv'
    <2>1. BreakerTypeOK
      BY DEF TypeInv
    <2> QED BY <1>3, <2>1, ThreadBound, SharedTypes
            DEF TypeInv, BreakerTypeOK, Locals, Windows, Episodes
  <1>4. CASE UNCHANGED vars
    BY <1>4 DEF vars, shared, TypeInv, BreakerTypeOK, AdmittedBound, At
  <1> QED BY <1>1, <1>2, <1>3, <1>4 DEF BreakerNext, ThreadAction

\* The breaker's atomics keep their types for any number of callers: the probe
\* counter stays a usize through every fetch_add and fetch_sub, the ones that
\* race with a transition's reset included.
THEOREM BreakerTypeCorrect == BreakerSafeSpec => []BreakerTypeOK
  <1>1. TypeInv => BreakerTypeOK
    BY DEF TypeInv
  <1> QED BY <1>1, BreakerTypeInit, BreakerTypeNext, PTL DEF BreakerSafeSpec

-----------------------------------------------------------------------------
(* The mirror.                                                             *)

\* The places between the state store of a transition and its mirror store.
Midway == {"mirror", "trip2", "trip3", "trip4", "close2", "close3", "close4"}

\* While no two transitions have overlapped: one thread at most is midway, the
\* state is the one it stored, and the mirror is right when there is none.
MirrorInv ==
    ~overlap =>
      /\ \A t, u \in Threads :
             th[t].pc \in Midway /\ th[u].pc \in Midway => t = u
      /\ \A t \in Threads :
             /\ th[t].pc = "mirror" => state = "HalfOpen"
             /\ th[t].pc \in {"trip2", "trip3", "trip4"} => state = "Open"
             /\ th[t].pc \in {"close2", "close3", "close4"} => state = "Closed"
      /\ (\A t \in Threads : th[t].pc \notin Midway) =>
             (fast <=> state = "Open")

\* Steps outside the transitions.
LEMMA QuietMirror ==
    ASSUME BreakerTypeOK, MirrorInv, UNCHANGED <<state, fast, overlap>>,
           NEW t \in Threads, NEW r \in Locals, Local(t, r),
           \/ th[t].pc \notin Midway /\ r.pc \notin Midway
           \/ th[t].pc \in {"trip2", "trip3"} /\ r.pc \in {"trip3", "trip4"}
           \/ th[t].pc \in {"close2", "close3"} /\ r.pc \in {"close3", "close4"}
    PROVE  MirrorInv'
  <1>1. /\ th'[t] = r
        /\ \A u \in Threads \ {t} : th'[u] = th[u]
    BY LocalStep
  <1>2. \A u \in Threads : th'[u].pc \in Midway <=> th[u].pc \in Midway
    BY <1>1 DEF Midway
  <1>3. \A u \in Threads :
            /\ th'[u].pc = "mirror" => th[u].pc = "mirror"
            /\ th'[u].pc \in {"trip2", "trip3", "trip4"} =>
                   th[u].pc \in {"trip2", "trip3", "trip4"}
            /\ th'[u].pc \in {"close2", "close3", "close4"} =>
                   th[u].pc \in {"close2", "close3", "close4"}
    BY <1>1 DEF Midway
  <1> QED BY <1>2, <1>3 DEF MirrorInv

\* The state store of a transition: if none is midway, this is the only one.
LEMMA BeginTransition ==
    ASSUME BreakerTypeOK, MirrorInv, NEW t \in Threads, NEW r \in Locals,
           Local(t, r), Transition(t),
           \/ r.pc = "mirror" /\ state' = "HalfOpen"
           \/ r.pc = "trip2" /\ state' = "Open"
           \/ r.pc = "close2" /\ state' = "Closed"
    PROVE  MirrorInv'
  <1> SUFFICES ASSUME ~overlap' PROVE MirrorInv'
    BY DEF MirrorInv
  <1>1. \A u \in Threads \ {t} : th[u].pc \notin Midway
    BY DEF Transition, Midway
  <1>2. /\ th'[t] = r
        /\ \A u \in Threads \ {t} : th'[u] = th[u]
    BY LocalStep
  <1>3. \A u \in Threads : th'[u].pc \in Midway => u = t
    BY <1>1, <1>2
  <1>4. \A u \in Threads :
             /\ th'[u].pc = "mirror" => state' = "HalfOpen"
             /\ th'[u].pc \in {"trip2", "trip3", "trip4"} => state' = "Open"
             /\ th'[u].pc \in {"close2", "close3", "close4"} => state' = "Closed"
    BY <1>2, <1>3 DEF Midway
  <1>5. th'[t].pc \in Midway
    BY <1>2 DEF Midway
  <1> QED BY <1>3, <1>4, <1>5 DEF MirrorInv

\* The mirror store of a transition: nobody else is midway.
LEMMA EndTransition ==
    ASSUME BreakerTypeOK, MirrorInv, NEW t \in Threads, NEW r \in Locals,
           Local(t, r), r.pc \notin Midway, UNCHANGED <<state, overlap>>,
           \/ th[t].pc = "mirror" /\ fast' = FALSE
           \/ th[t].pc = "trip4" /\ fast' = TRUE
           \/ th[t].pc = "close4" /\ fast' = FALSE
    PROVE  MirrorInv'
  <1> SUFFICES ASSUME ~overlap' PROVE MirrorInv'
    BY DEF MirrorInv
  <1>1. \A u \in Threads \ {t} : th[u].pc \notin Midway
    BY DEF MirrorInv, Midway
  <1>2. /\ th'[t] = r
        /\ \A u \in Threads \ {t} : th'[u] = th[u]
    BY LocalStep
  <1>3. \A u \in Threads : th'[u].pc \notin Midway
    BY <1>1, <1>2
  <1>4. fast' <=> state' = "Open"
    BY DEF MirrorInv
  <1>5. \A u \in Threads :
             th'[u].pc \notin {"mirror", "trip2", "trip3", "trip4", "close2",
                               "close3", "close4"}
    BY <1>3 DEF Midway
  <1> QED BY <1>3, <1>4, <1>5 DEF MirrorInv

\* A place outside the transitions; only fetch_add leads to "unclaim".
QuietPlace(t, r) ==
    /\ Local(t, r) /\ r.pc \notin Midway
    /\ r.pc = "unclaim" => FetchAdd(t)

\* Where a step of check() or record() that is no transition leads.
LEMMA QuietPlaces ==
    ASSUME BreakerTypeOK, NEW t \in Threads,
           \/ Check(t) \/ CheckOpen(t) \/ CasLost(t) \/ Reevaluate(t)
           \/ FetchAdd(t) \/ Claim(t) \/ FetchSub(t) \/ ReadLease(t)
           \/ ReclaimWon(t) \/ ReclaimLost(t) \/ Cancelled(t)
           \/ RecordInWindow(t) \/ \E fail \in BOOLEAN : Record(t, fail)
    PROVE  /\ th[t].pc \notin Midway
           /\ \E r \in Locals : QuietPlace(t, r)
           /\ UNCHANGED <<state, fast, overlap>>
  <1> USE DEF Midway, QuietPlace
  <1>p. \A pc \in {"open", "cas", "lost", "probe", "claim", "unclaim", "lease",
                   "reclaim", "trip1", "close1"} : pc \in Pcs
    BY DEF Pcs
  <1>0. /\ th[t].pc \notin Midway
        /\ UNCHANGED <<state, fast, overlap>>
    BY DEF Check, CheckOpen, CasLost, Reevaluate, FetchAdd, Claim, FetchSub,
           ReadLease, ReclaimWon, ReclaimLost, Cancelled, RecordInWindow, Record,
           shared
  <1>1. CASE Check(t)
    <2>1. \/ Admit(t, FALSE)
          \/ \E pc \in {"open", "probe"} : Goto(t, pc)
      BY <1>1 DEF Check
    <2>2. CASE Admit(t, FALSE)
      BY <1>0, <2>2, AdmitStep
    <2>3. ASSUME NEW pc \in {"open", "probe"}, Goto(t, pc)
          PROVE  \E r \in Locals : QuietPlace(t, r)
      BY <1>p, <2>3, GotoStep
    <2> QED BY <1>0, <2>1, <2>2, <2>3
  <1>2. CASE CheckOpen(t)
    BY <1>0, <1>2, <1>p, GotoStep, ReturnStep DEF CheckOpen
  <1>3. CASE CasLost(t) \/ FetchSub(t)
    BY <1>0, <1>3, <1>p, GotoStep DEF CasLost, FetchSub
  <1>4. CASE Reevaluate(t)
    <2>1. state \in {"Closed", "HalfOpen", "Open"}
      BY DEF BreakerTypeOK, States
    <2>2. Admit(t, FALSE) \/ Goto(t, "probe") \/ Return(t)
      BY <1>4, <2>1 DEF Reevaluate
    <2>3. CASE Admit(t, FALSE)
      BY <1>0, <2>3, AdmitStep
    <2>4. CASE Goto(t, "probe")
      BY <1>0, <1>p, <2>4, GotoStep
    <2>5. CASE Return(t)
      BY <1>0, <2>5, ReturnStep
    <2> QED BY <2>2, <2>3, <2>4, <2>5
  <1>5. CASE FetchAdd(t)
    <2>1. PICK pc \in {"claim", "unclaim"} :
              Local(t, [th[t] EXCEPT !.now = now, !.pc = pc])
      BY <1>5 DEF FetchAdd
    <2> DEFINE r == [th[t] EXCEPT !.now = now, !.pc = pc]
    <2>2. r \in Locals /\ r.pc = pc
      <3>1. th[t] \in Locals /\ r \in Locals
        BY <1>p, LocalTypes
      <3> QED BY <3>1 DEF Locals
    <2>3. Local(t, r) /\ r.pc \notin Midway
      BY <2>1, <2>2
    <2> HIDE DEF r
    <2> QED BY <1>0, <1>5, <2>2, <2>3
  <1>6. CASE Claim(t) \/ ReclaimWon(t)
    BY <1>0, <1>6, AdmitStep DEF Claim, ReclaimWon
  <1>7. CASE ReadLease(t)
    <2> DEFINE r == [th[t] EXCEPT !.pc = "reclaim", !.claimed = claimedAt]
    <2>1. Local(t, r) \/ Return(t)
      BY <1>7 DEF ReadLease
    <2>2. r \in Locals /\ r.pc = "reclaim"
      <3>1. th[t] \in Locals /\ r \in Locals
        BY LocalTypes
      <3> QED BY <3>1 DEF Locals
    <2> HIDE DEF r
    <2> QED BY <1>0, <2>1, <2>2, ReturnStep
  <1>8. CASE ReclaimLost(t) \/ Cancelled(t)
    BY <1>0, <1>8, ReturnStep DEF ReclaimLost, Cancelled
  <1>9. ASSUME NEW fail \in BOOLEAN, Record(t, fail)
        PROVE  \E r \in Locals : QuietPlace(t, r)
    <2>1. CASE state = "HalfOpen"
      <3>1. PICK pc \in {"trip1", "close1"} : Local(t, [Idle EXCEPT !.pc = pc])
        BY <1>9, <2>1 DEF Record
      <3> DEFINE r == [Idle EXCEPT !.pc = pc]
      <3>2. r \in Locals /\ r.pc = pc
        BY <1>p, LocalTypes DEF Idle
      <3> HIDE DEF r
      <3> QED BY <3>1, <3>2 DEF r
    <2>2. CASE state # "HalfOpen"
      <3> DEFINE r == [Idle EXCEPT !.pc = "push", !.fail = fail, !.now = now,
                                   !.seen = state]
      <3>1. Local(t, r)
        BY <1>9, <2>2 DEF Record
      <3>2. r \in Locals /\ r.pc = "push"
        BY LocalTypes DEF Idle
      <3> HIDE DEF r
      <3> QED BY <3>1, <3>2
    <2> QED BY <2>1, <2>2
  <1>10. CASE RecordInWindow(t)
    <2> DEFINE r == [Idle EXCEPT !.pc = "trip1"]
    <2>1. Local(t, r) \/ Return(t)
      BY <1>10 DEF RecordInWindow
    <2>2. r \in Locals /\ r.pc = "trip1"
      BY <1>p, LocalTypes DEF Idle
    <2> HIDE DEF r
    <2> QED BY <1>0, <2>1, <2>2, ReturnStep
  <1> QED BY <1>0, <1>1, <1>2, <1>3, <1>4, <1>5, <1>6, <1>7, <1>8, <1>9, <1>10

\* One step per kind of access: outside the transitions, the state store that
\* begins one, the stores in its middle, and the mirror store that ends it.
LEMMA MirrorNext == BreakerTypeOK /\ MirrorInv /\ [BreakerNext]_vars => MirrorInv'
  <1> SUFFICES ASSUME BreakerTypeOK, MirrorInv, [BreakerNext]_vars
               PROVE  MirrorInv'
    OBVIOUS
  <1>p. \A pc \in {"mirror", "probe", "trip2", "trip3", "trip4", "close2",
                   "close3", "close4"} : pc \in Pcs
    BY DEF Pcs
  <1>1. CASE Tick \/ ErrorRate \/ UNCHANGED vars
    <2>1. UNCHANGED <<state, fast, overlap, th>>
      BY <1>1 DEF Tick, ErrorRate, vars, shared
    <2> QED BY <2>1 DEF MirrorInv
  <1>2. ASSUME NEW t \in Threads, ThreadAction(t) PROVE MirrorInv'
    <2>1. CASE \/ Check(t) \/ CheckOpen(t) \/ CasLost(t) \/ Reevaluate(t)
               \/ FetchAdd(t) \/ Claim(t) \/ FetchSub(t) \/ ReadLease(t)
               \/ ReclaimWon(t) \/ ReclaimLost(t) \/ Cancelled(t)
               \/ RecordInWindow(t) \/ \E fail \in BOOLEAN : Record(t, fail)
      BY <2>1, QuietPlaces, QuietMirror DEF QuietPlace
    <2>2. CASE CasWon(t)
      <3>1. Transition(t) /\ state' = "HalfOpen" /\ Goto(t, "mirror")
        BY <2>2 DEF CasWon
      <3> QED BY <1>p, <3>1, GotoStep, BeginTransition
    <2>3. CASE TripState(t)
      <3>1. Transition(t) /\ state' = "Open" /\ Goto(t, "trip2")
        BY <2>3 DEF TripState
      <3> QED BY <1>p, <3>1, GotoStep, BeginTransition
    <2>4. CASE CloseState(t)
      <3>1. Transition(t) /\ state' = "Closed" /\ Goto(t, "close2")
        BY <2>4 DEF CloseState
      <3> QED BY <1>p, <3>1, GotoStep, BeginTransition
    <2>5. CASE TripOpenedAt(t) \/ TripProbes(t) \/ CloseWindow(t) \/ CloseProbes(t)
      <3>1. UNCHANGED <<state, fast, overlap>>
        BY <2>5 DEF TripOpenedAt, TripProbes, CloseWindow, CloseProbes, ZeroProbes
      <3>2. \/ th[t].pc = "trip2" /\ Goto(t, "trip3")
            \/ th[t].pc = "trip3" /\ Goto(t, "trip4")
            \/ th[t].pc = "close2" /\ Goto(t, "close3")
            \/ th[t].pc = "close3" /\ Goto(t, "close4")
        BY <2>5 DEF TripOpenedAt, TripProbes, CloseWindow, CloseProbes, ZeroProbes
      <3> QED BY <1>p, <3>1, <3>2, GotoStep, QuietMirror
    <2>6. CASE ClearMirror(t)
      <3>1. /\ th[t].pc = "mirror" /\ fast' = FALSE /\ Goto(t, "probe")
            /\ UNCHANGED <<state, overlap>>
        BY <2>6 DEF ClearMirror
      <3>2. "probe" \notin Midway
        BY DEF Midway
      <3>3. PICK r \in Locals : Local(t, r) /\ r.pc = "probe"
        BY <1>p, <3>1, GotoStep
      <3> QED BY <3>1, <3>2, <3>3, EndTransition
    <2>7. CASE TripMirror(t) \/ CloseMirror(t)
      <3>1. /\ \/ th[t].pc = "trip4" /\ fast' = TRUE
               \/ th[t].pc = "close4" /\ fast' = FALSE
            /\ Return(t) /\ UNCHANGED <<state, overlap>>
        BY <2>7 DEF TripMirror, CloseMirror
      <3>2. "idle" \notin Midway
        BY DEF Midway
      <3> QED BY <3>1, <3>2, ReturnStep, EndTransition
    <2> QED BY <1>2, <2>1, <2>2, <2>3, <2>4, <2>5, <2>6, <2>7
            DEF ThreadAction, CheckStep, RecordStep
  <1> QED BY <1>1, <1>2 DEF BreakerNext, ThreadAction

\* is_open() agrees with the authoritative state whenever no call is inside
\* check() or record(), as long as no two transitions have overlapped.
THEOREM BreakerMirrorFollowsState == BreakerSafeSpec => []MirrorFollowsState
  <1>1. BreakerInit => MirrorInv
    BY DEF BreakerInit, Idle, MirrorInv, Midway
  <1>2. MirrorInv => MirrorFollowsState
    BY DEF MirrorInv, MirrorFollowsState, Quiet, Midway
  <1> QED BY <1>1, <1>2, MirrorNext, BreakerTypeCorrect, PTL DEF BreakerSafeSpec

-----------------------------------------------------------------------------
(* The probe slots.                                                        *)

\* In a half-open episode that started at zero and was not zeroed, the counter
\* is the number of slots handed out plus the callers that have counted
\* themselves and not yet taken themselves off again.
SlotInv ==
    state = "HalfOpen" /\ ~episode.raced =>
        /\ probes = episode.fresh + Cardinality(At({"unclaim"}))
        /\ episode.fresh <= MaxProbes

\* Steps that touch neither the counter nor the episode and do not enter it.
LEMMA QuietSlots ==
    ASSUME SlotInv, BreakerTypeOK, probes' = probes,
           episode'.fresh = episode.fresh,
           episode'.raced <=> episode.raced,
           state' = "HalfOpen" => state = "HalfOpen",
           NEW t \in Threads, NEW r \in Locals, Local(t, r),
           th[t].pc # "unclaim", r.pc # "unclaim"
    PROVE  SlotInv'
  <1>1. Cardinality(At({"unclaim"})') = Cardinality(At({"unclaim"}))
    BY CountStep
  <1> QED BY <1>1 DEF SlotInv

\* fetch_add and fetch_sub move the counter and its two parts alike; a new
\* episode starts from zero or is marked; zeroing marks it.
LEMMA SlotNext == BreakerTypeOK /\ SlotInv /\ [BreakerNext]_vars => SlotInv'
  <1> SUFFICES ASSUME BreakerTypeOK, SlotInv, [BreakerNext]_vars
               PROVE  SlotInv'
    OBVIOUS
  <1>0. /\ episode \in Episodes /\ probes \in Nat /\ probes < WordSize
        /\ MaxProbes \in Nat /\ WordSize \in Nat
        /\ WordSize > MaxProbes + Cardinality(Threads)
        /\ Cardinality(Threads) \in Nat
    BY BreakerAssumption, FS_CardinalityType DEF BreakerTypeOK, Episodes
  <1>1. CASE Tick \/ ErrorRate \/ UNCHANGED vars
    <2>1. UNCHANGED <<state, probes, episode, th>>
      BY <1>1 DEF Tick, ErrorRate, vars, shared
    <2> QED BY <2>1 DEF SlotInv, At
  <1>2. ASSUME NEW t \in Threads, ThreadAction(t) PROVE SlotInv'
    <2>0. PICK r \in Locals : Local(t, r)
      BY <1>2, ThreadStep
    <2>c. th'[t] = r
      BY <2>0, LocalStep
    <2>1. CASE FetchAdd(t)
      <3> DEFINE c == Cardinality(At({"unclaim"}))
                 d == Cardinality(At({"unclaim"})')
      <3>1. /\ th[t].pc = "probe"
            /\ probes' = (probes + 1) % WordSize /\ state' = state
            /\ r.pc = IF probes < MaxProbes THEN "claim" ELSE "unclaim"
            /\ episode' = IF probes < MaxProbes
                          THEN [episode EXCEPT !.fresh = @ + 1] ELSE episode
        <4>1. Local(t, [th[t] EXCEPT !.now = now,
                    !.pc = IF probes < MaxProbes THEN "claim" ELSE "unclaim"])
          BY <2>1 DEF FetchAdd
        <4>2. th'[t] = [th[t] EXCEPT !.now = now,
                    !.pc = IF probes < MaxProbes THEN "claim" ELSE "unclaim"]
          BY <4>1 DEF Local, BreakerTypeOK
        <4>3. th[t] \in Locals
          BY LocalTypes
        <4>4. th'[t].pc = IF probes < MaxProbes THEN "claim" ELSE "unclaim"
          BY <4>2, <4>3 DEF Locals
        <4> QED BY <2>1, <2>c, <4>4 DEF FetchAdd
      <3>2. /\ c \in Nat /\ d \in Nat /\ c <= Cardinality(Threads) - 1
            /\ r.pc = "unclaim" => d = c + 1
            /\ r.pc # "unclaim" => d = c
        BY <2>0, <3>1, CountStep
      <3> HIDE DEF c, d
      <3> SUFFICES ASSUME state = "HalfOpen", ~episode'.raced
                   PROVE  /\ probes' = episode'.fresh + d
                          /\ episode'.fresh <= MaxProbes
        BY <3>1 DEF SlotInv, c, d
      <3>3. ~episode.raced
        BY <1>0, <3>1 DEF Episodes
      <3>4. /\ probes = episode.fresh + c /\ episode.fresh <= MaxProbes
            /\ episode.fresh \in Nat
        BY <1>0, <3>3 DEF SlotInv, c, Episodes
      <3>5. probes' = probes + 1
        <4>1. probes + 1 \in Nat /\ probes + 1 < WordSize
          BY <1>0, <3>2, <3>4
        <4> QED BY <3>1, <4>1, Words
      <3>6. CASE probes < MaxProbes
        <4>1. episode'.fresh = episode.fresh + 1
          BY <1>0, <3>1, <3>6 DEF Episodes
        <4> QED BY <1>0, <3>1, <3>2, <3>4, <3>5, <3>6, <4>1
      <3>7. CASE ~(probes < MaxProbes)
        <4>1. episode' = episode
          BY <3>1, <3>7
        <4> QED BY <1>0, <3>1, <3>2, <3>4, <3>5, <3>7, <4>1
      <3> QED BY <3>6, <3>7
    <2>2. CASE FetchSub(t)
      <3> DEFINE c == Cardinality(At({"unclaim"}))
                 d == Cardinality(At({"unclaim"})')
      <3>1. /\ th[t].pc = "unclaim"
            /\ probes' = (probes + WordSize - 1) % WordSize
            /\ UNCHANGED <<state, episode>>
        BY <2>2 DEF FetchSub
      <3>2. PICK q \in Locals : Local(t, q) /\ q.pc = "lease"
        BY <2>2, GotoStep DEF FetchSub, Pcs
      <3>3. c \in Nat /\ d \in Nat /\ c >= 1 /\ d = c - 1
        BY <3>1, <3>2, CountStep
      <3> HIDE DEF c, d
      <3> SUFFICES ASSUME state = "HalfOpen", ~episode.raced
                   PROVE  probes' = episode.fresh + d /\ episode.fresh <= MaxProbes
        BY <3>1 DEF SlotInv, d
      <3>4. /\ probes = episode.fresh + c /\ episode.fresh <= MaxProbes
            /\ episode.fresh \in Nat
        BY <1>0 DEF SlotInv, c, Episodes
      <3>5. probes' = probes - 1
        <4>1. probes - 1 \in Nat /\ probes - 1 < WordSize
          BY <1>0, <3>3, <3>4
        <4>2. probes + WordSize - 1 = (probes - 1) + WordSize
          BY <1>0
        <4>3. ((probes - 1) + WordSize) % WordSize = probes - 1
          BY <4>1, Words
        <4> QED BY <3>1, <4>2, <4>3
      <3> QED BY <3>3, <3>4, <3>5
    <2>3. CASE CasWon(t)
      <3> DEFINE b == probes # 0 \/ \E u \in Threads : th[u].pc = "unclaim"
      <3>1. /\ episode' = [since |-> now, fresh |-> 0, taken |-> 0, raced |-> b]
            /\ probes' = probes /\ th[t].pc = "cas"
        BY <2>3 DEF CasWon
      <3>2. PICK q \in Locals : Local(t, q) /\ q.pc = "mirror"
        BY <2>3, GotoStep DEF CasWon, Pcs
      <3>3. Cardinality(At({"unclaim"})') = Cardinality(At({"unclaim"}))
        BY <3>1, <3>2, CountStep
      <3>4. ~b => probes = 0 /\ Cardinality(At({"unclaim"})) = 0
        <4> SUFFICES ASSUME ~b
                     PROVE  probes = 0 /\ Cardinality(At({"unclaim"})) = 0
          OBVIOUS
        <4>1. At({"unclaim"}) = {}
          BY DEF At
        <4> QED BY <4>1, FS_EmptySet
      <3>5. episode'.fresh = 0 /\ (episode'.raced <=> b)
        BY <3>1
      <3> HIDE DEF b
      <3> QED BY <1>0, <3>1, <3>3, <3>4, <3>5 DEF SlotInv
    <2>4. CASE TripProbes(t) \/ CloseProbes(t)
      <3>1. /\ state' = state
            /\ episode' = [episode EXCEPT !.raced = @ \/ state = "HalfOpen"]
        BY <2>4 DEF TripProbes, CloseProbes, ZeroProbes
      <3>2. state = "HalfOpen" => episode'.raced
        BY <1>0, <3>1 DEF Episodes
      <3> QED BY <3>1, <3>2 DEF SlotInv
    <2>5. CASE TripState(t) \/ CloseState(t)
      <3>1. state' # "HalfOpen"
        BY <2>5 DEF TripState, CloseState
      <3> QED BY <3>1 DEF SlotInv
    <2>6. CASE \/ Check(t) \/ CheckOpen(t) \/ CasLost(t) \/ Reevaluate(t)
               \/ Claim(t) \/ ReadLease(t) \/ ReclaimLost(t) \/ ReclaimWon(t)
               \/ Cancelled(t) \/ RecordInWindow(t)
               \/ \E fail \in BOOLEAN : Record(t, fail)
               \/ ClearMirror(t) \/ TripOpenedAt(t) \/ TripMirror(t)
               \/ CloseWindow(t) \/ CloseMirror(t)
      <3>1. /\ UNCHANGED <<state, probes>> /\ th[t].pc # "unclaim"
            /\ \/ episode' = episode
               \/ episode' = [episode EXCEPT !.taken = @ + 1]
        BY <2>6 DEF Check, CheckOpen, CasLost, Reevaluate, Claim, ReadLease,
                    ReclaimLost, ReclaimWon, Cancelled, RecordInWindow, Record,
                    ClearMirror, TripOpenedAt, TripMirror, CloseWindow,
                    CloseMirror, shared
      <3>2. /\ episode'.fresh = episode.fresh
            /\ episode'.raced <=> episode.raced
        BY <1>0, <3>1 DEF Episodes
      <3>3. PICK q \in Locals : Local(t, q) /\ q.pc # "unclaim"
        <4>1. CASE \/ ClearMirror(t) \/ TripOpenedAt(t) \/ CloseWindow(t)
          <5>1. \E pc \in {"probe", "trip3", "close3"} : Goto(t, pc)
            BY <4>1 DEF ClearMirror, TripOpenedAt, CloseWindow
          <5>2. PICK pc \in {"probe", "trip3", "close3"} : Goto(t, pc)
            BY <5>1
          <5>3. pc \in Pcs /\ pc # "unclaim"
            BY DEF Pcs
          <5> QED BY <5>2, <5>3, GotoStep
        <4>2. CASE TripMirror(t) \/ CloseMirror(t)
          BY <4>2, ReturnStep DEF TripMirror, CloseMirror
        <4>3. CASE ~(\/ ClearMirror(t) \/ TripOpenedAt(t) \/ CloseWindow(t)
                     \/ TripMirror(t) \/ CloseMirror(t))
          <5>1. PICK q \in Locals : QuietPlace(t, q)
            BY <2>6, <4>3, QuietPlaces
          <5>2. ~FetchAdd(t)
            BY <2>6, <4>3 DEF Check, CheckOpen, CasLost, Reevaluate, Claim,
                    ReadLease, ReclaimLost, ReclaimWon, Cancelled,
                    RecordInWindow, Record, FetchAdd
          <5> QED BY <5>1, <5>2 DEF QuietPlace
        <4> QED BY <4>1, <4>2, <4>3
      <3> QED BY <3>1, <3>2, <3>3, QuietSlots
    <2> QED BY <1>2, <2>1, <2>2, <2>3, <2>4, <2>5, <2>6
            DEF ThreadAction, CheckStep, RecordStep
  <1> QED BY <1>1, <1>2 DEF BreakerNext, ThreadAction

\* An undisturbed half-open episode hands out at most half_open_max_probes free
\* slots, however the callers interleave at the counter.
THEOREM BreakerSlotsAreCounted == BreakerSafeSpec => []SlotsAreCounted
  <1>1. BreakerInit => SlotInv
    BY DEF BreakerInit, SlotInv
  <1>2. SlotInv => SlotsAreCounted
    BY DEF SlotInv, SlotsAreCounted
  <1> QED BY <1>1, <1>2, SlotNext, BreakerTypeCorrect, PTL DEF BreakerSafeSpec
==============================================================================
