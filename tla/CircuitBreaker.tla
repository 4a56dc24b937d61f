--------------------------- MODULE CircuitBreaker ---------------------------
(***************************************************************************)
(* The circuit breaker that StorageClient and the upload queue consult     *)
(* before a request (xai-circuit-breaker, breaker.rs and window.rs).       *)
(*                                                                         *)
(* The breaker is shared by threads and has no lock around its state: four *)
(* atomics and a mirror flag are read and written one at a time, and only  *)
(* the sliding window has a mutex.  One action here is one atomic access   *)
(* (with the clock reading or the local decision next to it), or one       *)
(* critical section of the window.                                         *)
(*                                                                         *)
(* A thread calls check(), performs its request if it was admitted, and    *)
(* calls record(); a request that is cancelled never records.  Loads and   *)
(* stores are sequentially consistent here: the release/acquire orderings  *)
(* of the code allow no more than what the interleavings below show for    *)
(* the state atomics, except that the Relaxed reader of the mirror may see *)
(* it late.                                                                *)
(***************************************************************************)
EXTENDS Integers, Sequences, FiniteSets

CONSTANTS
    Threads,          \* callers
    MinSamples,       \* BreakerConfig.min_samples
    RatePercent,      \* BreakerConfig.error_rate_threshold, in percent
    WindowDuration,   \* BreakerConfig.window_duration, in clock ticks
    MaxEntries,       \* MAX_WINDOW_ENTRIES
    OpenDuration,     \* BreakerConfig.open_duration, in clock ticks
    MaxProbes,        \* half_open_max_probes, after the clamp to 1
    WordSize,         \* values of a usize; any number above the callers
    MaxTime,          \* bound: clock ticks
    MaxRequests       \* bound: admitted requests

ASSUME BreakerAssumption ==
    /\ IsFiniteSet(Threads)
    /\ MinSamples \in Nat /\ RatePercent \in Nat
    /\ MaxEntries \in Nat \ {0}
    /\ WindowDuration \in Nat /\ OpenDuration \in Nat \ {0}
    /\ MaxProbes \in Nat \ {0}
    /\ WordSize \in Nat /\ WordSize > MaxProbes + Cardinality(Threads)
    /\ MaxTime \in Nat /\ MaxRequests \in Nat

VARIABLES
    state,      \* the authoritative BreakerState
    openedAt,   \* opened_at_millis
    probes,     \* half_open_probes, a usize
    claimedAt,  \* probe_claimed_at_millis
    fast,       \* is_open_fast
    window,     \* entries of the SlidingWindow
    now,        \* the clock
    th,         \* [Threads -> program counter and local variables]
    admitted,   \* requests admitted so far (bound)
    episode,    \* history: the current half-open episode
    overlap     \* history: two transitions of the breaker have overlapped

shared == <<state, openedAt, probes, claimedAt, fast, window>>
vars == <<shared, now, th, admitted, episode, overlap>>

States == {"Closed", "Open", "HalfOpen"}
Pcs == {"idle", "open", "cas", "lost", "mirror", "probe", "claim", "unclaim",
        "lease", "reclaim", "running", "push",
        "trip1", "trip2", "trip3", "trip4",
        "close1", "close2", "close3", "close4"}
Times == 0 .. MaxTime

\* A thread between calls has no locals.
Idle == [pc |-> "idle", now |-> 0, claimed |-> 0, probe |-> FALSE,
         fail |-> FALSE, seen |-> "Closed"]

BreakerTypeOK ==
    /\ state \in States
    /\ openedAt \in Times /\ claimedAt \in Times /\ now \in Times
    /\ probes \in 0 .. (WordSize - 1)
    /\ fast \in BOOLEAN /\ overlap \in BOOLEAN
    /\ window \in Seq([fail : BOOLEAN, at : Times])
    /\ th \in [Threads -> [pc : Pcs, now : Times, claimed : Times,
                           probe : BOOLEAN, fail : BOOLEAN, seen : States]]
    /\ admitted \in 0 .. (MaxRequests + Cardinality(Threads))
    /\ episode \in [since : Times, fresh : Nat, taken : Nat, raced : BOOLEAN]

\* with_clock
BreakerInit ==
    /\ state = "Closed"
    /\ openedAt = 0 /\ probes = 0 /\ claimedAt = 0
    /\ fast = FALSE
    /\ window = << >>
    /\ now = 0
    /\ th = [t \in Threads |-> Idle]
    /\ admitted = 0
    /\ episode = [since |-> 0, fresh |-> 0, taken |-> 0, raced |-> FALSE]
    /\ overlap = FALSE

-----------------------------------------------------------------------------
(* The sliding window.                                                     *)

\* Entries older than the window leave from the front.
Evict(w, at) ==
    LET old == {i \in 1 .. Len(w) :
                   \A j \in 1 .. i : w[j].at < at - WindowDuration}
    IN  SubSeq(w, 1 + Cardinality(old), Len(w))

\* A full window loses its oldest entry.
Push(w, fail, at) ==
    Append(IF Len(w) >= MaxEntries THEN Tail(w) ELSE w,
           [fail |-> fail, at |-> at])

Failures(w) == Cardinality({i \in 1 .. Len(w) : w[i].fail})

ShouldTrip(w) ==
    /\ Len(w) >= MinSamples
    /\ Len(w) > 0 => 100 * Failures(w) >= RatePercent * Len(w)
    /\ Len(w) = 0 => RatePercent = 0

-----------------------------------------------------------------------------
(* check().                                                                *)

Local(t, r) == th' = [th EXCEPT ![t] = r]
Goto(t, pc) == Local(t, [th[t] EXCEPT !.pc = pc])
Return(t) == Local(t, Idle)

\* check() returned Ok.
Admit(t, probe) ==
    /\ Local(t, [Idle EXCEPT !.pc = "running", !.probe = probe])
    /\ admitted' = admitted + 1

\* One transition of the breaker begins while another is half done.
Transition(t) ==
    overlap' = (overlap \/ \E u \in Threads \ {t} :
                    th[u].pc \in {"mirror", "trip2", "trip3", "trip4",
                                  "close2", "close3", "close4"})

\* The match on state(), at the top of check and after a lost CAS race.
Check(t) ==
    /\ th[t].pc = "idle" /\ admitted < MaxRequests
    /\ IF state = "Closed" THEN Admit(t, FALSE)
       ELSE /\ Goto(t, IF state = "Open" THEN "open" ELSE "probe")
            /\ UNCHANGED admitted
    /\ UNCHANGED <<shared, now, episode, overlap>>

\* check_open: the cool-down is over, or the request is shed.
CheckOpen(t) ==
    /\ th[t].pc = "open"
    /\ IF now - openedAt >= OpenDuration THEN Goto(t, "cas") ELSE Return(t)
    /\ UNCHANGED <<shared, now, admitted, episode, overlap>>

CasWon(t) ==
    /\ th[t].pc = "cas" /\ state = "Open"
    /\ state' = "HalfOpen"
    /\ episode' = [since |-> now, fresh |-> 0, taken |-> 0,
                   raced |-> probes # 0 \/ \E u \in Threads :
                                               th[u].pc = "unclaim"]
    /\ Transition(t)
    /\ Goto(t, "mirror")
    /\ UNCHANGED <<openedAt, probes, claimedAt, fast, window, now, admitted>>

CasLost(t) ==
    /\ th[t].pc = "cas" /\ state # "Open"
    /\ Goto(t, "lost")
    /\ UNCHANGED <<shared, now, admitted, episode, overlap>>

Reevaluate(t) ==
    /\ th[t].pc = "lost"
    /\ CASE state = "Closed"   -> Admit(t, FALSE)
         [] state = "HalfOpen" -> Goto(t, "probe") /\ UNCHANGED admitted
         [] state = "Open"     -> Return(t) /\ UNCHANGED admitted
    /\ UNCHANGED <<shared, now, episode, overlap>>

\* Mutant: the probe counter is reset after HalfOpen has been published.
ClearMirrorAndProbes(t) ==
    /\ th[t].pc = "mirror"
    /\ fast' = FALSE
    /\ probes' = 0
    /\ Goto(t, "probe")
    /\ UNCHANGED <<state, openedAt, claimedAt, window, now, admitted, episode,
                   overlap>>

ClearMirror(t) ==
    /\ th[t].pc = "mirror"
    /\ fast' = FALSE
    /\ Goto(t, "probe")
    /\ UNCHANGED <<state, openedAt, probes, claimedAt, window, now, admitted,
                   episode, overlap>>

-----------------------------------------------------------------------------
(* try_half_open_probe.                                                    *)

\* The clock is read, then fetch_add: a free slot, or all are taken.
FetchAdd(t) ==
    /\ th[t].pc = "probe"
    /\ probes' = (probes + 1) % WordSize
    /\ Local(t, [th[t] EXCEPT !.now = now,
                    !.pc = IF probes < MaxProbes THEN "claim" ELSE "unclaim"])
    /\ episode' = IF probes < MaxProbes
                  THEN [episode EXCEPT !.fresh = @ + 1] ELSE episode
    /\ UNCHANGED <<state, openedAt, claimedAt, fast, window, now, admitted,
                   overlap>>

\* The slot is ours: note when it was claimed.
Claim(t) ==
    /\ th[t].pc = "claim"
    /\ claimedAt' = th[t].now
    /\ Admit(t, TRUE)
    /\ UNCHANGED <<state, openedAt, probes, fast, window, now, episode, overlap>>

\* The counter is a usize: below zero it wraps, which it can when a transition
\* zeroed it in between.
FetchSub(t) ==
    /\ th[t].pc = "unclaim"
    /\ probes' = (probes + WordSize - 1) % WordSize
    /\ Goto(t, "lease")
    /\ UNCHANGED <<state, openedAt, claimedAt, fast, window, now, admitted,
                   episode, overlap>>

\* Mutant: a taken slot is never given to somebody else.
LeaseForever(t) ==
    /\ th[t].pc = "lease"
    /\ Return(t)
    /\ UNCHANGED <<shared, now, admitted, episode, overlap>>

\* A claim older than the cool-down counts as abandoned.
ReadLease(t) ==
    /\ th[t].pc = "lease"
    /\ IF th[t].now - claimedAt >= OpenDuration
       THEN Local(t, [th[t] EXCEPT !.pc = "reclaim", !.claimed = claimedAt])
       ELSE Return(t)
    /\ UNCHANGED <<shared, now, admitted, episode, overlap>>

ReclaimWon(t) ==
    /\ th[t].pc = "reclaim" /\ claimedAt = th[t].claimed
    /\ claimedAt' = th[t].now
    /\ episode' = [episode EXCEPT !.taken = @ + 1]
    /\ Admit(t, TRUE)
    /\ UNCHANGED <<state, openedAt, probes, fast, window, now, overlap>>

ReclaimLost(t) ==
    /\ th[t].pc = "reclaim" /\ claimedAt # th[t].claimed
    /\ Return(t)
    /\ UNCHANGED <<shared, now, admitted, episode, overlap>>

-----------------------------------------------------------------------------
(* The request itself, and record().                                       *)

\* The caller's future is dropped: nothing is recorded.
Cancelled(t) ==
    /\ th[t].pc = "running"
    /\ Return(t)
    /\ UNCHANGED <<shared, now, admitted, episode, overlap>>

\* record() reads the clock and the state.
Record(t, fail) ==
    /\ th[t].pc = "running"
    /\ IF state = "HalfOpen"
       THEN Local(t, [Idle EXCEPT !.pc = IF fail THEN "trip1" ELSE "close1"])
       ELSE Local(t, [Idle EXCEPT !.pc = "push", !.fail = fail, !.now = now,
                                  !.seen = state])
    /\ UNCHANGED <<shared, now, admitted, episode, overlap>>

\* The outcome goes into the window; only a closed breaker trips on it.
RecordInWindow(t) ==
    /\ th[t].pc = "push"
    /\ LET w == Evict(Push(window, th[t].fail, th[t].now), th[t].now)
       IN  /\ window' = w
           /\ IF th[t].seen = "Closed" /\ ShouldTrip(w)
              THEN Local(t, [Idle EXCEPT !.pc = "trip1"])
              ELSE Return(t)
    /\ UNCHANGED <<state, openedAt, probes, claimedAt, fast, now, admitted,
                   episode, overlap>>

\* error_rate() evicts before it reads.
ErrorRate ==
    /\ Evict(window, now) # window
    /\ window' = Evict(window, now)
    /\ UNCHANGED <<state, openedAt, probes, claimedAt, fast, now, th, admitted,
                   episode, overlap>>

\* trip(): four stores.
TripState(t) ==
    /\ th[t].pc = "trip1"
    /\ state' = "Open"
    /\ Transition(t)
    /\ Goto(t, "trip2")
    /\ UNCHANGED <<openedAt, probes, claimedAt, fast, window, now, admitted,
                   episode>>

TripOpenedAt(t) ==
    /\ th[t].pc = "trip2"
    /\ openedAt' = now
    /\ Goto(t, "trip3")
    /\ UNCHANGED <<state, probes, claimedAt, fast, window, now, admitted,
                   episode, overlap>>

\* Zeroing the counter disturbs an episode that is going on, and a caller
\* between its fetch_add and its fetch_sub.
ZeroProbes(t, next) ==
    /\ probes' = 0
    /\ episode' = [episode EXCEPT !.raced = @ \/ state = "HalfOpen"]
    /\ Goto(t, next)
    /\ UNCHANGED <<state, openedAt, claimedAt, fast, window, now, admitted,
                   overlap>>

TripProbes(t) ==
    /\ th[t].pc = "trip3"
    /\ ZeroProbes(t, "trip4")

\* Mutant: the mirror is not raised.
TripNoMirror(t) ==
    /\ th[t].pc = "trip4"
    /\ Return(t)
    /\ UNCHANGED <<shared, now, admitted, episode, overlap>>

TripMirror(t) ==
    /\ th[t].pc = "trip4"
    /\ fast' = TRUE
    /\ Return(t)
    /\ UNCHANGED <<state, openedAt, probes, claimedAt, window, now, admitted,
                   episode, overlap>>

\* close(): three stores and the window.
CloseState(t) ==
    /\ th[t].pc = "close1"
    /\ state' = "Closed"
    /\ Transition(t)
    /\ Goto(t, "close2")
    /\ UNCHANGED <<openedAt, probes, claimedAt, fast, window, now, admitted,
                   episode>>

CloseWindow(t) ==
    /\ th[t].pc = "close2"
    /\ window' = << >>
    /\ Goto(t, "close3")
    /\ UNCHANGED <<state, openedAt, probes, claimedAt, fast, now, admitted,
                   episode, overlap>>

CloseProbes(t) ==
    /\ th[t].pc = "close3"
    /\ ZeroProbes(t, "close4")

CloseMirror(t) ==
    /\ th[t].pc = "close4"
    /\ fast' = FALSE
    /\ Return(t)
    /\ UNCHANGED <<state, openedAt, probes, claimedAt, window, now, admitted,
                   episode, overlap>>

-----------------------------------------------------------------------------
\* Time passes at any moment, also between two instructions of a thread.
Tick ==
    /\ now < MaxTime
    /\ now' = now + 1
    /\ UNCHANGED <<shared, th, admitted, episode, overlap>>

CheckStep(t) ==
    \/ CheckOpen(t) \/ CasWon(t) \/ CasLost(t) \/ Reevaluate(t)
    \/ ClearMirror(t) \/ FetchAdd(t) \/ Claim(t) \/ FetchSub(t)
    \/ ReadLease(t) \/ ReclaimWon(t) \/ ReclaimLost(t)

RecordStep(t) ==
    \/ RecordInWindow(t)
    \/ TripState(t) \/ TripOpenedAt(t) \/ TripProbes(t) \/ TripMirror(t)
    \/ CloseState(t) \/ CloseWindow(t) \/ CloseProbes(t) \/ CloseMirror(t)

BreakerNext ==
    \/ Tick
    \/ ErrorRate
    \/ \E t \in Threads :
          \/ Check(t) \/ CheckStep(t) \/ Cancelled(t) \/ RecordStep(t)
          \/ \E fail \in BOOLEAN : Record(t, fail)

BreakerSafeSpec == BreakerInit /\ [][BreakerNext]_vars

\* The clock runs, a running thread is scheduled, and callers keep coming.
\* Nothing is assumed about the requests: they may hang or be cancelled.
BreakerSpec ==
    /\ BreakerSafeSpec
    /\ WF_vars(Tick)
    /\ \A t \in Threads : /\ WF_vars(CheckStep(t) \/ RecordStep(t))
                          /\ WF_vars(Check(t))

-----------------------------------------------------------------------------
(* Properties.                                                             *)

\* No thread is inside check() or record().
Quiet == \A t \in Threads : th[t].pc \in {"idle", "running"}

\* is_open() agrees with the authoritative state whenever no call is in
\* progress, unless two transitions have overlapped: each of trip, close and
\* check_open writes the mirror after its own state store.
MirrorFollowsState == Quiet /\ ~overlap => (fast <=> state = "Open")

\* A half-open episode whose counter started at zero and was not zeroed again
\* hands out no more free slots than half_open_max_probes, although the winner
\* and the losers of the CAS race all go through the same counter.
SlotsAreCounted ==
    state = "HalfOpen" /\ ~episode.raced => episode.fresh <= MaxProbes

\* What cas_loss_recovery_with_mock_clock asserts: where nothing else goes on
\* and before a lease of this episode can have expired, no more callers are
\* admitted than there are probe slots.
OnlyTheSlots ==
    state = "HalfOpen" /\ ~episode.raced /\ ~overlap
      /\ now - episode.since < OpenDuration
        => episode.fresh + episode.taken <= MaxProbes

ProbeInFlight ==
    \E t \in Threads : \/ th[t].pc = "running" /\ th[t].probe
                       \/ th[t].pc \in {"trip1", "close1"}

\* A lost probe delays recovery by at most one cool-down: while the breaker
\* is half open with no probe in flight, one is admitted (or the breaker
\* leaves the state) as soon as the clock and the callers have gone on.
LostProbeReplaced ==
    (state = "HalfOpen" /\ now + OpenDuration <= MaxTime) ~>
        (state # "HalfOpen" \/ ProbeInFlight \/ admitted >= MaxRequests)

=============================================================================
