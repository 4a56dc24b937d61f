--------------------------- MODULE Recovery_proofs ---------------------------
(***************************************************************************)
(* Proofs about the connection to the Pi child (PiRpc) and about crash     *)
(* recovery on top of it, for any number of requests, callers, rounds,     *)
(* attempts and generations.                                               *)
(*                                                                         *)
(* First the connection.  Its inductive invariant has these layers, kept   *)
(* together by every step:                                                 *)
(*                                                                         *)
(*   TypeOK                                                                *)
(*   GenerationInv  which generations exist, which are dead                *)
(*   StampInv       the pending map against its callers and generations    *)
(*   WireInv        where a command or its response can be                 *)
(*   ReleasedInv    a released respawn() waited for a child that is gone   *)
(*                                                                         *)
(* Recovery drives the connection only through its operations, so that     *)
(* what is proved of the connection carries over.  On top of it:           *)
(*                                                                         *)
(*   Quiet       the rounds' own requests are not among the modelled ones; *)
(*   AddressInv  a round that sends a request knows a generation;          *)
(*   BudgetInv   children started plus attempts still owed are paid for by *)
(*               the rounds that the storm guard admitted.  The attempts   *)
(*               are counted as a set of pairs <<round, attempt>>, whose   *)
(*               finiteness is part of the invariant, so that no bound on  *)
(*               the number of rounds is assumed;                          *)
(*   ExitInv     rounds and respawn() calls agree, a kill is noted only    *)
(*               while it is carried out, and somebody answers for the     *)
(*               attached child once it has been reaped;                   *)
(*   SessionInv  while nothing has slipped at most one round is at work,   *)
(*               it waits for and talks to the attached child, and what it *)
(*               has read or asked for is what that child has open.        *)
(***************************************************************************)
EXTENDS Recovery, FiniteSetTheorems, TLAPS

-----------------------------------------------------------------------------
(* Types.                                                                  *)

\* The first child is a well-typed state.
LEMMA InitType == RpcInit => TypeOK
BY MaxGenAssumption DEF RpcInit, TypeOK, Gens, Idle, CallStates, ProcStates, CoordStates,
   Statuses, Resolved

\* A task that appends one more event leaves a sequence of events.
LEMMA AppendKeepsSeq ==
    ASSUME NEW S, NEW s \in Seq(S), NEW e \in S
    PROVE  Append(s, e) \in Seq(S)
OBVIOUS

\* Every step of every task keeps the types.
LEMMA StepType == TypeOK /\ [RpcNext]_rpcVars => TypeOK'
<1> SUFFICES ASSUME TypeOK, [RpcNext]_rpcVars PROVE TypeOK'
    OBVIOUS
<1>0. Gens \subseteq 0 .. MaxGen
    BY DEF Gens
<1> USE <1>0, MaxGenAssumption DEF TypeOK
<1>1. ASSUME NEW r \in Requests, Send(r) PROVE TypeOK'
    <2>1. outbox' \in [Gens -> SUBSET Requests]
        <3>1. outbox[attached] \cup {r} \in SUBSET Requests
            OBVIOUS
        <3>2. \/ UNCHANGED outbox
              \/ outbox' = [outbox EXCEPT ![attached] = outbox[attached] \cup {r}]
            BY <1>1 DEF Send
        <3>3. CASE UNCHANGED outbox
            BY <3>3
        <3>4. CASE outbox' = [outbox EXCEPT ![attached] = outbox[attached] \cup {r}]
            BY <3>1, <3>4
        <3> QED
            BY <3>2, <3>3, <3>4
    <2>2. pending' \in [Requests -> 0 .. MaxGen]
        <3>1. UNCHANGED pending \/ pending' = [pending EXCEPT ![r] = 0]
            BY <1>1 DEF Send
        <3>2. CASE UNCHANGED pending
            BY <3>2
        <3>3. CASE pending' = [pending EXCEPT ![r] = 0]
            BY <3>3
        <3> QED
            BY <3>1, <3>2, <3>3
    <2>3. status' \in [Requests -> Statuses]
        <3>1. {"waiting", "exit", "closed"} \subseteq Statuses
            BY DEF Statuses, Resolved
        <3>2. \E s \in {"waiting", "exit", "closed"} :
                  status' = [status EXCEPT ![r] = s]
            BY <1>1 DEF Send
        <3> QED
            BY <3>1, <3>2
    <2>4. target' \in [Requests -> 0 .. MaxGen]
        BY <1>1 DEF Send
    <2> QED
        BY <1>1, <2>1, <2>2, <2>3, <2>4 DEF Send
<1>2. ASSUME NEW r \in Requests,
             Request(r) \/ RequestTimeout(r) \/ CallerDropped(r)
      PROVE  TypeOK'
    <2>1. {"stamped", "timeout", "dropped"} \subseteq Statuses
        BY DEF Statuses, Resolved
    <2>2. CASE Request(r)
        BY <2>1, <2>2 DEF Request
    <2>3. CASE RequestTimeout(r)
        BY <2>1, <2>3 DEF RequestTimeout
    <2>4. CASE CallerDropped(r)
        BY <2>1, <2>4 DEF CallerDropped
    <2> QED
        BY <1>2, <2>2, <2>3, <2>4
<1>3. ASSUME NEW g \in Gens, NEW r \in Requests, WriterStep(g, r) PROVE TypeOK'
    <2>1. CASE proc[g] = "alive"
        <3>1. /\ outbox[g] \ {r} \in SUBSET Requests
              /\ inbox[g] \cup {r} \in SUBSET Requests
            OBVIOUS
        <3>2. /\ outbox' = [outbox EXCEPT ![g] = outbox[g] \ {r}]
              /\ inbox' = [inbox EXCEPT ![g] = inbox[g] \cup {r}]
            BY <1>3, <2>1 DEF WriterStep
        <3>3. outbox' \in [Gens -> SUBSET Requests]
            BY <3>1, <3>2
        <3>4. inbox' \in [Gens -> SUBSET Requests]
            BY <3>1, <3>2
        <3> QED
            BY <1>3, <2>1, <3>3, <3>4 DEF WriterStep
    <2>2. CASE proc[g] # "alive"
        BY <1>3, <2>2 DEF WriterStep
    <2> QED
        BY <2>1, <2>2
<1>4. ASSUME NEW g \in Gens, NEW r \in Requests, ReaderStep(g, r) PROVE TypeOK'
    <2>1. [kind |-> "late", req |-> r] \in ExitEvents \cup LateEvents
        BY DEF LateEvents
    <2>2. events' \in Seq(ExitEvents \cup LateEvents)
        <3>1. Append(events, [kind |-> "late", req |-> r])
                  \in Seq(ExitEvents \cup LateEvents)
            BY <2>1, AppendKeepsSeq
        <3> QED
            BY <1>4, <3>1 DEF ReaderStep
    <2>3. pending' \in [Requests -> 0 .. MaxGen]
        <3>1. 0 \in 0 .. MaxGen
            OBVIOUS
        <3> QED
            BY <1>4, <3>1 DEF ReaderStep
    <2>5. status' \in [Requests -> Statuses]
        <3>1. "ok" \in Statuses /\ status[r] \in Statuses
            BY DEF Statuses, Resolved
        <3> QED
            BY <1>4, <3>1 DEF ReaderStep, Told
    <2>4. stdout' \in [Gens -> SUBSET Requests]
        BY <1>4 DEF ReaderStep
    <2> QED
        BY <1>4, <2>2, <2>3, <2>4, <2>5 DEF ReaderStep
<1>5. ASSUME NEW g \in Gens, NEW r \in Requests, ChildAnswers(g, r) PROVE TypeOK'
    BY <1>5 DEF ChildAnswers
<1>6. ASSUME NEW g \in Gens, ChildDies(g) PROVE TypeOK'
    BY <1>6 DEF ChildDies, ProcStates
<1>7. ASSUME NEW g \in Gens, NEW c \in Callers, CoordKill(g, c) PROVE TypeOK'
    <2>1. call[c].intentional \in BOOLEAN
        BY DEF CallStates
    <2> QED
        BY <1>7, <2>1 DEF CoordKill, CoordStates
<1>8. ASSUME NEW g \in Gens, CoordReaps(g) PROVE TypeOK'
    <2>1. Idle \in CallStates
        BY DEF Idle, CallStates
    <2>2. ASSUME NEW c \in Callers
          PROVE  [pc |-> "resolved", gen |-> g,
                  intentional |-> call[c].intentional] \in CallStates
        <3>1. call[c] \in CallStates
            OBVIOUS
        <3> QED
            BY <3>1 DEF CallStates
    <2>3. call' \in [Callers -> CallStates]
        BY <1>8, <2>1, <2>2 DEF CoordReaps, ReleaseCallers
    <2>4. coord' \in [Gens -> CoordStates]
        BY <1>8 DEF CoordReaps, CoordStates
    <2> QED
        BY <1>8, <2>3, <2>4 DEF CoordReaps
<1>9. ASSUME NEW g \in Gens, CoordFinishes(g) PROVE TypeOK'
    <2>1. [kind |-> "exit", intentional |-> intent[g]]
              \in ExitEvents \cup LateEvents
        BY DEF ExitEvents
    <2>2. events' \in Seq(ExitEvents \cup LateEvents)
        BY <1>9, <2>1 DEF CoordFinishes
    <2>3. pending' \in [Requests -> 0 .. MaxGen]
        BY <1>9 DEF CoordFinishes, FailPending, FailEntries
    <2>4. status' \in [Requests -> Statuses]
        BY <1>9 DEF CoordFinishes, FailPending, FailEntries, Told, Statuses, Resolved
    <2> QED
        BY <1>9, <2>2, <2>3, <2>4 DEF CoordFinishes, CoordStates
<1>10. ASSUME NEW c \in Callers, NEW i \in BOOLEAN, KillChild(c, i) PROVE TypeOK'
    <2>1. [pc |-> "await", gen |-> attached, intentional |-> i] \in CallStates
        BY DEF CallStates
    <2>2. call' \in [Callers -> CallStates]
        BY <1>10, <2>1 DEF KillChild
    <2> QED
        BY <1>10, <2>2 DEF KillChild
<1>11. ASSUME NEW c \in Respawners, AttachOk(c) PROVE TypeOK'
    <2>1. call' \in [Callers -> CallStates]
        BY <1>11 DEF AttachOk, Callers, Idle, CallStates
    <2>2. generation' \in Gens /\ attached' \in Gens
        BY <1>11 DEF AttachOk, RespawnMayAttach, Gens
    <2>3. /\ proc' \in [Gens -> ProcStates]
          /\ coord' \in [Gens -> CoordStates]
          /\ stdinOpen' \in [Gens -> BOOLEAN]
        BY <1>11, <2>2 DEF AttachOk, ProcStates, CoordStates
    <2> QED
        BY <1>11, <2>1, <2>2, <2>3 DEF AttachOk
<1>12. ASSUME NEW c \in Respawners, AttachFails(c) PROVE TypeOK'
    <2>1. call' \in [Callers -> CallStates]
        BY <1>12 DEF AttachFails, Callers, Idle, CallStates
    <2> QED
        BY <1>12, <2>1 DEF AttachFails, RespawnMayAttach, Gens
<1>13. CASE ConsumeEvent
    BY <1>13 DEF ConsumeEvent
<1>14. CASE UNCHANGED rpcVars
    BY <1>14 DEF rpcVars
<1> QED
    BY <1>1, <1>2, <1>3, <1>4, <1>5, <1>6, <1>7, <1>8, <1>9, <1>10, <1>11,
       <1>12, <1>13, <1>14
       DEF RpcNext, RequestStep, SendStep, PipeStep, ExitStep, CallStep, Kill,
           RespawnKill, Callers

\* The state of the connection is well typed in every reachable state.
THEOREM TypeCorrect == RpcSafeSpec => []TypeOK
BY InitType, StepType, PTL DEF RpcSafeSpec

-----------------------------------------------------------------------------
(* Generations.                                                            *)

\* Children are numbered in the order they were attached; only a child that
\* was attached has a coordinator, and a coordinator that has finished
\* waiting, or a writer that has ended, is proof of the child's death.
GenerationInv ==
    /\ attached <= generation
    /\ coord[attached] # "none"
    /\ \A g \in Gens :
          /\ coord[g] # "none" => g <= attached
          /\ proc[g] = "unborn" <=> coord[g] = "none"
          /\ coord[g] \in {"drain", "done"} => proc[g] = "dead"
          /\ coord[g] # "none" /\ ~stdinOpen[g] => proc[g] = "dead"

\* The first child is generation 1 and the only one.
LEMMA InitGeneration == RpcInit => GenerationInv
<1> SUFFICES ASSUME RpcInit PROVE GenerationInv
    OBVIOUS
<1>1. 1 \in Gens /\ attached = 1 /\ generation = 1
    BY MaxGenAssumption DEF RpcInit, Gens
<1>2. ASSUME NEW g \in Gens
      PROVE  /\ coord[g] = IF g = 1 THEN "watch" ELSE "none"
             /\ proc[g] = IF g = 1 THEN "alive" ELSE "unborn"
    BY DEF RpcInit
<1>3. stdinOpen[1]
    BY <1>1 DEF RpcInit
<1> QED
    BY <1>1, <1>2, <1>3 DEF GenerationInv

\* A step keeps the numbering of the generations.
LEMMA StepGeneration ==
    TypeOK /\ GenerationInv /\ [RpcNext]_rpcVars => GenerationInv'
<1> SUFFICES ASSUME TypeOK, GenerationInv, [RpcNext]_rpcVars
             PROVE  GenerationInv'
    OBVIOUS
<1> USE MaxGenAssumption DEF GenerationInv
<1>1. CASE RequestStep \/ SendStep
    BY <1>1 DEF RequestStep, SendStep, Request, Send, RequestTimeout, CallerDropped
<1>2. ASSUME NEW g \in Gens, NEW r \in Requests, WriterStep(g, r)
      PROVE  GenerationInv'
    BY <1>2 DEF WriterStep, TypeOK, ProcStates
<1>3. ASSUME NEW g \in Gens, NEW r \in Requests,
             ReaderStep(g, r) \/ ChildAnswers(g, r)
      PROVE  GenerationInv'
    BY <1>3 DEF ReaderStep, ChildAnswers
<1>4. ASSUME NEW g \in Gens, ChildDies(g) PROVE GenerationInv'
    BY <1>4 DEF ChildDies, TypeOK
<1>5. ASSUME NEW g \in Gens, NEW c \in Callers, CoordKill(g, c)
      PROVE  GenerationInv'
    BY <1>5 DEF CoordKill, TypeOK
<1>6. ASSUME NEW g \in Gens, CoordReaps(g) PROVE GenerationInv'
    BY <1>6 DEF CoordReaps, TypeOK
<1>7. ASSUME NEW g \in Gens, CoordFinishes(g) PROVE GenerationInv'
    BY <1>7 DEF CoordFinishes, TypeOK
<1>8. ASSUME NEW c \in Callers, NEW i \in BOOLEAN, KillChild(c, i)
      PROVE  GenerationInv'
    BY <1>8 DEF KillChild
<1>9. ASSUME NEW c \in Respawners, AttachOk(c) PROVE GenerationInv'
    BY <1>9 DEF AttachOk, RespawnMayAttach, TypeOK, Gens
<1>10. ASSUME NEW c \in Respawners, AttachFails(c) PROVE GenerationInv'
    BY <1>10 DEF AttachFails, RespawnMayAttach, TypeOK, Gens
<1>11. CASE ConsumeEvent
    BY <1>11 DEF ConsumeEvent
<1>12. CASE UNCHANGED rpcVars
    BY <1>12 DEF rpcVars
<1> QED
    BY <1>1, <1>2, <1>3, <1>4, <1>5, <1>6, <1>7, <1>8, <1>9, <1>10, <1>11,
       <1>12
       DEF RpcNext, PipeStep, ExitStep, CallStep, Kill, RespawnKill, Callers

-----------------------------------------------------------------------------
(* Commands and responses in the pipes.                                    *)

\* A command or its response is in one place at most, belongs to the child
\* whose pipe it is in, and its caller has sent it and not seen the response.
Wired(g) ==
    /\ \A r \in outbox[g] \cup inbox[g] \cup stdout[g] :
           target[r] = g /\ status[r] \in {"waiting", "exit", "timeout", "dropped"}
    /\ outbox[g] \cap inbox[g] = {}
    /\ outbox[g] \cap stdout[g] = {}
    /\ inbox[g] \cap stdout[g] = {}

WireInv == \A g \in Gens : Wired(g)

-----------------------------------------------------------------------------
(* The pending map.                                                        *)

\* The stamp of an entry, the child its command went to, and the fate of its
\* caller, together.  A stamp up to g belongs to a child up to g, and g is dead:
\* that is the argument of fail_pending.  Between the two steps of a request no
\* child is attached, so that an entry failed in between is proof of the death
\* of the very child the command will be sent to.
Stamped(r) ==
    /\ status[r] = "waiting" => pending[r] # 0
    /\ pending[r] # 0 => /\ status[r] \in {"stamped", "waiting", "dropped"}
                         /\ target[r] <= pending[r] /\ pending[r] <= generation
    /\ status[r] \in {"new", "stamped"} => target[r] = 0
    /\ status[r] \notin {"new", "stamped"} =>
          target[r] \in Gens /\ coord[target[r]] # "none"
    /\ status[r] = "stamped" =>
          IF pending[r] # 0 THEN pending[r] = generation
                            ELSE proc[attached] = "dead"
    /\ status[r] = "exit" => proc[target[r]] = "dead" \/ target[r] < attached

StampInv == \A r \in Requests : Stamped(r)

\* No request has been issued yet.
LEMMA InitStamp == RpcInit => StampInv
BY DEF RpcInit, StampInv, Stamped

\* A step keeps the pending map and its callers in agreement.
LEMMA StepStamp ==
    TypeOK /\ GenerationInv /\ StampInv /\ WireInv /\ [RpcNext]_rpcVars
        => StampInv'
<1> SUFFICES ASSUME TypeOK, GenerationInv, StampInv, WireInv,
                    [RpcNext]_rpcVars
             PROVE  StampInv'
    OBVIOUS
<1>0. Gens \subseteq Nat \ {0} /\ 0 .. MaxGen \subseteq Nat
    BY MaxGenAssumption DEF Gens
<1> USE <1>0, MaxGenAssumption DEF StampInv, Stamped
<1>1. ASSUME NEW r \in Requests, Request(r) PROVE StampInv'
    <2> SUFFICES ASSUME NEW q \in Requests PROVE Stamped(q)'
        OBVIOUS
    <2>1. CASE q = r
        BY <1>1, <2>1 DEF Request, TypeOK
    <2>2. CASE q # r
        BY <1>1, <2>2 DEF Request, TypeOK
    <2> QED
        BY <2>1, <2>2
<1>s. ASSUME NEW r \in Requests, Send(r) PROVE StampInv'
    <2> SUFFICES ASSUME NEW q \in Requests PROVE Stamped(q)'
        OBVIOUS
    <2>1. CASE q = r
        <3>1. CASE stdinOpen[attached]
            BY <1>s, <2>1, <3>1 DEF Send, TypeOK, GenerationInv
        <3>2. CASE ~stdinOpen[attached]
            BY <1>s, <2>1, <3>2 DEF Send, TypeOK, GenerationInv
        <3> QED
            BY <3>1, <3>2
    <2>2. CASE q # r
        BY <1>s, <2>2 DEF Send, TypeOK
    <2> QED
        BY <2>1, <2>2
<1>2. ASSUME NEW r \in Requests, RequestTimeout(r) \/ CallerDropped(r)
      PROVE  StampInv'
    BY <1>2 DEF RequestTimeout, CallerDropped, TypeOK
<1>3. ASSUME NEW g \in Gens, NEW r \in Requests, WriterStep(g, r)
      PROVE  StampInv'
    BY <1>3 DEF WriterStep
<1>4. ASSUME NEW g \in Gens, NEW r \in Requests, ReaderStep(g, r)
      PROVE  StampInv'
    <2> SUFFICES ASSUME NEW q \in Requests PROVE Stamped(q)'
        OBVIOUS
    <2>1. r \in stdout[g] /\ status[r] \notin {"new", "stamped"}
        BY <1>4 DEF ReaderStep, WireInv, Wired
    <2>2. CASE q = r
        BY <1>4, <2>1, <2>2 DEF ReaderStep, Told, TypeOK
    <2>3. CASE q # r
        BY <1>4, <2>3 DEF ReaderStep, TypeOK
    <2> QED
        BY <2>2, <2>3
<1>5. ASSUME NEW g \in Gens, NEW r \in Requests, ChildAnswers(g, r)
      PROVE  StampInv'
    BY <1>5 DEF ChildAnswers
<1>6. ASSUME NEW g \in Gens, ChildDies(g) PROVE StampInv'
    BY <1>6 DEF ChildDies, TypeOK
<1>7. ASSUME NEW g \in Gens, NEW c \in Callers, CoordKill(g, c)
      PROVE  StampInv'
    BY <1>7 DEF CoordKill, TypeOK
<1>8. ASSUME NEW g \in Gens, CoordReaps(g) PROVE StampInv'
    BY <1>8 DEF CoordReaps, TypeOK
<1>9. ASSUME NEW g \in Gens, CoordFinishes(g) PROVE StampInv'
    <2> SUFFICES ASSUME NEW r \in Requests PROVE Stamped(r)'
        OBVIOUS
    <2>0. UNCHANGED <<attached, generation, target, proc>> /\ proc[g] = "dead"
          /\ g <= attached
        BY <1>9 DEF CoordFinishes, GenerationInv
    <2>c. coord'[target[r]] # "none" <=> coord[target[r]] # "none"
        BY <1>9 DEF CoordFinishes, TypeOK
    <2>1. CASE pending[r] # 0 /\ pending[r] <= g
        <3>1. /\ pending'[r] = 0
              /\ status'[r] = IF status[r] = "waiting" THEN "exit" ELSE status[r]
            BY <1>9, <2>1 DEF CoordFinishes, FailPending, FailEntries, Told
        <3>2. CASE status[r] = "waiting"
            <4>1. /\ target[r] \in Gens /\ coord[target[r]] # "none"
                  /\ target[r] <= pending[r] /\ pending[r] \in Nat
                BY <2>1, <3>2 DEF TypeOK
            <4>2. target[r] = g \/ target[r] < attached
                BY <2>0, <2>1, <4>1 DEF TypeOK
            <4> QED
                BY <2>0, <2>c, <3>1, <3>2, <4>1, <4>2
        <3>3. CASE status[r] = "stamped"
            <4>1. g = attached
                BY <2>0, <2>1, <3>3 DEF TypeOK, GenerationInv
            <4> QED
                BY <2>0, <2>c, <2>1, <3>1, <3>3, <4>1 DEF TypeOK
        <3>4. CASE status[r] = "dropped"
            BY <2>0, <2>c, <2>1, <3>1, <3>4 DEF TypeOK
        <3> QED
            BY <2>1, <3>2, <3>3, <3>4
    <2>2. CASE ~(pending[r] # 0 /\ pending[r] <= g)
        <3>1. pending'[r] = pending[r] /\ status'[r] = status[r]
            BY <1>9, <2>2 DEF CoordFinishes, FailPending, FailEntries
        <3> QED
            BY <2>0, <2>c, <3>1
    <2> QED
        BY <2>1, <2>2
<1>10. ASSUME NEW c \in Callers, NEW i \in BOOLEAN, KillChild(c, i)
       PROVE  StampInv'
    BY <1>10 DEF KillChild
<1>11. ASSUME NEW c \in Respawners, AttachOk(c), LocalSetFree PROVE StampInv'
    BY <1>11 DEF AttachOk, RespawnMayAttach, TypeOK, GenerationInv, LocalSetFree
<1>12. ASSUME NEW c \in Respawners, AttachFails(c), LocalSetFree
       PROVE  StampInv'
    BY <1>12 DEF AttachFails, RespawnMayAttach, TypeOK, LocalSetFree
<1>13. CASE ConsumeEvent
    BY <1>13 DEF ConsumeEvent
<1>14. CASE UNCHANGED rpcVars
    BY <1>14 DEF rpcVars
<1> QED
    BY <1>1, <1>s, <1>2, <1>3, <1>4, <1>5, <1>6, <1>7, <1>8, <1>9, <1>10, <1>11,
       <1>12, <1>13, <1>14
       DEF RpcNext, RequestStep, SendStep, PipeStep, ExitStep, CallStep, Kill,
           RespawnKill, Callers

-----------------------------------------------------------------------------
(* The pipes against the requests.                                         *)

\* The pipes are empty.
LEMMA InitWire == RpcInit => WireInv
BY DEF RpcInit, WireInv, Wired

\* Appending an event that satisfies a condition keeps it true of all events.
LEMMA AppendElement ==
    ASSUME NEW S, NEW s \in Seq(S), NEW e \in S,
           NEW i \in 1 .. Len(Append(s, e))
    PROVE  \/ i \in 1 .. Len(s) /\ Append(s, e)[i] = s[i]
           \/ Append(s, e)[i] = e
OBVIOUS

\* A request whose caller was told of an exit or a timeout, or was dropped,
\* stays as it is.
LEMMA StaleStays ==
    TypeOK /\ StampInv /\ [RpcNext]_rpcVars =>
        \A r \in Requests :
            status[r] \in {"exit", "timeout", "dropped"} => status'[r] = status[r]
<1> SUFFICES ASSUME TypeOK, StampInv, [RpcNext]_rpcVars, NEW r \in Requests,
                    status[r] \in {"exit", "timeout", "dropped"}
             PROVE  status'[r] = status[r]
    OBVIOUS
<1> USE DEF TypeOK, StampInv, Stamped
<1>1. ASSUME NEW q \in Requests,
             Request(q) \/ Send(q) \/ RequestTimeout(q) \/ CallerDropped(q)
      PROVE  status'[r] = status[r]
    BY <1>1 DEF Request, Send, RequestTimeout, CallerDropped
<1>2. ASSUME NEW g \in Gens, NEW q \in Requests, ReaderStep(g, q)
      PROVE  status'[r] = status[r]
    BY <1>2 DEF ReaderStep, Told
<1>3. ASSUME NEW g \in Gens, CoordFinishes(g)
      PROVE  status'[r] = status[r]
    BY <1>3 DEF CoordFinishes, FailPending, FailEntries, Told
<1> QED
    BY <1>1, <1>2, <1>3
       DEF RpcNext, RequestStep, SendStep, PipeStep, ExitStep, CallStep, Kill,
           RespawnKill, WriterStep, ChildAnswers, ChildDies, CoordKill,
           CoordReaps, KillChild, AttachOk, AttachFails, ConsumeEvent, rpcVars

\* A step moves a command or a response along its child's pipes, or drops it.
LEMMA StepWire ==
    TypeOK /\ StampInv /\ WireInv /\ [RpcNext]_rpcVars => WireInv'
<1> SUFFICES ASSUME TypeOK, StampInv, WireInv, [RpcNext]_rpcVars
             PROVE  WireInv'
    OBVIOUS
<1> USE DEF WireInv, Wired
<1>1. ASSUME NEW r \in Requests, Send(r) PROVE WireInv'
    <2>1. \A g \in Gens : r \notin outbox[g] \cup inbox[g] \cup stdout[g]
        BY <1>1 DEF Send
    <2>2. /\ UNCHANGED <<inbox, stdout>>
          /\ target' = [target EXCEPT ![r] = attached]
        BY <1>1 DEF Send
    <2>3. CASE stdinOpen[attached]
        <3> SUFFICES ASSUME NEW h \in Gens PROVE Wired(h)'
            OBVIOUS
        <3>1. /\ status'[r] \in {"waiting", "exit"}
              /\ \A q \in Requests \ {r} : status'[q] = status[q]
            BY <1>1, <2>3 DEF Send, TypeOK
        <3>2. outbox'[h] = IF h = attached THEN outbox[h] \cup {r} ELSE outbox[h]
            BY <1>1, <2>3 DEF Send, TypeOK
        <3>3. outbox[h] \cup inbox[h] \cup stdout[h] \subseteq Requests
            BY DEF TypeOK
        <3> QED
            BY <2>1, <2>2, <3>1, <3>2, <3>3 DEF TypeOK
    <2>4. CASE ~stdinOpen[attached]
        BY <1>1, <2>1, <2>2, <2>4 DEF Send, TypeOK
    <2> QED
        BY <2>3, <2>4
<1>2. ASSUME NEW r \in Requests,
             Request(r) \/ RequestTimeout(r) \/ CallerDropped(r)
      PROVE  WireInv'
    <2>1. /\ UNCHANGED <<outbox, inbox, stdout, target>>
          /\ \A q \in Requests \ {r} : status'[q] = status[q]
          /\ status[r] = "new" \/ status'[r] \in {"timeout", "dropped"}
        BY <1>2 DEF Request, RequestTimeout, CallerDropped, TypeOK
    <2>2. \A g \in Gens : outbox[g] \cup inbox[g] \cup stdout[g] \subseteq Requests
        BY DEF TypeOK
    <2> QED
        BY <2>1, <2>2
<1>3. ASSUME NEW g \in Gens, NEW r \in Requests, WriterStep(g, r)
      PROVE  WireInv'
    <2>1. CASE proc[g] = "alive"
        <3> SUFFICES ASSUME NEW h \in Gens PROVE Wired(h)'
            OBVIOUS
        <3>1. /\ outbox'[h] = IF h = g THEN outbox[h] \ {r} ELSE outbox[h]
              /\ inbox'[h] = IF h = g THEN inbox[h] \cup {r} ELSE inbox[h]
              /\ UNCHANGED <<stdout, target, status>> /\ r \in outbox[g]
            BY <1>3, <2>1 DEF WriterStep, TypeOK
        <3>2. \A q \in outbox'[h] \cup inbox'[h] \cup stdout'[h] :
                  q \in outbox[h] \cup inbox[h] \cup stdout[h]
            BY <3>1
        <3>3. /\ outbox'[h] \cap inbox'[h] = {}
              /\ outbox'[h] \cap stdout'[h] = {}
              /\ inbox'[h] \cap stdout'[h] = {}
            BY <3>1
        <3> QED
            BY <3>1, <3>2, <3>3
    <2>2. CASE proc[g] # "alive"
        <3> SUFFICES ASSUME NEW h \in Gens PROVE Wired(h)'
            OBVIOUS
        <3>1. /\ outbox'[h] = IF h = g THEN {} ELSE outbox[h]
              /\ UNCHANGED <<inbox, stdout, target, status>>
            BY <1>3, <2>2 DEF WriterStep, TypeOK
        <3>2. outbox'[h] \subseteq outbox[h]
            BY <3>1
        <3> QED
            BY <3>1, <3>2
    <2> QED
        BY <2>1, <2>2
<1>4. ASSUME NEW g \in Gens, NEW r \in Requests, ReaderStep(g, r)
      PROVE  WireInv'
    BY <1>4 DEF ReaderStep, Told, TypeOK
<1>5. ASSUME NEW g \in Gens, NEW r \in Requests, ChildAnswers(g, r)
      PROVE  WireInv'
    BY <1>5 DEF ChildAnswers, TypeOK
<1>6. ASSUME NEW g \in Gens, ChildDies(g) PROVE WireInv'
    BY <1>6 DEF ChildDies, TypeOK
<1>7. ASSUME NEW g \in Gens, CoordFinishes(g) PROVE WireInv'
    BY <1>7 DEF CoordFinishes, FailPending, FailEntries, Told, TypeOK
<1> QED
    BY <1>1, <1>2, <1>3, <1>4, <1>5, <1>6, <1>7
       DEF RpcNext, RequestStep, SendStep, PipeStep, ExitStep, CallStep, Kill,
           RespawnKill, CoordKill, CoordReaps, KillChild, AttachOk,
           AttachFails, ConsumeEvent, rpcVars

\* An event that is a response was read when nobody waited for it.
LEMMA StepLate ==
    /\ TypeOK /\ StampInv /\ WireInv /\ LateResponsesAreStale
    /\ [RpcNext]_rpcVars
    => LateResponsesAreStale'
<1> SUFFICES ASSUME TypeOK, StampInv, WireInv, LateResponsesAreStale,
                    [RpcNext]_rpcVars,
                    NEW i \in 1 .. Len(events'), events'[i].kind = "late"
             PROVE  status'[events'[i].req] \in {"exit", "timeout", "dropped"}
    BY DEF LateResponsesAreStale
<1> DEFINE E == ExitEvents \cup LateEvents
<1>0. events \in Seq(E)
    BY DEF TypeOK
<1>1. ASSUME NEW j \in 1 .. Len(events), events'[i] = events[j]
      PROVE  status'[events'[i].req] \in {"exit", "timeout", "dropped"}
    <2>1. events[j] \in E /\ events[j].kind = "late"
        BY <1>0, <1>1
    <2>2. events[j].req \in Requests
        BY <2>1 DEF ExitEvents, LateEvents
    <2>3. status[events[j].req] \in {"exit", "timeout", "dropped"}
        BY <2>1 DEF LateResponsesAreStale
    <2> QED
        BY <1>1, <2>2, <2>3, StaleStays
<1>2. CASE UNCHANGED events
    BY <1>1, <1>2
<1>3. ASSUME NEW g \in Gens, NEW r \in Requests, ReaderStep(g, r)
      PROVE  status'[events'[i].req] \in {"exit", "timeout", "dropped"}
    <2> DEFINE e == [kind |-> "late", req |-> r]
    <2>1. CASE pending[r] # 0
        BY <1>2, <1>3, <2>1 DEF ReaderStep
    <2>2. CASE pending[r] = 0
        <3>1. events' = Append(events, e) /\ status' = status
            BY <1>3, <2>2 DEF ReaderStep
        <3>2. status[r] \in {"exit", "timeout", "dropped"}
            BY <1>3, <2>2 DEF ReaderStep, StampInv, Stamped, WireInv, Wired
        <3>3. e \in E
            BY DEF LateEvents
        <3>4. CASE i \in 1 .. Len(events) /\ events'[i] = events[i]
            BY <1>1, <3>4
        <3>5. CASE events'[i] = e
            BY <3>1, <3>2, <3>5
        <3> HIDE DEF E, e
        <3> QED
            BY <1>0, <3>1, <3>3, <3>4, <3>5, AppendElement
    <2> QED
        BY <2>1, <2>2
<1>4. ASSUME NEW g \in Gens, CoordFinishes(g)
      PROVE  status'[events'[i].req] \in {"exit", "timeout", "dropped"}
    <2> DEFINE e == [kind |-> "exit", intentional |-> intent[g]]
    <2>1. events' = Append(events, e)
        BY <1>4 DEF CoordFinishes
    <2>2. e \in E
        BY DEF ExitEvents, TypeOK
    <2>3. CASE i \in 1 .. Len(events) /\ events'[i] = events[i]
        BY <1>1, <2>3
    <2>4. events'[i] # e
        OBVIOUS
    <2> HIDE DEF E, e
    <2> QED
        BY <1>0, <2>1, <2>2, <2>3, <2>4, AppendElement
<1>5. CASE ConsumeEvent
    <2>1. i + 1 \in 1 .. Len(events) /\ events'[i] = events[i + 1]
        BY <1>0, <1>5 DEF ConsumeEvent
    <2> QED
        BY <1>1, <2>1
<1> QED
    BY <1>2, <1>3, <1>4, <1>5
       DEF RpcNext, RequestStep, SendStep, PipeStep, ExitStep, CallStep, Kill,
           RespawnKill, Request, Send, RequestTimeout, CallerDropped, WriterStep,
           ChildAnswers, ChildDies, CoordKill, CoordReaps, KillChild, AttachOk, AttachFails,
           rpcVars

-----------------------------------------------------------------------------
(* The teardown of a respawn.                                              *)

\* A caller waits for a child that was attached when it began; once released,
\* that child has been reaped.
ReleasedInv ==
    \A c \in Respawners :
        /\ call[c].pc \in {"await", "resolved"} =>
              call[c].gen \in Gens /\ call[c].gen <= attached
        /\ call[c].pc = "resolved" => coord[call[c].gen] \in {"drain", "done"}

\* Nobody respawns at first.
LEMMA InitReleased == RpcInit => ReleasedInv
BY DEF RpcInit, ReleasedInv, Idle, Callers

\* A step releases a caller only when its child has been reaped, and a reaped
\* child stays so.
LEMMA StepReleased ==
    TypeOK /\ GenerationInv /\ ReleasedInv /\ [RpcNext]_rpcVars => ReleasedInv'
<1> SUFFICES ASSUME TypeOK, GenerationInv, ReleasedInv, [RpcNext]_rpcVars
             PROVE  ReleasedInv'
    OBVIOUS
<1>0. Respawners \subseteq Callers /\ Gens \subseteq Nat
    BY MaxGenAssumption DEF Callers, Gens
<1> USE <1>0 DEF ReleasedInv
<1>1. ASSUME NEW g \in Gens, CoordReaps(g) PROVE ReleasedInv'
    <2> SUFFICES ASSUME NEW c \in Respawners
                 PROVE  /\ call'[c].pc \in {"await", "resolved"} =>
                              call'[c].gen \in Gens /\ call'[c].gen <= attached'
                        /\ call'[c].pc = "resolved" =>
                              coord'[call'[c].gen] \in {"drain", "done"}
        OBVIOUS
    <2>1. attached' = attached /\ coord' = [coord EXCEPT ![g] = "drain"]
        BY <1>1 DEF CoordReaps
    <2>2. CASE call[c].pc = "await" /\ call[c].gen = g
        <3>1. call'[c] = [pc |-> "resolved", gen |-> g,
                          intentional |-> call[c].intentional]
            BY <1>1, <2>2 DEF CoordReaps, ReleaseCallers
        <3> QED
            BY <2>1, <2>2, <3>1 DEF TypeOK
    <2>3. CASE ~(call[c].pc = "await" /\ call[c].gen = g)
        <3>1. call'[c] = call[c]
            BY <1>1, <2>3 DEF CoordReaps, ReleaseCallers
        <3> QED
            BY <2>1, <3>1 DEF TypeOK
    <2> QED
        BY <2>2, <2>3
<1>2. ASSUME NEW g \in Gens, CoordFinishes(g) PROVE ReleasedInv'
    BY <1>2 DEF CoordFinishes, TypeOK
<1>3. ASSUME NEW g \in Gens, NEW c \in Callers, CoordKill(g, c)
      PROVE  ReleasedInv'
    BY <1>3 DEF CoordKill, TypeOK
<1>4. ASSUME NEW c \in Callers, NEW i \in BOOLEAN, KillChild(c, i)
      PROVE  ReleasedInv'
    BY <1>4 DEF KillChild, TypeOK
<1>5. ASSUME NEW c \in Respawners, AttachOk(c) PROVE ReleasedInv'
    <2>1. /\ attached' = generation + 1 /\ attached <= generation
          /\ generation \in Gens /\ attached \in Gens
          /\ coord' = [coord EXCEPT ![generation + 1] = "watch"]
        BY <1>5 DEF AttachOk, GenerationInv, TypeOK
    <2>2. ASSUME NEW d \in Respawners, call'[d].pc # "idle"
          PROVE  call'[d] = call[d]
        BY <1>5, <2>2 DEF AttachOk, Idle, TypeOK
    <2>3. ASSUME NEW g \in Gens, g <= attached
          PROVE  coord'[g] = coord[g] /\ g <= attached'
        BY <2>1, <2>3 DEF TypeOK
    <2> SUFFICES ASSUME NEW d \in Respawners, call'[d].pc \in {"await", "resolved"}
                 PROVE  /\ call'[d].gen \in Gens /\ call'[d].gen <= attached'
                        /\ call'[d].pc = "resolved" =>
                              coord'[call'[d].gen] \in {"drain", "done"}
        OBVIOUS
    <2>4. call'[d] = call[d]
        BY <2>2
    <2>5. call[d].gen \in Gens /\ call[d].gen <= attached
        BY <2>4
    <2> QED
        BY <2>3, <2>4, <2>5
<1>6. ASSUME NEW c \in Respawners, AttachFails(c) PROVE ReleasedInv'
    BY <1>6 DEF AttachFails, Idle, TypeOK
<1>7. CASE UNCHANGED <<call, coord, attached>>
    BY <1>7
<1> QED
    BY <1>1, <1>2, <1>3, <1>4, <1>5, <1>6, <1>7
       DEF RpcNext, RequestStep, SendStep, PipeStep, ExitStep, CallStep, Kill,
           RespawnKill, Callers, Request, Send, RequestTimeout, CallerDropped,
           WriterStep, ReaderStep, ChildAnswers, ChildDies, ConsumeEvent, rpcVars

\* A new child takes the place of a live one only from a respawn() that waited
\* for an older child: with the control closed, or after the wait for the
\* attached child itself, the attached child is dead.
LEMMA TeardownStep ==
    ASSUME TypeOK, GenerationInv, ReleasedInv, [RpcNext]_rpcVars,
           attached' # attached, proc[attached] = "alive"
    PROVE  \E c \in Respawners : /\ call[c].pc = "resolved"
                                 /\ call[c].gen < attached
                                 /\ call'[c] = Idle
<1>1. PICK c \in Respawners : AttachOk(c)
    BY DEF RpcNext, RequestStep, SendStep, PipeStep, ExitStep, CallStep, Kill,
           RespawnKill, KillChild, Request, Send, RequestTimeout,
           CallerDropped, WriterStep, ReaderStep, ChildAnswers, ChildDies,
           CoordKill, CoordReaps, CoordFinishes, AttachFails, ConsumeEvent,
           rpcVars
<1>2. coord[attached] \in {"watch", "reap"}
    BY DEF TypeOK, GenerationInv, CoordStates
<1>3. call[c].pc = "resolved"
    BY <1>1, <1>2 DEF AttachOk, RespawnMayAttach, ControlOpen
<1>4. call[c].gen \in Gens /\ call[c].gen <= attached /\ call[c].gen # attached
    BY <1>2, <1>3 DEF ReleasedInv
<1>5. call'[c] = Idle
    BY <1>1 DEF AttachOk, TypeOK, Callers
<1> QED
    BY <1>3, <1>4, <1>5, MaxGenAssumption DEF Gens, TypeOK

-----------------------------------------------------------------------------
(* Safety.                                                                 *)

\* The layers above hold together in every reachable state.
RpcInv == TypeOK /\ GenerationInv /\ StampInv /\ WireInv /\ LateResponsesAreStale

\* Every reachable state of the connection satisfies the inductive invariant.
THEOREM InvariantHolds == RpcSafeSpec => []RpcInv
<1>1. RpcInit => RpcInv
    BY InitType, InitGeneration, InitStamp, InitWire
       DEF RpcInv, RpcInit, LateResponsesAreStale
<1>2. RpcInv /\ [RpcNext]_rpcVars => RpcInv'
    BY StepType, StepGeneration, StepStamp, StepWire, StepLate DEF RpcInv
<1> QED
    BY <1>1, <1>2, PTL DEF RpcSafeSpec

\* Whoever waits has its entry in the pending map, and an entry belongs to a
\* caller that waits, is about to send or was dropped, however response,
\* deadline, exit and respawn interleave.
THEOREM PendingMatches == RpcSafeSpec => []PendingMatchesCallers
<1>1. RpcInv => PendingMatchesCallers
    BY DEF RpcInv, StampInv, Stamped, PendingMatchesCallers
<1> QED
    BY <1>1, InvariantHolds, PTL

\* fail_pending fails only requests whose own child is dead or replaced.
THEOREM ExitFailsOnlyLost == RpcSafeSpec => []ExitFailsOnlyLostRequests
<1>1. RpcInv => ExitFailsOnlyLostRequests
    BY DEF RpcInv, StampInv, Stamped, ExitFailsOnlyLostRequests
<1> QED
    BY <1>1, InvariantHolds, PTL

\* The reader never turns the response of a waiting caller into an event.
THEOREM LateAreStale == RpcSafeSpec => []LateResponsesAreStale
<1>1. RpcInv => LateResponsesAreStale
    BY DEF RpcInv
<1> QED
    BY <1>1, InvariantHolds, PTL

\* A respawn() that overlaps no other never replaces a live child, whatever
\* kills run beside it and however many spawns have failed.
THEOREM TeardownAwaited == RpcSafeSpec => TeardownIsAwaited
<1>1. RpcInit => ReleasedInv
    BY InitReleased
<1>2. RpcInv /\ ReleasedInv /\ [RpcNext]_rpcVars => ReleasedInv'
    BY StepReleased DEF RpcInv
<1> DEFINE Awaited == attached' # attached /\ proc[attached] = "alive" =>
                         \E c \in Respawners : /\ call[c].pc = "resolved"
                                               /\ call[c].gen < attached
                                               /\ call'[c] = Idle
<1>3. RpcInv /\ ReleasedInv /\ [RpcNext]_rpcVars => [Awaited]_rpcVars
    BY TeardownStep DEF RpcInv
<1>4. RpcSafeSpec => [][Awaited]_rpcVars
    <2> HIDE DEF Awaited
    <2> QED
        BY <1>1, <1>2, <1>3, InvariantHolds, PTL DEF RpcSafeSpec
<1> QED
    BY <1>4 DEF TeardownIsAwaited

-----------------------------------------------------------------------------
(* The service.                                                            *)

\* Before the first request no child is gone.
LEMMA ServiceInit == RpcInit => Service!SvcInit
BY MaxGenAssumption DEF RpcInit, Service!SvcInit, Served, Gone, Gens

\* Every step of the connection is a step of the service, or leaves what its
\* users see unchanged.
LEMMA ServiceStep == RpcInv /\ [RpcNext]_rpcVars => [Service!SvcNext]_(Service!svcVars)
<1> SUFFICES ASSUME RpcInv, [RpcNext]_rpcVars
             PROVE  Service!SvcNext \/ UNCHANGED Service!svcVars
    OBVIOUS
<1>0. Gens = 1 .. MaxGen /\ Gens \subseteq Nat
    BY MaxGenAssumption DEF Gens
<1> USE MaxGenAssumption DEF RpcInv
<1>n. status \in [Requests -> Statuses]
    BY DEF TypeOK
<1>1. ASSUME NEW r \in Requests, Send(r) PROVE Service!SvcNext
    <2>1. UNCHANGED <<attached, Gone>> /\ target' = [target EXCEPT ![r] = attached]
        BY <1>1 DEF Send, Gone
    <2>2. status[r] = "stamped" /\ (stdinOpen[attached] \/ attached \in Gone)
        BY <1>1 DEF Send, Gone, GenerationInv, TypeOK
    <2>3. PICK s \in {"waiting", "exit", "closed"} :
              /\ status' = [status EXCEPT ![r] = s]
              /\ s = "waiting" \/ attached \in Gone
        BY <1>1, <2>2 DEF Send, StampInv, Stamped, Gone, TypeOK
    <2>4. Served' = [Served EXCEPT ![r] = s] /\ Served[r] = "new"
        BY <1>n, <2>2, <2>3 DEF Served
    <2>5. Service!Issue(r)
        BY <2>1, <2>3, <2>4 DEF Service!Issue
    <2> QED
        BY <2>5 DEF Service!SvcNext
<1>r. ASSUME NEW r \in Requests, Request(r) PROVE UNCHANGED Service!svcVars
    <2>1. UNCHANGED <<target, attached, Gone>>
        BY <1>r DEF Request, Gone
    <2>2. UNCHANGED Served
        BY <1>n, <1>r DEF Request, Served
    <2> QED
        BY <2>1, <2>2 DEF Service!svcVars
<1>2. ASSUME NEW r \in Requests, RequestTimeout(r) PROVE Service!SvcNext
    <2>1. UNCHANGED <<target, attached, Gone>>
        BY <1>2 DEF RequestTimeout, Gone
    <2>2. Served' = [Served EXCEPT ![r] = "timeout"] /\ Served[r] = "waiting"
        BY <1>n, <1>2 DEF RequestTimeout, Served
    <2>3. Service!Expire(r)
        BY <1>2, <2>1, <2>2 DEF RequestTimeout, Service!Expire
    <2> QED
        BY <2>3 DEF Service!SvcNext
<1>d. ASSUME NEW r \in Requests, CallerDropped(r) PROVE Service!SvcNext
    <2>1. UNCHANGED <<target, attached, Gone>>
        BY <1>d DEF CallerDropped, Gone
    <2>2. Served' = [Served EXCEPT ![r] = "dropped"] /\ Served[r] = "waiting"
        BY <1>n, <1>d DEF CallerDropped, Served
    <2>3. Service!Abandon(r)
        BY <1>d, <2>1, <2>2 DEF CallerDropped, Service!Abandon
    <2> QED
        BY <2>3 DEF Service!SvcNext
<1>3. ASSUME NEW g \in Gens, NEW r \in Requests, ReaderStep(g, r)
      PROVE  Service!SvcNext \/ UNCHANGED Service!svcVars
    <2>1. UNCHANGED <<target, attached, Gone>>
        BY <1>3 DEF ReaderStep, Gone
    <2>2. CASE pending[r] # 0 /\ status[r] = "waiting"
        <3>1. Served' = [Served EXCEPT ![r] = "ok"] /\ Served[r] = "waiting"
            BY <1>n, <1>3, <2>2 DEF ReaderStep, Told, Served
        <3>2. Service!Answer(r)
            BY <2>1, <3>1 DEF Service!Answer
        <3> QED
            BY <3>2 DEF Service!SvcNext
    <2>3. CASE ~(pending[r] # 0 /\ status[r] = "waiting")
        <3>1. status' = status
            BY <1>n, <1>3, <2>3 DEF ReaderStep, Told
        <3>2. UNCHANGED Served
            BY <3>1 DEF Served
        <3> QED
            BY <2>1, <3>2 DEF Service!svcVars
    <2> QED
        BY <2>2, <2>3
<1>4. ASSUME NEW g \in Gens, ChildDies(g)
      PROVE  Service!SvcNext \/ UNCHANGED Service!svcVars
    <2>1. UNCHANGED <<Served, target, attached>>
        BY <1>4 DEF ChildDies, Served
    <2>2. Gone' = Gone \cup {g}
        BY <1>4 DEF ChildDies, Gone, TypeOK
    <2>3. CASE g \in Gone
        BY <2>1, <2>2, <2>3 DEF Service!svcVars
    <2>4. CASE g \notin Gone
        <3>1. Service!Lose(g)
            BY <2>1, <2>2, <2>4 DEF Service!Lose
        <3> QED
            BY <1>0, <3>1 DEF Service!SvcNext
    <2> QED
        BY <2>3, <2>4
<1>5. ASSUME NEW g \in Gens, CoordFinishes(g) PROVE Service!SvcNext
    <2> DEFINE S == {r \in Requests : /\ pending[r] # 0 /\ pending[r] <= g
                                      /\ status[r] = "waiting"}
    <2>1. UNCHANGED <<target, attached, Gone>>
        BY <1>5 DEF CoordFinishes, Gone
    <2>2. status' = [r \in Requests |-> IF r \in S THEN "exit" ELSE status[r]]
        BY <1>5, <1>n DEF CoordFinishes, FailPending, FailEntries, Told
    <2>3. Served' = [r \in Requests |-> IF r \in S THEN "exit" ELSE Served[r]]
        BY <2>2 DEF Served
    <2>4. ASSUME NEW r \in S PROVE Served[r] = "waiting" /\ target[r] \in Gone
        <3>1. /\ status[r] = "waiting" /\ target[r] \in Gens
              /\ target[r] <= pending[r] /\ pending[r] \in 0 .. MaxGen
            BY DEF StampInv, Stamped, TypeOK
        <3>2. proc[g] = "dead" /\ g <= attached /\ attached \in Gens
            BY <1>5 DEF CoordFinishes, GenerationInv, TypeOK
        <3> QED
            BY <1>0, <3>1, <3>2 DEF Gone, Served
    <2>5. Service!Fail(S)
        BY <2>1, <2>3, <2>4 DEF Service!Fail
    <2>6. S \in SUBSET Requests
        OBVIOUS
    <2> HIDE DEF S
    <2> QED
        BY <2>5, <2>6 DEF Service!SvcNext
<1>6. ASSUME NEW c \in Respawners, AttachOk(c) PROVE Service!SvcNext
    <2>1. UNCHANGED <<Served, target>> /\ attached' = generation + 1
        BY <1>6 DEF AttachOk, Served
    <2>2. attached < generation + 1 /\ generation + 1 \in Gens
        BY <1>0, <1>6 DEF AttachOk, RespawnMayAttach, GenerationInv, TypeOK
    <2>3. ASSUME NEW g \in Gens, proc[g] = "dead" PROVE g <= generation
        BY <1>0, <2>3 DEF GenerationInv, TypeOK
    <2>4. Gone' = Gone \cup (1 .. (generation + 1 - 1))
        <3>1. ASSUME NEW g \in Gens
              PROVE  g \in Gone' <=> g \in Gone \/ g <= generation
            <4>1. g \in Gone' <=> g <= generation
                BY <1>0, <1>6, <2>1, <2>2, <2>3 DEF AttachOk, Gone, TypeOK
            <4>2. g \in Gone => g <= generation
                BY <1>0, <2>2, <2>3 DEF Gone, TypeOK
            <4> QED
                BY <4>1, <4>2
        <3>2. Gone \subseteq Gens /\ Gone' \subseteq Gens
            BY DEF Gone
        <3>3. 1 .. (generation + 1 - 1) = {g \in Gens : g <= generation}
            BY <1>0, <2>2 DEF TypeOK
        <3> QED
            BY <3>1, <3>2, <3>3
    <2>5. Service!Replace(generation + 1)
        BY <1>0, <2>1, <2>2, <2>4 DEF Service!Replace, TypeOK
    <2> QED
        BY <1>0, <2>2, <2>5 DEF Service!SvcNext
<1> QED
    BY <1>1, <1>r, <1>2, <1>d, <1>3, <1>4, <1>5, <1>6
       DEF RpcNext, RequestStep, SendStep, PipeStep, ExitStep, CallStep, Kill,
           RespawnKill, WriterStep, ChildAnswers, CoordKill, CoordReaps,
           KillChild, AttachFails, ConsumeEvent, rpcVars, Gone, Served,
           Service!svcVars

\* The connection implements the service its users rely on, for every number
\* of requests, callers and generations.
THEOREM Implementation == RpcSafeSpec => ImplementsService
BY ServiceInit, ServiceStep, InvariantHolds, PTL
   DEF RpcSafeSpec, ImplementsService, Service!SvcSpec

-----------------------------------------------------------------------------
(* Crash recovery.                                                         *)

\* The type of a round.
Rounds == [pc : RoundPcs, attempt : 0 .. MaxAttempts, saved : Sessions,
           req : 0 .. MaxGen, got : Sessions, restored : BOOLEAN]

-----------------------------------------------------------------------------
(* Recovery is a user of the connection.                                   *)

\* The rounds' own requests are not among the modelled ones, which all stay new.
Quiet == \A r \in Requests : status[r] = "new"

\* Recovery issues no request of the set.
LEMMA StepQuiet == Quiet /\ [RecNext]_vars => Quiet'
<1> SUFFICES ASSUME Quiet, [RecNext]_vars, NEW r \in Requests
             PROVE  status'[r] = "new"
    BY DEF Quiet
<1>1. CASE ExitStep
    BY <1>1 DEF ExitStep, ChildDies, CoordKill, CoordReaps, CoordFinishes,
           FailPending, FailEntries, Told, Quiet
<1>2. CASE EventStep
    BY <1>2 DEF EventStep, ExitIntentional, RecoveryPaused, RoundBegins,
           ConsumeEvent, Quiet
<1>3. ASSUME NEW c \in Respawners, RoundStep(c) PROVE status'[r] = "new"
    <2>1. UNCHANGED status
        BY <1>3 DEF RoundStep, AttemptKills, RespawnKill, KillChild,
               AttemptAttaches, AttachOk, AttemptSpawnFails, AttachFails,
               LoadAnswered, LoadFails, LoadDone, SwitchAnswered,
               SwitchRefused, SwitchUnanswered, ReloadAnswered, ReloadFails,
               RoundEnds, ReplayFails, rpcVars
    <2> QED
        BY <2>1 DEF Quiet
<1>4. CASE ~ExitStep /\ ~EventStep /\ \A c \in Respawners : ~RoundStep(c)
    <2>1. UNCHANGED status
        BY <1>4 DEF RecNext, ConnectionStep, DialogueOpens, DialogueCloses,
               WindowSlides, HeartbeatMissed, HeartbeatReset, WatchdogKills,
               KillChild, vars, rpcVars
    <2> QED
        BY <2>1 DEF Quiet
<1> QED
    BY <1>1, <1>2, <1>3, <1>4

\* Every step of recovery is a step of the connection or leaves it alone.
LEMMA StepsConnection == Quiet /\ [RecNext]_vars => [RpcNext]_rpcVars
<1> SUFFICES ASSUME Quiet, [RecNext]_vars PROVE [RpcNext]_rpcVars
    OBVIOUS
<1>0. LocalSetFree
    BY DEF Quiet, LocalSetFree
<1> USE <1>0 DEF RpcNext
<1>1. CASE ConnectionStep
    BY <1>1 DEF ConnectionStep
<1>2. CASE EventStep
    <2>1. ConsumeEvent
        BY <1>2 DEF EventStep, ExitIntentional, RecoveryPaused, RoundBegins
    <2> QED
        BY <2>1
<1>3. ASSUME NEW c \in Respawners, RoundStep(c) PROVE [RpcNext]_rpcVars
    <2>1. \/ RespawnKill(c) \/ AttachOk(c) \/ AttachFails(c)
          \/ UNCHANGED rpcVars
        BY <1>3 DEF RoundStep, AttemptKills, AttemptAttaches,
                    AttemptSpawnFails, LoadAnswered, LoadFails, LoadDone,
                    SwitchAnswered, SwitchRefused, SwitchUnanswered,
                    ReloadAnswered, ReloadFails, RoundEnds, ReplayFails
    <2> QED
        BY <2>1 DEF CallStep
<1>4. ASSUME NEW k \in Killers, WatchdogKills(k) PROVE [RpcNext]_rpcVars
    <2>1. KillChild(k, FALSE) \/ UNCHANGED rpcVars
        BY <1>4 DEF WatchdogKills
    <2> QED
        BY <2>1 DEF CallStep, Kill
<1>5. CASE \/ DialogueOpens \/ DialogueCloses \/ WindowSlides
           \/ HeartbeatMissed \/ HeartbeatReset \/ UNCHANGED vars
    <2>1. UNCHANGED rpcVars
        BY <1>5 DEF DialogueOpens, DialogueCloses, WindowSlides,
                    HeartbeatMissed, HeartbeatReset, vars
    <2> QED
        BY <2>1
<1> QED
    BY <1>1, <1>2, <1>3, <1>4, <1>5 DEF RecNext

\* Everything proved of the connection holds while rounds and the watchdog
\* drive it: respawn() and kill() are called only where they may be.
THEOREM RecoveryUsesConnection == RecSafeSpec => RpcSafeSpec
<1>1. RecInit => RpcInit /\ Quiet
    BY DEF RecInit, RpcInit, Quiet
<1> QED
    BY <1>1, StepQuiet, StepsConnection, PTL DEF RecSafeSpec, RpcSafeSpec

-----------------------------------------------------------------------------
(* What a round's step does.                                               *)

\* The attempt returned Err.
Retries(c, r) ==
    \/ /\ round[c].attempt < Attempts(c)
       /\ r.pc = "backoff" /\ r.attempt = round[c].attempt + 1
       /\ UNCHANGED told
    \/ /\ round[c].attempt >= Attempts(c)
       /\ r.pc = "off" /\ Tell

\* The part of an attempt that follows respawn().
Later == {"load", "loaded", "switch", "reload", "finish"}

\* Where a round waits for a child's answer.
Talking == Later \ {"finish"}

MayAttach(c) ==
    \/ round[c].pc = "backoff" /\ call[c].pc = "idle"
    \/ round[c].pc = "respawn" /\ call[c].pc = "resolved"

\* The step of a round, without the sessions.
Moves(c, r) ==
    \/ /\ round[c].pc = "backoff" /\ RespawnKill(c)
       /\ r.pc = "respawn" /\ r.attempt = round[c].attempt
       /\ UNCHANGED told
    \/ /\ MayAttach(c) /\ AttachOk(c)
       /\ r.pc = "load" /\ r.attempt = round[c].attempt
       /\ told' = FALSE
    \/ /\ MayAttach(c) /\ AttachFails(c) /\ Retries(c, r)
    \/ /\ round[c].pc \in Later /\ UNCHANGED rpcVars
       /\ \/ r.pc \in Later /\ r.attempt = round[c].attempt
          \/ r.pc = "off"
       /\ UNCHANGED told
    \/ /\ round[c].pc \in Later /\ UNCHANGED rpcVars /\ Retries(c, r)

\* The other rounds stay where they are.
LEMMA RoundSet ==
    ASSUME round \in [Respawners -> Rounds], NEW c \in Respawners,
           NEW r \in Rounds, SetRound(c, r)
    PROVE  /\ round' \in [Respawners -> Rounds]
           /\ round'[c] = r
           /\ \A d \in Respawners \ {c} : round'[d] = round[d]
BY DEF SetRound

\* A round at its start, or at the start of a further attempt.
LEMMA FreshRound ==
    ASSUME NEW pc \in RoundPcs, NEW n \in 0 .. MaxAttempts
    PROVE  LET r == [Off EXCEPT !.pc = pc, !.attempt = n]
           IN  r \in Rounds /\ r.pc = pc /\ r.attempt = n
<1>1. Off \in Rounds
    BY RecoveryAssumption, MaxGenAssumption DEF Off, Rounds, RoundPcs, Sessions
<1>2. ASSUME NEW x \in Rounds
      PROVE  LET r == [x EXCEPT !.pc = pc, !.attempt = n]
             IN  r \in Rounds /\ r.pc = pc /\ r.attempt = n
    BY DEF Rounds
<1> QED
    BY <1>1, <1>2

\* A round has at least one attempt, and no more than the back-off table.
LEMMA AttemptsRange ==
    ASSUME NEW c \in Respawners
    PROVE  Attempts(c) \in 1 .. MaxAttempts
BY RecoveryAssumption DEF Attempts

\* The round after a failed attempt.
LEMMA FailedAttempt ==
    ASSUME RecTypeOK, NEW c \in Respawners, AttemptFails(c)
    PROVE  \E r \in Rounds : SetRound(c, r) /\ Retries(c, r)
<1>1. /\ round[c].attempt \in 0 .. MaxAttempts /\ MaxAttempts \in Nat
      /\ Attempts(c) \in 1 .. MaxAttempts
    BY RecoveryAssumption, AttemptsRange DEF RecTypeOK
<1>2. CASE round[c].attempt < Attempts(c)
    <2> DEFINE n == round[c].attempt + 1
               r == [Off EXCEPT !.pc = "backoff", !.attempt = n]
    <2>1. SetRound(c, r) /\ UNCHANGED told
        BY <1>2 DEF AttemptFails
    <2>2. n \in 0 .. MaxAttempts
        BY <1>1, <1>2
    <2>3. "backoff" \in RoundPcs
        BY DEF RoundPcs
    <2>4. r \in Rounds /\ r.pc = "backoff" /\ r.attempt = n
        BY <2>2, <2>3, FreshRound
    <2> HIDE DEF r
    <2> QED
        BY <1>2, <2>1, <2>4 DEF Retries
<1>3. CASE ~(round[c].attempt < Attempts(c))
    <2>1. SetRound(c, Off) /\ Tell
        BY <1>3 DEF AttemptFails
    <2>2. Off \in Rounds /\ Off.pc = "off"
        BY RecoveryAssumption, MaxGenAssumption DEF Off, Rounds, RoundPcs, Sessions
    <2> QED
        BY <1>1, <1>3, <2>1, <2>2 DEF Retries
<1> QED
    BY <1>2, <1>3

\* The round when only publishing and the replay are left.
LEMMA FinishShape ==
    ASSUME RecTypeOK, NEW c \in Respawners, NEW b \in BOOLEAN
    PROVE  /\ Finishing(c, b) \in Rounds
           /\ Finishing(c, b).pc = "finish"
           /\ Finishing(c, b).attempt = round[c].attempt
<1>1. Off \in Rounds
    BY RecoveryAssumption, MaxGenAssumption DEF Off, Rounds, RoundPcs, Sessions
<1>2. round[c].attempt \in 0 .. MaxAttempts /\ "finish" \in RoundPcs
    BY DEF RecTypeOK, RoundPcs
<1>3. ASSUME NEW x \in Rounds, NEW n \in 0 .. MaxAttempts
      PROVE  LET r == [x EXCEPT !.pc = "finish", !.attempt = n, !.restored = b]
             IN  r \in Rounds /\ r.pc = "finish" /\ r.attempt = n
    BY <1>2 DEF Rounds
<1> QED
    BY <1>1, <1>2, <1>3 DEF Finishing

\* The round that asks the attached child to switch.
Switching(n, v, g) == [Off EXCEPT !.pc = "switch", !.attempt = n,
                                     !.saved = v, !.req = g]

\* It is well typed.
LEMMA SwitchShape ==
    ASSUME NEW n \in 0 .. MaxAttempts, NEW v \in Sessions, NEW g \in 0 .. MaxGen
    PROVE  /\ Switching(n, v, g) \in Rounds
           /\ Switching(n, v, g).pc = "switch"
           /\ Switching(n, v, g).attempt = n
           /\ Switching(n, v, g).saved = v
           /\ Switching(n, v, g).req = g
<1>1. Off \in Rounds
    BY RecoveryAssumption, MaxGenAssumption DEF Off, Rounds, RoundPcs, Sessions
<1>2. "switch" \in RoundPcs
    BY DEF RoundPcs
<1>3. ASSUME NEW x \in Rounds
      PROVE  LET r == [x EXCEPT !.pc = "switch", !.attempt = n,
                                !.saved = v, !.req = g]
             IN  /\ r \in Rounds /\ r.pc = "switch" /\ r.attempt = n
                 /\ r.saved = v /\ r.req = g
    BY <1>2 DEF Rounds
<1> QED
    BY <1>1, <1>3 DEF Switching

\* A round that waits for a child's answer knows the child's generation.
AddressInv ==
    \A c \in Respawners : round[c].pc \in Talking => round[c].req \in Gens

\* Every step of a round is one of the moves.
LEMMA RoundShape ==
    ASSUME RecTypeOK, AddressInv, NEW c \in Respawners, RoundStep(c)
    PROVE  \E r \in Rounds : /\ SetRound(c, r) /\ Moves(c, r)
                             /\ r.pc \in Talking => r.req \in Gens
<1>t. /\ round[c] \in Rounds
      /\ round[c].pc \in RoundPcs /\ round[c].saved \in Sessions
      /\ round[c].req \in 0 .. MaxGen /\ round[c].got \in Sessions
      /\ round[c].restored \in BOOLEAN
      /\ bound \in Sessions /\ attached \in Gens /\ generation \in Gens
      /\ Gens \subseteq 0 .. MaxGen
    BY DEF RecTypeOK, TypeOK, Gens, Rounds
<1>p. \A pc \in {"respawn"} \cup Later : pc \in RoundPcs
    BY DEF Later, RoundPcs
<1>1. CASE AttemptKills(c)
    <2> DEFINE r == [round[c] EXCEPT !.pc = "respawn", !.saved = bound]
    <2>1. r \in Rounds /\ r.pc = "respawn" /\ r.attempt = round[c].attempt
        <3>1. "respawn" \in RoundPcs
            BY <1>p
        <3> QED
            BY <1>t, <3>1 DEF Rounds
    <2>2. SetRound(c, r)
        BY <1>1 DEF AttemptKills
    <2> HIDE DEF r
    <2>3. Moves(c, r)
        BY <1>1, <2>1 DEF AttemptKills, Moves
    <2> QED
        BY <2>1, <2>2, <2>3 DEF Talking, Later
<1>2. CASE AttemptAttaches(c)
    <2> DEFINE s == IF round[c].pc = "backoff" THEN bound ELSE round[c].saved
               q == generation + 1
               r == [round[c] EXCEPT !.pc = "load", !.req = q, !.saved = s]
    <2>1. s \in Sessions /\ q \in Gens /\ "load" \in RoundPcs
        <3>1. generation < MaxGen
            BY <1>2 DEF AttemptAttaches, AttachOk, RespawnMayAttach
        <3> QED
            BY <1>t, <1>p, <3>1, MaxGenAssumption DEF Later, Gens
    <2>2. SetRound(c, r)
        <3>1. attached' = q
            BY <1>2 DEF AttemptAttaches, AttachOk
        <3>2. SetRound(c, [round[c] EXCEPT !.pc = "load", !.req = attached',
                 !.saved = IF round[c].pc = "backoff" THEN bound ELSE @])
            BY <1>2 DEF AttemptAttaches
        <3>3. [round[c] EXCEPT !.pc = "load", !.req = attached',
                 !.saved = IF round[c].pc = "backoff" THEN bound ELSE @] = r
            BY <1>t, <3>1 DEF Rounds
        <3> QED
            BY <3>2, <3>3
    <2> HIDE DEF s, q
    <2>3. r \in Rounds /\ r.pc = "load" /\ r.attempt = round[c].attempt /\ r.req = q
        BY <1>t, <2>1 DEF Rounds
    <2> HIDE DEF r
    <2>4. Moves(c, r)
        BY <1>2, <2>3 DEF AttemptAttaches, Moves, MayAttach
    <2> QED
        BY <2>1, <2>2, <2>3, <2>4
<1>3. CASE AttemptSpawnFails(c)
    <2>1. PICK r \in Rounds : SetRound(c, r) /\ Retries(c, r)
        BY <1>3, FailedAttempt DEF AttemptSpawnFails
    <2> QED
        BY <1>3, <2>1 DEF AttemptSpawnFails, Moves, MayAttach, Retries, Talking, Later
<1>4. CASE LoadFails(c) \/ ReplayFails(c)
    <2>1. PICK r \in Rounds : SetRound(c, r) /\ Retries(c, r)
        BY <1>4, FailedAttempt DEF LoadFails, ReplayFails
    <2>2. round[c].pc \in Later /\ UNCHANGED rpcVars
        BY <1>4 DEF LoadFails, ReplayFails, Later
    <2> QED
        BY <2>1, <2>2 DEF Moves, Retries, Talking, Later
<1>5. ASSUME NEW r \in Rounds, SetRound(c, r), round[c].pc \in Later,
             UNCHANGED <<rpcVars, told>>,
             \/ /\ r.pc \in Later /\ r.attempt = round[c].attempt
                /\ r.pc \in Talking => r.req \in Gens
             \/ r.pc = "off"
      PROVE  \E x \in Rounds : /\ SetRound(c, x) /\ Moves(c, x)
                               /\ x.pc \in Talking => x.req \in Gens
    <2>1. Moves(c, r)
        BY <1>5 DEF Moves
    <2>2. r.pc \in Talking => r.req \in Gens
        BY <1>5 DEF Talking, Later
    <2> QED
        BY <1>5, <2>1, <2>2
<1>a. round[c].pc \in Talking => round[c].req \in Gens
    BY DEF AddressInv
<1>6. CASE LoadAnswered(c)
    <2> DEFINE g == opened[round[c].req]
               r == [round[c] EXCEPT !.pc = "loaded", !.got = g]
    <2>0. round[c].req \in Gens
        BY <1>6, <1>a DEF LoadAnswered, Talking, Later
    <2>1. g \in Sessions
        BY <2>0 DEF RecTypeOK
    <2>2. SetRound(c, r) /\ round[c].pc \in Later /\ UNCHANGED <<rpcVars, told>>
        BY <1>6 DEF LoadAnswered, Later
    <2> HIDE DEF g
    <2>3. r \in Rounds /\ r.pc = "loaded" /\ r.attempt = round[c].attempt
              /\ r.req = round[c].req
        <3>1. "loaded" \in RoundPcs
            BY <1>p DEF Later
        <3> QED
            BY <1>t, <2>1, <3>1 DEF Rounds
    <2> HIDE DEF r
    <2> QED
        BY <1>5, <2>0, <2>2, <2>3 DEF Later
<1>7. CASE LoadDone(c)
    <2> DEFINE s == Switching(round[c].attempt, round[c].saved, attached)
               f == Finishing(c, FALSE)
    <2>1. /\ SetRound(c, s) \/ SetRound(c, f)
          /\ round[c].pc \in Later /\ UNCHANGED <<rpcVars, told>>
        BY <1>7 DEF LoadDone, Later, Switching
    <2>2. /\ s \in Rounds /\ s.pc = "switch" /\ s.attempt = round[c].attempt
          /\ s.req \in Gens
        <3>1. round[c].attempt \in 0 .. MaxAttempts /\ attached \in 0 .. MaxGen
            BY <1>t DEF RecTypeOK
        <3> QED
            BY <1>t, <3>1, SwitchShape
    <2>3. f \in Rounds /\ f.pc = "finish" /\ f.attempt = round[c].attempt
        BY FinishShape
    <2> HIDE DEF s, f
    <2>4. CASE SetRound(c, s)
        BY <1>5, <2>1, <2>2, <2>4 DEF Later
    <2>5. CASE SetRound(c, f)
        BY <1>5, <2>1, <2>3, <2>5 DEF Later, Talking
    <2> QED
        BY <2>1, <2>4, <2>5
<1>8. CASE SwitchAnswered(c)
    <2> DEFINE r == [round[c] EXCEPT !.pc = "reload", !.req = attached]
    <2>2. SetRound(c, r) /\ round[c].pc \in Later /\ UNCHANGED <<rpcVars, told>>
        BY <1>8 DEF SwitchAnswered, Later
    <2>3. r \in Rounds /\ r.pc = "reload" /\ r.attempt = round[c].attempt
              /\ r.req = attached
        <3>1. "reload" \in RoundPcs
            BY <1>p DEF Later
        <3> QED
            BY <1>t, <3>1 DEF Rounds
    <2> HIDE DEF r
    <2> QED
        BY <1>5, <1>t, <2>2, <2>3 DEF Later
<1>9. CASE SwitchRefused(c) \/ SwitchUnanswered(c) \/ ReloadFails(c) \/ ReloadAnswered(c)
    <2>1. PICK b \in BOOLEAN : SetRound(c, Finishing(c, b))
        BY <1>9 DEF SwitchRefused, SwitchUnanswered, ReloadFails, ReloadAnswered
    <2>2. round[c].pc \in Later /\ UNCHANGED <<rpcVars, told>>
        BY <1>9 DEF SwitchRefused, SwitchUnanswered, ReloadFails,
                    ReloadAnswered, Later
    <2> DEFINE r == Finishing(c, b)
    <2>3. r \in Rounds /\ r.pc = "finish" /\ r.attempt = round[c].attempt
        BY FinishShape
    <2>4. SetRound(c, r)
        BY <2>1
    <2> HIDE DEF r
    <2> QED
        BY <1>5, <2>2, <2>3, <2>4 DEF Later, Talking
<1>11. CASE RoundEnds(c)
    <2>1. Off \in Rounds /\ Off.pc = "off"
        BY RecoveryAssumption, MaxGenAssumption
           DEF Off, Rounds, RoundPcs, Sessions
    <2>2. SetRound(c, Off) /\ round[c].pc \in Later /\ UNCHANGED <<rpcVars, told>>
        BY <1>11 DEF RoundEnds, Later
    <2> QED
        BY <1>5, <2>1, <2>2 DEF Later
<1> QED
    BY <1>1, <1>2, <1>3, <1>4, <1>6, <1>7, <1>8, <1>9, <1>11 DEF RoundStep

-----------------------------------------------------------------------------
(* Types.                                                                  *)

RecTypeInv == RecTypeOK /\ AddressInv /\ Quiet

\* At start-up no round runs and the first child has its session.
LEMMA InitRecType == RecInit => RecTypeInv
<1> SUFFICES ASSUME RecInit PROVE RecTypeInv
    OBVIOUS
<1>1. TypeOK
    BY InitType DEF RecInit
<1>2. Off \in Rounds /\ Off.pc = "off"
    BY RecoveryAssumption, MaxGenAssumption DEF Off, Rounds, RoundPcs, Sessions
<1>3. /\ round \in [Respawners -> Rounds]
      /\ \A c \in Respawners : round[c].pc = "off"
    BY <1>2 DEF RecInit
<1>4. opened \in [Gens -> Sessions]
    BY MaxGenAssumption DEF RecInit, Gens, Sessions
<1>5. /\ recent \in 0 .. MaxRecoveries /\ slides \in 0 .. MaxSlides
      /\ misses \in 0 .. MaxMisses /\ bound \in Sessions
    BY RecoveryAssumption, MaxGenAssumption DEF RecInit, Sessions
<1>7. told \in BOOLEAN /\ asking \in BOOLEAN /\ slipped \in BOOLEAN
    BY DEF RecInit
<1>6. Quiet
    BY DEF Quiet, RecInit, RpcInit
<1> QED
    BY <1>1, <1>3, <1>4, <1>5, <1>6, <1>7
       DEF RecTypeInv, RecTypeOK, Rounds, AddressInv, Talking, Later

\* A round's step writes typed sessions, and the notice is given or not.
LEMMA SessionTypes ==
    ASSUME RecTypeInv, NEW c \in Respawners, RoundStep(c)
    PROVE  /\ bound' \in Sessions /\ opened' \in [Gens -> Sessions]
           /\ told' \in BOOLEAN /\ slipped' \in BOOLEAN
<1>t. /\ round[c].saved \in Sessions /\ round[c].got \in Sessions
      /\ bound \in Sessions /\ opened \in [Gens -> Sessions]
      /\ told \in BOOLEAN /\ slipped \in BOOLEAN
    BY DEF RecTypeInv, RecTypeOK
<1>1. bound' \in {bound, round[c].got, round[c].saved}
    BY DEF RoundStep, AttemptKills, AttemptAttaches, AttemptSpawnFails,
           LoadAnswered, LoadFails, LoadDone, SwitchAnswered, SwitchRefused,
           SwitchUnanswered, ReloadAnswered, ReloadFails, RoundEnds, ReplayFails
<1>2. opened' \in {opened, [opened EXCEPT ![round[c].req] = round[c].saved]}
    BY DEF RoundStep, AttemptKills, AttemptAttaches, AttemptSpawnFails,
           LoadAnswered, LoadFails, LoadDone, SwitchAnswered, SwitchRefused,
           SwitchUnanswered, ReloadAnswered, ReloadFails, RoundEnds, ReplayFails
<1>3. slipped' = slipped \/ slipped' \in BOOLEAN
    BY DEF RoundStep, AttemptKills, AttemptAttaches, AttemptSpawnFails,
           LoadAnswered, LoadFails, LoadDone, SwitchAnswered, SwitchRefused,
           SwitchUnanswered, ReloadAnswered, ReloadFails, RoundEnds, ReplayFails
<1>4. told' = told \/ told' = FALSE \/ Tell
    BY DEF RoundStep, AttemptKills, AttemptAttaches, AttemptSpawnFails,
           LoadAnswered, LoadFails, LoadDone, SwitchAnswered, SwitchRefused,
           SwitchUnanswered, ReloadAnswered, ReloadFails, RoundEnds,
           ReplayFails, AttemptFails
<1> QED
    BY <1>t, <1>1, <1>2, <1>3, <1>4 DEF Tell

\* A round leaves the guard, the window, the watchdog and the user alone.
LEMMA RoundFrame ==
    ASSUME NEW c \in Respawners, RoundStep(c)
    PROVE  UNCHANGED <<recent, slides, misses, asking>>
BY DEF RoundStep, AttemptKills, AttemptAttaches, AttemptSpawnFails,
       LoadAnswered, LoadFails, LoadDone, SwitchAnswered, SwitchRefused,
       SwitchUnanswered, ReloadAnswered, ReloadFails, RoundEnds, ReplayFails

\* The round that a crash starts.
LEMMA BeginShape ==
    ASSUME NEW c \in Respawners, RoundBegins(c)
    PROVE  \E r \in Rounds : SetRound(c, r) /\ r.pc = "backoff" /\ r.attempt = 1
<1> DEFINE r == [Off EXCEPT !.pc = "backoff", !.attempt = 1]
<1>1. "backoff" \in RoundPcs /\ 1 \in 0 .. MaxAttempts
    BY RecoveryAssumption DEF RoundPcs
<1>2. r \in Rounds /\ r.pc = "backoff" /\ r.attempt = 1
    BY <1>1, FreshRound
<1>3. SetRound(c, r)
    BY DEF RoundBegins, SetRound
<1> HIDE DEF r
<1> QED
    BY <1>2, <1>3

\* Every step keeps the types.
LEMMA StepRecType == RecTypeInv /\ [RecNext]_vars => RecTypeInv'
<1> SUFFICES ASSUME RecTypeInv, [RecNext]_vars PROVE RecTypeInv'
    OBVIOUS
<1>0. TypeOK' /\ Quiet'
    BY StepsConnection, StepQuiet, StepType DEF RecTypeInv, RecTypeOK
<1>t. /\ round \in [Respawners -> Rounds]
      /\ recent \in 0 .. MaxRecoveries /\ slides \in 0 .. MaxSlides
      /\ misses \in 0 .. MaxMisses /\ bound \in Sessions
      /\ opened \in [Gens -> Sessions]
      /\ told \in BOOLEAN /\ asking \in BOOLEAN /\ slipped \in BOOLEAN
      /\ RecTypeOK /\ AddressInv
    BY DEF RecTypeInv, RecTypeOK, Rounds
<1>1. SUFFICES /\ round' \in [Respawners -> Rounds] /\ AddressInv'
               /\ recent' \in 0 .. MaxRecoveries /\ slides' \in 0 .. MaxSlides
               /\ misses' \in 0 .. MaxMisses /\ bound' \in Sessions
               /\ opened' \in [Gens -> Sessions]
               /\ told' \in BOOLEAN /\ asking' \in BOOLEAN
               /\ slipped' \in BOOLEAN
    BY <1>0 DEF RecTypeInv, RecTypeOK, Rounds
<1>2. ASSUME NEW c \in Respawners, NEW r \in Rounds, SetRound(c, r),
             r.pc \in Talking => r.req \in Gens
      PROVE  round' \in [Respawners -> Rounds] /\ AddressInv'
    <2>1. /\ round' \in [Respawners -> Rounds] /\ round'[c] = r
          /\ \A d \in Respawners \ {c} : round'[d] = round[d]
        BY <1>t, <1>2, RoundSet
    <2> QED
        BY <1>t, <1>2, <2>1 DEF AddressInv
<1>3. ASSUME NEW c \in Respawners, RoundStep(c) PROVE <1>1!1
    <2>1. PICK r \in Rounds : /\ SetRound(c, r) /\ Moves(c, r)
                              /\ r.pc \in Talking => r.req \in Gens
        BY <1>t, <1>3, RoundShape
    <2>2. UNCHANGED <<recent, slides, misses, asking>>
        BY <1>3, RoundFrame
    <2>3. /\ bound' \in Sessions /\ opened' \in [Gens -> Sessions]
          /\ told' \in BOOLEAN /\ slipped' \in BOOLEAN
        BY <1>3, SessionTypes
    <2> QED
        BY <1>t, <1>2, <2>1, <2>2, <2>3
<1>4. ASSUME NEW c \in Respawners, RoundBegins(c) PROVE <1>1!1
    <2>1. PICK r \in Rounds : SetRound(c, r) /\ r.pc = "backoff"
        BY <1>4, BeginShape
    <2>2. round' \in [Respawners -> Rounds] /\ AddressInv'
        BY <1>2, <2>1 DEF Talking, Later
    <2>3. recent' \in 0 .. MaxRecoveries /\ slipped' \in BOOLEAN
        BY <1>t, <1>4, RecoveryAssumption DEF RoundBegins
    <2>4. UNCHANGED <<slides, misses, bound, opened, told, asking>>
        BY <1>4 DEF RoundBegins
    <2> QED
        BY <1>t, <2>2, <2>3, <2>4
<1>5. CASE RecoveryPaused
    <2>1. told' \in BOOLEAN
        BY <1>5, <1>t DEF RecoveryPaused, Tell
    <2>2. UNCHANGED <<round, recent, slides, misses, bound, opened, asking, slipped>>
        BY <1>5 DEF RecoveryPaused
    <2> QED
        BY <1>t, <2>1, <2>2 DEF AddressInv
<1>6. CASE WindowSlides
    BY <1>6, <1>t, RecoveryAssumption DEF WindowSlides, AddressInv
<1>7. CASE HeartbeatMissed \/ HeartbeatReset \/ \E k \in Killers : WatchdogKills(k)
    <2>1. misses' \in 0 .. MaxMisses
        <3>1. misses' = 0 \/ (misses < MaxMisses /\ misses' = misses + 1)
            BY <1>7 DEF HeartbeatMissed, HeartbeatReset, WatchdogKills
        <3> QED
            BY <1>t, <3>1, RecoveryAssumption
    <2>2. UNCHANGED <<round, recent, slides, bound, opened, told, asking, slipped>>
        BY <1>7 DEF HeartbeatMissed, HeartbeatReset, WatchdogKills
    <2> QED
        BY <1>t, <2>1, <2>2 DEF AddressInv
<1>8. CASE DialogueOpens \/ DialogueCloses
    BY <1>8, <1>t DEF DialogueOpens, DialogueCloses, AddressInv
<1>9. CASE ConnectionStep
    <2>1. opened' \in [Gens -> Sessions]
        BY <1>9, <1>t, MaxGenAssumption DEF ConnectionStep, Sessions
    <2>2. UNCHANGED <<round, recent, slides, misses, bound, told, asking, slipped>>
        BY <1>9 DEF ConnectionStep
    <2> QED
        BY <1>t, <2>1, <2>2 DEF AddressInv
<1>10. CASE UNCHANGED recVars
    BY <1>10, <1>t DEF recVars, AddressInv
<1> QED
    BY <1>3, <1>4, <1>5, <1>6, <1>7, <1>8, <1>9, <1>10
       DEF RecNext, EventStep, ExitIntentional, vars

\* Rounds, guard, watchdog and sessions keep their types, for any number of
\* overlapping rounds; the connection below keeps its own.
THEOREM RecTypeCorrect == RecSafeSpec => []RecTypeOK
<1>1. RecTypeInv => RecTypeOK
    BY DEF RecTypeInv
<1> QED
    BY <1>1, InitRecType, StepRecType, PTL DEF RecSafeSpec

-----------------------------------------------------------------------------
(* The storm guard.                                                        *)

\* The attempts a round has not begun, or whose respawn() has not returned.
Owes(r) == {n \in 1 .. MaxAttempts :
               /\ r.pc # "off"
               /\ \/ n > r.attempt
                  \/ n = r.attempt /\ r.pc \in {"backoff", "respawn"}}

\* The attempts all rounds still owe: each may start one more child.
Left == {p \in Respawners \X (1 .. MaxAttempts) : p[2] \in Owes(round[p[1]])}

\* The children started and the attempts still owed are paid for by the rounds
\* that were admitted, inside the window or before it slid.
BudgetInv ==
    /\ \A c \in Respawners : round[c].pc # "off" => round[c].attempt >= 1
    /\ IsFiniteSet(Left)
    /\ generation + Cardinality(Left) <= 1 + MaxAttempts * (recent + slides)

\* What the step of one round does to the attempts that are owed.
LEMMA LeftStep ==
    ASSUME RecTypeOK, IsFiniteSet(Left), NEW c \in Respawners,
           NEW r \in Rounds, SetRound(c, r)
    PROVE  /\ Owes(r) \subseteq Owes(round[c]) =>
                 /\ IsFiniteSet(Left')
                 /\ Cardinality(Left') <= Cardinality(Left)
           /\ \A n \in Owes(round[c]) : Owes(r) \subseteq Owes(round[c]) \ {n} =>
                 /\ IsFiniteSet(Left')
                 /\ Cardinality(Left') <= Cardinality(Left) - 1
           /\ Owes(round[c]) = {} =>
                 /\ IsFiniteSet(Left')
                 /\ Cardinality(Left') <= Cardinality(Left) + MaxAttempts
<1>1. /\ round'[c] = r
      /\ \A d \in Respawners \ {c} : round'[d] = round[d]
    BY RoundSet DEF RecTypeOK, Rounds
<1>2. ASSUME NEW d \in Respawners, NEW n \in 1 .. MaxAttempts
      PROVE  /\ <<d, n>> \in Left <=> n \in Owes(round[d])
             /\ <<d, n>> \in Left' <=> n \in Owes(round'[d])
    BY DEF Left
<1>3. /\ \A p \in Left : \E d \in Respawners, n \in 1 .. MaxAttempts : p = <<d, n>>
      /\ \A p \in Left' : \E d \in Respawners, n \in 1 .. MaxAttempts : p = <<d, n>>
    BY DEF Left
<1>o. Owes(r) \subseteq 1 .. MaxAttempts /\ Owes(round[c]) \subseteq 1 .. MaxAttempts
    BY DEF Owes
<1>4. ASSUME Owes(r) \subseteq Owes(round[c])
      PROVE  IsFiniteSet(Left') /\ Cardinality(Left') <= Cardinality(Left)
    <2>1. Left' \subseteq Left
        <3> SUFFICES ASSUME NEW p \in Left' PROVE p \in Left
            OBVIOUS
        <3>1. PICK d \in Respawners, n \in 1 .. MaxAttempts : p = <<d, n>>
            BY <1>3
        <3> QED
            BY <1>1, <1>2, <1>4, <3>1
    <2> QED
        BY <2>1, FS_Subset
<1>5. ASSUME NEW n \in Owes(round[c]), Owes(r) \subseteq Owes(round[c]) \ {n}
      PROVE  IsFiniteSet(Left') /\ Cardinality(Left') <= Cardinality(Left) - 1
    <2> DEFINE L == Left \ {<<c, n>>}
    <2>1. <<c, n>> \in Left
        BY <1>2, <1>o
    <2>2. Left' \subseteq L
        <3> SUFFICES ASSUME NEW p \in Left' PROVE p \in Left \ {<<c, n>>}
            OBVIOUS
        <3>1. PICK d \in Respawners, m \in 1 .. MaxAttempts : p = <<d, m>>
            BY <1>3
        <3> QED
            BY <1>1, <1>2, <1>5, <3>1
    <2>3. IsFiniteSet(L) /\ Cardinality(L) = Cardinality(Left) - 1
        BY <2>1, FS_RemoveElement
    <2> HIDE DEF L
    <2>4. IsFiniteSet(Left') /\ Cardinality(Left') <= Cardinality(L)
        BY <2>2, <2>3, FS_Subset
    <2> QED
        BY <2>3, <2>4
<1>6. ASSUME Owes(round[c]) = {}
      PROVE  /\ IsFiniteSet(Left')
             /\ Cardinality(Left') <= Cardinality(Left) + MaxAttempts
    <2> DEFINE N == {c} \X (1 .. MaxAttempts)
    <2>0. MaxAttempts \in Nat
        BY RecoveryAssumption
    <2>1. IsFiniteSet(N) /\ Cardinality(N) = MaxAttempts
        <3>1. IsFiniteSet(1 .. MaxAttempts) /\ Cardinality(1 .. MaxAttempts) = MaxAttempts
            BY <2>0, FS_Interval
        <3>2. IsFiniteSet({c}) /\ Cardinality({c}) = 1
            BY FS_Singleton
        <3>3. /\ IsFiniteSet(N)
              /\ Cardinality(N) = Cardinality({c}) * Cardinality(1 .. MaxAttempts)
            BY <3>1, <3>2, FS_Product, Zenon
        <3> HIDE DEF N
        <3> QED
            BY <2>0, <3>1, <3>2, <3>3
    <2>2. Left' \subseteq Left \cup N
        <3> SUFFICES ASSUME NEW p \in Left' PROVE p \in Left \cup N
            OBVIOUS
        <3>1. PICK d \in Respawners, n \in 1 .. MaxAttempts : p = <<d, n>>
            BY <1>3
        <3> QED
            BY <1>1, <1>2, <3>1
    <2>3. Left \cap N = {}
        <3> SUFFICES ASSUME NEW p \in Left, p \in N PROVE FALSE
            OBVIOUS
        <3>1. PICK n \in 1 .. MaxAttempts : p = <<c, n>>
            OBVIOUS
        <3> QED
            BY <1>2, <1>6, <3>1
    <2> HIDE DEF N
    <2>4. /\ IsFiniteSet(Left \cup N)
          /\ Cardinality(Left \cup N) = Cardinality(Left) + MaxAttempts
        <3>1. /\ Cardinality(Left) \in Nat
              /\ Cardinality(Left \cap N) = 0
            BY <2>3, FS_CardinalityType, FS_EmptySet
        <3> QED
            BY <2>0, <2>1, <3>1, FS_Union
    <2> QED
        BY <2>2, <2>4, FS_Subset
<1> QED
    BY <1>4, <1>5, <1>6

\* What each kind of move does to the attempts its round owes.
LEMMA OwesAfter ==
    ASSUME RecTypeOK, NEW c \in Respawners, NEW r \in Rounds, Moves(c, r),
           round[c].pc # "off" => round[c].attempt >= 1
    PROVE  /\ r.pc # "off" => r.attempt >= 1
           /\ \/ /\ generation' = generation /\ Owes(r) \subseteq Owes(round[c])
              \/ /\ generation' = generation + 1
                 /\ \E n \in Owes(round[c]) : Owes(r) \subseteq Owes(round[c]) \ {n}
<1>0. /\ MaxAttempts \in Nat /\ round[c] \in Rounds
      /\ round[c].attempt \in 0 .. MaxAttempts /\ r.attempt \in 0 .. MaxAttempts
      /\ Attempts(c) \in 1 .. MaxAttempts
    BY RecoveryAssumption, AttemptsRange DEF RecTypeOK, Rounds
<1>1. CASE /\ round[c].pc = "backoff" /\ RespawnKill(c)
           /\ r.pc = "respawn" /\ r.attempt = round[c].attempt
    <2>1. generation' = generation
        BY <1>1 DEF RespawnKill, KillChild
    <2> QED
        BY <1>0, <1>1, <2>1 DEF Owes
<1>2. CASE /\ MayAttach(c) /\ AttachOk(c)
           /\ r.pc = "load" /\ r.attempt = round[c].attempt
    <2>1. /\ generation' = generation + 1
          /\ round[c].pc \in {"backoff", "respawn"}
        BY <1>2 DEF AttachOk, MayAttach
    <2>2. /\ round[c].attempt \in Owes(round[c])
          /\ Owes(r) \subseteq Owes(round[c]) \ {round[c].attempt}
        BY <1>0, <1>2, <2>1 DEF Owes
    <2> QED
        BY <1>0, <1>2, <2>1, <2>2
<1>3. CASE MayAttach(c) /\ AttachFails(c) /\ Retries(c, r)
    <2>1. /\ generation' = generation + 1
          /\ round[c].pc \in {"backoff", "respawn"}
        BY <1>3 DEF AttachFails, MayAttach
    <2>2. /\ round[c].attempt \in Owes(round[c])
          /\ Owes(r) \subseteq Owes(round[c]) \ {round[c].attempt}
        <3>1. CASE round[c].attempt < Attempts(c)
            <4>1. r.pc = "backoff" /\ r.attempt = round[c].attempt + 1
                BY <1>0, <1>3, <3>1 DEF Retries
            <4> QED
                BY <1>0, <2>1, <4>1 DEF Owes
        <3>2. CASE round[c].attempt >= Attempts(c)
            <4>1. r.pc = "off"
                BY <1>0, <1>3, <3>2 DEF Retries
            <4> QED
                BY <1>0, <2>1, <4>1 DEF Owes
        <3> QED
            BY <1>0, <3>1, <3>2
    <2> QED
        BY <1>0, <1>3, <2>1, <2>2 DEF Retries
<1>4. CASE /\ round[c].pc \in Later /\ UNCHANGED rpcVars
           /\ \/ r.pc \in Later /\ r.attempt = round[c].attempt
              \/ r.pc = "off"
    <2>1. generation' = generation
        BY <1>4 DEF rpcVars
    <2>2. Owes(r) \subseteq Owes(round[c])
        BY <1>0, <1>4 DEF Owes, Later
    <2>3. r.pc # "off" => r.attempt >= 1
        BY <1>0, <1>4 DEF Later
    <2> QED
        BY <2>1, <2>2, <2>3
<1>5. CASE round[c].pc \in Later /\ UNCHANGED rpcVars /\ Retries(c, r)
    <2>1. generation' = generation
        BY <1>5 DEF rpcVars
    <2>2. Owes(r) \subseteq Owes(round[c])
        BY <1>0, <1>5 DEF Owes, Later, Retries
    <2>3. r.pc # "off" => r.attempt >= 1
        BY <1>0, <1>5 DEF Retries
    <2> QED
        BY <2>1, <2>2, <2>3
<1> QED
    BY <1>1, <1>2, <1>3, <1>4, <1>5 DEF Moves

\* Nothing but a round's respawn() raises the generation.
LEMMA GenerationFrame ==
    ASSUME [RecNext]_vars, \A c \in Respawners : ~RoundStep(c)
    PROVE  generation' = generation
BY DEF RecNext, ConnectionStep, ExitStep, ChildDies, CoordKill, CoordReaps,
       CoordFinishes, EventStep, ExitIntentional, RecoveryPaused, RoundBegins,
       ConsumeEvent, DialogueOpens, DialogueCloses, WindowSlides,
       HeartbeatMissed, HeartbeatReset, WatchdogKills, KillChild, vars, rpcVars

\* Every step stays within the budget: a crash that the guard lets through
\* pays for the attempts of its round in advance.
LEMMA StepBudget == RecTypeInv /\ BudgetInv /\ [RecNext]_vars => BudgetInv'
<1> SUFFICES ASSUME RecTypeInv, BudgetInv, [RecNext]_vars PROVE BudgetInv'
    OBVIOUS
<1>0. /\ RecTypeOK /\ AddressInv /\ round \in [Respawners -> Rounds]
      /\ recent \in Nat /\ slides \in Nat /\ generation \in Nat
      /\ MaxAttempts \in Nat /\ Cardinality(Left) \in Nat
      /\ MaxAttempts * (recent + slides) \in Nat
    BY RecoveryAssumption, FS_CardinalityType
       DEF RecTypeInv, RecTypeOK, TypeOK, Gens, Rounds, BudgetInv
<1>1. ASSUME NEW c \in Respawners, RoundStep(c) PROVE BudgetInv'
    <2>1. PICK r \in Rounds : SetRound(c, r) /\ Moves(c, r)
        BY <1>0, <1>1, RoundShape
    <2>2. UNCHANGED <<recent, slides>>
        BY <1>1, RoundFrame
    <2>3. /\ round'[c] = r
          /\ \A d \in Respawners \ {c} : round'[d] = round[d]
        BY <1>0, <2>1, RoundSet
    <2>4. /\ r.pc # "off" => r.attempt >= 1
          /\ \/ /\ generation' = generation /\ Owes(r) \subseteq Owes(round[c])
             \/ /\ generation' = generation + 1
                /\ \E n \in Owes(round[c]) : Owes(r) \subseteq Owes(round[c]) \ {n}
        BY <1>0, <2>1, OwesAfter DEF BudgetInv
    <2>5. IsFiniteSet(Left') /\ generation' + Cardinality(Left') <=
                                   generation + Cardinality(Left)
        <3>1. CASE generation' = generation /\ Owes(r) \subseteq Owes(round[c])
            <4>1. IsFiniteSet(Left') /\ Cardinality(Left') <= Cardinality(Left)
                BY <1>0, <2>1, <3>1, LeftStep DEF BudgetInv
            <4>2. Cardinality(Left') \in Nat
                BY <4>1, FS_CardinalityType
            <4> QED
                BY <1>0, <3>1, <4>1, <4>2
        <3>2. CASE /\ generation' = generation + 1
                   /\ \E n \in Owes(round[c]) : Owes(r) \subseteq Owes(round[c]) \ {n}
            <4>1. IsFiniteSet(Left') /\ Cardinality(Left') <= Cardinality(Left) - 1
                BY <1>0, <2>1, <3>2, LeftStep DEF BudgetInv
            <4>2. Cardinality(Left') \in Nat
                BY <4>1, FS_CardinalityType
            <4> QED
                BY <1>0, <3>2, <4>1, <4>2
        <3> QED
            BY <2>4, <3>1, <3>2
    <2>6. Cardinality(Left') \in Nat /\ generation' \in Nat
        BY <1>0, <2>4, <2>5, FS_CardinalityType
    <2>7. generation' + Cardinality(Left') <= 1 + MaxAttempts * (recent' + slides')
        BY <1>0, <2>2, <2>5, <2>6 DEF BudgetInv
    <2> QED
        BY <2>3, <2>4, <2>5, <2>7 DEF BudgetInv
<1>2. ASSUME NEW c \in Respawners, RoundBegins(c) PROVE BudgetInv'
    <2>1. PICK r \in Rounds : SetRound(c, r) /\ r.pc = "backoff" /\ r.attempt = 1
        BY <1>2, BeginShape
    <2>2. /\ round'[c] = r
          /\ \A d \in Respawners \ {c} : round'[d] = round[d]
        BY <1>0, <2>1, RoundSet
    <2>3. /\ recent' = recent + 1 /\ slides' = slides /\ round[c].pc = "off"
          /\ generation' = generation
        BY <1>2 DEF RoundBegins, ConsumeEvent
    <2>4. Owes(round[c]) = {}
        BY <2>3 DEF Owes
    <2>5. /\ IsFiniteSet(Left')
          /\ Cardinality(Left') <= Cardinality(Left) + MaxAttempts
        BY <1>0, <2>1, <2>4, LeftStep DEF BudgetInv
    <2>6. Cardinality(Left') \in Nat
        BY <2>5, FS_CardinalityType
    <2>7. MaxAttempts * (recent' + slides') =
              MaxAttempts * (recent + slides) + MaxAttempts
        BY <1>0, <2>3
    <2>8. generation' + Cardinality(Left') <= 1 + MaxAttempts * (recent' + slides')
        BY <1>0, <2>3, <2>5, <2>6, <2>7 DEF BudgetInv
    <2> QED
        BY <2>1, <2>2, <2>5, <2>8 DEF BudgetInv
<1>3. CASE WindowSlides
    <2>1. /\ recent' = recent - 1 /\ slides' = slides + 1
          /\ UNCHANGED <<round, generation>>
        BY <1>3 DEF WindowSlides, rpcVars
    <2>2. recent' + slides' = recent + slides
        BY <1>0, <2>1
    <2>3. Left' = Left
        BY <2>1 DEF Left
    <2> QED
        BY <2>1, <2>2, <2>3 DEF BudgetInv
<1>4. CASE /\ ~WindowSlides
           /\ \A c \in Respawners : ~RoundStep(c) /\ ~RoundBegins(c)
    <2>1. generation' = generation
        BY <1>4, GenerationFrame
    <2>2. UNCHANGED <<round, recent, slides>>
        BY <1>4 DEF RecNext, ConnectionStep, EventStep, ExitIntentional,
               RecoveryPaused, DialogueOpens, DialogueCloses, HeartbeatMissed,
               HeartbeatReset, WatchdogKills, vars, recVars
    <2>3. Left' = Left
        BY <2>2 DEF Left
    <2> QED
        BY <2>1, <2>2, <2>3 DEF BudgetInv
<1> QED
    BY <1>1, <1>2, <1>3, <1>4

\* The storm guard bounds the children that are ever started, whichever rounds
\* overlap and however their attempts fail.
THEOREM RecRespawnsBounded == RecSafeSpec => []RespawnsBounded
<1>1. RecInit => BudgetInv
    <2> SUFFICES ASSUME RecInit PROVE BudgetInv
        OBVIOUS
    <2>1. \A c \in Respawners : round[c].pc = "off"
        BY DEF RecInit, Off
    <2>2. Left = {}
        BY <2>1 DEF Left, Owes
    <2>3. IsFiniteSet(Left) /\ Cardinality(Left) = 0
        BY <2>2, FS_EmptySet
    <2>4. generation = 1 /\ recent = 0 /\ slides = 0
        BY DEF RecInit, RpcInit
    <2> QED
        BY <2>1, <2>3, <2>4, RecoveryAssumption DEF BudgetInv
<1>2. RecTypeInv /\ BudgetInv => RespawnsBounded
    <2> SUFFICES ASSUME RecTypeInv, BudgetInv PROVE RespawnsBounded
        OBVIOUS
    <2>1. /\ recent \in Nat /\ slides \in Nat /\ recent <= MaxRecoveries
          /\ MaxAttempts \in Nat /\ MaxRecoveries \in Nat
          /\ generation \in Nat /\ Cardinality(Left) \in Nat
        BY RecoveryAssumption, FS_CardinalityType
           DEF RecTypeInv, RecTypeOK, TypeOK, Gens, BudgetInv
    <2>2. MaxAttempts * (recent + slides) <= MaxAttempts * (MaxRecoveries + slides)
        <3>1. recent + slides <= MaxRecoveries + slides
            BY <2>1
        <3>2. \A m, a, b \in Nat : a <= b => m * a <= m * b
            OBVIOUS
        <3> QED
            BY <2>1, <3>1, <3>2
    <2>3. /\ MaxAttempts * (recent + slides) \in Nat
          /\ MaxAttempts * (MaxRecoveries + slides) \in Nat
        BY <2>1
    <2> QED
        BY <2>1, <2>2, <2>3 DEF BudgetInv, RespawnsBounded
<1> QED
    BY <1>1, <1>2, InitRecType, StepRecType, StepBudget, PTL DEF RecSafeSpec

-----------------------------------------------------------------------------
(* A dead connection is never silent.                                      *)

\* A round waits inside respawn() exactly while it says so, and the watchdog
\* never claims that its kill was intended.
CallInv ==
    /\ \A c \in Respawners : call[c].pc # "idle" <=> round[c].pc = "respawn"
    /\ \A k \in Killers : call[k].pc = "await" => ~call[k].intentional

\* A round that has still to start the next child.
Respawning == \E c \in Respawners : round[c].pc \in {"backoff", "respawn"}

\* Somebody answers for the attached child: a round, or the notice.
Tended == Respawning \/ told

\* The exit of a child that nobody killed on purpose is on its way.
CrashQueued == \E i \in 1 .. Len(events) : ~events[i].intentional

\* Without requests there are only exit events, and a coordinator notes a kill
\* only while it carries it out.
EventInv ==
    /\ \A g \in Gens : coord[g] \in {"none", "watch"} => ~intent[g]
    /\ \A i \in 1 .. Len(events) : events[i].kind = "exit"

\* Whoever kills the attached child on purpose replaces it or gives notice;
\* an exit that nobody meant is on its way until somebody has taken it up, or
\* another one that finds the same dead child attached.
TendedInv ==
    /\ intent[attached] /\ coord[attached] = "reap" =>
          \E c \in Respawners : call[c].pc = "await" /\ call[c].gen = attached
    /\ intent[attached] /\ coord[attached] = "drain" => Tended
    /\ coord[attached] = "done" => CrashQueued \/ Tended

\* A round's move changes no call but its own.
LEMMA MovesCall ==
    ASSUME RecTypeOK, NEW c \in Respawners, NEW r \in Rounds, Moves(c, r)
    PROVE  /\ \A d \in Callers \ {c} : call'[d] = call[d]
           /\ \/ /\ RespawnKill(c) /\ call[c].pc = "idle"
                 /\ call'[c].pc = "await" /\ r.pc = "respawn"
              \/ /\ call[c].pc # "await" /\ call'[c].pc = "idle"
                 /\ r.pc # "respawn" /\ MayAttach(c)
              \/ /\ UNCHANGED rpcVars /\ round[c].pc \in Later
                 /\ r.pc # "respawn"
<1>0. c \in Callers /\ call \in [Callers -> CallStates]
    BY DEF Callers, RecTypeOK, TypeOK
<1>1. CASE /\ round[c].pc = "backoff" /\ RespawnKill(c) /\ r.pc = "respawn"
    BY <1>0, <1>1 DEF RespawnKill, KillChild
<1>2. CASE /\ MayAttach(c) /\ (AttachOk(c) \/ AttachFails(c))
           /\ r.pc \in {"load", "backoff", "off"}
    BY <1>0, <1>2 DEF MayAttach, AttachOk, AttachFails, Idle
<1>3. CASE UNCHANGED rpcVars /\ round[c].pc \in Later /\ r.pc # "respawn"
    BY <1>3 DEF rpcVars
<1> QED
    BY <1>1, <1>2, <1>3 DEF Moves, Retries, Later

\* Calls and rounds stay together.
LEMMA StepCall == RecTypeInv /\ CallInv /\ [RecNext]_vars => CallInv'
<1> SUFFICES ASSUME RecTypeInv, CallInv, [RecNext]_vars PROVE CallInv'
    OBVIOUS
<1>0. /\ RecTypeOK /\ AddressInv /\ round \in [Respawners -> Rounds]
      /\ call \in [Callers -> CallStates]
      /\ Respawners \subseteq Callers /\ Killers \subseteq Callers
    BY DEF RecTypeInv, RecTypeOK, TypeOK, Rounds, Callers
<1>1. ASSUME NEW c \in Respawners, RoundStep(c) PROVE CallInv'
    <2>1. PICK r \in Rounds : SetRound(c, r) /\ Moves(c, r)
        BY <1>0, <1>1, RoundShape
    <2>2. /\ round'[c] = r
          /\ \A d \in Respawners \ {c} : round'[d] = round[d]
        BY <1>0, <2>1, RoundSet
    <2>3. c \notin Killers
        BY CallersAssumption
    <2>4. /\ \A d \in Callers \ {c} : call'[d] = call[d]
          /\ call'[c].pc # "idle" <=> r.pc = "respawn"
        <3>1. /\ \A d \in Callers \ {c} : call'[d] = call[d]
              /\ \/ call'[c].pc = "await" /\ r.pc = "respawn"
                 \/ call'[c].pc = "idle" /\ r.pc # "respawn"
                 \/ /\ UNCHANGED rpcVars /\ round[c].pc \in Later
                    /\ r.pc # "respawn"
            BY <1>0, <2>1, MovesCall
        <3> QED
            BY <3>1 DEF CallInv, Later, rpcVars
    <2> QED
        BY <1>0, <2>2, <2>3, <2>4 DEF CallInv
<1>2. ASSUME NEW c \in Respawners, RoundBegins(c) PROVE CallInv'
    <2>1. PICK r \in Rounds : SetRound(c, r) /\ r.pc = "backoff"
        BY <1>2, BeginShape
    <2>2. /\ round'[c] = r
          /\ \A d \in Respawners \ {c} : round'[d] = round[d]
        BY <1>0, <2>1, RoundSet
    <2>3. call' = call /\ round[c].pc = "off"
        BY <1>2 DEF RoundBegins, ConsumeEvent
    <2> QED
        BY <2>1, <2>2, <2>3 DEF CallInv
<1>3. ASSUME NEW g \in Gens, CoordReaps(g), UNCHANGED round PROVE CallInv'
    <2>1. /\ round' = round
          /\ \A d \in Callers : call'[d] =
                IF call[d].pc = "await" /\ call[d].gen = g
                THEN IF d \in Respawners
                     THEN [pc |-> "resolved", gen |-> g,
                           intentional |-> call[d].intentional]
                     ELSE Idle
                ELSE call[d]
        BY <1>3 DEF CoordReaps, ReleaseCallers
    <2>2. ASSUME NEW d \in Respawners
          PROVE  call'[d].pc = "idle" <=> call[d].pc = "idle"
        <3>0. d \in Callers
            BY <1>0
        <3>1. CASE call[d].pc = "await" /\ call[d].gen = g
            <4>1. call'[d] = [pc |-> "resolved", gen |-> g,
                              intentional |-> call[d].intentional]
                BY <2>1, <3>0, <3>1
            <4>2. call'[d].pc = "resolved"
                BY <4>1
            <4> QED
                BY <3>1, <4>2
        <3>2. CASE ~(call[d].pc = "await" /\ call[d].gen = g)
            <4>1. call'[d] = call[d]
                BY <2>1, <3>0, <3>2
            <4> QED
                BY <4>1
        <3> QED
            BY <3>1, <3>2
    <2>3. ASSUME NEW k \in Killers
          PROVE  call'[k] = call[k] \/ call'[k].pc = "idle"
        <3>1. k \in Callers /\ k \notin Respawners
            BY <1>0, CallersAssumption
        <3>2. call'[k] = call[k] \/ call'[k] = Idle
            BY <2>1, <3>1
        <3> QED
            BY <3>2 DEF Idle
    <2> QED
        BY <2>1, <2>2, <2>3 DEF CallInv
<1>4. ASSUME NEW k \in Killers, WatchdogKills(k) PROVE CallInv'
    <2>1. round' = round
        BY <1>4 DEF WatchdogKills
    <2>2. CASE KillChild(k, FALSE)
        <3>1. /\ call'[k].intentional = FALSE
              /\ \A d \in Callers \ {k} : call'[d] = call[d]
            BY <1>0, <2>2 DEF KillChild
        <3>2. k \notin Respawners
            BY CallersAssumption
        <3> QED
            BY <1>0, <2>1, <3>1, <3>2 DEF CallInv
    <2>3. CASE UNCHANGED rpcVars
        BY <2>1, <2>3 DEF rpcVars, CallInv
    <2> QED
        BY <1>4, <2>2, <2>3 DEF WatchdogKills
<1>5. CASE /\ \A c \in Respawners : ~RoundStep(c) /\ ~RoundBegins(c)
           /\ \A g \in Gens : ~(CoordReaps(g) /\ UNCHANGED round)
           /\ \A k \in Killers : ~WatchdogKills(k)
    <2>1. UNCHANGED <<call, round>>
        BY <1>5 DEF RecNext, ConnectionStep, ExitStep, ChildDies, CoordKill,
               CoordFinishes, EventStep, ExitIntentional, RecoveryPaused,
               ConsumeEvent, DialogueOpens, DialogueCloses, WindowSlides,
               HeartbeatMissed, HeartbeatReset, vars, recVars, rpcVars
    <2> QED
        BY <2>1 DEF CallInv
<1> QED
    BY <1>1, <1>2, <1>3, <1>4, <1>5

\* An attached child is new: nobody has killed it yet.
LEMMA AttachEvents ==
    ASSUME TypeOK, GenerationInv, EventInv, NEW c \in Respawners, AttachOk(c)
    PROVE  /\ EventInv' /\ coord'[attached'] = "watch"
<1> DEFINE n == generation + 1
<1>1. /\ n \in Gens /\ attached' = n /\ coord' = [coord EXCEPT ![n] = "watch"]
      /\ UNCHANGED <<intent, events>>
    BY MaxGenAssumption DEF AttachOk, RespawnMayAttach, TypeOK, Gens
<1>2. coord[n] = "none"
    <2>1. ~(n <= attached)
        BY DEF TypeOK, GenerationInv, Gens
    <2>2. n \in Gens
        BY <1>1
    <2> HIDE DEF n
    <2> QED
        BY <2>1, <2>2 DEF GenerationInv, TypeOK
<1> HIDE DEF n
<1>3. coord'[n] = "watch" /\ \A g \in Gens \ {n} : coord'[g] = coord[g]
    BY <1>1 DEF TypeOK
<1> QED
    BY <1>1, <1>2, <1>3 DEF EventInv

\* Taking the next event leaves the others.
LEMMA ConsumeEvents ==
    ASSUME TypeOK, EventInv, ConsumeEvent
    PROVE  /\ EventInv'
           /\ CrashQueued => ~Head(events).intentional \/ CrashQueued'
<1>1. /\ events # << >> /\ events' = Tail(events)
      /\ UNCHANGED <<coord, intent>>
    BY DEF ConsumeEvent
<1>2. events \in Seq(ExitEvents \cup LateEvents) /\ Len(events) \in Nat /\ Len(events) >= 1
    BY <1>1 DEF TypeOK
<1>3. ASSUME NEW i \in 1 .. Len(events')
      PROVE  i + 1 \in 1 .. Len(events) /\ events'[i] = events[i + 1]
    BY <1>1, <1>2
<1>4. ASSUME NEW i \in 1 .. Len(events), i # 1
      PROVE  i - 1 \in 1 .. Len(events') /\ events'[i - 1] = events[i]
    BY <1>1, <1>2, <1>4
<1>5. 1 \in 1 .. Len(events) /\ Head(events) = events[1]
    BY <1>1, <1>2
<1>6. EventInv'
    BY <1>1, <1>3 DEF EventInv
<1>7. ASSUME CrashQueued, Head(events).intentional
      PROVE  CrashQueued'
    <2>1. PICK i \in 1 .. Len(events) : ~events[i].intentional
        BY <1>7 DEF CrashQueued
    <2>2. i # 1
        BY <1>5, <1>7, <2>1
    <2>3. i - 1 \in 1 .. Len(events') /\ ~events'[i - 1].intentional
        BY <1>4, <2>1, <2>2
    <2> QED
        BY <2>3 DEF CrashQueued
<1> QED
    BY <1>6, <1>7

\* A coordinator that finishes announces its child, and a crash as one.
LEMMA FinishEvents ==
    ASSUME TypeOK, EventInv, NEW g \in Gens, CoordFinishes(g)
    PROVE  /\ EventInv' /\ (CrashQueued => CrashQueued')
           /\ ~intent[g] => CrashQueued'
<1> DEFINE e == [kind |-> "exit", intentional |-> intent[g]]
<1>1. /\ coord[g] = "drain" /\ coord' = [coord EXCEPT ![g] = "done"]
      /\ events' = Append(events, e)
      /\ intent' = [intent EXCEPT ![g] = FALSE]
    BY DEF CoordFinishes
<1>2. e.kind = "exit" /\ (e.intentional <=> intent[g]) /\ e \in ExitEvents
    BY DEF ExitEvents, TypeOK
<1> HIDE DEF e
<1>3. /\ events \in Seq(ExitEvents \cup LateEvents) /\ Len(events) \in Nat
      /\ Len(events') = Len(events) + 1 /\ events'[Len(events) + 1] = e
      /\ \A i \in 1 .. Len(events) : events'[i] = events[i]
    BY <1>1, <1>2 DEF TypeOK
<1>4. ASSUME NEW i \in 1 .. Len(events')
      PROVE  \/ i \in 1 .. Len(events) /\ events'[i] = events[i]
             \/ events'[i] = e
    <2>1. i \in 1 .. Len(events) \/ i = Len(events) + 1
        BY <1>3
    <2> QED
        BY <1>3, <2>1
<1>5. /\ coord'[g] = "done" /\ \A h \in Gens \ {g} : coord'[h] = coord[h]
      /\ \A h \in Gens \ {g} : intent'[h] = intent[h]
    BY <1>1 DEF TypeOK
<1>6. EventInv'
    BY <1>2, <1>4, <1>5 DEF EventInv
<1>7. ASSUME CrashQueued PROVE CrashQueued'
    <2>1. PICK i \in 1 .. Len(events) : ~events[i].intentional
        BY <1>7 DEF CrashQueued
    <2>2. i \in 1 .. Len(events') /\ ~events'[i].intentional
        BY <1>3, <2>1
    <2> QED
        BY <2>2 DEF CrashQueued
<1>8. ASSUME ~intent[g] PROVE CrashQueued'
    <2>1. Len(events) + 1 \in 1 .. Len(events')
        BY <1>3
    <2> QED
        BY <1>2, <1>3, <1>8, <2>1 DEF CrashQueued
<1> QED
    BY <1>6, <1>7, <1>8

\* While the attached child is dead, a move that starts no child leaves
\* somebody answering for it.
LEMMA TendedMove ==
    ASSUME RecTypeOK, GenerationInv, Tended, coord[attached] \in {"drain", "done"},
           NEW c \in Respawners, NEW r \in Rounds, SetRound(c, r), Moves(c, r),
           ~AttachOk(c)
    PROVE  Tended'
<1>0. /\ round'[c] = r
      /\ \A d \in Respawners \ {c} : round'[d] = round[d]
    BY RoundSet DEF RecTypeOK, Rounds
<1>1. proc[attached] = "dead"
    BY DEF GenerationInv, RecTypeOK, TypeOK
<1>4. CASE told
    BY <1>4 DEF Tended, Moves, Retries, Tell
<1>5. ASSUME NEW d \in Respawners, round[d].pc \in {"backoff", "respawn"}
      PROVE  Tended'
    <2>1. CASE d # c
        BY <1>0, <1>5, <2>1 DEF Tended, Respawning
    <2>2. CASE d = c
        <3>1. round[c].pc \notin Later
            BY <1>5, <2>2 DEF Later
        <3>2. r.pc \in {"backoff", "respawn"} \/ Tell
            BY <3>1 DEF Moves, Retries
        <3>3. CASE r.pc \in {"backoff", "respawn"}
            BY <1>0, <3>3 DEF Tended, Respawning
        <3>4. CASE Tell
            BY <1>1, <3>4 DEF Tell, Tended
        <3> QED
            BY <3>2, <3>3, <3>4
    <2> QED
        BY <2>1, <2>2
<1> QED
    BY <1>4, <1>5 DEF Tended, Respawning

\* The invariant of the exits: calls, events and who answers for them.
ExitInv == CallInv /\ EventInv /\ TendedInv

\* The steps of a round.
LEMMA RoundTended ==
    ASSUME RecTypeInv, GenerationInv, ExitInv, NEW c \in Respawners, RoundStep(c)
    PROVE  EventInv' /\ TendedInv'
<1>0. RecTypeOK /\ AddressInv /\ TypeOK /\ attached \in Gens
    BY DEF RecTypeInv, RecTypeOK, TypeOK
<1>1. PICK r \in Rounds : SetRound(c, r) /\ Moves(c, r)
    BY <1>0, RoundShape
<1>2. CASE AttachOk(c)
    <2>1. EventInv' /\ coord'[attached'] = "watch"
        BY <1>0, <1>2, AttachEvents DEF ExitInv
    <2> QED
        BY <2>1 DEF TendedInv
<1>3. CASE ~AttachOk(c)
    <2>1. UNCHANGED <<attached, coord, intent, events>>
        BY <1>1, <1>3 DEF Moves, RespawnKill, KillChild, AttachFails, rpcVars
    <2>2. EventInv'
        BY <2>1 DEF ExitInv, EventInv
    <2>3. ASSUME NEW d \in Respawners, call[d].pc = "await"
          PROVE  call'[d] = call[d]
        <3>1. \/ d # c
              \/ UNCHANGED rpcVars
            BY <1>0, <1>1, <2>3, MovesCall
        <3> QED
            BY <1>0, <1>1, <3>1, MovesCall DEF rpcVars, Callers
    <2>4. Tended /\ coord[attached] \in {"drain", "done"} => Tended'
        BY <1>0, <1>1, <1>3, TendedMove
    <2>5. CrashQueued' <=> CrashQueued
        BY <2>1 DEF CrashQueued
    <2> QED
        BY <2>1, <2>2, <2>3, <2>4, <2>5 DEF ExitInv, TendedInv
<1> QED
    BY <1>2, <1>3

\* The steps of the exit coordinators.
LEMMA ExitTended ==
    ASSUME RecTypeInv, GenerationInv, ExitInv, ExitStep, UNCHANGED <<round, told>>
    PROVE  EventInv' /\ TendedInv'
<1>0. /\ RecTypeOK /\ TypeOK /\ attached \in Gens
      /\ coord \in [Gens -> CoordStates] /\ intent \in [Gens -> BOOLEAN]
      /\ Respawners \subseteq Callers
    BY DEF RecTypeInv, RecTypeOK, TypeOK, Callers
<1>r. Tended' <=> Tended
    BY DEF Tended, Respawning
<1>1. ASSUME NEW g \in Gens, ChildDies(g) PROVE EventInv' /\ TendedInv'
    <2>1. UNCHANGED <<attached, coord, intent, call, events>>
        BY <1>1 DEF ChildDies
    <2> QED
        BY <1>r, <2>1 DEF ExitInv, EventInv, TendedInv, CrashQueued
<1>2. ASSUME NEW g \in Gens, NEW c \in Callers, CoordKill(g, c)
      PROVE  EventInv' /\ TendedInv'
    <2>1. /\ coord[g] = "watch" /\ call[c].pc = "await" /\ call[c].gen = g
          /\ coord' = [coord EXCEPT ![g] = "reap"]
          /\ intent' = [intent EXCEPT ![g] = call[c].intentional]
          /\ UNCHANGED <<attached, call, events>>
        BY <1>2 DEF CoordKill
    <2>2. /\ coord'[g] = "reap" /\ (intent'[g] <=> call[c].intentional)
          /\ \A h \in Gens \ {g} : coord'[h] = coord[h] /\ (intent'[h] <=> intent[h])
        BY <1>0, <2>1
    <2>4. EventInv'
        BY <2>1, <2>2 DEF ExitInv, EventInv
    <2>5. CASE g = attached
        <3>1. intent'[attached] => c \in Respawners
            BY <2>1, <2>2, <2>5 DEF ExitInv, CallInv, Callers
        <3> QED
            BY <2>1, <2>2, <2>4, <2>5, <3>1 DEF TendedInv
    <2>6. CASE g # attached
        <3>1. coord'[attached] = coord[attached] /\ (intent'[attached] <=> intent[attached])
            BY <1>0, <2>2, <2>6
        <3> QED
            BY <1>r, <2>1, <2>4, <3>1 DEF ExitInv, TendedInv, CrashQueued
    <2> QED
        BY <2>5, <2>6
<1>3. ASSUME NEW g \in Gens, CoordReaps(g) PROVE EventInv' /\ TendedInv'
    <2>1. /\ coord[g] \in {"watch", "reap"}
          /\ coord' = [coord EXCEPT ![g] = "drain"]
          /\ UNCHANGED <<attached, intent, events>>
        BY <1>3 DEF CoordReaps
    <2>2. ASSUME NEW d \in Callers, call[d].pc # "await" \/ call[d].gen # g
          PROVE  call'[d] = call[d]
        BY <1>3, <2>2 DEF CoordReaps, ReleaseCallers
    <2>3. coord'[g] = "drain" /\ \A h \in Gens \ {g} : coord'[h] = coord[h]
        BY <1>0, <2>1
    <2>5. EventInv'
        BY <2>1, <2>3 DEF ExitInv, EventInv
    <2>6. CASE g = attached
        <3>1. ASSUME intent[attached] PROVE Respawning
            <4>1. coord[attached] = "reap"
                BY <1>0, <2>1, <2>6, <3>1 DEF ExitInv, EventInv
            <4>2. PICK c \in Respawners : call[c].pc = "await"
                BY <3>1, <4>1 DEF ExitInv, TendedInv
            <4>3. round[c].pc = "respawn"
                BY <4>2 DEF ExitInv, CallInv
            <4> QED
                BY <4>3 DEF Respawning
        <3>2. Respawning => Tended'
            BY <1>r DEF Tended
        <3> QED
            BY <2>1, <2>3, <2>5, <2>6, <3>1, <3>2 DEF TendedInv
    <2>7. CASE g # attached
        <3>1. coord'[attached] = coord[attached]
            BY <1>0, <2>3, <2>7
        <3>2. ASSUME NEW d \in Respawners, call[d].pc = "await",
                     call[d].gen = attached
              PROVE  call'[d] = call[d]
            BY <1>0, <2>2, <2>7, <3>2
        <3>3. CrashQueued' <=> CrashQueued
            BY <2>1 DEF CrashQueued
        <3> QED
            BY <1>r, <2>1, <2>5, <3>1, <3>2, <3>3 DEF ExitInv, TendedInv
    <2> QED
        BY <2>6, <2>7
<1>4. ASSUME NEW g \in Gens, CoordFinishes(g) PROVE EventInv' /\ TendedInv'
    <2>1. /\ coord[g] = "drain" /\ coord' = [coord EXCEPT ![g] = "done"]
          /\ intent' = [intent EXCEPT ![g] = FALSE]
          /\ UNCHANGED <<attached, call>>
        BY <1>4 DEF CoordFinishes
    <2>2. /\ EventInv' /\ (CrashQueued => CrashQueued')
          /\ ~intent[g] => CrashQueued'
        BY <1>0, <1>4, FinishEvents DEF ExitInv
    <2>3. /\ coord'[g] = "done" /\ ~intent'[g]
          /\ \A h \in Gens \ {g} : coord'[h] = coord[h] /\ intent'[h] = intent[h]
        BY <1>0, <2>1
    <2>5. CASE g = attached
        BY <1>r, <2>1, <2>2, <2>3, <2>5 DEF ExitInv, TendedInv
    <2>6. CASE g # attached
        <3>1. coord'[attached] = coord[attached] /\ intent'[attached] = intent[attached]
            BY <1>0, <2>3, <2>6
        <3> QED
            BY <1>r, <2>1, <2>2, <3>1 DEF ExitInv, TendedInv
    <2> QED
        BY <2>5, <2>6
<1> QED
    BY <1>1, <1>2, <1>3, <1>4 DEF ExitStep

\* The steps of the event loop.
LEMMA EventTended ==
    ASSUME RecTypeInv, GenerationInv, ExitInv, EventStep
    PROVE  EventInv' /\ TendedInv'
<1>0. /\ RecTypeOK /\ TypeOK /\ attached \in Gens
      /\ round \in [Respawners -> Rounds]
    BY DEF RecTypeInv, RecTypeOK, TypeOK, Rounds
<1>1. ConsumeEvent
    BY DEF EventStep, ExitIntentional, RecoveryPaused, RoundBegins
<1>2. UNCHANGED <<attached, proc, coord, intent, call>>
    BY <1>1 DEF ConsumeEvent
<1>3. /\ EventInv'
      /\ CrashQueued => ~Head(events).intentional \/ CrashQueued'
    BY <1>0, <1>1, ConsumeEvents DEF ExitInv
<1>4. SUFFICES /\ coord[attached] \in {"drain", "done"} /\ Tended => Tended'
               /\ coord[attached] = "done" /\ CrashQueued => CrashQueued' \/ Tended'
    BY <1>2, <1>3 DEF ExitInv, TendedInv
<1>5. coord[attached] \in {"drain", "done"} => proc[attached] = "dead"
    BY <1>0 DEF GenerationInv
<1>6. CASE ExitIntentional
    <2>1. Head(events).intentional /\ UNCHANGED <<round, told>>
        BY <1>6 DEF ExitIntentional, recVars
    <2>2. Tended' <=> Tended
        BY <2>1 DEF Tended, Respawning
    <2> QED
        BY <1>3, <2>1, <2>2
<1>7. CASE RecoveryPaused
    <2>1. Tell
        BY <1>7 DEF RecoveryPaused
    <2>2. coord[attached] \in {"drain", "done"} => told'
        BY <1>5, <2>1 DEF Tell
    <2> QED
        BY <2>2 DEF Tended
<1>8. ASSUME NEW c \in Respawners, RoundBegins(c) PROVE Tended'
    <2>1. PICK r \in Rounds : SetRound(c, r) /\ r.pc = "backoff"
        BY <1>8, BeginShape
    <2>2. round'[c] = r
        BY <1>0, <2>1, RoundSet
    <2> QED
        BY <2>1, <2>2 DEF Tended, Respawning
<1> QED
    BY <1>6, <1>7, <1>8 DEF EventStep

\* Every step keeps the invariant of the exits.
LEMMA StepExit ==
    RecTypeInv /\ GenerationInv /\ ExitInv /\ [RecNext]_vars => ExitInv'
<1> SUFFICES ASSUME RecTypeInv, GenerationInv, ExitInv, [RecNext]_vars
             PROVE  EventInv' /\ TendedInv'
    BY StepCall DEF ExitInv
<1>1. CASE ConnectionStep
    BY <1>1, ExitTended DEF ConnectionStep
<1>2. CASE EventStep
    BY <1>2, EventTended
<1>3. CASE \E c \in Respawners : RoundStep(c)
    BY <1>3, RoundTended
<1>4. CASE \/ DialogueOpens \/ DialogueCloses
           \/ WindowSlides \/ HeartbeatMissed \/ HeartbeatReset
           \/ \E k \in Killers : WatchdogKills(k)
           \/ UNCHANGED vars
    <2>0. call \in [Callers -> CallStates]
        BY DEF RecTypeInv, RecTypeOK, TypeOK
    <2>1. UNCHANGED <<round, told, attached, coord, intent, events>>
        BY <1>4 DEF DialogueOpens, DialogueCloses, WindowSlides,
                    HeartbeatMissed, HeartbeatReset, WatchdogKills, KillChild,
                    vars, rpcVars, recVars
    <2>2. \/ call' = call
          \/ \E k \in Killers : KillChild(k, FALSE)
        BY <1>4 DEF DialogueOpens, DialogueCloses, WindowSlides,
                    HeartbeatMissed, HeartbeatReset, WatchdogKills, vars, rpcVars
    <2>3. \A c \in Respawners : call'[c] = call[c]
        BY <2>0, <2>2, CallersAssumption DEF Callers, KillChild
    <2> QED
        BY <2>1, <2>3 DEF ExitInv, EventInv, TendedInv, Tended, Respawning, CrashQueued
<1> QED
    BY <1>1, <1>2, <1>3, <1>4 DEF RecNext

\* What recovery needs of the connection, step by step.
LEMMA StepBase ==
    RecTypeInv /\ GenerationInv /\ [RecNext]_vars => GenerationInv'
BY StepsConnection, StepGeneration DEF RecTypeInv, RecTypeOK

\* While the attached child is dead, its exit is on its way, a round is at
\* work, or the user has been told: for any number of overlapping rounds, any
\* kill of the watchdog and any pattern of failed attempts.
THEOREM RecNeverSilent == RecSafeSpec => []NeverSilentlyDisconnected
<1>1. RecInit => GenerationInv /\ ExitInv
    <2> SUFFICES ASSUME RecInit PROVE ExitInv
        BY InitGeneration DEF RecInit
    <2>1. RpcInit /\ \A c \in Respawners : round[c].pc = "off"
        BY DEF RecInit, Off
    <2>2. CallInv
        BY <2>1 DEF CallInv, RpcInit, Idle, Callers
    <2>3. EventInv
        BY <2>1 DEF EventInv, RpcInit
    <2>4. TendedInv
        BY <2>1, MaxGenAssumption DEF TendedInv, RpcInit, Gens
    <2> QED
        BY <2>2, <2>3, <2>4 DEF ExitInv
<1>3. RecTypeInv /\ ExitInv => NeverSilentlyDisconnected
    <2> SUFFICES ASSUME ExitInv, coord[attached] = "done"
                 PROVE  ExitQueued \/ ~NoRound \/ told
        BY DEF NeverSilentlyDisconnected
    <2>1. CrashQueued \/ Tended
        BY DEF ExitInv, TendedInv
    <2>2. CrashQueued => ExitQueued
        BY DEF ExitInv, EventInv, CrashQueued, ExitQueued
    <2>3. Respawning => ~NoRound
        BY DEF Respawning, NoRound, ActiveRound
    <2> QED
        BY <2>1, <2>2, <2>3 DEF Tended
<1> QED
    BY <1>1, StepBase, <1>3, InitRecType, StepRecType, StepExit, PTL DEF RecSafeSpec

-----------------------------------------------------------------------------
(* The session.                                                            *)

\* As long as nothing has slipped, at most one round is at work.  It waits for
\* the attached child, and talks to it; while that child lives, what the round
\* has read or asked for is what the child has open.
SessionInv ==
    ~slipped =>
        /\ \A c, d \in Respawners : ActiveRound(c) /\ ActiveRound(d) => c = d
        /\ NoRound /\ proc[attached] = "alive" => bound = opened[attached]
        /\ \A c \in Respawners :
              /\ round[c].pc = "respawn" => call[c].gen = attached
              /\ round[c].pc \in Talking => round[c].req = attached
              /\ proc[attached] = "alive" =>
                    /\ round[c].pc = "loaded" => round[c].got = opened[attached]
                    /\ round[c].pc = "switch" => bound = opened[attached]
                    /\ round[c].pc = "reload" => round[c].saved = opened[attached]
                    /\ round[c].pc = "finish" => bound = opened[attached]

\* What the invariant asks of the round that has just moved to r.
Agrees(c, r) ==
    /\ r.pc = "respawn" => call'[c].gen = attached'
    /\ r.pc \in Talking => r.req = attached'
    /\ proc'[attached'] = "alive" =>
          /\ r.pc = "off" => bound' = opened'[attached']
          /\ r.pc = "loaded" => r.got = opened'[attached']
          /\ r.pc = "switch" => bound' = opened'[attached']
          /\ r.pc = "reload" => r.saved = opened'[attached']
          /\ r.pc = "finish" => bound' = opened'[attached']

\* The new state of the only round decides the invariant.
LEMMA SoleRound ==
    ASSUME RecTypeOK, NEW c \in Respawners, NEW r \in Rounds, SetRound(c, r),
           \A d \in Respawners \ {c} : ~ActiveRound(d),
           Agrees(c, r)
    PROVE  SessionInv'
<1>1. /\ round'[c] = r
      /\ \A d \in Respawners \ {c} : round'[d] = round[d]
    BY RoundSet DEF RecTypeOK, Rounds
<1>2. \A d \in Respawners \ {c} : round'[d].pc = "off"
    BY <1>1 DEF ActiveRound
<1>3. \A d \in Respawners : ActiveRound(d)' => d = c
    BY <1>2 DEF ActiveRound
<1>4. NoRound' => r.pc = "off"
    BY <1>1 DEF NoRound, ActiveRound
<1>5. ASSUME NEW d \in Respawners
      PROVE  d = c \/ round'[d].pc \notin {"respawn", "finish"} \cup Talking
    BY <1>2 DEF Talking, Later
<1> QED
    BY <1>1, <1>3, <1>4, <1>5 DEF SessionInv, Agrees, Talking, Later

\* A respawn() that may attach has seen the end of the attached child.
LEMMA AttachNeedsDeath ==
    ASSUME TypeOK, GenerationInv, ReleasedInv, CallInv, SessionInv, ~slipped,
           NEW c \in Respawners, MayAttach(c), RespawnMayAttach(c)
    PROVE  proc[attached] # "alive"
<1>1. coord[attached] \notin {"watch", "reap"} => proc[attached] # "alive"
    BY DEF TypeOK, GenerationInv, CoordStates
<1>2. CASE call[c].pc = "resolved"
    <2>1. round[c].pc = "respawn"
        BY <1>2 DEF CallInv
    <2>2. call[c].gen = attached
        BY <2>1 DEF SessionInv
    <2>3. coord[attached] \in {"drain", "done"}
        BY <1>2, <2>2 DEF ReleasedInv
    <2> QED
        BY <1>1, <2>3
<1>3. CASE ~ControlOpen
    BY <1>1, <1>3 DEF ControlOpen
<1> QED
    BY <1>2, <1>3 DEF RespawnMayAttach

\* The steps of a round.
LEMMA RoundSession ==
    ASSUME RecTypeInv, GenerationInv, ReleasedInv, CallInv, SessionInv,
           NEW c \in Respawners, RoundStep(c)
    PROVE  SessionInv'
<1>s. SUFFICES ASSUME ~slipped' PROVE SessionInv'
    BY DEF SessionInv
<1>0. /\ RecTypeOK /\ AddressInv /\ TypeOK /\ round[c] \in Rounds
      /\ attached \in Gens /\ opened \in [Gens -> Sessions]
    BY DEF RecTypeInv, RecTypeOK, TypeOK, Rounds
<1>n. ~slipped
    BY <1>s DEF RoundStep, AttemptKills, AttemptAttaches, AttemptSpawnFails,
           LoadAnswered, LoadFails, LoadDone, SwitchAnswered, SwitchRefused,
           SwitchUnanswered, ReloadAnswered, ReloadFails, RoundEnds, ReplayFails
<1>a. ActiveRound(c)
    BY DEF RoundStep, AttemptKills, AttemptAttaches, AttemptSpawnFails,
           LoadAnswered, LoadFails, LoadDone, SwitchAnswered, SwitchRefused,
           SwitchUnanswered, ReloadAnswered, ReloadFails, RoundEnds,
           ReplayFails, ActiveRound
<1>o. \A d \in Respawners \ {c} : ~ActiveRound(d)
    BY <1>n, <1>a DEF SessionInv
<1>p. round[c].pc \in Talking => round[c].req = attached
    BY <1>n DEF SessionInv
<1>1. PICK r \in Rounds : SetRound(c, r) /\ Moves(c, r)
    BY <1>0, RoundShape
<1>r. round'[c] = r
    BY <1>0, <1>1, RoundSet DEF RecTypeOK, Rounds
<1>x. SUFFICES Agrees(c, r)
    BY <1>0, <1>1, <1>o, SoleRound
<1>2. CASE AttemptKills(c)
    <2>1. r = [round[c] EXCEPT !.pc = "respawn", !.saved = bound]
        BY <1>0, <1>2, <1>r DEF AttemptKills, SetRound, RecTypeOK
    <2>2. r.pc = "respawn"
        BY <1>0, <2>1 DEF Rounds
    <2>3. call'[c].gen = attached /\ attached' = attached
        BY <1>0, <1>2 DEF AttemptKills, RespawnKill, KillChild, TypeOK, Callers
    <2> QED
        BY <2>2, <2>3 DEF Agrees, Talking, Later
<1>3. CASE AttemptAttaches(c)
    <2>1. round' = [round EXCEPT ![c] = [round[c] EXCEPT !.pc = "load",
              !.req = attached',
              !.saved = IF round[c].pc = "backoff" THEN bound ELSE @]]
        BY <1>3 DEF AttemptAttaches, SetRound
    <2>2. r = [round[c] EXCEPT !.pc = "load", !.req = attached',
              !.saved = IF round[c].pc = "backoff" THEN bound ELSE @]
        BY <1>0, <1>r, <2>1 DEF RecTypeOK
    <2>3. r.pc = "load" /\ r.req = attached'
        BY <1>0, <2>2 DEF Rounds
    <2> QED
        BY <2>3 DEF Agrees
<1>4. CASE AttemptSpawnFails(c) \/ LoadFails(c) \/ ReplayFails(c)
    <2>1. PICK q \in Rounds : SetRound(c, q) /\ Retries(c, q)
        BY <1>0, <1>4, FailedAttempt DEF AttemptSpawnFails, LoadFails, ReplayFails
    <2>2. r = q
        BY <1>0, <1>r, <2>1, RoundSet DEF RecTypeOK, Rounds
    <2>3. r.pc \in {"backoff", "off"}
        BY <2>1, <2>2 DEF Retries
    <2>4. CASE r.pc = "backoff"
        BY <2>4 DEF Agrees, Talking, Later
    <2>5. CASE r.pc = "off"
        <3>1. round[c].attempt >= Attempts(c)
            BY <2>1, <2>2, <2>5 DEF Retries
        <3>2. proc'[attached'] = "alive" => bound' = opened'[attached']
            <4>1. CASE AttemptSpawnFails(c)
                <5>1. /\ AttachFails(c) /\ RespawnMayAttach(c) /\ MayAttach(c)
                      /\ UNCHANGED <<proc, attached>>
                    BY <4>1 DEF AttemptSpawnFails, AttachFails, MayAttach
                <5> QED
                    BY <1>0, <1>n, <5>1, AttachNeedsDeath
            <4>2. CASE LoadFails(c)
                BY <1>s, <3>1, <4>2 DEF LoadFails
            <4>3. CASE ReplayFails(c)
                BY <1>n, <4>3 DEF ReplayFails, SessionInv, rpcVars
            <4> QED
                BY <1>4, <4>1, <4>2, <4>3
        <3> QED
            BY <2>5, <3>2 DEF Agrees, Talking, Later
    <2> QED
        BY <2>3, <2>4, <2>5
<1>5. CASE LoadAnswered(c)
    <2>1. r = [round[c] EXCEPT !.pc = "loaded", !.got = opened[round[c].req]]
        BY <1>0, <1>5, <1>r DEF LoadAnswered, SetRound, RecTypeOK
    <2>2. round[c].req = attached /\ UNCHANGED <<attached, opened>>
        BY <1>5, <1>p DEF LoadAnswered, Talking, Later, rpcVars
    <2>3. r.pc = "loaded" /\ r.got = opened[attached] /\ r.req = attached
        BY <1>0, <2>1, <2>2 DEF Rounds
    <2> QED
        BY <2>2, <2>3 DEF Agrees
<1>6. CASE LoadDone(c)
    <2> DEFINE v == Switching(round[c].attempt, round[c].saved, attached)
               f == Finishing(c, FALSE)
    <2>1. SetRound(c, v) \/ SetRound(c, f)
        BY <1>6 DEF LoadDone, Switching
    <2>2. v \in Rounds /\ v.pc = "switch" /\ v.req = attached
        <3>1. /\ round[c].attempt \in 0 .. MaxAttempts /\ attached \in 0 .. MaxGen
              /\ round[c].saved \in Sessions
            BY <1>0 DEF RecTypeOK, TypeOK, Gens
        <3> QED
            BY <3>1, SwitchShape
    <2>3. f \in Rounds /\ f.pc = "finish"
        BY <1>0, FinishShape
    <2> HIDE DEF v, f
    <2>4. r \in {v, f}
        BY <1>0, <1>r, <2>1, <2>2, <2>3, RoundSet DEF RecTypeOK, Rounds
    <2>5. /\ UNCHANGED <<attached, proc, opened>> /\ bound' = round[c].got
          /\ round[c].pc = "loaded"
        BY <1>6 DEF LoadDone, rpcVars
    <2>6. proc[attached] = "alive" => bound' = opened[attached]
        BY <1>n, <2>5 DEF SessionInv
    <2> QED
        BY <2>2, <2>3, <2>4, <2>5, <2>6 DEF Agrees, Talking, Later
<1>7. CASE SwitchAnswered(c)
    <2>1. r = [round[c] EXCEPT !.pc = "reload", !.req = attached]
        BY <1>0, <1>7, <1>r DEF SwitchAnswered, SetRound, RecTypeOK
    <2>2. /\ round[c].req = attached /\ UNCHANGED <<attached>>
          /\ opened' = [opened EXCEPT ![round[c].req] = round[c].saved]
        BY <1>7, <1>p DEF SwitchAnswered, Talking, Later, rpcVars
    <2>3. r.pc = "reload" /\ r.req = attached /\ r.saved = round[c].saved
        BY <1>0, <2>1 DEF Rounds
    <2>4. opened'[attached'] = round[c].saved
        BY <1>0, <2>2
    <2> QED
        BY <2>2, <2>3, <2>4 DEF Agrees
<1>8. CASE SwitchRefused(c)
    <2>1. r = Finishing(c, FALSE)
        BY <1>0, <1>8, <1>r DEF SwitchRefused, SetRound, RecTypeOK
    <2>2. r.pc = "finish"
        BY <1>0, <2>1, FinishShape
    <2>3. round[c].pc = "switch" /\ UNCHANGED <<attached, proc, opened, bound>>
        BY <1>8 DEF SwitchRefused, rpcVars
    <2>4. proc[attached] = "alive" => bound = opened[attached]
        BY <1>n, <2>3 DEF SessionInv
    <2> QED
        BY <2>2, <2>3, <2>4 DEF Agrees, Talking, Later
<1>9. CASE ReloadAnswered(c)
    <2> DEFINE same == opened[round[c].req] = round[c].saved
    <2>1. r = Finishing(c, same)
        BY <1>0, <1>9, <1>r DEF ReloadAnswered, SetRound, RecTypeOK
    <2>2. r.pc = "finish"
        <3>1. same \in BOOLEAN
            OBVIOUS
        <3> HIDE DEF same
        <3> QED
            BY <1>0, <2>1, <3>1, FinishShape
    <2>3. /\ round[c].pc = "reload" /\ round[c].req = attached
          /\ proc[attached] = "alive" /\ UNCHANGED <<attached, proc, opened>>
          /\ bound' = IF same THEN round[c].saved ELSE bound
        BY <1>9, <1>p DEF ReloadAnswered, Talking, Later, rpcVars
    <2>4. round[c].saved = opened[attached]
        BY <1>n, <2>3 DEF SessionInv
    <2>5. bound' = opened[attached]
        BY <2>3, <2>4
    <2> QED
        BY <2>2, <2>3, <2>5 DEF Agrees, Talking, Later
<1>10. CASE RoundEnds(c)
    <2>1. r = Off /\ Off.pc = "off"
        BY <1>0, <1>10, <1>r DEF RoundEnds, SetRound, RecTypeOK, Off
    <2>2. /\ round[c].pc = "finish" /\ UNCHANGED <<attached, proc, opened, bound>>
        BY <1>10 DEF RoundEnds, rpcVars
    <2>3. proc[attached] = "alive" => bound = opened[attached]
        BY <1>n, <2>2 DEF SessionInv
    <2> QED
        BY <2>1, <2>2, <2>3 DEF Agrees, Talking, Later
<1>11. CASE SwitchUnanswered(c) \/ ReloadFails(c)
    BY <1>s, <1>11 DEF SwitchUnanswered, ReloadFails
<1> QED
    BY <1>2, <1>3, <1>4, <1>5, <1>6, <1>7, <1>8, <1>9, <1>10, <1>11 DEF RoundStep

\* The steps of the exit coordinators: a child that dies loses its session,
\* and a caller is released for the child it waited for.
LEMMA ConnectionSession ==
    ASSUME RecTypeInv, SessionInv, ConnectionStep
    PROVE  SessionInv'
<1>0. /\ TypeOK /\ attached \in Gens /\ Respawners \subseteq Callers
      /\ proc \in [Gens -> ProcStates] /\ call \in [Callers -> CallStates]
    BY DEF RecTypeInv, RecTypeOK, TypeOK, Callers
<1>1. UNCHANGED <<round, bound, slipped, attached>>
    BY DEF ConnectionStep, ExitStep, ChildDies, CoordKill, CoordReaps,
           CoordFinishes
<1>2. proc'[attached] = "alive" => proc[attached] = "alive"
    <2>1. \/ \E g \in Gens : proc' = [proc EXCEPT ![g] = "dead"]
          \/ proc' = proc
        BY DEF ConnectionStep, ExitStep, ChildDies, CoordKill, CoordReaps,
               CoordFinishes
    <2> QED
        BY <1>0, <2>1
<1>3. proc'[attached] = "alive" => opened'[attached] = opened[attached]
    BY <1>0 DEF ConnectionStep
<1>4. ASSUME NEW c \in Respawners PROVE call'[c].gen = call[c].gen
    <2>1. CASE call' = call
        BY <2>1
    <2>2. ASSUME NEW g \in Gens, CoordReaps(g) PROVE call'[c].gen = call[c].gen
        <3>0. c \in Callers
            BY <1>0
        <3>1. CASE call[c].pc = "await" /\ call[c].gen = g
            <4>1. call'[c] = [pc |-> "resolved", gen |-> g,
                              intentional |-> call[c].intentional]
                BY <2>2, <3>0, <3>1 DEF CoordReaps, ReleaseCallers
            <4> QED
                BY <3>1, <4>1
        <3>2. CASE ~(call[c].pc = "await" /\ call[c].gen = g)
            BY <2>2, <3>0, <3>2 DEF CoordReaps, ReleaseCallers
        <3> QED
            BY <3>1, <3>2
    <2> QED
        BY <2>1, <2>2 DEF ConnectionStep, ExitStep, ChildDies, CoordKill,
           CoordFinishes
<1> QED
    BY <1>1, <1>2, <1>3, <1>4 DEF SessionInv, NoRound, ActiveRound

\* A round that begins alone begins with a clean record, one that begins beside
\* another gives the agreement up.
LEMMA BeginSession ==
    ASSUME RecTypeInv, NEW c \in Respawners, RoundBegins(c)
    PROVE  SessionInv'
<1>0. RecTypeOK
    BY DEF RecTypeInv
<1>1. PICK r \in Rounds : SetRound(c, r) /\ r.pc = "backoff"
    BY BeginShape
<1>2. CASE NoRound
    <2>1. Agrees(c, r)
        BY <1>1 DEF Agrees, Talking, Later
    <2>2. \A d \in Respawners \ {c} : ~ActiveRound(d)
        BY <1>2 DEF NoRound
    <2> QED
        BY <1>0, <1>1, <2>1, <2>2, SoleRound
<1>3. CASE ~NoRound
    BY <1>3 DEF RoundBegins, SessionInv
<1> QED
    BY <1>2, <1>3

\* Every step keeps the agreement, unless it slips.
LEMMA StepSession ==
    /\ RecTypeInv /\ GenerationInv /\ ReleasedInv /\ CallInv /\ SessionInv
    /\ [RecNext]_vars
    => SessionInv'
<1> SUFFICES ASSUME RecTypeInv, GenerationInv, ReleasedInv, CallInv, SessionInv,
                    [RecNext]_vars
             PROVE  SessionInv'
    OBVIOUS
<1>1. ASSUME NEW c \in Respawners, RoundStep(c) PROVE SessionInv'
    BY <1>1, RoundSession
<1>2. ASSUME NEW c \in Respawners, RoundBegins(c) PROVE SessionInv'
    BY <1>2, BeginSession
<1>3. CASE ConnectionStep
    BY <1>3, ConnectionSession
<1>4. CASE /\ \A c \in Respawners : ~RoundStep(c) /\ ~RoundBegins(c)
           /\ ~ConnectionStep
    <2>0. call \in [Callers -> CallStates]
        BY DEF RecTypeInv, RecTypeOK, TypeOK
    <2>1. UNCHANGED <<round, bound, opened, slipped, attached, proc>>
        BY <1>4 DEF RecNext, EventStep, ExitIntentional, RecoveryPaused,
               ConsumeEvent, DialogueOpens, DialogueCloses, WindowSlides,
               HeartbeatMissed, HeartbeatReset, WatchdogKills, KillChild,
               vars, rpcVars, recVars
    <2>2. \/ call' = call
          \/ \E k \in Killers : KillChild(k, FALSE)
        BY <1>4 DEF RecNext, EventStep, ExitIntentional, RecoveryPaused,
               ConsumeEvent, DialogueOpens, DialogueCloses, WindowSlides,
               HeartbeatMissed, HeartbeatReset, WatchdogKills, vars, rpcVars,
               recVars
    <2>3. \A c \in Respawners : call'[c] = call[c]
        BY <2>0, <2>2, CallersAssumption DEF Callers, KillChild
    <2> QED
        BY <2>1, <2>3 DEF SessionInv, NoRound, ActiveRound
<1> QED
    BY <1>1, <1>2, <1>3, <1>4

\* When recovery has come to rest with a live child, the adapter and the child
\* agree on the session, unless one of the four named things has slipped since
\* a round last began alone: for any number of rounds, crashes, kills, refused
\* switches and failed attempts.
THEOREM RecBoundToOpenSession == RecSafeSpec => []BoundToOpenSession
<1>1. RecInit => GenerationInv /\ ReleasedInv /\ CallInv /\ SessionInv
    <2> SUFFICES ASSUME RecInit PROVE CallInv /\ SessionInv
        BY InitGeneration, InitReleased DEF RecInit
    <2>1. /\ RpcInit /\ \A c \in Respawners : round[c].pc = "off"
          /\ attached = 1 /\ bound = 0 /\ opened[1] = 0
        BY MaxGenAssumption DEF RecInit, RpcInit, Off, Gens
    <2>2. CallInv
        BY <2>1 DEF CallInv, RpcInit, Idle, Callers
    <2>3. SessionInv
        BY <2>1 DEF SessionInv, Talking, Later, ActiveRound
    <2> QED
        BY <2>2, <2>3
<1>2. RecTypeInv /\ GenerationInv /\ ReleasedInv /\ [RecNext]_vars => ReleasedInv'
    BY StepsConnection, StepReleased DEF RecTypeInv, RecTypeOK
<1>3. SessionInv => BoundToOpenSession
    BY DEF SessionInv, BoundToOpenSession, Rested
<1> QED
    BY <1>1, <1>2, <1>3, StepBase, StepCall, StepSession, InitRecType,
       StepRecType, PTL DEF RecSafeSpec

\* A round replaces a live child only when another round has attached that
\* child during its own teardown, whatever the watchdog kills meanwhile.
THEOREM RecTeardownIsAwaited == RecSafeSpec => TeardownIsAwaited
BY TeardownAwaited, RecoveryUsesConnection, PTL

=============================================================================
