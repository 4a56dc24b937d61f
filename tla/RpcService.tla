---------------------------- MODULE RpcService -----------------------------
(***************************************************************************)
(* What the users of PiRpc rely on, without pipes, tasks or kill calls:    *)
(* a request is bound to the child that is current when it is issued, is   *)
(* resolved at most once, and fails with the exit of a child only if its   *)
(* own child is gone.  Requests of other children are left alone.          *)
(***************************************************************************)
EXTENDS Integers

CONSTANTS Requests, Unbounded, Droppable, MaxGen

VARIABLES
    status,    \* [Requests -> outcome seen by the caller]
    child,     \* [Requests -> generation the request is bound to]
    current,   \* generation that new requests go to
    gone       \* generations that are dead or replaced

svcVars == <<status, child, current, gone>>

SvcInit ==
    /\ status = [r \in Requests |-> "new"]
    /\ child = [r \in Requests |-> 0]
    /\ current = 1
    /\ gone = {}

\* A request is accepted, or its child is gone: it is refused at once or fails
\* with the exit that was announced meanwhile.
Issue(r) ==
    /\ status[r] = "new"
    /\ child' = [child EXCEPT ![r] = current]
    /\ \/ status' = [status EXCEPT ![r] = "waiting"]
       \/ /\ current \in gone
          /\ \E refusal \in {"closed", "exit"} :
                status' = [status EXCEPT ![r] = refusal]
    /\ UNCHANGED <<current, gone>>

Answer(r) ==
    /\ status[r] = "waiting"
    /\ status' = [status EXCEPT ![r] = "ok"]
    /\ UNCHANGED <<child, current, gone>>

Expire(r) ==
    /\ status[r] = "waiting"
    /\ r \notin Unbounded
    /\ status' = [status EXCEPT ![r] = "timeout"]
    /\ UNCHANGED <<child, current, gone>>

\* The caller no longer wants to know.
Abandon(r) ==
    /\ status[r] = "waiting"
    /\ r \in Droppable
    /\ status' = [status EXCEPT ![r] = "dropped"]
    /\ UNCHANGED <<child, current, gone>>

\* A child's exit fails a set of requests, all of them bound to lost children.
Fail(S) ==
    /\ \A r \in S : status[r] = "waiting" /\ child[r] \in gone
    /\ status' = [r \in Requests |-> IF r \in S THEN "exit" ELSE status[r]]
    /\ UNCHANGED <<child, current, gone>>

\* A child dies.
Lose(g) ==
    /\ g \notin gone
    /\ gone' = gone \cup {g}
    /\ UNCHANGED <<status, child, current>>

\* A newer child takes over; every older one is gone for good.
Replace(g) ==
    /\ g > current
    /\ current' = g
    /\ gone' = gone \cup (1 .. (g - 1))
    /\ UNCHANGED <<status, child>>

SvcNext ==
    \/ \E r \in Requests : Issue(r) \/ Answer(r) \/ Expire(r) \/ Abandon(r)
    \/ \E S \in SUBSET Requests : Fail(S)
    \/ \E g \in 1 .. MaxGen : Lose(g) \/ Replace(g)

SvcSpec == SvcInit /\ [][SvcNext]_svcVars
=============================================================================
