----------------------------- MODULE RemoteCall -----------------------------
(***************************************************************************)
(* What a call of the REST clients promises its caller, whatever requests  *)
(* it sends and however many of them: a call that returns was carried out, *)
(* and one that may not be repeated takes effect once at most, also when   *)
(* the caller is told that it failed and even if it takes effect later.    *)
(* Calls with one idempotency key ask for one effect between them.         *)
(***************************************************************************)
EXTENDS Naturals

CONSTANTS Calls, Goals

VARIABLES
    status,    \* per call: "new", "open", "returned" or "raised"
    goal,      \* per call: the effect it asks for
    once,      \* the effects that must not be repeated
    effect     \* per effect: how many times it happened

vars == <<status, goal, once, effect>>

Init ==
    /\ status = [c \in Calls |-> "new"]
    /\ goal \in [Calls -> Goals]
    /\ once \in SUBSET Goals
    /\ effect = [g \in Goals |-> 0]

Begin(c) ==
    /\ status[c] = "new"
    /\ status' \in {[status EXCEPT ![c] = "open"], [status EXCEPT ![c] = "raised"]}
    /\ UNCHANGED <<goal, once, effect>>

TakeEffect(g) ==
    /\ \E c \in Calls : goal[c] = g /\ status[c] # "new"
    /\ g \in once => effect[g] = 0
    /\ effect' = [effect EXCEPT ![g] = @ + 1]
    /\ UNCHANGED <<status, goal, once>>

Return(c) ==
    /\ status[c] = "open"
    /\ effect[goal[c]] > 0
    /\ status' = [status EXCEPT ![c] = "returned"]
    /\ UNCHANGED <<goal, once, effect>>

Raise(c) ==
    /\ status[c] = "open"
    /\ status' = [status EXCEPT ![c] = "raised"]
    /\ UNCHANGED <<goal, once, effect>>

Next ==
    \/ \E c \in Calls : Begin(c) \/ Return(c) \/ Raise(c)
    \/ \E g \in Goals : TakeEffect(g)

Spec == Init /\ [][Next]_vars
=============================================================================
