---------------------------- MODULE FencedQueue ----------------------------
(***************************************************************************)
(* What durable dispatch promises, without rows, leases or heartbeats: a   *)
(* queue whose items are lent out under a token.  Every loan of an item    *)
(* has a token of its own, the largest so far; only the bearer of the      *)
(* largest token can change the item; an item that has ended never         *)
(* changes; and there are at most Limit loans of one item.                 *)
(*                                                                         *)
(* DispatchRefinement shows that Dispatch implements it.                   *)
(***************************************************************************)
EXTENDS Naturals

CONSTANTS Items, Workers, Limit, NoItem

VARIABLES
    stage,   \* how far an item is
    token,   \* the largest token issued for an item
    bearer   \* the item and token a worker carries

queueVars == <<stage, token, bearer>>

Waiting == {"absent", "parked"}
InHand == {"lent", "begun"}

Free == [item |-> NoItem, token |-> 0]

Init ==
    /\ stage = [i \in Items |-> "absent"]
    /\ token = [i \in Items |-> 0]
    /\ bearer = [w \in Workers |-> Free]

Move(i, to) == stage' = [stage EXCEPT ![i] = to]
LayDown(w) == bearer' = [bearer EXCEPT ![w] = Free]

\* The bearer of the token in force.
Current(w) ==
    /\ bearer[w] # Free
    /\ bearer[w].token = token[bearer[w].item]

Submit(i) ==
    /\ stage[i] \in Waiting
    /\ \E to \in {"parked", "queued"} : Move(i, to)
    /\ UNCHANGED <<token, bearer>>

\* A client takes back an item no worker has begun.
Withdraw(i) ==
    /\ stage[i] \in {"parked", "queued", "lent"}
    /\ Move(i, "withdrawn")
    /\ UNCHANGED <<token, bearer>>

\* A loan: of an item in the queue, or of one whose bearer was given up.
Lend(w, i) ==
    /\ bearer[w] = Free
    /\ stage[i] \in {"queued"} \cup InHand
    /\ token[i] < Limit
    /\ Move(i, "lent")
    /\ token' = [token EXCEPT ![i] = @ + 1]
    /\ bearer' = [bearer EXCEPT ![w] = [item |-> i, token |-> token[i] + 1]]

\* The queue gives up on an item: its time is over, or its loans are used up.
GiveUp(i) ==
    /\ stage[i] \in {"queued"} \cup InHand
    /\ \/ Move(i, "expired")
       \/ token[i] = Limit /\ Move(i, "failed")
    /\ UNCHANGED <<token, bearer>>

Begin(w) ==
    /\ Current(w) /\ stage[bearer[w].item] = "lent"
    /\ Move(bearer[w].item, "begun")
    /\ UNCHANGED <<token, bearer>>

Finish(w) ==
    /\ Current(w) /\ stage[bearer[w].item] = "begun"
    /\ Move(bearer[w].item, "finished")
    /\ LayDown(w) /\ UNCHANGED token

Fail(w) ==
    /\ Current(w) /\ stage[bearer[w].item] \in InHand
    /\ Move(bearer[w].item, "failed")
    /\ LayDown(w) /\ UNCHANGED token

GiveBack(w) ==
    /\ Current(w) /\ stage[bearer[w].item] \in InHand
    /\ Move(bearer[w].item, "queued")
    /\ LayDown(w) /\ UNCHANGED token

\* A worker stops, or learns that its token is stale: the item is untouched.
Drop(w) ==
    /\ bearer[w] # Free
    /\ LayDown(w) /\ UNCHANGED <<stage, token>>

Next ==
    \/ \E i \in Items : Submit(i) \/ Withdraw(i) \/ GiveUp(i)
    \/ \E w \in Workers, i \in Items : Lend(w, i)
    \/ \E w \in Workers :
          Begin(w) \/ Finish(w) \/ Fail(w) \/ GiveBack(w) \/ Drop(w)

Spec == Init /\ [][Next]_queueVars
=============================================================================
