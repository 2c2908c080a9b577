----------------------------- MODULE CommandLanes -----------------------------
(***************************************************************************)
(* What the handling of the platform's commands promises, whatever queues  *)
(* and threads carry them: commands are sorted into lanes, a lane serves   *)
(* its commands one at a time in the order they came, only the command in  *)
(* service is answered, and it is answered at most once.                   *)
(***************************************************************************)
EXTENDS Naturals, Sequences

CONSTANTS Command, Lane

VARIABLES
  lanes,      \* the commands of each lane, the one in service first
  replies     \* the commands answered so far, in the order of the answers

vars == <<lanes, replies>>

Init == lanes = [l \in Lane |-> <<>>] /\ replies = <<>>

Waiting == {c \in Command : \E l \in Lane : \E i \in DOMAIN lanes[l] : lanes[l][i] = c}
Answered == {c \in Command : \E i \in DOMAIN replies : replies[i] = c}

Admit(c, l) == /\ c \notin Waiting \union Answered
               /\ lanes' = [lanes EXCEPT ![l] = Append(@, c)]
               /\ UNCHANGED replies

\* The answer may or may not end the service.
Answer(l) == /\ lanes[l] # <<>>
             /\ Head(lanes[l]) \notin Answered
             /\ replies' = Append(replies, Head(lanes[l]))
             /\ lanes' \in {lanes, [lanes EXCEPT ![l] = Tail(@)]}

Finish(l) == /\ lanes[l] # <<>>
             /\ lanes' = [lanes EXCEPT ![l] = Tail(@)]
             /\ UNCHANGED replies

Next == \E l \in Lane : Answer(l) \/ Finish(l) \/ \E c \in Command : Admit(c, l)

Spec == Init /\ [][Next]_vars
=============================================================================
