---------------------------- MODULE AccessProtocol ----------------------------
(***************************************************************************)
(* What the announcement of the device to the platform promises, whatever  *)
(* threads, queues and connections carry it: the device counts as online   *)
(* only on the strength of an answer, an answer only comes of a request,   *)
(* and neither a request nor an answer is ever used twice.  Anything on    *)
(* the way may be lost, and the device may be taken offline at any time.   *)
(***************************************************************************)
EXTENDS Naturals

VARIABLES
  online,      \* the device counts as accepted
  requests,    \* linkups the platform has still to see
  answers      \* answers to linkups the device has still to see

vars == <<online, requests, answers>>

TypeOK == online \in BOOLEAN /\ requests \in Nat /\ answers \in Nat

Init == ~online /\ requests = 0 /\ answers = 0

\* The device asks to be accepted; it may have been in the meantime.
Ask == /\ requests' = requests + 1
       /\ UNCHANGED <<online, answers>>

Grant == /\ requests > 0
         /\ requests' = requests - 1
         /\ answers' = answers + 1
         /\ UNCHANGED online

Accept == /\ answers > 0
          /\ answers' = answers - 1
          /\ online' = TRUE
          /\ UNCHANGED requests

Lose == /\ requests' \in 0 .. requests
        /\ answers' \in 0 .. answers
        /\ online' \in {online, FALSE}

Next == Ask \/ Grant \/ Accept \/ Lose

Spec == Init /\ [][Next]_vars
=============================================================================
