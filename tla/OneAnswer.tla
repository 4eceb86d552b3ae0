------------------------------ MODULE OneAnswer ------------------------------
(***************************************************************************)
(* What a language server promises its client: every request is answered   *)
(* at most once, nothing is answered that was not asked, and after the     *)
(* exit nothing is answered at all.                                        *)
(***************************************************************************)
EXTENDS Naturals

CONSTANT Requests

VARIABLES
  waiting,  \* requests that were asked and not answered
  replies,  \* number of answers to each request
  exited

vars == <<waiting, replies, exited>>

Init ==
  /\ waiting = {}
  /\ replies = [r \in Requests |-> 0]
  /\ exited = FALSE

Reply(rs) == replies' = [r \in Requests |-> IF r \in rs THEN replies[r] + 1 ELSE replies[r]]

\* A new request, which waits or is answered on the spot.
Ask(r) ==
  /\ ~exited
  /\ r \notin waiting /\ replies[r] = 0
  /\ \/ waiting' = waiting \cup {r} /\ UNCHANGED replies
     \/ UNCHANGED waiting /\ Reply({r})
  /\ UNCHANGED exited

\* Requests that wait are answered; they may be several.
Answer ==
  /\ ~exited
  /\ \E rs \in SUBSET waiting :
       /\ rs # {}
       /\ waiting' = waiting \ rs
       /\ Reply(rs)
  /\ UNCHANGED exited

Exit == exited' = TRUE /\ UNCHANGED <<waiting, replies>>

Next == Answer \/ Exit \/ \E r \in Requests : Ask(r)

Spec == Init /\ [][Next]_vars
=============================================================================
