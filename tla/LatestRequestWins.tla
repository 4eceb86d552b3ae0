-------------------------- MODULE LatestRequestWins --------------------------
(***************************************************************************)
(* What reloading a workspace promises, with fetches, threads and channels *)
(* left out.  There is a generation in use and the generation last asked   *)
(* for; they differ while a reload is owed.  A reload either adopts the    *)
(* newest generation asked for, never an older one, or gives up and stays  *)
(* with the one in use; and it is not left owed for ever.                  *)
(***************************************************************************)
EXTENDS Naturals

VARIABLES wanted, inUse

vars == <<wanted, inUse>>

Owed == wanted # inUse

Init == wanted \in Nat /\ inUse = 0

Ask == wanted' = wanted + 1 /\ UNCHANGED inUse

Adopt  == Owed /\ inUse' = wanted /\ UNCHANGED wanted
GiveUp == Owed /\ wanted' = inUse /\ UNCHANGED inUse

Settle == Adopt \/ GiveUp

Next == Ask \/ Settle

Spec == Init /\ [][Next]_vars /\ WF_vars(Settle)
=============================================================================
