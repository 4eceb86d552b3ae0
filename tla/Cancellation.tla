----------------------------- MODULE Cancellation -----------------------------
(***************************************************************************)
(* Cancellation tokens (src/crates/utils/src/cancellation.rs): a tree in   *)
(* which a parent refers to its children weakly and children do not know   *)
(* their parent.  Threads make children of a token and cancel it at the    *)
(* same time; a flag is read and written without the lock of the list of   *)
(* children.                                                               *)
(*                                                                         *)
(* The order in which the children of a token are cancelled is left open,  *)
(* and a token that was dropped does not come back.                        *)
(***************************************************************************)

CONSTANTS
  Tokens,
  Root,        \* the token the server starts with
  Threads,
  NoToken

ASSUME TokensAssumption == Root \in Tokens /\ NoToken \notin Tokens

VARIABLES
  cancelled,   \* the flag of each token
  children,    \* the weak references of each token
  held,        \* tokens somebody has a handle of
  parent,      \* whose child_token made it; the code does not store it
  at,          \* where each thread is
  of,          \* the token it makes a child of, or whose children it collects
  made,        \* the child it will return
  todo         \* tokens it has still to cancel

tokenVars == <<cancelled, children, held, parent, at, of, made, todo>>

Stages == {"out", "check", "link", "recheck", "cancel", "collect"}

TokensTypeOK ==
  /\ cancelled \in [Tokens -> BOOLEAN]
  /\ children \in [Tokens -> SUBSET Tokens]
  /\ held \in SUBSET Tokens
  /\ parent \in [Tokens -> Tokens \cup {NoToken}]
  /\ at \in [Threads -> Stages]
  /\ of \in [Threads -> Tokens \cup {NoToken}]
  /\ made \in [Threads -> Tokens \cup {NoToken}]
  /\ todo \in [Threads -> SUBSET Tokens]

TokensInit ==
  /\ cancelled = [t \in Tokens |-> FALSE]
  /\ children = [t \in Tokens |-> {}]
  /\ held = {Root}
  /\ parent = [t \in Tokens |-> NoToken]
  /\ at = [th \in Threads |-> "out"]
  /\ of = [th \in Threads |-> NoToken]
  /\ made = [th \in Threads |-> NoToken]
  /\ todo = [th \in Threads |-> {}]

\* strong_count > 0: a handle, or a reference of a call under way.
Alive(t) == t \in held \/ \E th \in Threads : t \in {of[th], made[th]} \cup todo[th]

GoTo(th, stage) == at' = [at EXCEPT ![th] = stage]

CancelNext(th, tokens) == GoTo(th, "cancel") /\ todo' = [todo EXCEPT ![th] = tokens]

\* The call returns, with the child if it makes one.
Return(th) ==
  /\ GoTo(th, "out")
  /\ held' = held \cup ({made[th]} \ {NoToken})
  /\ of' = [of EXCEPT ![th] = NoToken]
  /\ made' = [made EXCEPT ![th] = NoToken]

-----------------------------------------------------------------------------
(* child_token *)

NewChild(th, p, c) ==
  /\ at[th] = "out"
  /\ p \in held
  /\ c # Root /\ parent[c] = NoToken
  /\ parent' = [parent EXCEPT ![c] = p]
  /\ of' = [of EXCEPT ![th] = p]
  /\ made' = [made EXCEPT ![th] = c]
  /\ GoTo(th, "check")
  /\ UNCHANGED <<cancelled, children, held, todo>>

\* A child of a cancelled token is cancelled and not linked.
CheckParent(th) ==
  /\ at[th] = "check"
  /\ IF cancelled[of[th]] THEN CancelNext(th, {made[th]})
     ELSE GoTo(th, "link") /\ UNCHANGED todo
  /\ UNCHANGED <<cancelled, children, held, parent, of, made>>

\* Under the lock: the references that lead nowhere go.
Link(th) ==
  /\ at[th] = "link"
  /\ children' = [children EXCEPT ![of[th]] = {c \in @ : Alive(c)} \cup {made[th]}]
  /\ GoTo(th, "recheck")
  /\ UNCHANGED <<cancelled, held, parent, of, made, todo>>

\* Mutant: the flag is not read again after the child is linked.
RecheckNothing(th) ==
  /\ at[th] = "recheck"
  /\ Return(th)
  /\ UNCHANGED <<cancelled, children, parent, todo>>

\* The parent may have been cancelled, and its children collected, meanwhile.
Recheck(th) ==
  /\ at[th] = "recheck"
  /\ IF cancelled[of[th]] THEN CancelNext(th, {made[th]}) /\ UNCHANGED <<held, of, made>>
     ELSE Return(th) /\ UNCHANGED todo
  /\ UNCHANGED <<cancelled, children, parent>>

-----------------------------------------------------------------------------
(* cancel *)

Cancel(th, t) ==
  /\ at[th] = "out"
  /\ t \in held
  /\ CancelNext(th, {t})
  /\ UNCHANGED <<cancelled, children, held, parent, of, made>>

\* Whoever sets the flag takes care of the children.
SetFlag(th, t) ==
  /\ at[th] = "cancel"
  /\ t \in todo[th]
  /\ cancelled' = [cancelled EXCEPT ![t] = TRUE]
  /\ todo' = [todo EXCEPT ![th] = @ \ {t}]
  /\ IF cancelled[t] THEN UNCHANGED <<at, of>>
     ELSE GoTo(th, "collect") /\ of' = [of EXCEPT ![th] = t]
  /\ UNCHANGED <<children, held, parent, made>>

\* Under the lock: the children that are still there are upgraded.
Collect(th) ==
  /\ at[th] = "collect"
  /\ LET there == {c \in children[of[th]] : Alive(c)}
     IN  /\ children' = [children EXCEPT ![of[th]] = there]
         /\ CancelNext(th, todo[th] \cup there)
  /\ UNCHANGED <<cancelled, held, parent, of, made>>

Cancelled(th) ==
  /\ at[th] = "cancel"
  /\ todo[th] = {}
  /\ Return(th)
  /\ UNCHANGED <<cancelled, children, parent, todo>>

-----------------------------------------------------------------------------

\* The last handle of a token goes.
DropToken(t) ==
  /\ t \in held
  /\ held' = held \ {t}
  /\ UNCHANGED <<cancelled, children, parent, at, of, made, todo>>

TokensNext ==
  \/ \E th \in Threads, p, c \in Tokens : NewChild(th, p, c)
  \/ \E th \in Threads : CheckParent(th) \/ Link(th) \/ Recheck(th)
  \/ \E th \in Threads, t \in Tokens : Cancel(th, t) \/ SetFlag(th, t)
  \/ \E th \in Threads : Collect(th) \/ Cancelled(th)
  \/ \E t \in Tokens : DropToken(t)

TokensSpec == TokensInit /\ [][TokensNext]_tokenVars

-----------------------------------------------------------------------------
(* Properties *)

\* No child slips through: whenever nobody is cancelling, a token in somebody's
\* hands whose parent is cancelled is cancelled too, however making it and
\* cancelling the parent interleaved.
CancelReachesChildren ==
  (\A th \in Threads : at[th] \notin {"cancel", "collect"}) =>
    \A c \in held :
      parent[c] # NoToken /\ cancelled[parent[c]] => cancelled[c]
=============================================================================
