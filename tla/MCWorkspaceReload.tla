-------------------------- MODULE MCWorkspaceReload --------------------------
(***************************************************************************)
(* WorkspaceReload with small bounds.  Two reloads after the one at start  *)
(* let a request supersede a fetch, fail, and use its number again; two    *)
(* entries let counts overtake each other.  Only the second configuration, *)
(* which supersedes one and is superseded by another, may have two.        *)
(***************************************************************************)
EXTENDS WorkspaceReload

OnlySecondIsLarge == \A i \in DOMAIN inbox' : inbox'[i].version # 2 => inbox'[i].entries <= 1

BoundedNext == Next /\ OnlySecondIsLarge

BoundedSpec == Init /\ [][BoundedNext]_vars /\ Fairness
=============================================================================
