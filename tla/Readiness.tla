------------------------------ MODULE Readiness ------------------------------
(***************************************************************************)
(* The bookkeeping with which the language server decides whether its      *)
(* answers describe the current workspace.  It has two records:            *)
(*                                                                         *)
(*   - WorkspaceVfsReadiness (src/src/global_state/workspace_state.rs):    *)
(*     which workspace generation was asked for, which one is being        *)
(*     fetched, which one is installed, and how far the file loader is     *)
(*     with the configuration that belongs to it;                          *)
(*   - ExclTask (src/crates/utils/src/excl_task.rs): the slot that lets    *)
(*     one fetch run at a time and remembers the newest request meanwhile. *)
(*                                                                         *)
(* Both are plain structs that the main-loop thread alone touches, so a    *)
(* method is an operator from the record (and its arguments) to the record *)
(* it leaves behind, or to the value it returns.                           *)
(***************************************************************************)
EXTENDS Integers

CONSTANT None     \* an Option that holds nothing

ASSUME NoneAssumption == None \notin Int

Option(S) == S \cup {None}

-----------------------------------------------------------------------------
(* WorkspaceVfsReadiness *)

VfsProgress == [version : Nat, done : Nat, total : Nat]

ReadinessType ==
  [ requested     : Nat,            \* newest generation asked for
    active        : Option(Nat),    \* generation a worker is fetching
    fetchProgress : Option(Nat),    \* generation whose Begin was reported
    committed     : Nat,            \* generation installed
    version       : Nat,            \* newest loader configuration
    progress      : VfsProgress,    \* newest loader progress accepted
    vfsReady      : BOOLEAN,
    revision      : Nat,            \* number of reload requests ever made
    deferred      : BOOLEAN ]       \* diagnostics wait for readiness

InitialReadiness ==
  [ requested |-> 0, active |-> None, fetchProgress |-> None, committed |-> 0,
    version |-> 0, progress |-> [version |-> 0, done |-> 0, total |-> 0],
    vfsReady |-> TRUE, revision |-> 0, deferred |-> FALSE ]

RequestReload(r) == [r EXCEPT !.requested = @ + 1, !.revision = @ + 1]

StartFetch(r, g) == [r EXCEPT !.active = g]

AcceptsBegin(r, g) == r.active = g /\ r.requested = g

AcceptBegin(r, g) == [r EXCEPT !.fetchProgress = g]

\* Mutant: forgets that a newer reload may have been requested meanwhile.
CompletionOfAnyActive(r, g, errors) ==
  IF r.active = g THEN IF errors THEN "failure" ELSE "success" ELSE "stale"

\* What finish_workspace_fetch returns.  A result counts only when it is the
\* one being waited for and nobody asked for a newer one meanwhile.
Completion(r, g, errors) ==
  IF r.active = g /\ r.requested = g
  THEN IF errors THEN "failure" ELSE "success"
  ELSE "stale"

\* Mutant: a superseded fetch is left behind as the active one.
FinishFetchStaleActive(r, g, errors) ==
  LET completion == Completion(r, g, errors)
  IN  [r EXCEPT !.active        = IF completion = "stale" THEN @ ELSE None,
                !.fetchProgress = IF @ = g THEN None ELSE @,
                !.requested     = IF completion = "failure" THEN r.committed ELSE @,
                !.committed     = IF completion = "success" THEN g ELSE @]

\* Mutant: a failed fetch leaves its generation requested.
FinishFetchKeepingRequest(r, g, errors) ==
  [r EXCEPT !.active        = IF @ = g THEN None ELSE @,
            !.fetchProgress = IF @ = g THEN None ELSE @,
            !.committed     = IF Completion(r, g, errors) = "success" THEN g ELSE @]

\* What finish_workspace_fetch leaves behind.  A failure gives the generation
\* up again, so its number is used a second time by the next request.
FinishFetch(r, g, errors) ==
  LET completion == Completion(r, g, errors)
  IN  [r EXCEPT !.active        = IF @ = g THEN None ELSE @,
                !.fetchProgress = IF @ = g THEN None ELSE @,
                !.requested     = IF completion = "failure" THEN r.committed ELSE @,
                !.committed     = IF completion = "success" THEN g ELSE @]

BeginVfsLoad(r, entries) ==
  [r EXCEPT !.version  = @ + 1,
            !.progress = [version |-> r.version + 1, done |-> 0, total |-> entries],
            !.vfsReady = FALSE]

\* Progress of an older configuration, or one overtaken by a later count of the
\* same configuration, is refused.
AcceptsProgress(r, version, done) ==
  version = r.version /\ done >= r.progress.done

AcceptProgress(r, version, done, total) ==
  [r EXCEPT !.progress = [version |-> version, done |-> done, total |-> total],
            !.vfsReady = done >= total]

AcceptsLoaded(r, version) == version = r.version

IsReady(r) ==
  /\ r.active = None
  /\ r.requested = r.committed
  /\ r.progress.version = r.version
  /\ r.vfsReady

Defer(r) == [r EXCEPT !.deferred = TRUE]

\* take_deferred_diagnostics_if_ready: the answer, and the record it leaves.
DeferredDue(r)  == IsReady(r) /\ r.deferred
TakeDeferred(r) == IF IsReady(r) THEN [r EXCEPT !.deferred = FALSE] ELSE r

-----------------------------------------------------------------------------
(* ExclTask, with the generation as the cause of a request *)

TaskType == [requested : Option(Nat), inProcess : BOOLEAN]

IdleTask == [requested |-> None, inProcess |-> FALSE]

RequestTask(t, g) == [t EXCEPT !.requested = g]

\* Mutant: starts although a fetch is running.
ShouldStartRegardless(t) == t.requested # None

ShouldStart(t) == ~t.inProcess /\ t.requested # None

TakeRequest(t) == [requested |-> None, inProcess |-> TRUE]

CompleteTask(t) == [t EXCEPT !.inProcess = FALSE]

=============================================================================
