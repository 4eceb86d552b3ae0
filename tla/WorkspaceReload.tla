--------------------------- MODULE WorkspaceReload ---------------------------
(***************************************************************************)
(* Reloading the workspace of the language server: the main loop           *)
(* (src/src/global_state/main_loop.rs, reload.rs, the tail of a turn in    *)
(* process_changes.rs), the worker that fetches the project model, and the *)
(* thread that loads the files of a configuration                          *)
(* (src/crates/vfs/src/notify.rs).                                         *)
(*                                                                         *)
(* The three share no memory.  The main loop hands a generation to a       *)
(* worker, which answers with Begin and End on the task channel; it hands  *)
(* configurations to the loader, which answers with Loaded and Progress on *)
(* the loader channel.  A turn of the main loop takes one client message,  *)
(* or everything queued on one of the two channels, and ends with a tail   *)
(* that applies changes, releases what waited for readiness and starts the *)
(* next fetch.  Every message and the tail is a step of its own, so that   *)
(* the other threads run in between, as they do.                           *)
(*                                                                         *)
(* Left out: what the files hold (module VfsSync), which request gets      *)
(* which answer (module Requests), messages to the client that carry no    *)
(* state, and Loaded batches that the loader sends for single files.       *)
(***************************************************************************)
EXTENDS Readiness, Sequences

CONSTANTS
  PullRequests,  \* diagnostic requests a client may send
  MaxReloads,    \* bound: reload requests, the one at start included
  MaxEntries     \* bound: load entries of a workspace configuration

ASSUME BoundsAssumption == MaxReloads \in Nat \ {0} /\ MaxEntries \in Nat

VARIABLES
  readiness,     \* WorkspaceVfsReadiness
  reloadTask,    \* ExclTask of the workspace fetch
  fetchers,      \* fetch jobs given to the worker pool and not finished
  tasks,         \* task channel: worker -> main loop
  inbox,         \* loader inbox: configurations the main loop has set
  loader,        \* loader thread
  vfsMsgs,       \* loader channel: loader -> main loop
  turn,          \* what the main loop is in the middle of
  wasReady,      \* readiness when the turn started
  pending,       \* what the turn leaves for process_changes
  parked,        \* diagnostic requests held back until ready
  answered,      \* diagnostic requests dispatched
  fetchBar,      \* fetch progress bars the client shows
  refreshedFor   \* configuration the client was last told to refresh for

loopVars   == <<readiness, reloadTask, turn, wasReady, pending, parked,
                answered, fetchBar, refreshedFor>>
loaderVars == <<inbox, loader, vfsMsgs>>
fetchVars  == <<fetchers, tasks>>
vars       == <<loopVars, loaderVars, fetchVars>>

-----------------------------------------------------------------------------
Begin(g)       == [kind |-> "begin", gen |-> g, errors |-> FALSE]
End(g, errors) == [kind |-> "end", gen |-> g, errors |-> errors]

FetchMessage == [kind : {"begin", "end"}, gen : Nat, errors : BOOLEAN]

Progress(version, done, total) ==
  [kind |-> "progress", version |-> version, done |-> done, total |-> total]
Loaded(version) == [kind |-> "loaded", version |-> version, done |-> 0, total |-> 0]

LoaderMessage ==
  [kind : {"progress", "loaded"}, version : Nat, done : Nat, total : Nat]

\* The entries of a configuration are loaded in parallel.  Here they are
\* counted: not read yet, read and sent but not counted, counted.  "owed" holds
\* the counts that were drawn from the shared counter and not yet sent.
LoaderType ==
  [ phase : {"idle", "loading", "unloaded"}, version : Nat, reconcile : BOOLEAN,
    unread : Nat, read : Nat, counted : Nat, owed : SUBSET Nat ]

\* Mutant: the reconcile step is not part of the total.
LoaderTotalOfEntries(l) == l.unread + l.read + l.counted

LoaderTotal(l) ==
  l.unread + l.read + l.counted + (IF l.reconcile THEN 1 ELSE 0)

NothingPending == [changed |-> FALSE, diagnose |-> FALSE]
Pending        == [changed : BOOLEAN, diagnose : BOOLEAN]

TypeOK ==
  /\ readiness \in ReadinessType
  /\ reloadTask \in TaskType
  /\ fetchers \subseteq [gen : Nat, phase : {"spawned", "loading"}]
  /\ tasks \in Seq(FetchMessage)
  /\ inbox \in Seq([version : Nat, entries : Nat])
  /\ loader \in LoaderType
  /\ vfsMsgs \in Seq(LoaderMessage)
  /\ turn \in {"idle", "client", "task", "vfs"}
  /\ wasReady \in BOOLEAN
  /\ pending \in Pending
  /\ parked \subseteq PullRequests
  /\ answered \subseteq PullRequests
  /\ fetchBar \in Int
  /\ refreshedFor \in Nat

\* run(): the first reload is requested and its fetch started before the loop.
Init ==
  /\ readiness = StartFetch(RequestReload(InitialReadiness), 1)
  /\ reloadTask = TakeRequest(RequestTask(IdleTask, 1))
  /\ fetchers = {[gen |-> 1, phase |-> "spawned"]}
  /\ tasks = <<>>
  /\ inbox = <<>>
  /\ loader = [phase |-> "idle", version |-> 0, reconcile |-> FALSE,
               unread |-> 0, read |-> 0, counted |-> 0, owed |-> {}]
  /\ vfsMsgs = <<>>
  /\ turn = "idle"
  /\ wasReady = FALSE
  /\ pending = NothingPending
  /\ parked = {}
  /\ answered = {}
  /\ fetchBar = 0
  /\ refreshedFor = 0

-----------------------------------------------------------------------------
(* The worker that fetches the project model *)

FetcherBegin(f) ==
  /\ f.phase = "spawned"
  /\ tasks' = Append(tasks, Begin(f.gen))
  /\ fetchers' = (fetchers \ {f}) \cup {[f EXCEPT !.phase = "loading"]}
  /\ UNCHANGED <<loopVars, loaderVars>>

\* A panic of ProjectModel::load is caught and sent as an error too.
FetcherEnd(f) ==
  /\ f.phase = "loading"
  /\ \E errors \in BOOLEAN : tasks' = Append(tasks, End(f.gen, errors))
  /\ fetchers' = fetchers \ {f}
  /\ UNCHANGED <<loopVars, loaderVars>>

-----------------------------------------------------------------------------
(* The loader thread *)

\* A configuration is reconciled with what was loaded before when that is any
\* file at all, be it by a configuration or for a single file.  Progress 0 is
\* announced unless there is nothing to do.
LoaderTakeConfig ==
  /\ loader.phase = "idle"
  /\ inbox # <<>>
  /\ \E reconcile \in BOOLEAN :
       LET config == Head(inbox)
           next   == [phase |-> "loading", version |-> config.version,
                      reconcile |-> reconcile, unread |-> config.entries,
                      read |-> 0, counted |-> 0, owed |-> {}]
       IN  /\ loader' = next
           /\ vfsMsgs' = IF LoaderTotal(next) > 0
                         THEN Append(vfsMsgs, Progress(next.version, 0, LoaderTotal(next)))
                         ELSE vfsMsgs
  /\ inbox' = Tail(inbox)
  /\ UNCHANGED <<loopVars, fetchVars>>

LoaderReadEntry ==
  /\ loader.phase = "loading"
  /\ loader.unread > 0
  /\ loader' = [loader EXCEPT !.unread = @ - 1, !.read = @ + 1]
  /\ vfsMsgs' = Append(vfsMsgs, Loaded(loader.version))
  /\ UNCHANGED <<inbox, loopVars, fetchVars>>

\* processed.fetch_add(1): drawn after the files were sent ...
LoaderCountEntry ==
  /\ loader.phase = "loading"
  /\ loader.read > 0
  /\ loader' = [loader EXCEPT !.read = @ - 1, !.counted = @ + 1,
                              !.owed = @ \cup {loader.counted + 1}]
  /\ UNCHANGED <<inbox, vfsMsgs, loopVars, fetchVars>>

\* ... and sent in a step of its own, so counts can overtake each other.
LoaderReport ==
  /\ loader.phase = "loading"
  /\ \E n \in loader.owed :
       /\ loader' = [loader EXCEPT !.owed = @ \ {n}]
       /\ vfsMsgs' = Append(vfsMsgs, Progress(loader.version, n, LoaderTotal(loader)))
  /\ UNCHANGED <<inbox, loopVars, fetchVars>>

EntriesDone == loader.unread = 0 /\ loader.read = 0 /\ loader.owed = {}

\* Files of the configuration before that this one did not report.
LoaderUnload ==
  /\ loader.phase = "loading"
  /\ EntriesDone
  /\ loader.reconcile
  /\ vfsMsgs' = Append(vfsMsgs, Loaded(loader.version))
  /\ loader' = [loader EXCEPT !.phase = "unloaded"]
  /\ UNCHANGED <<inbox, loopVars, fetchVars>>

\* Mutant: a configuration with nothing to load is never acknowledged.
LoaderFinishSilently ==
  /\ loader.phase \in {"loading", "unloaded"}
  /\ EntriesDone
  /\ vfsMsgs' = IF loader.reconcile
                THEN Append(vfsMsgs, Progress(loader.version, LoaderTotal(loader),
                                              LoaderTotal(loader)))
                ELSE vfsMsgs
  /\ loader' = [loader EXCEPT !.phase = "idle"]
  /\ UNCHANGED <<inbox, loopVars, fetchVars>>

LoaderFinish ==
  /\ loader.phase \in {"loading", "unloaded"}
  /\ EntriesDone
  /\ vfsMsgs' = IF loader.reconcile \/ LoaderTotal(loader) = 0
                THEN Append(vfsMsgs, Progress(loader.version, LoaderTotal(loader),
                                              LoaderTotal(loader)))
                ELSE vfsMsgs
  /\ loader' = [loader EXCEPT !.phase = "idle"]
  /\ UNCHANGED <<inbox, loopVars, fetchVars>>

Loader ==
  \/ LoaderTakeConfig
  \/ LoaderReadEntry
  \/ LoaderCountEntry
  \/ LoaderReport
  \/ LoaderUnload
  \/ LoaderFinish

-----------------------------------------------------------------------------
(* The main loop: client messages *)

StartTurn(kind) ==
  /\ turn = "idle"
  /\ turn' = kind
  /\ wasReady' = IsReady(readiness)

\* Every cause of a reload: a changed setting or workspace folder, a manifest
\* the client watches, the reload command.  A changed setting may first
\* invalidate the diagnostics.
ReloadTurn ==
  /\ StartTurn("client")
  /\ readiness.revision < MaxReloads
  /\ \E diagnose \in BOOLEAN :
       readiness' = RequestReload(IF diagnose /\ ~IsReady(readiness)
                                  THEN Defer(readiness) ELSE readiness)
  /\ reloadTask' = RequestTask(reloadTask, readiness'.requested)
  /\ UNCHANGED <<pending, parked, answered, fetchBar, refreshedFor,
                 fetchVars, loaderVars>>

\* Mutant: a request is parked without asking for it to be released.
PullTurnNotDeferring(p) ==
  /\ StartTurn("client")
  /\ p \notin parked \cup answered
  /\ IF IsReady(readiness)
     THEN answered' = answered \cup {p} /\ UNCHANGED parked
     ELSE parked' = parked \cup {p} /\ UNCHANGED answered
  /\ UNCHANGED <<readiness, reloadTask, pending, fetchBar, refreshedFor,
                 fetchVars, loaderVars>>

\* A pull-diagnostic request is dispatched, or parked until ready.
PullTurn(p) ==
  /\ StartTurn("client")
  /\ p \notin parked \cup answered
  /\ IF IsReady(readiness)
     THEN answered' = answered \cup {p} /\ UNCHANGED <<readiness, parked>>
     ELSE /\ readiness' = Defer(readiness)
          /\ parked' = parked \cup {p}
          /\ UNCHANGED answered
  /\ UNCHANGED <<reloadTask, pending, fetchBar, refreshedFor,
                 fetchVars, loaderVars>>

\* A document is opened, changed, saved or closed: the files, the set of
\* documents to diagnose, or both may change.
EditTurn ==
  /\ StartTurn("client")
  /\ pending' \in Pending \ {NothingPending}
  /\ UNCHANGED <<readiness, reloadTask, parked, answered, fetchBar,
                 refreshedFor, fetchVars, loaderVars>>

-----------------------------------------------------------------------------
(* The main loop: the task channel *)

\* The first message of a turn, or one more that is coalesced into it.
TakeTask ==
  /\ turn \in {"idle", "task"}
  /\ tasks # <<>>
  /\ tasks' = Tail(tasks)
  /\ turn' = "task"
  /\ wasReady' = IF turn = "idle" THEN IsReady(readiness) ELSE wasReady

HandleBegin ==
  /\ TakeTask
  /\ Head(tasks).kind = "begin"
  /\ IF AcceptsBegin(readiness, Head(tasks).gen)
     THEN /\ readiness' = AcceptBegin(readiness, Head(tasks).gen)
          /\ fetchBar' = fetchBar + 1
     ELSE UNCHANGED <<readiness, fetchBar>>
  /\ UNCHANGED <<reloadTask, fetchers, pending, parked, answered,
                 refreshedFor, loaderVars>>

HandleEnd(completion) ==
  /\ TakeTask
  /\ Head(tasks).kind = "end"
  /\ Completion(readiness, Head(tasks).gen, Head(tasks).errors) = completion
  /\ reloadTask' = CompleteTask(reloadTask)
  /\ UNCHANGED <<fetchers, pending, parked, answered, refreshedFor>>

Finished == FinishFetch(readiness, Head(tasks).gen, Head(tasks).errors)

\* Mutant: the bar of a superseded fetch stays open.
HandleStaleEndSilently ==
  /\ HandleEnd("stale")
  /\ readiness' = Finished
  /\ UNCHANGED <<fetchBar, loaderVars>>

HandleStaleEnd ==
  /\ HandleEnd("stale")
  /\ readiness' = Finished
  /\ fetchBar' = IF readiness.fetchProgress = Head(tasks).gen
                 THEN fetchBar - 1 ELSE fetchBar
  /\ UNCHANGED loaderVars

HandleFailure ==
  /\ HandleEnd("failure")
  /\ readiness' = Finished
  /\ fetchBar' = fetchBar - 1
  /\ UNCHANGED loaderVars

\* switch_workspaces: the loader gets the configuration of the new workspace.
\* The loader is not ready with it, so invalidating diagnostics defers them.
HandleSuccess ==
  /\ HandleEnd("success")
  /\ \E entries \in 0 .. MaxEntries :
       /\ readiness' = Defer(BeginVfsLoad(Finished, entries))
       /\ inbox' = Append(inbox, [version |-> readiness'.version, entries |-> entries])
  /\ fetchBar' = fetchBar - 1
  /\ UNCHANGED <<loader, vfsMsgs>>

-----------------------------------------------------------------------------
(* The main loop: the loader channel *)

\* Mutant: the readiness at the start of the turn is read again and again.
TakeVfsMsgRereading ==
  /\ turn \in {"idle", "vfs"}
  /\ vfsMsgs # <<>>
  /\ vfsMsgs' = Tail(vfsMsgs)
  /\ turn' = "vfs"
  /\ wasReady' = IsReady(readiness)

TakeVfsMsg ==
  /\ turn \in {"idle", "vfs"}
  /\ vfsMsgs # <<>>
  /\ vfsMsgs' = Tail(vfsMsgs)
  /\ turn' = "vfs"
  /\ wasReady' = IF turn = "idle" THEN IsReady(readiness) ELSE wasReady

HandleProgress ==
  /\ TakeVfsMsg
  /\ Head(vfsMsgs).kind = "progress"
  /\ LET m == Head(vfsMsgs)
     IN  readiness' = IF AcceptsProgress(readiness, m.version, m.done)
                      THEN AcceptProgress(readiness, m.version, m.done, m.total)
                      ELSE readiness
  /\ UNCHANGED <<reloadTask, pending, parked, answered, fetchBar, refreshedFor,
                 inbox, loader, fetchVars>>

\* The files of a current configuration are new or changed, or they are not; a
\* change that leaves nothing to diagnose is one undone in the same turn.
HandleLoaded ==
  /\ TakeVfsMsg
  /\ Head(vfsMsgs).kind = "loaded"
  /\ IF AcceptsLoaded(readiness, Head(vfsMsgs).version)
     THEN pending' \in {pending}
            \cup [changed : {TRUE}, diagnose : {TRUE, pending.diagnose}]
     ELSE UNCHANGED pending
  /\ UNCHANGED <<readiness, reloadTask, parked, answered, fetchBar,
                 refreshedFor, inbox, loader, fetchVars>>

-----------------------------------------------------------------------------
(* The main loop: the tail of a turn *)

\* A turn ends when the channel it drains is empty.
Drained ==
  /\ turn # "idle"
  /\ turn = "task" => tasks = <<>>
  /\ turn = "vfs" => vfsMsgs = <<>>

\* process_changes: invalidating diagnostics defers them while not ready; files
\* that appear, vanish or are manifests may ask for a reload.
AfterChanges(reload) ==
  LET r == IF pending.diagnose /\ ~IsReady(readiness)
           THEN Defer(readiness) ELSE readiness
  IN  IF reload THEN RequestReload(r) ELSE r

\* Changes are processed; parked requests are released if that leaves the server
\* ready; the client refreshes if the server became ready or files changed; the
\* next fetch starts if one is asked for and none is running.
FinishTurn ==
  /\ Drained
  /\ \E reload \in {FALSE, pending.changed /\ readiness.revision < MaxReloads} :
       LET r == AfterChanges(reload)
           t == IF reload THEN RequestTask(reloadTask, r.requested) ELSE reloadTask
           starts == ShouldStart(t)
       IN  /\ IF DeferredDue(r)
              THEN parked' = {} /\ answered' = answered \cup parked
              ELSE UNCHANGED <<parked, answered>>
           /\ refreshedFor' = IF IsReady(r) /\ (~wasReady \/ pending.changed)
                              THEN r.version ELSE refreshedFor
           /\ readiness' = IF starts THEN StartFetch(TakeDeferred(r), t.requested)
                           ELSE TakeDeferred(r)
           /\ reloadTask' = IF starts THEN TakeRequest(t) ELSE t
           /\ fetchers' = IF starts
                          THEN fetchers \cup {[gen |-> t.requested, phase |-> "spawned"]}
                          ELSE fetchers
  /\ turn' = "idle"
  /\ pending' = NothingPending
  /\ wasReady' = FALSE
  /\ UNCHANGED <<fetchBar, tasks, loaderVars>>

-----------------------------------------------------------------------------
ClientTurn == ReloadTurn \/ (\E p \in PullRequests : PullTurn(p)) \/ EditTurn

TaskTurn == HandleBegin \/ HandleStaleEnd \/ HandleFailure \/ HandleSuccess

VfsTurn == HandleProgress \/ HandleLoaded

Fetcher == \E f \in fetchers : FetcherBegin(f) \/ FetcherEnd(f)

Next == ClientTurn \/ TaskTurn \/ VfsTurn \/ FinishTurn \/ Fetcher \/ Loader

\* The threads keep running.  The main loop waits on its three channels at once
\* and picks among the ready ones at random, so none is passed over for ever;
\* clients may stay silent.
Fairness ==
  /\ WF_vars(Fetcher)
  /\ WF_vars(Loader)
  /\ WF_vars(FinishTurn)
  /\ SF_vars(TaskTurn)
  /\ SF_vars(VfsTurn)

Spec == Init /\ [][Next]_vars /\ Fairness

-----------------------------------------------------------------------------
(* Inductive invariants, from which the properties below follow *)

\* The stages of a fetch, each with where its messages are and whether its
\* progress bar is open.
NoFetch ==
  /\ readiness.active = None
  /\ readiness.fetchProgress = None
  /\ ~reloadTask.inProcess
  /\ fetchers = {}
  /\ tasks = <<>>

\* A bar is open when the Begin was taken, unless a newer reload was asked for
\* before that; and it is the bar of the fetch in flight.
BeginTaken ==
  /\ readiness.fetchProgress \in {None, readiness.active}
  /\ readiness.active = readiness.requested => readiness.fetchProgress # None

Fetching(gen) ==
  /\ reloadTask.inProcess
  /\ \/ /\ fetchers = {[gen |-> gen, phase |-> "spawned"]}
        /\ tasks = <<>>
        /\ readiness.fetchProgress = None
     \/ /\ fetchers = {[gen |-> gen, phase |-> "loading"]}
        /\ tasks = <<Begin(gen)>>
        /\ readiness.fetchProgress = None
     \/ /\ fetchers = {[gen |-> gen, phase |-> "loading"]}
        /\ tasks = <<>>
        /\ BeginTaken
     \/ /\ fetchers = {}
        /\ \E errors \in BOOLEAN : tasks = <<Begin(gen), End(gen, errors)>>
        /\ readiness.fetchProgress = None
     \/ /\ fetchers = {}
        /\ \E errors \in BOOLEAN : tasks = <<End(gen, errors)>>
        /\ BeginTaken

\* What is installed, being fetched and asked for, in this order.
Generations ==
  /\ readiness.committed <= readiness.requested
  /\ readiness.active # None =>
       readiness.committed < readiness.active /\ readiness.active <= readiness.requested

\* A request waits in the slot exactly when the newest generation is neither
\* installed nor being fetched; between turns only while a fetch is running.
RequestWaits ==
  /\ reloadTask.requested =
       IF readiness.requested \in {readiness.committed, readiness.active}
       THEN None ELSE readiness.requested
  /\ turn = "idle" /\ reloadTask.requested # None => reloadTask.inProcess

FetchInv ==
  /\ \/ NoFetch
     \/ readiness.active # None /\ Fetching(readiness.active)
  /\ Generations
  /\ RequestWaits
  /\ fetchBar = IF readiness.fetchProgress = None THEN 0 ELSE 1

\* Nothing of the loader's configuration is still to come.
LoadComplete ==
  /\ loader.unread = 0
  /\ loader.reconcile => loader.phase = "idle"

LoadedOf(version, m) == m.kind = "loaded" /\ m.version = version

Final(m) == m.kind = "progress" /\ m.done >= m.total

\* Configurations reach the loader one after the other; no message is ahead of
\* the loader; and behind a final count of its configuration no Loaded follows.
LoaderInv ==
  /\ readiness.progress.version = readiness.version
  /\ readiness.version = loader.version + Len(inbox)
  /\ \A i \in DOMAIN inbox : inbox[i].version = loader.version + i
  /\ \A n \in loader.owed : n <= loader.counted
  /\ \A i \in DOMAIN vfsMsgs :
       /\ vfsMsgs[i].version <= loader.version
       /\ vfsMsgs[i].done <= vfsMsgs[i].total
       /\ Final(vfsMsgs[i]) /\ vfsMsgs[i].version = loader.version =>
            LoadComplete /\ (\A j \in DOMAIN vfsMsgs :
                              j > i => ~LoadedOf(loader.version, vfsMsgs[j]))
  /\ readiness.vfsReady /\ readiness.version > 0 =>
       /\ inbox = <<>>
       /\ LoadComplete
       /\ \A i \in DOMAIN vfsMsgs : ~LoadedOf(readiness.version, vfsMsgs[i])

-----------------------------------------------------------------------------
(* Properties *)

\* The assertions of the code cannot fail: a fetch that ends was running
\* (ExclTask::complete), the loader never speaks of a configuration that was
\* not set yet, and it never counts past its total (process_vfs_msg).
NoAssertFails ==
  /\ \A i \in DOMAIN tasks : tasks[i].kind = "end" => reloadTask.inProcess
  /\ \A i \in DOMAIN vfsMsgs :
       /\ vfsMsgs[i].version <= readiness.version
       /\ vfsMsgs[i].done <= vfsMsgs[i].total

FetchEnded == \E i \in DOMAIN tasks : tasks[i].kind = "end"

\* At most one fetch is in flight, from the pool through the task channel to
\* the turn that takes its End, and it is the one both records mean: the slot
\* of ExclTask and active_fetch_generation never drift apart.
ExclusiveFetch ==
  /\ reloadTask.inProcess <=> readiness.active # None
  /\ \A f \in fetchers : f.gen = readiness.active /\ (\A h \in fetchers : h = f)
  /\ \A i \in DOMAIN tasks : tasks[i].gen = readiness.active
  /\ FetchEnded => fetchers = {}

\* Between turns, a generation that is asked for and not installed is being
\* fetched or is the next to be fetched, and the fetch in flight has a worker or
\* an End that will come: no interleaving of requests, failures and stale
\* results leaves the server waiting for a reload that nobody performs.
NoReloadForgotten ==
  turn = "idle" /\ readiness.requested # readiness.committed =>
    /\ readiness.requested \in {readiness.active, reloadTask.requested}
    /\ fetchers # {} \/ FetchEnded

\* When the server calls itself ready, no file of the newest configuration is
\* still to come: the loader has taken it, has read every entry and has unloaded
\* what fell out of it, and no Loaded batch of it waits in the channel, although
\* entries load in parallel and their counts overtake each other.
ReadyMeansLoaded ==
  IsReady(readiness) /\ readiness.version > 0 =>
    /\ inbox = <<>>
    /\ loader.version = readiness.version
    /\ loader.unread = 0
    /\ loader.reconcile => loader.phase = "idle"
    /\ \A i \in DOMAIN vfsMsgs :
         vfsMsgs[i].kind = "loaded" => vfsMsgs[i].version # readiness.version

\* A parked diagnostic request is always covered by the deferred flag that will
\* release it, and no turn that ends ready leaves the flag up.
ParkedNotLost ==
  /\ parked # {} => readiness.deferred
  /\ turn = "idle" /\ readiness.deferred => ~IsReady(readiness)

\* The progress bar of a fetch is opened at most once and closed exactly when
\* it is open, also when a newer reload supersedes the fetch half way.
ProgressPaired ==
  /\ fetchBar = (IF readiness.fetchProgress = None THEN 0 ELSE 1)
  /\ readiness.fetchProgress \in {None, readiness.active}

\* Whenever the server is ready between turns, the client was told to refresh
\* for the configuration in use: the turn that made it ready noticed.
ClientRefreshed ==
  turn = "idle" /\ IsReady(readiness) => refreshedFor = readiness.version

\* A parked diagnostic request is released in the end, whatever reloads,
\* failures and edits come in between.
ParkedAnswered == \A p \in PullRequests : p \in parked ~> p \in answered

\* Reloading keeps its promise: only the newest generation asked for is
\* installed, and every reload is adopted or given up in the end.
Reload == INSTANCE LatestRequestWins
            WITH wanted <- readiness.requested, inUse <- readiness.committed

LatestWins == Reload!Spec
=============================================================================
