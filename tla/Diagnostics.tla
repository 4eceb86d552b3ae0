---------------------------- MODULE Diagnostics ----------------------------
(***************************************************************************)
(* Push diagnostics: src/src/global_state/process_changes.rs, snapshot.rs, *)
(* diagnostics.rs, and publish_diagnostics_tasks of main_loop.rs.          *)
(*                                                                         *)
(* A turn of the main loop that changes files, documents or settings asks  *)
(* the worker pool for the diagnostics of the open documents concerned.    *)
(* The job takes a snapshot with its freshness; the batch that comes back  *)
(* is published if the freshness is still the server's, and dropped        *)
(* otherwise.  Findings of Qihe are merged in from a shared cache.         *)
(*                                                                         *)
(* A write waits for the snapshots to go (module Requests).  The jobs that *)
(* it interrupts return batches that are stale on arrival, so a write here *)
(* finds no snapshot, and every job computes all of its files.             *)
(*                                                                         *)
(* Left out: clients that pull diagnostics, several URIs of one file,      *)
(* versions, and the contents of diagnostics: those of a file tell which   *)
(* files are broken among those they are computed from.                    *)
(***************************************************************************)
EXTENDS Naturals, FiniteSets

CONSTANTS
  Files,
  MaxChanges,  \* bound on the writes of the database
  MaxTargets,  \* bound on the documents opened and closed
  MaxReloads,  \* bound on the requested reloads
  MaxQueue     \* bound on the jobs and results when another one is asked for

ASSUME BoundsAssumption ==
  /\ MaxChanges \in Nat /\ MaxTargets \in Nat
  /\ MaxReloads \in Nat /\ MaxQueue \in Nat

VARIABLES
  text,       \* contents of the files in VFS and database
  open,       \* mem_docs: the open documents
  profiled,   \* files of the compilation profile
  onType,     \* DiagnosticsUpdateUserConfig: OnType or OnSave
  muted,      \* diagnostics are disabled in the settings
  ready,      \* workspace_vfs.is_ready()
  deferred,   \* diagnostics_deferred_until_ready
  rev,        \* DiagnosticPublishFreshness of the server
  jobs,       \* diagnostics jobs in the pool, with their snapshots
  run,        \* the Qihe run: commit freshness of its snapshot, {} if none
  results,    \* worker -> main loop: workers finish in any order
  external,   \* qihe_diagnostics: commit of the findings in the cache, {} if none
  published,  \* published_diagnostics
  shown       \* what the client shows

contents == <<text, profiled, muted>>
outputs  == <<external, published, shown>>
diagVars     == <<contents, open, onType, ready, deferred, rev, jobs, run, results, outputs>>

DocTexts     == {"clean", "broken", "absent"}
Freshness == [changes : 0..MaxChanges, targets : 0..MaxTargets, reloads : 0..MaxReloads]
Commits   == [changes : 0..MaxChanges, reloads : 0..MaxReloads]

\* DiagnosticCommitFreshness: opening and closing a document does not count.
Commit(fresh) == [changes |-> fresh.changes, reloads |-> fresh.reloads]

\* What a client is told of a file, with the commit of the findings if any.
Content == [slang : SUBSET Files, qihe : SUBSET Commits]
Nothing == [slang |-> {}, qihe |-> {}]

Job    == [fresh : Freshness, files : SUBSET Files, open : SUBSET Files]
Batch  == [kind : {"batch"}, fresh : Freshness, files : SUBSET Files,
           tasks : UNION {[F -> Content] : F \in SUBSET Files}]
Result == [kind : {"qihe"}, fresh : Commits, files : SUBSET Files, found : SUBSET Files]

\* The type invariant: open documents have a text, a batch has tasks for files
\* it touched, and nothing stays deferred once the workspace is ready.
DiagTypeOK ==
  /\ text \in [Files -> DocTexts] /\ profiled \subseteq Files /\ muted \in BOOLEAN
  /\ open \subseteq {f \in Files : text[f] # "absent"}
  /\ onType \in BOOLEAN /\ ready \in BOOLEAN /\ deferred \in BOOLEAN
  /\ ready => ~deferred
  /\ rev \in Freshness
  /\ jobs \subseteq Job
  /\ run \subseteq Commits
  /\ \A r \in results : \/ (r \in Batch /\ DOMAIN r.tasks \subseteq r.files)
                         \/ (r \in Result /\ r.found \subseteq r.files)
  /\ external \in [Files -> SUBSET Commits]
  /\ published \in [Files -> Content] /\ shown \in [Files -> Content]

\* A server whose workspace is loaded.
DiagInit ==
  /\ text = [f \in Files |-> "clean"] /\ profiled \in {{}, Files} /\ muted = FALSE
  /\ open = {} /\ onType \in BOOLEAN
  /\ ready = TRUE /\ deferred = FALSE
  /\ rev = [changes |-> 0, targets |-> 0, reloads |-> 0]
  /\ jobs = {} /\ run = {} /\ results = {}
  /\ external = [f \in Files |-> {}]
  /\ published = [f \in Files |-> Nothing] /\ shown = published

-----------------------------------------------------------------------------
(* Owners and contents *)

\* diagnostic_owner: files of a compilation profile share their diagnostics.
SameOwner(f, g) == f = g \/ {f, g} \subseteq profiled

\* Mutant: only the files that changed.
TargetsAmongChanges(files, docs) == docs \cap files

\* The open documents whose owner owns one of the files.
TargetsForChanges(files, docs) == {f \in docs : \E g \in files : SameOwner(f, g)}

Slang(f) == IF muted THEN {} ELSE {g \in Files : SameOwner(f, g) /\ text[g] = "broken"}

\* qihe_diagnostics: findings in the cache count if they are of the snapshot's
\* commit.
QiheFindings(f, fresh) == external[f] \cap {Commit(fresh)}

LspDiagnostics(f, fresh) == [slang |-> Slang(f), qihe |-> QiheFindings(f, fresh)]

BatchFor(files, docs, fresh) ==
  [kind |-> "batch", fresh |-> fresh, files |-> files,
   tasks |-> [f \in files \cap docs |-> LspDiagnostics(f, fresh)]]

-----------------------------------------------------------------------------
(* Publishing *)

\* Mutant: opened and closed documents do not make a batch stale.
IsFreshCommit(batch) == Commit(batch.fresh) = Commit(rev)

IsFresh(batch) == batch.fresh = rev

\* Mutant: touched files without a task are left alone.
CacheOfTasks(cache, batch) ==
  [f \in Files |-> IF f \in DOMAIN batch.tasks THEN batch.tasks[f] ELSE cache[f]]

\* The cache after a batch: what was published of a touched file that is no
\* target any more is cleared.
CacheAfter(cache, batch) ==
  [f \in Files |-> IF f \in DOMAIN batch.tasks THEN batch.tasks[f]
                   ELSE IF f \in batch.files THEN Nothing ELSE cache[f]]

\* Mutant: diagnostics that are cleared are only removed from the cache.
ShownOfTasks(new) ==
  [f \in Files |-> IF new[f] # published[f] /\ new[f] # Nothing THEN new[f] ELSE shown[f]]

\* A notification is sent for what differs from the cache.
ShownAfter(new) == [f \in Files |-> IF new[f] # published[f] THEN new[f] ELSE shown[f]]

\* publish_diagnostics_tasks
Publish(batch) ==
  /\ deferred' = (deferred \/ ~ready)
  /\ IF ready /\ IsFresh(batch)
     THEN /\ published' = CacheAfter(published, batch)
          /\ shown' = ShownAfter(CacheAfter(published, batch))
     ELSE UNCHANGED <<published, shown>>

-----------------------------------------------------------------------------
(* Asking for diagnostics *)

\* request_diagnostics for each of the sets of files; when the workspace is not
\* ready, that something was asked for is remembered, but not for which files.
Ask(requests) ==
  /\ jobs' = IF ready
             THEN jobs \cup {[fresh |-> rev', files |-> files, open |-> open'] :
                               files \in requests \ {{}}}
             ELSE jobs
  /\ deferred' = (deferred \/ (~ready /\ requests # {}))

\* The requests of a turn in which the contents of some files changed, and some
\* documents were opened or closed (pending); an invalidation may find no target.
RequestsForChanges(changed, pending, structural) ==
  LET asked == {pending} \ {{}} IN
  IF changed = {} THEN asked
  ELSE IF structural THEN {open'} \cup asked
  ELSE IF onType THEN {TargetsForChanges(changed \cup pending, open')}
  ELSE asked \cup {TargetsForChanges(files, open') : files \in {changed \ open'} \ {{}}}

\* process_changes, at the end of a turn; a write finds no snapshots.
ProcessChanges(changed, pending, structural) ==
  /\ changed # {} => /\ jobs = {} /\ run = {}
                     /\ rev.changes < MaxChanges
  /\ pending # {} => rev.targets < MaxTargets
  /\ rev' = [rev EXCEPT !.changes = @ + (IF changed = {} THEN 0 ELSE 1),
                        !.targets = @ + (IF pending = {} THEN 0 ELSE 1)]
  /\ Ask(RequestsForChanges(changed, pending, structural))

\* didChange
Edit(f, t) ==
  /\ f \in open /\ t \notin {text[f], "absent"}
  /\ text' = [text EXCEPT ![f] = t]
  /\ UNCHANGED <<open, profiled, muted, onType, ready, run, results, outputs>>
  /\ ProcessChanges({f}, {}, FALSE)

\* didOpen, with the text that the editor has; a file that is new to the server
\* changes the structure.
Open(f, t) ==
  /\ f \notin open /\ t # "absent"
  /\ open' = open \cup {f}
  /\ text' = [text EXCEPT ![f] = t]
  /\ UNCHANGED <<profiled, muted, onType, ready, run, results, outputs>>
  /\ ProcessChanges(IF text[f] = t THEN {} ELSE {f}, {f}, text[f] = "absent")

\* didClose; the loader is told to read the file again (DiskChange).
Close(f) ==
  /\ f \in open
  /\ open' = open \ {f}
  /\ UNCHANGED <<contents, onType, ready, run, results, outputs>>
  /\ ProcessChanges({}, {f}, FALSE)

\* didSave, when diagnostics are refreshed on saving.
Save(f) ==
  /\ f \in open /\ ~onType
  /\ Cardinality(jobs \cup results) < MaxQueue
  /\ UNCHANGED <<contents, open, onType, ready, rev, run, results, outputs>>
  /\ Ask({TargetsForChanges({f}, open)})

\* The loader reports a file that is not open.
DiskChange(f, t) ==
  /\ f \notin open /\ t \notin {text[f], "absent"}
  /\ text' = [text EXCEPT ![f] = t]
  /\ UNCHANGED <<open, profiled, muted, onType, ready, run, results, outputs>>
  /\ ProcessChanges({f}, {}, text[f] = "absent")

\* A file that is not open vanishes: its findings are removed, and what was
\* published of it is cleared unless the workspace is not ready.
DiskDelete(f) ==
  /\ f \notin open /\ text[f] # "absent"
  /\ text' = [text EXCEPT ![f] = "absent"]
  /\ external' = [external EXCEPT ![f] = {}]
  /\ published' = IF ready THEN [published EXCEPT ![f] = Nothing] ELSE published
  /\ shown' = IF ready THEN ShownAfter(published') ELSE shown
  /\ UNCHANGED <<open, profiled, muted, onType, ready, run, results>>
  /\ ProcessChanges({f}, {}, TRUE)

\* update_configuration, when the settings of diagnostics changed.
ChangeSettings ==
  /\ jobs = {} /\ run = {}
  /\ rev.changes < MaxChanges
  /\ muted' = ~muted
  /\ rev' = [rev EXCEPT !.changes = @ + 1]
  /\ UNCHANGED <<text, profiled, open, onType, ready, run, results, outputs>>
  /\ Ask({open'})

-----------------------------------------------------------------------------
(* Readiness, see module WorkspaceReload *)

RequestReload ==
  /\ rev.reloads < MaxReloads
  /\ ready' = FALSE
  /\ rev' = [rev EXCEPT !.reloads = @ + 1]
  /\ UNCHANGED <<contents, open, onType, deferred, jobs, run, results, outputs>>

\* switch_workspaces: the loader starts, so the workspace is not ready yet.
SwitchWorkspaces(files) ==
  /\ ~ready
  /\ jobs = {} /\ run = {}
  /\ rev.changes < MaxChanges
  /\ profiled' = files
  /\ rev' = [rev EXCEPT !.changes = @ + 1]
  /\ deferred' = TRUE
  /\ UNCHANGED <<text, muted, open, onType, ready, jobs, run, results, outputs>>

\* The turn in which the loading ends, or the fetch of the last reload fails.
BecomeReady ==
  /\ ~ready
  /\ ready' = TRUE
  /\ deferred' = FALSE
  /\ jobs' = IF deferred /\ open # {}
             THEN jobs \cup {[fresh |-> rev, files |-> open, open |-> open]} ELSE jobs
  /\ UNCHANGED <<contents, open, onType, rev, run, results, outputs>>

-----------------------------------------------------------------------------
(* Workers and results *)

RunJob(j) ==
  /\ jobs' = jobs \ {j}
  /\ results' = results \cup {BatchFor(j.files, j.open, j.fresh)}
  /\ UNCHANGED <<contents, open, onType, ready, deferred, rev, run, outputs>>

\* A run of Qihe; runs that supersede each other are in module Qihe.
StartQihe ==
  /\ run = {} /\ Cardinality(jobs \cup results) < MaxQueue
  /\ run' = {Commit(rev)}
  /\ UNCHANGED <<contents, open, onType, ready, deferred, rev, jobs, results, outputs>>

\* The findings are for some files; those of the active file count even if
\* there are none.
FinishQihe(active, found) ==
  \E commit \in run :
    /\ run' = {}
    /\ results' = results \cup {[kind |-> "qihe", fresh |-> commit,
                                 files |-> found \cup {active}, found |-> found]}
    /\ UNCHANGED <<contents, open, onType, ready, deferred, rev, jobs, outputs>>

ReceiveBatch(batch) ==
  /\ batch.kind = "batch"
  /\ results' = results \ {batch}
  /\ Publish(batch)
  /\ UNCHANGED <<contents, open, onType, ready, rev, jobs, run, external>>

\* replace_qihe_diagnostics: files that had findings have none any more.
Replaced(result) ==
  [f \in Files |->
     IF f \in result.found THEN {Commit(rev)} ELSE {}]

\* publish_qihe_diagnostics computes on the main thread, with the new findings.
PublishQihe(result) ==
  LET files == result.files \cup {f \in Files : external[f] # {}}
      tasks == [f \in files \cap open |->
                  [slang |-> Slang(f),
                   qihe |-> IF f \in result.found THEN {Commit(rev)} ELSE {}]]
  IN Publish([kind |-> "batch", fresh |-> rev, files |-> files, tasks |-> tasks])

\* handle_qihe_task: findings of an older commit are ignored.
ReceiveQihe(result) ==
  /\ result.kind = "qihe"
  /\ results' = results \ {result}
  /\ IF result.fresh = Commit(rev)
     THEN external' = Replaced(result) /\ PublishQihe(result)
     ELSE UNCHANGED <<external, deferred, published, shown>>
  /\ UNCHANGED <<contents, open, onType, ready, rev, jobs, run>>

Client ==
  \E f \in Files : \/ Close(f) \/ Save(f) \/ DiskDelete(f)
                   \/ \E t \in DocTexts : Edit(f, t) \/ Open(f, t) \/ DiskChange(f, t)

Reloading == RequestReload \/ BecomeReady \/ \E files \in {{}, Files} : SwitchWorkspaces(files)

Worker == \/ \E j \in jobs : RunJob(j)
          \/ StartQihe
          \/ \E active \in Files, found \in SUBSET Files : FinishQihe(active, found)

DiagNext == Client \/ ChangeSettings \/ Reloading \/ Worker
        \/ \E r \in results : ReceiveBatch(r) \/ ReceiveQihe(r)

DiagSpec == DiagInit /\ [][DiagNext]_diagVars

-----------------------------------------------------------------------------
(* Properties *)

\* The server's cache of what it published is what the client shows, so the
\* comparison that saves notifications never suppresses a needed one
\* (publish_diagnostics_tasks).
CacheIsShown == shown = published

\* Whatever a client is newly shown is for an open document and true at that
\* moment: no batch of older contents, settings, workspaces or targets gets
\* through, nor findings of an older commit (DiagnosticPublishFreshness).
\* The findings may be those of the run before: a batch that was computed
\* before the last findings came passes as well.
TrueWhenShown ==
  [][\A f \in Files :
       shown'[f] \notin {shown[f], Nothing} =>
         /\ f \in open' /\ shown'[f].slang = Slang(f)'
         /\ shown'[f].qihe \subseteq {Commit(rev)}]_diagVars

\* A job or batch for the file that will be published if nothing changes.
Requested(f) ==
  \/ \E j \in jobs : f \in j.files /\ j.fresh = rev
  \/ \E r \in results : r.kind = "batch" /\ f \in r.files /\ r.fresh = rev

\* The editor's text differs from the server's, and diagnostics are refreshed
\* on saving.
TypedUnsaved == ~onType /\ \E f \in open' : text'[f] # text[f]

\* Every step that changes the diagnostics of an open document asks for them,
\* or defers it: through edits of other files of its profile, files on disk,
\* settings and workspaces (process_changes, invalidate_diagnostics).
RequestedWhenChanged ==
  [][\A f \in open' :
       (f \notin open \/ Slang(f)' # Slang(f)) /\ ~TypedUnsaved => deferred' \/ Requested(f)']_diagVars

\* The client shows the diagnostics of a document, or none of a closed one.
Showing(f) == shown[f].slang = IF f \in open THEN Slang(f) ELSE {}

\* What was asked for is shown, unless the server's freshness moves on before
\* the batch arrives, or the workspace is not ready.
ServedOrOvertaken ==
  [][\A f \in Files :
       Requested(f) /\ rev' = rev => Requested(f)' \/ Showing(f)' \/ deferred']_diagVars

\* When all is done, nothing is shown of a document that is closed.
ClosedCleared ==
  ready /\ jobs = {} /\ results = {} => \A f \in Files \ open : shown[f] = Nothing
=============================================================================
