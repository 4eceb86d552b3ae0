-------------------------------- MODULE Qihe --------------------------------
(***************************************************************************)
(* Runs of the external analyser Qihe: src/src/global_state/qihe.rs.       *)
(*                                                                         *)
(* A run is a job of the worker pool that starts commands and waits for    *)
(* them.  It holds a snapshot of the database until it is over, and the    *)
(* main loop cannot change the database before the last snapshot is gone.  *)
(* The latest run counts: one progress bar is shown, and what an older run *)
(* reports is ignored.                                                     *)
(*                                                                         *)
(* Left out: the log lines of a run, the commands and the conversion of    *)
(* their findings, and the files that the findings belong to (module       *)
(* Diagnostics).                                                           *)
(***************************************************************************)
EXTENDS Naturals, Sequences

CONSTANTS
  MaxRuns,   \* bound on the runs
  MaxWrites  \* bound on the writes, and on the requested reloads

ASSUME BoundsAssumption == MaxRuns \in Nat /\ MaxWrites \in Nat

VARIABLES
  generation,   \* qihe_run_generation: number of the latest run
  active,       \* run of the active progress and cancel tokens, 0 if none
  running,      \* runs in the pool, with the freshness of their snapshots
  cancelledRuns, \* runs whose cancellation token is cancelled
  results,      \* worker -> main loop
  asked,        \* client -> main loop: work-done-progress cancellations
  commit,       \* diagnostic_commit_freshness: writes and requested reloads
  committing,   \* the main loop waits for the snapshots to go
  stopping,     \* cancel_all_tasks was called
  findings,     \* run whose findings the cache holds, 0 if none
  bars          \* progress bars that the client shows

runVars  == <<generation, active, cancelledRuns, findings, bars>>
loopVars == <<commit, committing, stopping>>
qiheVars == <<runVars, running, results, asked, loopVars>>

Runs   == 1..MaxRuns
Commit == [writes : 0..MaxWrites, reloads : 0..MaxWrites]
Run    == [id : Runs, fresh : Commit, phase : {"planning", "commands"}]
QiheResult == [id : Runs, fresh : Commit, kind : {"finished", "cancelled", "failed"}]

\* The type invariant: at most one run is active, and it is the latest one.
QiheTypeOK ==
  /\ generation \in 0..MaxRuns
  /\ active \in {0, generation}
  /\ running \subseteq Run
  /\ cancelledRuns \subseteq 1..generation
  /\ results \in Seq(QiheResult)
  /\ asked \subseteq Runs
  /\ commit \in Commit
  /\ committing \in BOOLEAN /\ stopping \in BOOLEAN
  /\ findings \in 0..generation
  /\ bars \subseteq Runs

QiheInit ==
  /\ generation = 0 /\ active = 0 /\ cancelledRuns = {} /\ findings = 0 /\ bars = {}
  /\ running = {} /\ results = <<>> /\ asked = {}
  /\ commit = [writes |-> 0, reloads |-> 0]
  /\ committing = FALSE /\ stopping = FALSE

-----------------------------------------------------------------------------
(* The worker *)

Report(r, kind) ==
  /\ running' = running \ {r}
  /\ results' = Append(results, [id |-> r.id, fresh |-> r.fresh, kind |-> kind])
  /\ UNCHANGED <<runVars, asked, loopVars>>

\* The compilation plan is queried, then the commands run.
StartCommands(r) ==
  /\ r.phase = "planning"
  /\ running' = (running \ {r}) \cup {[r EXCEPT !.phase = "commands"]}
  /\ UNCHANGED <<runVars, results, asked, loopVars>>

\* The run ended by itself: well, even if the token was cancelled after its last
\* check, or badly (a panic is reported in the same way).
Complete(r) ==
  /\ r.phase = "commands"
  /\ \E kind \in {"finished", "failed"} : Report(r, kind)

\* A run that fails before its first command.
FailEarly(r) == r.phase = "planning" /\ Report(r, "failed")

\* A check of the token, or wait_with_cancellation, which kills the command; or
\* the query for the compilation plan was interrupted by a write.
Stop(r) ==
  /\ r.id \in cancelledRuns \/ (committing /\ r.phase = "planning")
  /\ Report(r, "cancelled")

QiheWorker == \E r \in running : StartCommands(r) \/ Complete(r) \/ FailEarly(r) \/ Stop(r)

-----------------------------------------------------------------------------
(* The main loop *)

\* Mutant: the bar of the superseded run is left to its own result.
SpawnKeepingBar ==
  /\ ~committing /\ ~stopping
  /\ generation < MaxRuns
  /\ generation' = generation + 1
  /\ active' = generation + 1
  /\ cancelledRuns' = cancelledRuns \cup ({active} \ {0})
  /\ bars' = bars \cup {generation + 1}
  /\ running' = running \cup {[id |-> generation + 1, fresh |-> commit, phase |-> "planning"]}
  /\ UNCHANGED <<findings, results, asked, loopVars>>

\* The command runQiheAnalysis; refused after a shutdown request.
Spawn ==
  /\ ~committing /\ ~stopping
  /\ generation < MaxRuns
  /\ generation' = generation + 1
  /\ active' = generation + 1
  /\ cancelledRuns' = cancelledRuns \cup ({active} \ {0})
  /\ bars' = (bars \ {active}) \cup {generation + 1}
  /\ running' = running \cup {[id |-> generation + 1, fresh |-> commit, phase |-> "planning"]}
  /\ UNCHANGED <<findings, results, asked, loopVars>>

\* end_current_qihe_progress
EndProgress(id) ==
  /\ active' = IF active = id THEN 0 ELSE active
  /\ bars' = bars \ {id}

\* Mutant: the token is not looked at when the result is a good one.
TakeResultRegardless ==
  /\ ~committing
  /\ results # <<>>
  /\ results' = Tail(results)
  /\ LET r == Head(results) IN
     IF r.id # generation
     THEN UNCHANGED runVars
     ELSE /\ EndProgress(r.id)
          /\ findings' = IF r.kind = "finished" /\ r.fresh = commit
                         THEN r.id ELSE findings
          /\ UNCHANGED <<generation, cancelledRuns>>
  /\ UNCHANGED <<running, asked, loopVars>>

\* Mutant: a result computed from older contents is dropped without more.
TakeResultForgetting ==
  /\ ~committing
  /\ results # <<>>
  /\ results' = Tail(results)
  /\ LET r == Head(results) IN
     IF r.id # generation \/ r.fresh # commit
     THEN UNCHANGED runVars
     ELSE /\ EndProgress(r.id)
          /\ findings' = IF r.kind = "finished" /\ r.id \notin cancelledRuns
                         THEN r.id ELSE findings
          /\ UNCHANGED <<generation, cancelledRuns>>
  /\ UNCHANGED <<running, asked, loopVars>>

\* handle_qihe_task: the result of an older run is ignored; one that was
\* cancelled, or computed from older contents, only ends the progress.
TakeResult ==
  /\ ~committing
  /\ results # <<>>
  /\ results' = Tail(results)
  /\ LET r == Head(results) IN
     IF r.id # generation
     THEN UNCHANGED runVars
     ELSE /\ EndProgress(r.id)
          /\ findings' = IF /\ r.kind = "finished"
                            /\ ~(active = r.id /\ active \in cancelledRuns)
                            /\ r.fresh = commit
                         THEN r.id ELSE findings
          /\ UNCHANGED <<generation, cancelledRuns>>
  /\ UNCHANGED <<running, asked, loopVars>>

\* cancel_work_done_progress
TakeCancel(id) ==
  /\ ~committing
  /\ id \in asked
  /\ asked' = asked \ {id}
  /\ cancelledRuns' = IF active = id THEN cancelledRuns \cup {id} ELSE cancelledRuns
  /\ UNCHANGED <<generation, active, findings, bars, running, results, loopVars>>

\* request_workspace_reload: older findings are no longer current, though the
\* database is not written.
RequestReload ==
  /\ ~committing
  /\ commit.reloads < MaxWrites
  /\ commit' = [commit EXCEPT !.reloads = @ + 1]
  /\ UNCHANGED <<runVars, running, results, asked, committing, stopping>>

\* A turn with changes: the main loop asks for the database and waits.
BeginCommit ==
  /\ ~committing
  /\ commit.writes < MaxWrites
  /\ committing' = TRUE
  /\ UNCHANGED <<runVars, running, results, asked, commit, stopping>>

EndCommit ==
  /\ committing
  /\ running = {}
  /\ committing' = FALSE
  /\ commit' = [commit EXCEPT !.writes = @ + 1]
  /\ UNCHANGED <<runVars, running, results, asked, stopping>>

\* The token of a run is a child of the pool's.
Shutdown ==
  /\ ~committing /\ ~stopping
  /\ stopping' = TRUE
  /\ cancelledRuns' = cancelledRuns \cup {r.id : r \in running} \cup ({active} \ {0})
  /\ UNCHANGED <<generation, active, findings, bars, running, results, asked, commit, committing>>

-----------------------------------------------------------------------------
(* The client *)

\* The user cancels a run that the client shows as being in progress.
AskCancel(id) ==
  /\ id \in bars
  /\ id \notin asked
  /\ asked' = asked \cup {id}
  /\ UNCHANGED <<runVars, running, results, loopVars>>

MainLoop == \/ Spawn \/ TakeResult \/ RequestReload
            \/ BeginCommit \/ EndCommit \/ Shutdown
            \/ \E id \in Runs : TakeCancel(id)

QiheNext == QiheWorker \/ MainLoop \/ \E id \in Runs : AskCancel(id)

\* The loop selects among its ready channels at random (next_event), a write
\* goes on once the snapshots are gone, and a run whose token is cancelled
\* stops: wait_with_cancellation polls the token.
LoopFairness ==
  /\ WF_qiheVars(EndCommit)
  /\ SF_qiheVars(TakeResult)
  /\ \A id \in Runs : SF_qiheVars(TakeCancel(id))
  /\ \A id \in Runs : WF_qiheVars(\E r \in running : r.id = id /\ Stop(r))

\* Nothing bounds the time that the commands of a run take.
QiheSpec == QiheInit /\ [][QiheNext]_qiheVars /\ LoopFairness

\* Every command ends sometime.
CommandsEnd ==
  \A id \in Runs :
    WF_qiheVars(\E r \in running : r.id = id /\ (StartCommands(r) \/ Complete(r) \/ Stop(r)))

QiheFairSpec == QiheSpec /\ CommandsEnd

-----------------------------------------------------------------------------
(* Properties *)

\* The client shows a progress bar for the active run and for no other, so no
\* bar is left behind by a run that was superseded, cancelled or late
\* (end_superseded_qihe_progress, end_current_qihe_progress).
BarsMatch == bars = {active} \ {0}

\* A run that has not reported yet, or whose result is on its way.
InPool(id)    == \E r \in running : r.id = id
InResults(id) == \E i \in DOMAIN results : results[i].id = id

\* The active run will still report: its bar is not ended by anything else, so
\* a run that went without a result would leave it open (spawn_qihe_analysis
\* turns even a panic into a result).
ActiveReports == active # 0 => InPool(active) \/ InResults(active)

\* Findings of a run whose token was cancelled, by the user, by a newer run or
\* by the shutdown, are never shown, even when its result was on its way
\* (handle_qihe_task).
CancelledNotShown == findings \notin cancelledRuns

\* Every progress bar ends, whatever happens to its run, if its commands end.
BarsEnd == \A id \in Runs : (id \in bars) ~> (id \notin bars)

\* A run that the user cancels while it is active stops, however long its
\* commands would take (wait_with_cancellation).
CancelStops ==
  \A id \in Runs :
    (id \in asked /\ id = active) ~> ~InPool(id)
=============================================================================
