------------------------------- MODULE MCParts -------------------------------
(***************************************************************************)
(* Seven components of the language server that are specified on their own,  *)
(* side by side: from the disk to the VFS, from the VFS to the database,   *)
(* the open documents, the diagnostics that are pushed, the cancellation   *)
(* tokens, the worker pool and the browser's language worker.  They share  *)
(* no state here: a behaviour is one of one of them; the others stay as    *)
(* they begin.                                                             *)
(***************************************************************************)
EXTENDS VfsSync, FileChanges, Documents, Diagnostics, Cancellation, Pool,
        BrowserRuntime, TLC

VARIABLE part    \* the component that moves

Parts == {"sync", "files", "documents", "diagnostics", "tokens", "pool", "runtime"}

\* The settings of the component that stays.
Resting == part # "diagnostics" => profiled = {} /\ onType

Init ==
  /\ part \in Parts
  /\ SyncInit /\ FilesInit
  /\ DocsInit /\ DiagInit /\ TokensInit /\ PoolInit /\ RuntimeInit
  /\ Resting

Still(p, vars) == p # part => UNCHANGED vars

Next ==
  /\ UNCHANGED part
  /\ Still("sync", syncVars) /\ Still("files", fileVars)
  /\ Still("documents", docVars) /\ Still("diagnostics", diagVars)
  /\ Still("tokens", tokenVars) /\ Still("pool", poolVars)
  /\ Still("runtime", runtimeVars)
  /\ \/ part = "sync" /\ SyncNext
     \/ part = "files" /\ FilesNext
     \/ part = "documents" /\ DocsNext
     \/ part = "diagnostics" /\ DiagNext
     \/ part = "tokens" /\ TokensNext
     \/ part = "pool" /\ PoolNext
     \/ part = "runtime" /\ RuntimeNext

Spec ==
  Init /\ [][Next]_<<part, syncVars, fileVars, docVars, diagVars, tokenVars, poolVars,
                     runtimeVars>>

\* Files are interchangeable, those of the disk and those that diagnostics are for
\* (the same values, which makes a smaller group); so are the texts of the
\* database and of the documents.
Symmetry == Permutations(DiskFiles \cup Files) \cup Permutations(Texts)
=============================================================================
