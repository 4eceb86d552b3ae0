------------------------------- MODULE VfsSync -------------------------------
(***************************************************************************)
(* Keeping the virtual file system in step with the disk: the loader       *)
(* thread (src/crates/vfs/src/notify.rs) reads files and sends batches of  *)
(* contents; the main loop (src/src/global_state/main_loop.rs) applies     *)
(* them to the VFS, except to documents that are open in the editor; the   *)
(* handlers of src/src/global_state/handlers/notification.rs open and      *)
(* close documents and ask for single files to be read again.              *)
(*                                                                         *)
(* The loader remembers in loaded_paths what it reported last, and unloads *)
(* what a new configuration does not report any more.  The main loop drops *)
(* batches that carry an older configuration than its own.                 *)
(*                                                                         *)
(* What is on the disk is any choice at every read.  A load entry is one   *)
(* file.  Left out: progress counts (module WorkspaceReload), file         *)
(* identities and the log of changes (module FileChanges), contents that   *)
(* do not decode.                                                          *)
(***************************************************************************)
EXTENDS Naturals, Sequences, FiniteSets

CONSTANTS
  DiskFiles,
  DiskTexts,   \* texts that may be read from the disk
  MaxConfigs,  \* bound: configurations set
  MaxEvents    \* bound: documents opened, files invalidated, watcher events

Absent == "absent"   \* LoadResult::LoadError, FileState::Deleted
Typed == "buffer"   \* text typed into the editor

ASSUME SyncAssumption ==
  /\ MaxConfigs \in Nat
  /\ MaxEvents \in Nat
  /\ {Absent, Typed} \cap DiskTexts = {}

VARIABLES
  version,      \* configuration the main loop has set last
  openFiles,    \* documents open in the editor
  vfsText,      \* what the VFS holds
  inbox,        \* main loop -> loader
  channel,      \* loader -> main loop
  loader,       \* the loader thread
  loadedPaths,  \* files the loader believes to be in the VFS
  lastSent,     \* history: the last contents sent for a file
  lost,         \* history: files whose unloading was dropped as stale
  events        \* number of events so far

mainVars   == <<version, openFiles, vfsText, lost>>
loaderVars == <<loader, loadedPaths, lastSent>>
syncVars   == <<mainVars, loaderVars, inbox, channel, events>>

Contents == DiskTexts \cup {Absent}

\* A batch maps some of the files to contents.
LoadedBatch == UNION {[files -> Contents] : files \in SUBSET DiskFiles}

Config(n, files) == [kind |-> "config", version |-> n, files |-> files]
Invalidate(f)    == [kind |-> "invalidate", version |-> 0, files |-> {f}]
LoadedMsg(n, batch) == [version |-> n, batch |-> batch]

IdleLoader(n) == [phase |-> "idle", version |-> n, todo |-> {}, reported |-> {},
                  loaded |-> {}, previous |-> {}]

SyncTypeOK ==
  /\ version \in 0 .. MaxConfigs
  /\ openFiles \subseteq DiskFiles
  /\ vfsText \in [DiskFiles -> Contents \cup {Typed}]
  /\ inbox \in Seq([kind : {"config", "invalidate"}, version : 0 .. MaxConfigs,
                    files : SUBSET DiskFiles])
  /\ channel \in Seq([version : 0 .. MaxConfigs, batch : LoadedBatch])
  /\ loader \in [phase : {"idle", "loading"}, version : 0 .. MaxConfigs,
                 todo : SUBSET DiskFiles, reported : SUBSET DiskFiles,
                 loaded : SUBSET DiskFiles, previous : SUBSET DiskFiles]
  /\ loader.loaded \subseteq loader.reported
  /\ loadedPaths \subseteq DiskFiles
  /\ lastSent \in [DiskFiles -> Contents]
  /\ lost \subseteq DiskFiles
  /\ events \in 0 .. MaxEvents

SyncInit ==
  /\ version = 0
  /\ openFiles = {}
  /\ vfsText = [f \in DiskFiles |-> Absent]
  /\ inbox = <<>>
  /\ channel = <<>>
  /\ loader = IdleLoader(0)
  /\ loadedPaths = {}
  /\ lastSent = [f \in DiskFiles |-> Absent]
  /\ lost = {}
  /\ events = 0

AnEvent == events < MaxEvents /\ events' = events + 1

-----------------------------------------------------------------------------
(* The loader thread *)

LoadedIn(batch) == {f \in DOMAIN batch : batch[f] # Absent}

Send(n, batch) ==
  /\ channel' = Append(channel, LoadedMsg(n, batch))
  /\ lastSent' = [f \in DiskFiles |-> IF f \in DOMAIN batch THEN batch[f] ELSE lastSent[f]]

\* record_loaded_files
Record(batch) == (loadedPaths \ DOMAIN batch) \cup LoadedIn(batch)

TakeConfig ==
  /\ loader.phase = "idle"
  /\ inbox # <<>> /\ Head(inbox).kind = "config"
  /\ inbox' = Tail(inbox)
  /\ loader' = [phase |-> "loading", version |-> Head(inbox).version,
                todo |-> Head(inbox).files, reported |-> {}, loaded |-> {},
                previous |-> loadedPaths]
  /\ loadedPaths' = {}
  /\ UNCHANGED <<mainVars, channel, lastSent, events>>

\* An entry names a file, which is reported even if it cannot be read, or a
\* directory, which is walked and reports what is there.
LoadEntry(f) ==
  /\ f \in loader.todo
  /\ \E batch \in [{f} -> Contents] \cup {<<>>} :
       /\ loader' = [loader EXCEPT !.todo     = @ \ {f},
                                   !.reported = @ \cup DOMAIN batch,
                                   !.loaded   = @ \cup LoadedIn(batch)]
       /\ Send(loader.version, batch)
  /\ UNCHANGED <<mainVars, inbox, loadedPaths, events>>

\* Mutant: files of the previous configuration are not unloaded.
FinishConfigKeeping ==
  /\ loader.phase = "loading" /\ loader.todo = {}
  /\ loadedPaths' = loader.loaded
  /\ loader' = IdleLoader(loader.version)
  /\ UNCHANGED <<mainVars, inbox, channel, lastSent, events>>

\* Mutant: what a configuration did load is forgotten.
FinishConfigForgetting ==
  /\ loader.phase = "loading" /\ loader.todo = {}
  /\ LET unloaded == loader.previous \ loader.reported
     IN  IF unloaded = {} THEN UNCHANGED <<channel, lastSent>>
         ELSE Send(loader.version, [f \in unloaded |-> Absent])
  /\ loadedPaths' = loader.previous
  /\ loader' = IdleLoader(loader.version)
  /\ UNCHANGED <<mainVars, inbox, events>>

FinishConfig ==
  /\ loader.phase = "loading" /\ loader.todo = {}
  /\ LET unloaded == loader.previous \ loader.reported
     IN  IF unloaded = {} THEN UNCHANGED <<channel, lastSent>>
         ELSE Send(loader.version, [f \in unloaded |-> Absent])
  /\ loadedPaths' = loader.loaded
  /\ loader' = IdleLoader(loader.version)
  /\ UNCHANGED <<mainVars, inbox, events>>

TakeInvalidate ==
  /\ loader.phase = "idle"
  /\ inbox # <<>> /\ Head(inbox).kind = "invalidate"
  /\ inbox' = Tail(inbox)
  /\ \E batch \in [Head(inbox).files -> Contents] :
       Send(loader.version, batch) /\ loadedPaths' = Record(batch)
  /\ UNCHANGED <<mainVars, loader, events>>

\* Watched files were created, changed or removed; a removed directory unloads
\* every loaded file below it.  Nothing is watched before a configuration.
TakeWatcherEvent ==
  /\ loader.phase = "idle" /\ loader.version > 0
  /\ AnEvent
  /\ \E batch \in LoadedBatch :
       /\ DOMAIN batch # {}
       /\ Send(loader.version, batch) /\ loadedPaths' = Record(batch)
  /\ UNCHANGED <<mainVars, loader, inbox>>

-----------------------------------------------------------------------------
(* The main loop *)

SetConfig(files) ==
  /\ version < MaxConfigs
  /\ version' = version + 1
  /\ inbox' = Append(inbox, Config(version + 1, files))
  /\ UNCHANGED <<openFiles, vfsText, lost, channel, loaderVars, events>>

\* Documents that are open belong to the editor.
Apply(batch) ==
  [f \in DiskFiles |-> IF f \in DOMAIN batch \ openFiles THEN batch[f] ELSE vfsText[f]]

Accepts(n) == n = version

ReceiveLoaded ==
  /\ channel # <<>>
  /\ channel' = Tail(channel)
  /\ LET batch == Head(channel).batch
     IN  IF Accepts(Head(channel).version)
         THEN vfsText' = Apply(batch) /\ lost' = lost \ DOMAIN batch
         ELSE /\ lost' = lost \cup (DOMAIN batch \ LoadedIn(batch))
              /\ UNCHANGED vfsText
  /\ UNCHANGED <<version, openFiles, inbox, loaderVars, events>>

OpenFile(f) ==
  /\ f \notin openFiles
  /\ AnEvent
  /\ openFiles' = openFiles \cup {f}
  /\ vfsText' = [vfsText EXCEPT ![f] = Typed]
  /\ UNCHANGED <<version, lost, inbox, channel, loaderVars>>

\* The file is read again; until then the text of the editor stays.
CloseFile(f) ==
  /\ f \in openFiles
  /\ openFiles' = openFiles \ {f}
  /\ inbox' = Append(inbox, Invalidate(f))
  /\ UNCHANGED <<version, vfsText, lost, channel, loaderVars, events>>

DidChangeWatchedFile(f) ==
  /\ AnEvent
  /\ inbox' = Append(inbox, Invalidate(f))
  /\ UNCHANGED <<mainVars, channel, loaderVars>>

SyncNext ==
  \/ TakeConfig
  \/ \E f \in DiskFiles : LoadEntry(f)
  \/ FinishConfig
  \/ TakeInvalidate
  \/ TakeWatcherEvent
  \/ \E files \in SUBSET DiskFiles : SetConfig(files)
  \/ ReceiveLoaded
  \/ \E f \in DiskFiles : OpenFile(f) \/ CloseFile(f) \/ DidChangeWatchedFile(f)

SyncSpec == SyncInit /\ [][SyncNext]_syncVars

-----------------------------------------------------------------------------
(* Properties *)

\* Nothing is under way between the two threads.
Settled == inbox = <<>> /\ channel = <<>> /\ loader.phase = "idle"

\* When all is settled, every file the loader counts as loaded is in the VFS
\* with the contents read last, although batches were dropped as stale, files
\* were invalidated and documents opened and closed meanwhile.
Delivered ==
  Settled => \A f \in loadedPaths \ openFiles : vfsText[f] = lastSent[f] /\ lastSent[f] # Absent

\* When all is settled, a file in the VFS that is neither open nor loaded is one
\* whose unloading was dropped as stale: there is no other way to leave a file
\* behind that no later configuration will remove.
GhostsExplained ==
  Settled => \A f \in DiskFiles \ (openFiles \cup loadedPaths) : vfsText[f] = Absent \/ f \in lost

\* When all is settled, a file that is not reported any more, and not open, is
\* not in the VFS.
UnreportedUnloaded ==
  Settled => \A f \in DiskFiles \ (openFiles \cup loadedPaths) : vfsText[f] = Absent
=============================================================================
