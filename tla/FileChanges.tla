----------------------------- MODULE FileChanges -----------------------------
(***************************************************************************)
(* From the virtual file system to the analysis database.  Every write to  *)
(* the VFS (src/crates/vfs/src/vfs.rs) is logged; once per turn the main   *)
(* loop takes the log, coalesces it per file and applies the result to the *)
(* database (src/src/global_state/process_changes.rs,                      *)
(* src/crates/hir/src/base_db/change.rs).  One turn takes everything       *)
(* queued on the loader channel, so a log may hold many writes of a file.  *)
(*                                                                         *)
(* Left out: line endings, contents that do not decode (they change        *)
(* nothing), the division of the files among several source roots, files   *)
(* without an absolute path, and who writes (module VfsSync).              *)
(***************************************************************************)
EXTENDS Naturals, FiniteSets, Sequences

CONSTANTS
  NumFiles,    \* bound: file ids ever allocated
  FileTexts,
  MaxLog,      \* bound: writes between two turns
  MaxFlips     \* bound: times one file appears or vanishes between two turns

ASSUME LogAssumption == NumFiles \in Nat /\ MaxLog \in Nat /\ MaxFlips \in Nat

FileIds == 1 .. NumFiles

Deleted == "deleted"   \* FileState::Deleted; the text of a ChangeKind::Delete

ASSUME TextsAssumption == Deleted \notin FileTexts

VARIABLES
  fileState,   \* what the VFS holds
  redirects,   \* ids merged into another id of the same file
  changes,     \* the log
  dbText,      \* text of the files the database lists
  roots,       \* files in the source roots the database knows
  placed,      \* files that ever were in one: their source_root_id is set
  panicked     \* the main loop is gone

fileVars == <<fileState, redirects, changes, dbText, roots, placed, panicked>>

Kind   == {"create", "modify", "delete"}
Change == {c \in [file : FileIds, kind : Kind, text : FileTexts \cup {Deleted}] :
             c.kind = "delete" <=> c.text = Deleted}

FilesTypeOK ==
  /\ fileState \in [FileIds -> FileTexts \cup {Deleted}]
  /\ redirects \in [FileIds -> FileIds]
  /\ changes \in Seq(Change)
  /\ dbText \in [FileIds -> FileTexts \cup {Deleted}]
  /\ roots \subseteq FileIds
  /\ placed \subseteq FileIds
  /\ panicked \in BOOLEAN

FilesInit ==
  /\ fileState = [f \in FileIds |-> Deleted]
  /\ redirects = [f \in FileIds |-> f]
  /\ changes = <<>>
  /\ dbText = [f \in FileIds |-> Deleted]
  /\ roots = {}
  /\ placed = {}
  /\ panicked = FALSE

Existing     == {f \in FileIds : fileState[f] # Deleted}
OwnsPath(f) == redirects[f] = f

Flips(f) ==
  Cardinality({i \in DOMAIN changes : changes[i].file = f /\ changes[i].kind # "modify"})

-----------------------------------------------------------------------------
(* Writes to the VFS *)

\* The change from text "old" to text "new".
Write(f, old, new) ==
  [ file |-> f, text |-> new,
    kind |-> IF new = Deleted THEN "delete"
             ELSE IF old = Deleted THEN "create" ELSE "modify" ]

\* A write that changes nothing is not logged.  The path that is written to
\* leads to the id that owns it.
WriteFile(f, new) ==
  /\ ~panicked
  /\ OwnsPath(f)
  /\ new # fileState[f]
  /\ Len(changes) < MaxLog
  /\ Deleted \in {new, fileState[f]} => Flips(f) < MaxFlips
  /\ fileState' = [fileState EXCEPT ![f] = new]
  /\ changes' = Append(changes, Write(f, fileState[f], new))
  /\ UNCHANGED <<redirects, dbText, roots, placed, panicked>>

\* Mutant: the duplicate keeps its contents when it is merged.
MergeKeepingDuplicate(owner, duplicate) ==
  /\ ~panicked
  /\ owner < duplicate
  /\ OwnsPath(owner) /\ OwnsPath(duplicate)
  /\ Len(changes) + 2 <= MaxLog
  /\ Flips(owner) < MaxFlips /\ Flips(duplicate) < MaxFlips
  /\ redirects' = [redirects EXCEPT ![duplicate] = owner]
  /\ LET adopted == IF duplicate \in Existing /\ owner \notin Existing
                    THEN <<Write(owner, Deleted, fileState[duplicate])>> ELSE <<>>
     IN  /\ fileState' = [fileState EXCEPT
              ![owner] = IF adopted # <<>> THEN fileState[duplicate] ELSE @]
         /\ changes' = changes \o adopted
  /\ UNCHANGED <<dbText, roots, placed, panicked>>

\* A path turns out to be another name of a known file: the later id gives its
\* contents to the earlier one, if that has none, and is deleted.
MergeFileIds(owner, duplicate) ==
  /\ ~panicked
  /\ owner < duplicate
  /\ OwnsPath(owner) /\ OwnsPath(duplicate)
  /\ Len(changes) + 2 <= MaxLog
  /\ Flips(owner) < MaxFlips /\ Flips(duplicate) < MaxFlips
  /\ redirects' = [redirects EXCEPT ![duplicate] = owner]
  /\ LET text    == fileState[duplicate]
         adopted == IF text # Deleted /\ owner \notin Existing
                    THEN <<Write(owner, Deleted, text)>> ELSE <<>>
         dropped == IF text # Deleted
                    THEN <<Write(duplicate, text, Deleted)>> ELSE <<>>
     IN  /\ fileState' = [fileState EXCEPT
              ![owner]     = IF adopted # <<>> THEN text ELSE @,
              ![duplicate] = Deleted]
         /\ changes' = changes \o adopted \o dropped
  /\ UNCHANGED <<dbText, roots, placed, panicked>>

-----------------------------------------------------------------------------
(* process_changes *)

\* Mutant: a file that vanished and came back stays deleted.
CoalesceStickyDelete(entry, c) ==
  [ kind |-> IF "delete" \in {c.kind, entry.kind} THEN "delete"
             ELSE IF entry.kind = "create" THEN "create" ELSE "modify",
    text |-> c.text,
    justCreated |-> entry.justCreated \/ (entry.kind = "delete" /\ c.kind = "create") ]

\* Mutant: only the last change counts.
CoalesceLast(entry, c) ==
  [kind |-> c.kind, text |-> c.text, justCreated |-> entry.justCreated]

\* One more change of a file that has an entry.
Coalesce(entry, c) ==
  [ kind |-> IF c.kind = "delete" THEN "delete"
             ELSE IF entry.kind = "create" THEN "create" ELSE "modify",
    text |-> c.text,
    justCreated |-> entry.justCreated \/ (entry.kind = "delete" /\ c.kind = "create") ]

FirstEntry(c) == [kind |-> c.kind, text |-> c.text, justCreated |-> c.kind = "create"]

NoEntry == [kind |-> "none"]

\* One more change of the log.
AddChange(entries, c) ==
  [entries EXCEPT ![c.file] = IF @ = NoEntry THEN FirstEntry(c) ELSE Coalesce(@, c)]

\* The entries after each change of the log.
Coalescing(log) ==
  LET entries[i \in 0 .. Len(log)] ==
        IF i = 0 THEN [f \in FileIds |-> NoEntry] ELSE AddChange(entries[i - 1], log[i])
  IN  entries

Coalesced(f) == Coalescing(changes)[Len(changes)][f]

Touched == {f \in FileIds : Coalesced(f) # NoEntry}

\* A file created and deleted again in the same turn is dropped.
NetChanges == {f \in Touched : ~(Coalesced(f).justCreated /\ Coalesced(f).kind = "delete")}

\* "Any file was added or deleted"
HasStructureChanges == \E f \in NetChanges : Coalesced(f).kind # "modify"

\* Change::apply lists created files, unlists deleted ones, and gives the others
\* a text that counts only while they are listed.
AppliedText(f) ==
  LET entry == Coalesced(f)
  IN  IF entry.kind = "modify" /\ dbText[f] = Deleted THEN Deleted ELSE entry.text

\* Source roots are computed anew only when the structure changed.  A change of a
\* file that was never placed in one reads an unset input of the database.
ApplyChanges ==
  /\ ~panicked
  /\ changes # <<>>
  /\ changes' = <<>>
  /\ roots' = IF HasStructureChanges THEN Existing ELSE roots
  /\ placed' = placed \cup roots'
  /\ panicked' = ~(NetChanges \subseteq placed')
  /\ dbText' = IF panicked' THEN dbText
               ELSE [f \in FileIds |-> IF f \in NetChanges THEN AppliedText(f) ELSE dbText[f]]
  /\ UNCHANGED <<fileState, redirects>>

\* switch_workspaces partitions anew.  It runs in a turn of the task channel,
\* which writes no files, and the turn before applied its changes.
Repartition ==
  /\ ~panicked
  /\ changes = <<>>
  /\ roots' = Existing
  /\ placed' = placed \cup Existing
  /\ UNCHANGED <<fileState, redirects, changes, dbText, panicked>>

FilesNext ==
  \/ \E f \in FileIds, new \in FileTexts \cup {Deleted} : WriteFile(f, new)
  \/ \E owner, duplicate \in FileIds : MergeFileIds(owner, duplicate)
  \/ ApplyChanges
  \/ Repartition

FilesSpec == FilesInit /\ [][FilesNext]_fileVars

-----------------------------------------------------------------------------
(* Properties *)

\* After a turn, the database holds the files of the VFS with their texts,
\* whatever was written, merged and undone within the turn.
DatabaseMirrors == changes = <<>> => dbText = fileState

\* After a turn, the source roots hold the files of the VFS: a turn that added
\* or deleted a file computed them anew.
RootsCurrent == changes = <<>> => roots = Existing

\* A file that was merged into another one is gone from the VFS and stays so,
\* and after the turn the database does not list it.
DuplicatesGone ==
  \A f \in FileIds : ~OwnsPath(f) =>
    /\ f \notin Existing
    /\ changes = <<>> => dbText[f] = Deleted
=============================================================================
