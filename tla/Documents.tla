------------------------------ MODULE Documents ------------------------------
(***************************************************************************)
(* Open documents against the identities of files.  The editor opens,      *)
(* changes and closes documents by path; the loader brings files from the  *)
(* disk; the VFS (src/crates/vfs/src/vfs.rs) finds out late that two paths *)
(* name the same file, when it asks the file system at the next write to   *)
(* one of them, and then merges their ids.  At the end of the turn         *)
(* process_changes carries the merge over to the open documents.           *)
(*                                                                         *)
(* Left out: line endings, contents that do not decode, a file that loses  *)
(* or changes its identity on disk, aliases by spelling alone.             *)
(***************************************************************************)
EXTENDS Naturals, Sequences, FiniteSets, MemDocs

CONSTANT Nodes     \* files on disk: what FileIdentityKey tells apart

NoId    == 0
Unknown == "unknown"
Missing == "missing"    \* FileState::Deleted

ASSUME DocumentsAssumption ==
  /\ IsFiniteSet(Paths)
  /\ Ids = 1 .. Cardinality(Paths)    \* every path gets one at most
  /\ Unknown \notin Nodes
  /\ Missing \notin Texts

VARIABLES
  identity,  \* the file on disk each path leads to, once there is one
  vfs,       \* the VFS: [exact, real, redirects, count, text, changed]
  docs,      \* the open documents, a value of MemDocs
  turn,      \* what the main loop is doing
  moved      \* changed ids process_changes has still to look at

docVars == <<identity, vfs, docs, turn, moved>>

VfsType == [ exact     : [Paths -> Ids \cup {NoId}],
             real      : [Nodes -> Ids \cup {NoId}],
             redirects : [Ids -> Ids],
             count     : 0 .. Cardinality(Paths),
             text      : [Ids -> Texts \cup {Missing}],
             changed   : Seq(Ids) ]

DocsTypeOK ==
  /\ identity \in [Paths -> Nodes \cup {Unknown}]
  /\ vfs \in VfsType
  /\ docs \in DocsType
  /\ turn \in {"none", "client", "loader", "end"}
  /\ moved \in Seq(Ids)

DocsInit ==
  /\ identity = [p \in Paths |-> Unknown]
  /\ vfs = [ exact     |-> [p \in Paths |-> NoId],
             real      |-> [n \in Nodes |-> NoId],
             redirects |-> [id \in Ids |-> id],
             count     |-> 0,
             text      |-> [id \in Ids |-> Missing],
             changed   |-> <<>> ]
  /\ docs = NoDocs
  /\ turn = "none"
  /\ moved = <<>>

-----------------------------------------------------------------------------
(* The VFS *)

ByIdentity(v, p) == IF identity[p] = Unknown THEN NoId ELSE v.real[identity[p]]

\* The id a path leads to: its own, or that of the file it names.
Lookup(v, p) == IF v.exact[p] # NoId THEN v.exact[p] ELSE ByIdentity(v, p)

\* file_id counts only files that exist.
FileId(v, p) ==
  LET id == Lookup(v, p)
  IN  IF id = NoId THEN NoId ELSE IF v.text[id] = Missing THEN NoId ELSE id

\* The ids that following the redirects from id leads to.
Redirected(v, id) ==
  {i \in Ids : \A S \in SUBSET Ids :
      id \in S /\ (\A j \in S : v.redirects[j] \in S) => i \in S}

\* canonical_file_id: the one at the end.
Canonical(v, id) == CHOOSE i \in Redirected(v, id) : v.redirects[i] = i

\* One more changed id; the first mention of an id is the one that counts.
Note(changed, id) ==
  IF \E i \in DOMAIN changed : changed[i] = id THEN changed ELSE Append(changed, id)

\* merge_file_state: the owner takes the text over if it has none.
MergeText(v, owner, duplicate) ==
  LET text    == v.text[duplicate]
      adopted == IF text # Missing /\ v.text[owner] = Missing
                 THEN Note(v.changed, owner) ELSE v.changed
  IN  [v EXCEPT
        !.text[owner]     = IF @ = Missing THEN text ELSE @,
        !.text[duplicate] = Missing,
        !.changed         = IF text # Missing THEN Note(adopted, duplicate) ELSE @]

\* merge_file_ids: every name of the duplicate leads to the owner from now on.
MergeIds(v, owner, duplicate) ==
  LET renamed(id) == IF id = duplicate THEN owner ELSE id
  IN  MergeText([v EXCEPT
        !.redirects[duplicate] = owner,
        !.exact = [p \in Paths |-> renamed(v.exact[p])],
        !.real  = [n \in Nodes |-> renamed(v.real[n])]], owner, duplicate)

\* The path and the file it names now lead to this id.
Enter(v, p, id) ==
  [v EXCEPT !.exact[p] = id,
            !.real = [n \in Nodes |-> IF n = identity[p] THEN id ELSE v.real[n]]]

\* file_id_or_alloc: a path known under one id, naming a file known under
\* another, shows that the two are one.  The smaller id stays.
Register(v, p) ==
  LET id    == Lookup(v, p)
      other == ByIdentity(v, p)
  IN  IF id = NoId
      THEN Enter([v EXCEPT !.count = @ + 1], p, v.count + 1)
      ELSE IF other \in {NoId, id} THEN Enter(v, p, id)
      ELSE IF id < other THEN Enter(MergeIds(v, id, other), p, id)
      ELSE Enter(MergeIds(v, other, id), p, other)

\* set_file_contents
SetFileContents(v, p, text) ==
  LET known == Register(v, p)
      id    == known.exact[p]
  IN  IF known.text[id] = text THEN known
      ELSE [known EXCEPT !.text[id] = text, !.changed = Note(@, id)]

-----------------------------------------------------------------------------
(* The main loop: a message of the client, or any number of messages of the *)
(* loader, and then process_changes *)

\* The text counts only if the file has no buffer yet.
DidOpen(p, text) ==
  /\ turn = "none"
  /\ LET known == Register(vfs, p)
         id    == known.exact[p]
     IN  /\ vfs' = IF ContainsFileId(docs, id) THEN known
                   ELSE SetFileContents(known, p, text)
         /\ docs' = Insert(docs, id, p, text)
  /\ turn' = "client"
  /\ UNCHANGED <<identity, moved>>

\* A change of a path that is not open or detached is refused.  The new text is
\* written under the path, which may lead to another id by now.
DidChange(p, text) ==
  /\ turn = "none"
  /\ ContainsPath(docs, p)
  /\ LET id == docs.open[p].id
     IN  /\ AcceptsChange(docs, p, id)
         /\ text # docs.buffers[id].data
         /\ docs' = ApplyChange(docs, id, text)
  /\ vfs' = SetFileContents(vfs, p, text)
  /\ turn' = "client"
  /\ UNCHANGED <<identity, moved>>

DidClose(p) ==
  /\ turn = "none"
  /\ ContainsPath(docs, p)
  /\ docs' = RemovePath(docs, p)
  /\ turn' = "client"
  /\ UNCHANGED <<identity, vfs, moved>>

\* Mutant: the loader overwrites what is open.
TakeLoadedRegardless(p, text) ==
  /\ turn \in {"none", "loader"}
  /\ vfs' = SetFileContents(vfs, p, text)
  /\ turn' = "loader"
  /\ UNCHANGED <<identity, docs, moved>>

\* The loader has read a file, or failed to.  What is open is the editor's.
TakeLoaded(p, text) ==
  /\ turn \in {"none", "loader"}
  /\ ~ContainsPath(docs, p)
  /\ LET id == FileId(vfs, p) IN id # NoId => ~ContainsFileId(docs, id)
  /\ vfs' = SetFileContents(vfs, p, text)
  /\ turn' = "loader"
  /\ UNCHANGED <<identity, docs, moved>>

\* process_changes takes the log.
TakeChanges ==
  /\ turn \in {"client", "loader"}
  /\ moved' = vfs.changed
  /\ vfs' = [vfs EXCEPT !.changed = <<>>]
  /\ turn' = "end"
  /\ UNCHANGED <<identity, docs>>

\* An id that has become another one takes its documents along.
Remap ==
  /\ turn = "end"
  /\ moved # <<>>
  /\ docs' = RemapFileId(docs, Head(moved), Canonical(vfs, Head(moved)))
  /\ moved' = Tail(moved)
  /\ UNCHANGED <<identity, vfs, turn>>

EndTurn ==
  /\ turn = "end"
  /\ moved = <<>>
  /\ turn' = "none"
  /\ UNCHANGED <<identity, vfs, docs, moved>>

\* A path that named nothing on disk comes to name a file, perhaps one that has
\* another name already (a link).
CreateOnDisk(p, n) ==
  /\ identity[p] = Unknown
  /\ identity' = [identity EXCEPT ![p] = n]
  /\ UNCHANGED <<vfs, docs, turn, moved>>

DocsNext ==
  \/ \E p \in Paths, text \in Texts : DidOpen(p, text) \/ DidChange(p, text)
  \/ \E p \in Paths : DidClose(p)
  \/ \E p \in Paths, text \in Texts \cup {Missing} : TakeLoaded(p, text)
  \/ TakeChanges \/ Remap \/ EndTurn
  \/ \E p \in Paths, n \in Nodes : CreateOnDisk(p, n)

DocsSpec == DocsInit /\ [][DocsNext]_docVars

-----------------------------------------------------------------------------
(* Properties *)

\* Every buffer belongs to a path that is open under the buffer's id and shares
\* it, and a path that shares a buffer has one: closing, reopening and merging in
\* any order neither leaks a buffer, which would keep the loader out of the file
\* for ever, nor takes the buffer of a document away.
BuffersOwned ==
  \A id \in Ids :
    /\ ContainsFileId(docs, id) => Attached(docs, docs.buffers[id].path, id)
    /\ Sharing(docs, id) # {} => ContainsFileId(docs, id)

\* While no two paths name one file, the analysis has the text of the buffer after
\* every turn, whatever the loader brings.  (A path that becomes another name of an
\* open file lets the loader overwrite it.)
Unlinked == \A p, q \in Paths : identity[p] = identity[q] => p = q \/ identity[p] = Unknown

BufferIsAnalyzed ==
  turn = "none" /\ Unlinked => \A id \in Ids :
    ContainsFileId(docs, id) => vfs.text[id] = docs.buffers[id].data
=============================================================================
