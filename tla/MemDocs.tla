------------------------------- MODULE MemDocs -------------------------------
(***************************************************************************)
(* The open documents (src/src/global_state/mem_docs.rs) as a value: one   *)
(* buffer per file id, and one entry per open path, which tells the id the *)
(* path leads to and whether the path shares that id's buffer.  A path     *)
(* opened with another text than the buffer's is detached.                 *)
(*                                                                         *)
(* Left out: the document versions, which every path keeps for itself.     *)
(***************************************************************************)

CONSTANTS
  Paths,    \* spellings of files
  Ids,      \* file ids
  Texts

NoBuffer == [kind |-> "none"]
Closed   == [kind |-> "closed"]

Buffer(path, data)  == [kind |-> "buffer", path |-> path, data |-> data]
Alias(id, attached) == [kind |-> "alias", id |-> id, attached |-> attached]

Buffers == [kind : {"buffer"}, path : Paths, data : Texts]
Aliases == [kind : {"alias"}, id : Ids, attached : BOOLEAN]

DocsType == [ buffers : [Ids -> Buffers \cup {NoBuffer}],
              open    : [Paths -> Aliases \cup {Closed}] ]

NoDocs == [ buffers |-> [id \in Ids |-> NoBuffer],
            open    |-> [p \in Paths |-> Closed] ]

ContainsPath(docs, p)    == docs.open[p] # Closed
ContainsFileId(docs, id) == docs.buffers[id] # NoBuffer

\* p is open and shares the buffer of id.
Attached(docs, p, id) == docs.open[p] = Alias(id, TRUE)

Sharing(docs, id) == {p \in Paths : Attached(docs, p, id)}

\* Mutant: a buffer whose path went away stays as it is.
ReconcileNothing(docs, id) == docs

\* reconcile_buffer_path: a buffer belongs to a path that shares it.  When that
\* path is gone another one takes over; without one the buffer goes.
Reconcile(docs, id) ==
  IF ~ContainsFileId(docs, id) \/ Attached(docs, docs.buffers[id].path, id)
  THEN docs
  ELSE [docs EXCEPT !.buffers[id] =
          IF Sharing(docs, id) = {} THEN NoBuffer
          ELSE Buffer(CHOOSE p \in Sharing(docs, id) : TRUE, @.data)]

\* The entry that insert makes for a path opened with a text.
NewAlias(docs, id, data) ==
  Alias(id, ContainsFileId(docs, id) => docs.buffers[id].data = data)

Reopened(docs, p, id) == ContainsPath(docs, p) /\ docs.open[p].id = id

Insert(docs, id, p, data) ==
  IF Reopened(docs, p, id) THEN docs
  ELSE LET old    == docs.open[p]
           listed == [docs EXCEPT !.open[p] = NewAlias(docs, id, data)]
           moved  == IF old = Closed THEN listed ELSE Reconcile(listed, old.id)
       IN  IF ContainsFileId(moved, id) THEN moved
           ELSE [moved EXCEPT !.buffers[id] = Buffer(p, data)]

RemovePath(docs, p) ==
  IF ~ContainsPath(docs, p) THEN docs
  ELSE Reconcile([docs EXCEPT !.open[p] = Closed], docs.open[p].id)

\* Whether paths that shared the buffer of one id may share that of the other.
Agree(docs, from, to) ==
  ContainsFileId(docs, from) /\ ContainsFileId(docs, to)
     => docs.buffers[from].data = docs.buffers[to].data

\* The file from turned out to be the file to.
RemapFileId(docs, from, to) ==
  IF from = to THEN docs
  ELSE Reconcile(
    [ buffers |-> [docs.buffers EXCEPT
                     ![from] = NoBuffer,
                     ![to]   = IF @ = NoBuffer THEN docs.buffers[from] ELSE @],
      open    |-> [p \in Paths |->
                     IF docs.open[p] # Closed /\ docs.open[p].id = from
                     THEN Alias(to, docs.open[p].attached /\ Agree(docs, from, to))
                     ELSE docs.open[p]] ],
    to)

\* text_for_change finds a text, and apply_change then accepts the change.
AcceptsChange(docs, p, id) == Attached(docs, p, id) /\ ContainsFileId(docs, id)

ApplyChange(docs, id, data) == [docs EXCEPT !.buffers[id].data = data]
=============================================================================
