----------------------------- MODULE SourceManager -----------------------------
(***************************************************************************)
(* The source manager of slang                                             *)
(* (src/crates/slang/source/text/SourceManager.cpp), called by the threads *)
(* that parse files at the same time.  It keeps the text of every file     *)
(* read once, and for each file the offsets at which its lines begin.      *)
(* A mutex guards both, but it is let go while a file is read, and between *)
(* the look at the offsets and their computation.  A step is what happens  *)
(* while the mutex is held, or one look at the disk.                       *)
(*                                                                         *)
(* Left out: include directories, names, libraries, macro locations; of    *)
(* the queries, those that read the buffers under the lock.                *)
(***************************************************************************)
EXTENDS Naturals, Sequences, SequencesExt

CONSTANTS
  Sources,       \* paths of files
  SourceTexts,   \* contents of a file
  Callers,       \* threads
  MaxBuffers,    \* bounds the runs: buffers made
  MaxWrites_     \* and changes of the disk

NoText == "no text"    \* a file that cannot be read; the error that is cached
Unread == "unread"     \* no entry in lookupCache

ASSUME SourcesAssumption ==
  MaxBuffers \in Nat /\ MaxWrites_ \in Nat /\ {NoText, Unread} \cap SourceTexts = {}

VARIABLES
  disk,            \* contents of the files
  writes,          \* changes so far
  lookupCache,     \* what is known of each path
  bufferEntries,   \* buffers: path, and the text its FileData holds
  lineOffsets,     \* how often the offsets of the lines are in the list of a file
  call             \* for each thread, the call it is in

sourceVars == <<disk, writes, lookupCache, bufferEntries, lineOffsets, call>>

Idle == [kind |-> "idle"]
At(stage, p, text) == [kind |-> stage, path |-> p, text |-> text]
Buffer_(p, text) == [path |-> p, text |-> text]

SourcesTypeOK ==
  /\ disk \in [Sources -> SourceTexts \cup {NoText}]
  /\ lookupCache \in [Sources -> SourceTexts \cup {NoText, Unread}]
  /\ bufferEntries \in Seq([path : Sources, text : SourceTexts \cup {NoText}])
  /\ lineOffsets \in [Sources -> Nat]
  /\ call \in [Callers -> {Idle}
                 \cup [kind : {"read", "store", "compute", "crashed"}, path : Sources,
                       text : SourceTexts \cup {NoText}]]

SourcesInit ==
  /\ disk \in [Sources -> SourceTexts \cup {NoText}]
  /\ writes = 0
  /\ lookupCache = [p \in Sources |-> Unread]
  /\ bufferEntries = <<>>
  /\ lineOffsets = [p \in Sources |-> 0]
  /\ call = [c \in Callers |-> Idle]

\* A file is written, made or removed.
ChangeDisk(p, text) ==
  /\ writes < MaxWrites_
  /\ text # disk[p]
  /\ disk' = [disk EXCEPT ![p] = text]
  /\ writes' = writes + 1
  /\ UNCHANGED <<lookupCache, bufferEntries, lineOffsets, call>>

Goes(c, to) == call' = [call EXCEPT ![c] = to]

CreateBufferEntry(p, text) == bufferEntries' = Append(bufferEntries, Buffer_(p, text))

-----------------------------------------------------------------------------
(* openCached and assignBuffer *)

\* The path is looked up; the mutex is let go before the file is read.
Lookup(c, p) ==
  /\ call[c] = Idle
  /\ Len(bufferEntries) < MaxBuffers
  /\ CASE lookupCache[p] = Unread -> Goes(c, At("read", p, NoText)) /\ UNCHANGED bufferEntries
       [] lookupCache[p] = NoText -> UNCHANGED <<call, bufferEntries>>
       [] OTHER -> CreateBufferEntry(p, lookupCache[p]) /\ UNCHANGED call
  /\ UNCHANGED <<disk, writes, lookupCache, lineOffsets>>

ReadFile(c) ==
  /\ call[c].kind = "read"
  /\ Goes(c, At("store", call[c].path, disk[call[c].path]))
  /\ UNCHANGED <<disk, writes, lookupCache, bufferEntries, lineOffsets>>

\* A text that comes from elsewhere is stored under a path that is free.
AssignBuffer(c, p, text) ==
  /\ call[c] = Idle
  /\ lookupCache[p] = Unread
  /\ Goes(c, At("store", p, text))
  /\ UNCHANGED <<disk, writes, lookupCache, bufferEntries, lineOffsets>>

\* Mutant: the thread uses what it has read itself.
StoreOwn(c) ==
  LET p     == call[c].path
      text  == call[c].text
  IN  /\ call[c].kind = "store"
      /\ Len(bufferEntries) < MaxBuffers
      /\ lookupCache' = [lookupCache EXCEPT ![p] = IF @ = Unread THEN text ELSE @]
      /\ IF text = NoText THEN UNCHANGED bufferEntries ELSE CreateBufferEntry(p, text)
      /\ Goes(c, Idle)
      /\ UNCHANGED <<disk, writes, lineOffsets>>

\* The first to store a result for the path decides what the path is; if that was an
\* error, there is no FileData to make a buffer of.
Store(c) ==
  LET p     == call[c].path
      text  == call[c].text
      known == IF lookupCache[p] = Unread THEN text ELSE lookupCache[p]
  IN  /\ call[c].kind = "store"
      /\ Len(bufferEntries) < MaxBuffers
      /\ lookupCache' = [lookupCache EXCEPT ![p] = known]
      /\ CASE text = NoText  -> Goes(c, Idle) /\ UNCHANGED bufferEntries
           [] known = NoText -> Goes(c, At("crashed", p, text)) /\ UNCHANGED bufferEntries
           [] OTHER -> CreateBufferEntry(p, known) /\ Goes(c, Idle)
      /\ UNCHANGED <<disk, writes, lineOffsets>>

-----------------------------------------------------------------------------
(* getRawLineNumber *)

HasBuffer(p) == \E b \in ToSet(bufferEntries) : b.path = p

\* A reader that finds no offsets lets the mutex go to take it for writing; one that
\* finds them searches them, as a list in ascending order.
AskLine(c, p) ==
  /\ call[c] = Idle
  /\ HasBuffer(p)
  /\ lineOffsets[p] = 0
  /\ Goes(c, At("compute", p, NoText))
  /\ UNCHANGED <<disk, writes, lookupCache, bufferEntries, lineOffsets>>

\* It adds the offsets to the list.
ComputeLineOffsets(c) ==
  /\ call[c].kind = "compute"
  /\ lineOffsets' = [lineOffsets EXCEPT ![call[c].path] = @ + 1]
  /\ Goes(c, Idle)
  /\ UNCHANGED <<disk, writes, lookupCache, bufferEntries>>

\* addLineDirective holds the mutex for writing all the time.
AddLineDirective(c, p) ==
  /\ call[c] = Idle
  /\ HasBuffer(p)
  /\ lineOffsets[p] = 0
  /\ lineOffsets' = [lineOffsets EXCEPT ![p] = 1]
  /\ UNCHANGED <<disk, writes, lookupCache, bufferEntries, call>>

SourcesNext ==
  \/ \E p \in Sources, text \in SourceTexts \cup {NoText} : ChangeDisk(p, text)
  \/ \E c \in Callers :
       \/ \E p \in Sources : Lookup(c, p) \/ AskLine(c, p) \/ AddLineDirective(c, p)
       \/ \E p \in Sources, text \in SourceTexts : AssignBuffer(c, p, text)
       \/ ReadFile(c)
       \/ Store(c)
       \/ ComputeLineOffsets(c)

SourcesSpec == SourcesInit /\ [][SourcesNext]_sourceVars

-----------------------------------------------------------------------------
(* Properties *)

\* All buffers of a path share one text, the cached one, whatever the disk and the
\* other threads do while a thread reads.
OneTextPerPath ==
  \A b \in ToSet(bufferEntries) : b.text = lookupCache[b.path] /\ b.text # NoText

\* The list that is searched for a line is in order: no two threads have added the
\* offsets of one file.
LinesInOrder == \A p \in Sources : lineOffsets[p] <= 1
=============================================================================
