---------------------------- MODULE Slang_proofs ----------------------------
(***************************************************************************)
(* Components of slang, for any files, texts, threads, loops, names and    *)
(* directories: the text of a path stays one; a loop on the pool runs each *)
(* index once, and who waits for it is woken; the search for missing       *)
(* definitions leaves nothing out; conditional compilation reads the       *)
(* active text, as long as no directive is carried out too early; and the  *)
(* expansion of a macro comes to what its definition means.                *)
(***************************************************************************)
EXTENDS SourceManager, LibrarySearch, ThreadPool, Preprocessor, Macros, Loops_proofs,
        FiniteSetTheorems, SequenceTheorems

-----------------------------------------------------------------------------
(* The source manager *)

\* What a path is said to be never changes, so the buffers that show it agree.
SourcesInv == SourcesTypeOK /\ OneTextPerPath

BufferType == [path : Sources, text : SourceTexts \cup {NoText}]

\* A buffer made of what the cache says agrees with the others.
LEMMA BufferMade ==
  ASSUME SourcesInv, NEW p \in Sources, NEW text \in SourceTexts,
         CreateBufferEntry(p, text), lookupCache'[p] = text,
         \A q \in Sources : lookupCache[q] # Unread => lookupCache'[q] = lookupCache[q]
  PROVE  bufferEntries' \in Seq(BufferType) /\ OneTextPerPath'
<1> DEFINE b == Buffer_(p, text)
<1>1. bufferEntries \in Seq(BufferType) /\ b \in BufferType /\ bufferEntries' = Append(bufferEntries, b)
  BY DEF SourcesInv, SourcesTypeOK, BufferType, Buffer_, CreateBufferEntry
<1>2. /\ bufferEntries' \in Seq(BufferType)
      /\ \A i \in DOMAIN bufferEntries' : bufferEntries'[i] = b \/ bufferEntries'[i] \in ToSet(bufferEntries)
  BY <1>1 DEF ToSet
<1>3. ASSUME NEW e \in ToSet(bufferEntries) PROVE e.text = lookupCache'[e.path] /\ e.text # NoText
  <2>1. e \in BufferType /\ e.text = lookupCache[e.path] /\ e.text # NoText
    BY <1>1, <1>3 DEF SourcesInv, OneTextPerPath, ToSet
  <2>2. e.path \in Sources /\ e.text # Unread
    BY <2>1, SourcesAssumption DEF BufferType
  <2>3. QED BY <2>1, <2>2
<1>4. b.text = lookupCache'[b.path] /\ b.text # NoText
  BY SourcesAssumption DEF Buffer_
<1>5. QED BY <1>2, <1>3, <1>4 DEF OneTextPerPath, ToSet

\* At the start nothing is cached.
LEMMA InitSources == SourcesInit => SourcesInv
<1> SUFFICES ASSUME SourcesInit PROVE SourcesInv
  OBVIOUS
<1>1. SourcesTypeOK
  BY EmptySeq DEF SourcesInit, SourcesTypeOK
<1>2. ToSet(bufferEntries) = {}
  BY DEF SourcesInit, ToSet
<1>3. QED BY <1>1, <1>2 DEF SourcesInv, OneTextPerPath

CallType == {Idle} \cup [kind : {"read", "store", "compute", "crashed"}, path : Sources,
                         text : SourceTexts \cup {NoText}]

\* A step that makes no buffer and leaves what is known of the files.
LEMMA NoBufferMade ==
  ASSUME SourcesInv, bufferEntries' = bufferEntries, SourcesTypeOK',
         \A q \in Sources : lookupCache[q] # Unread => lookupCache'[q] = lookupCache[q]
  PROVE  SourcesInv'
<1>1. ASSUME NEW e \in ToSet(bufferEntries) PROVE e.text = lookupCache'[e.path] /\ e.text # NoText
  <2>1. e \in BufferType /\ e.text = lookupCache[e.path] /\ e.text # NoText
    <3>1. bufferEntries \in Seq(BufferType)
      BY DEF SourcesInv, SourcesTypeOK, BufferType
    <3>2. QED BY <1>1, <3>1 DEF SourcesInv, OneTextPerPath, ToSet
  <2>2. e.path \in Sources /\ e.text # Unread
    BY <2>1, SourcesAssumption DEF BufferType
  <2>3. QED BY <2>1, <2>2
<1>2. QED BY <1>1 DEF SourcesInv, OneTextPerPath

\* Every step of the threads and of the disk keeps the invariant.
LEMMA StepSources == SourcesInv /\ [SourcesNext]_sourceVars => SourcesInv'
<1> SUFFICES ASSUME SourcesInv, [SourcesNext]_sourceVars PROVE SourcesInv'
  OBVIOUS
<1>1. /\ disk \in [Sources -> SourceTexts \cup {NoText}]
      /\ lookupCache \in [Sources -> SourceTexts \cup {NoText, Unread}]
      /\ bufferEntries \in Seq(BufferType) /\ lineOffsets \in [Sources -> Nat]
      /\ call \in [Callers -> CallType]
  BY DEF SourcesInv, SourcesTypeOK, BufferType, CallType
<1>2. \A c \in Callers, stage \in {"read", "store", "compute", "crashed"}, p \in Sources,
         text \in SourceTexts \cup {NoText} :
        Goes(c, At(stage, p, text)) \/ Goes(c, Idle) => call' \in [Callers -> CallType]
  BY <1>1 DEF Goes, At, CallType
<1>3. ASSUME NEW p \in Sources, NEW text \in SourceTexts \cup {NoText}, ChangeDisk(p, text)
      PROVE  SourcesInv'
  <2>1. SourcesTypeOK'
    BY <1>1, <1>3 DEF ChangeDisk, SourcesTypeOK, BufferType, CallType
  <2>2. QED BY <1>3, <2>1, NoBufferMade DEF ChangeDisk
<1>4. ASSUME NEW c \in Callers, NEW p \in Sources, Lookup(c, p) PROVE SourcesInv'
  <2>1. CASE lookupCache[p] \in {Unread, NoText}
    <3>1. bufferEntries' = bufferEntries /\ call' \in [Callers -> CallType]
      BY <1>1, <1>2, <1>4, <2>1 DEF Lookup
    <3>2. SourcesTypeOK'
      BY <1>1, <1>4, <3>1 DEF Lookup, SourcesTypeOK, BufferType, CallType
    <3>3. QED BY <1>4, <3>1, <3>2, NoBufferMade DEF Lookup
  <2>2. CASE lookupCache[p] \notin {Unread, NoText}
    <3>1. CreateBufferEntry(p, lookupCache[p]) /\ UNCHANGED <<call, disk, writes, lookupCache, lineOffsets>>
      BY <1>4, <2>2 DEF Lookup
    <3>2. lookupCache[p] \in SourceTexts
      BY <1>1, <2>2
    <3>3. bufferEntries' \in Seq(BufferType) /\ OneTextPerPath'
      BY <3>1, <3>2, BufferMade
    <3>4. QED BY <1>1, <3>1, <3>3 DEF SourcesInv, SourcesTypeOK, BufferType, CallType
  <2>3. QED BY <2>1, <2>2
<1>5. ASSUME NEW c \in Callers, ReadFile(c) PROVE SourcesInv'
  <2>1. call[c].path \in Sources
    BY <1>1, <1>5 DEF ReadFile, CallType, Idle
  <2>2. call' \in [Callers -> CallType]
    BY <1>1, <1>2, <1>5, <2>1 DEF ReadFile
  <2>3. SourcesTypeOK'
    BY <1>1, <1>5, <2>2 DEF ReadFile, SourcesTypeOK, BufferType, CallType
  <2>4. QED BY <1>5, <2>3, NoBufferMade DEF ReadFile
<1>6. ASSUME NEW c \in Callers, NEW p \in Sources, NEW text \in SourceTexts, AssignBuffer(c, p, text)
      PROVE  SourcesInv'
  <2>1. call' \in [Callers -> CallType]
    BY <1>2, <1>6 DEF AssignBuffer
  <2>2. SourcesTypeOK'
    BY <1>1, <1>6, <2>1 DEF AssignBuffer, SourcesTypeOK, BufferType, CallType
  <2>3. QED BY <1>6, <2>2, NoBufferMade DEF AssignBuffer
<1>7. ASSUME NEW c \in Callers, Store(c) PROVE SourcesInv'
  <2> DEFINE p     == call[c].path
             text  == call[c].text
             known == IF lookupCache[p] = Unread THEN text ELSE lookupCache[p]
  <2>1. p \in Sources /\ text \in SourceTexts \cup {NoText}
    BY <1>1, <1>7 DEF Store, CallType, Idle
  <2>2. known \in SourceTexts \cup {NoText}
    BY <1>1, <2>1
  <2>3. /\ lookupCache' = [lookupCache EXCEPT ![p] = known]
        /\ UNCHANGED <<disk, writes, lineOffsets>>
    BY <1>7 DEF Store
  <2>4. \/ text = NoText /\ Goes(c, Idle) /\ UNCHANGED bufferEntries
        \/ known = NoText /\ Goes(c, At("crashed", p, text)) /\ UNCHANGED bufferEntries
        \/ known # NoText /\ CreateBufferEntry(p, known) /\ Goes(c, Idle)
    BY <1>7 DEF Store
  <2>5. call' \in [Callers -> CallType]
    BY <1>2, <2>1, <2>4
  <2>6. /\ lookupCache' \in [Sources -> SourceTexts \cup {NoText, Unread}]
        /\ lookupCache'[p] = known
        /\ \A q \in Sources : lookupCache[q] # Unread => lookupCache'[q] = lookupCache[q]
    BY <1>1, <2>1, <2>2, <2>3
  <2> HIDE DEF p, text, known
  <2>7. CASE UNCHANGED bufferEntries
    <3>1. SourcesTypeOK'
      BY <1>1, <2>3, <2>5, <2>6, <2>7 DEF SourcesTypeOK, BufferType, CallType
    <3>2. QED BY <2>6, <2>7, <3>1, NoBufferMade
  <2>8. CASE known # NoText /\ CreateBufferEntry(p, known)
    <3>1. bufferEntries' \in Seq(BufferType) /\ OneTextPerPath'
      BY <2>1, <2>2, <2>6, <2>8, BufferMade
    <3>2. QED BY <1>1, <2>3, <2>5, <2>6, <3>1 DEF SourcesInv, SourcesTypeOK, BufferType, CallType
  <2>9. QED BY <2>4, <2>7, <2>8
<1>8. ASSUME NEW c \in Callers, NEW p \in Sources, AskLine(c, p) PROVE SourcesInv'
  <2>1. call' \in [Callers -> CallType]
    BY <1>2, <1>8 DEF AskLine
  <2>2. SourcesTypeOK'
    BY <1>1, <1>8, <2>1 DEF AskLine, SourcesTypeOK, BufferType, CallType
  <2>3. QED BY <1>8, <2>2, NoBufferMade DEF AskLine
<1>9. ASSUME NEW c \in Callers, ComputeLineOffsets(c) PROVE SourcesInv'
  <2>1. call[c].path \in Sources
    BY <1>1, <1>9 DEF ComputeLineOffsets, CallType, Idle
  <2>2. call' \in [Callers -> CallType]
    BY <1>2, <1>9, <2>1 DEF ComputeLineOffsets
  <2>3. SourcesTypeOK'
    BY <1>1, <1>9, <2>1, <2>2 DEF ComputeLineOffsets, SourcesTypeOK, BufferType, CallType
  <2>4. QED BY <1>9, <2>3, NoBufferMade DEF ComputeLineOffsets
<1>10. ASSUME NEW c \in Callers, NEW p \in Sources, AddLineDirective(c, p) PROVE SourcesInv'
  <2>1. SourcesTypeOK'
    BY <1>1, <1>10 DEF AddLineDirective, SourcesTypeOK, BufferType, CallType
  <2>2. QED BY <1>10, <2>1, NoBufferMade DEF AddLineDirective
<1>11. CASE UNCHANGED sourceVars
  <2>1. SourcesTypeOK'
    BY <1>1, <1>11 DEF sourceVars, SourcesTypeOK, BufferType, CallType
  <2>2. QED BY <1>11, <2>1, NoBufferMade DEF sourceVars
<1>12. QED
  BY <1>3, <1>4, <1>5, <1>6, <1>7, <1>8, <1>9, <1>10, <1>11 DEF SourcesNext

\* The invariant holds in every behaviour.
LEMMA InvariantOfSources == SourcesSpec => []SourcesInv
BY InitSources, StepSources, PTL DEF SourcesSpec

\* What is known of the files and what the threads do keep their types.
THEOREM SourcesTypeCorrect == SourcesSpec => []SourcesTypeOK
<1>1. SourcesInv => SourcesTypeOK BY DEF SourcesInv
<1>2. QED BY <1>1, InvariantOfSources, PTL

\* All buffers of a path share the cached text, whatever happens to the disk while
\* threads read the file side by side (SourceManager::openCached).
THEOREM TextsAgree == SourcesSpec => []OneTextPerPath
<1>1. SourcesInv => OneTextPerPath BY DEF SourcesInv
<1>2. QED BY <1>1, InvariantOfSources, PTL

-----------------------------------------------------------------------------
(* The search for missing definitions *)

\* A file for the name was parsed that stands no later than any other one.
Covered(n) ==
  \A g \in {h \in File : h.name = n /\ library[h].exists} :
    \E f \in loaded : f.name = n /\ f.dir <= g.dir

\* A file is passed over only if it does not exist or the name is covered; what is
\* wanted and not known is covered, or waits for this round or the next.
SearchInv ==
  /\ SearchTypeOK
  /\ library \in [File -> Content]
  /\ \A g \in isCached : library[g].exists =>
       \E f \in loaded : f.name = g.name /\ f.dir <= g.dir
  /\ \A n \in (Wanted \cup UNION {library[f].wants : f \in loaded}) \ knownNames :
       n \in missingNames \cup nextMissing \/ Covered(n)
  /\ ~searching => missingNames = {} /\ nextMissing = {}

\* The relation "less than" of the natural numbers.
Below == {ss \in Nat \X Nat : ss[1] < ss[2]}

\* Numbers have a least one.
LEMMA LeastNumber ==
  ASSUME NEW S, S \subseteq Nat, S # {}
  PROVE  \E m \in S : \A n \in S : m <= n
<1>1. IsWellFoundedOn(Below, Nat)
  BY NatLessThanWellFounded DEF OpToRel, Below
<1>2. PICK m \in S : \A n \in S : <<n, m>> \notin Below
  BY <1>1, WFMin
<1>3. ASSUME NEW n \in S PROVE m <= n
  <2>1. <<n, m>> \in Nat \X Nat OBVIOUS
  <2>2. ~(<<n, m>>[1] < <<n, m>>[2]) BY <1>2, <2>1 DEF Below
  <2>3. QED BY <2>2
<1>4. QED BY <1>3

\* The first of some files stands in none but the first of their directories.
LEMMA FirstIsFirst ==
  ASSUME NEW F, F \subseteq File, F # {}
  PROVE  First(F) \in F /\ \A g \in F : First(F).dir <= g.dir
<1>1. \A f \in F : f.dir \in Nat
  BY LibrarySearchAssumption
<1>2. {f.dir : f \in F} \subseteq Nat /\ {f.dir : f \in F} # {}
  BY <1>1
<1>3. PICK m \in {f.dir : f \in F} : \A n \in {f.dir : f \in F} : m <= n
  BY <1>2, LeastNumber
<1>4. PICK f \in F : f.dir = m
  BY <1>3
<1>5. \A g \in F : f.dir <= g.dir
  BY <1>3, <1>4
<1>6. QED BY <1>5 DEF First

\* At the start the names that are wanted wait for the first round.
LEMMA InitSearch == SearchInit => SearchInv
BY LibrarySearchAssumption DEF SearchInit, SearchInv, SearchTypeOK

\* A name is searched: it is covered now, and what the new tree wants waits.
LEMMA SearchKeeps ==
  ASSUME SearchInv, NEW n \in Names, Search(n)
  PROVE  SearchInv'
<1>1. /\ loaded \subseteq isCached /\ isCached \subseteq File /\ library' = library
      /\ library \in [File -> Content] /\ searching /\ searching'
      /\ isCached' = isCached \cup Tried(n) /\ missingNames' = missingNames \ {n}
  BY DEF SearchInv, SearchTypeOK, Search
<1>2. Candidates(n) \subseteq File /\ Found(n) \subseteq Candidates(n)
  BY DEF Candidates, Found
<1>3. CASE Found(n) = {}
  <2>1. Tried(n) = Candidates(n) /\ UNCHANGED <<loaded, knownNames, nextMissing>>
    BY <1>3 DEF Tried, Search
  <2>2. \A g \in Candidates(n) : ~library[g].exists
    BY <1>3 DEF Found
  <2>3. Covered(n)'
    BY <1>1, <2>1, <2>2 DEF Covered, Candidates, SearchInv
  <2>4. \A k : Covered(k)' <=> Covered(k)
    BY <1>1, <2>1 DEF Covered
  <2>5. SearchTypeOK'
    BY <1>1, <1>2, <2>1 DEF SearchInv, SearchTypeOK
  <2>6. QED BY <1>1, <2>1, <2>2, <2>3, <2>4, <2>5 DEF SearchInv
<1>4. CASE Found(n) # {}
  <2> DEFINE f == First(Found(n))
  <2>1. /\ loaded' = loaded \cup {f}
        /\ knownNames' = knownNames \cup library[f].defines
        /\ nextMissing' = nextMissing \cup (library[f].wants \ knownNames')
        /\ Tried(n) = {g \in Candidates(n) : g.dir <= f.dir}
    BY <1>4 DEF Tried, Search
  <2>2. f \in Found(n) /\ \A g \in Found(n) : f.dir <= g.dir
    BY <1>2, <1>4, FirstIsFirst
  <2>3. f \in File /\ f.name = n /\ f.dir \in Nat /\ f \in Tried(n)
    BY <1>2, <2>1, <2>2, LibrarySearchAssumption DEF Found, Candidates
  <2> HIDE DEF f
  <2>4. library[f].defines \subseteq Names /\ library[f].wants \subseteq Names
    <3>1. library[f] \in Content
      BY <1>1, <2>3
    <3>2. CASE library[f] = NoFile
      BY <3>2 DEF NoFile
    <3>3. CASE library[f] # NoFile
      <4>1. /\ library[f].defines \in {{k} : k \in Names}
            /\ library[f].wants \in {{}} \cup {{k} : k \in Names}
        BY <3>1, <3>3 DEF Content
      <4>2. QED BY <4>1
    <3>4. QED BY <3>2, <3>3
  <2>5. SearchTypeOK'
    BY <1>1, <1>2, <2>1, <2>3, <2>4 DEF SearchInv, SearchTypeOK
  <2>6. ASSUME NEW g \in isCached', library[g].exists
        PROVE  \E h \in loaded' : h.name = g.name /\ h.dir <= g.dir
    <3>1. CASE g \in isCached
      BY <2>1, <2>6, <3>1 DEF SearchInv
    <3>2. CASE g \in Tried(n) /\ g \notin isCached
      <4>1. g \in Found(n) /\ g.name = n
        BY <2>1, <2>6, <3>2 DEF Found, Candidates
      <4>2. QED BY <2>1, <2>2, <2>3, <4>1
    <3>3. QED BY <1>1, <3>1, <3>2
  <2>7. Covered(n)'
    <3> SUFFICES ASSUME NEW g \in File, g.name = n, library[g].exists
                 PROVE  \E h \in loaded' : h.name = n /\ h.dir <= g.dir
      BY <1>1 DEF Covered
    <3>1. CASE g \in isCached
      BY <1>1, <2>6, <3>1
    <3>2. CASE g \notin isCached
      BY <2>1, <2>2, <2>3, <3>2 DEF Found, Candidates
    <3>3. QED BY <3>1, <3>2
  <2>8. \A k : Covered(k) => Covered(k)'
    BY <1>1, <2>1 DEF Covered
  <2>9. ASSUME NEW k \in (Wanted \cup UNION {library[h].wants : h \in loaded'}) \ knownNames'
        PROVE  k \in missingNames' \cup nextMissing' \/ Covered(k)'
    <3>1. CASE k \in library[f].wants
      BY <2>1, <3>1
    <3>2. CASE k \notin library[f].wants
      <4>1. k \in (Wanted \cup UNION {library[h].wants : h \in loaded}) \ knownNames
        BY <2>1, <3>2
      <4>2. k \in missingNames \cup nextMissing \/ Covered(k)
        BY <4>1 DEF SearchInv
      <4>3. QED BY <1>1, <2>1, <2>7, <2>8, <4>2
    <3>3. QED BY <3>1, <3>2
  <2>10. QED BY <1>1, <2>5, <2>6, <2>9 DEF SearchInv
<1>5. QED BY <1>3, <1>4

\* Every step of the search keeps the invariant.
LEMMA StepSearch == SearchInv /\ [SearchNext]_searchVars => SearchInv'
<1> SUFFICES ASSUME SearchInv, [SearchNext]_searchVars PROVE SearchInv'
  OBVIOUS
<1>1. CASE NextRound_
  <2>1. \A n : Covered(n)' <=> Covered(n)
    BY <1>1 DEF NextRound_, Covered
  <2>2. QED BY <1>1, <2>1 DEF NextRound_, SearchInv, SearchTypeOK
<1>2. CASE UNCHANGED searchVars
  <2>1. \A n : Covered(n)' <=> Covered(n)
    BY <1>2 DEF searchVars, Covered
  <2>2. QED BY <1>2, <2>1 DEF searchVars, SearchInv, SearchTypeOK
<1>3. QED BY <1>1, <1>2, SearchKeeps DEF SearchNext

\* The invariant holds in every behaviour.
LEMMA InvariantOfSearch == SearchSpec => []SearchInv
BY InitSearch, StepSearch, PTL DEF SearchSpec

\* When the search is over, what is wanted and not defined has a file in no directory,
\* or one that was parsed (SourceLoader::loadAndParseSources), in any order of the
\* names and for any number of directories.
THEOREM NothingLeftOut == SearchSpec => []SearchComplete
<1>1. SearchInv => SearchComplete
  BY DEF SearchInv, SearchComplete, Covered
<1>2. QED BY <1>1, InvariantOfSearch, PTL

-----------------------------------------------------------------------------
(* The thread pool *)

Task == [of : Clients, loop : 1 .. MaxLoops, block : [first : Nat, end : Nat]]

Stage == [stage : {"out", "push", "asleep", "waited"}, loop : 0 .. MaxLoops, size : Nat, blocks : Nat]

Counts == UNION {[1 .. size -> Nat] : size \in Nat}

PoolType ==
  /\ tasks \in Seq(Task)
  /\ busy \in [PoolWorkers -> Task \cup {NoTask}]
  /\ client \in [Clients -> Stage]
  /\ notified \subseteq Clients
  /\ runs \in [Clients -> [1 .. MaxLoops -> Counts]]
  /\ ThreadPoolTypeOK

\* Where block k of a loop begins, and where the last one ends.
Edge(size, k) == IF k = NumBlocks(size) THEN size ELSE k * BlockSize(size)

\* The task runs the body of index i of loop n of client c.
Covers(t, c, n, i) ==
  t # NoTask /\ t.of = c /\ t.loop = n /\ t.block.first < i /\ i <= t.block.end

\* The block of the index has not been pushed yet.
Unpushed(c, n, i) ==
  /\ client[c].stage = "push" /\ client[c].loop = n
  /\ i > Edge(client[c].size, client[c].blocks)

Queued(c, n, i)  == \E a \in DOMAIN tasks : Covers(tasks[a], c, n, i)
InLoop(c, n, i) == \E w \in PoolWorkers : Covers(busy[w], c, n, i)

\* No index is in two places: in two tasks, or in a task and still to be pushed.
Disjoint(t, u) ==
  \A c \in Clients, n \in 1 .. MaxLoops, i \in Nat : ~(Covers(t, c, n, i) /\ Covers(u, c, n, i))

Apart ==
  /\ \A a, b \in DOMAIN tasks : a # b => Disjoint(tasks[a], tasks[b])
  /\ \A a \in DOMAIN tasks, w \in PoolWorkers : Disjoint(tasks[a], busy[w])
  /\ \A v, w \in PoolWorkers : v # w => Disjoint(busy[v], busy[w])
  /\ \A c \in Clients, n \in 1 .. MaxLoops, i \in Nat :
       Unpushed(c, n, i) => ~Queued(c, n, i) /\ ~InLoop(c, n, i)

\* The loop a client is in, or was in last, has the indices it should have; no task is
\* of a later one; a client that has waited has no task left.
LoopsFit ==
  \A c \in Clients :
    /\ client[c].loop > 0 => DOMAIN runs[c][client[c].loop] = 1 .. client[c].size
    /\ client[c].blocks <= NumBlocks(client[c].size)
    /\ client[c].stage = "push" => client[c].loop > 0
    /\ \A a \in DOMAIN tasks : tasks[a].of = c =>
         tasks[a].loop <= client[c].loop /\ client[c].stage # "waited"
    /\ \A w \in PoolWorkers : busy[w] # NoTask /\ busy[w].of = c =>
         busy[w].loop <= client[c].loop /\ client[c].stage # "waited"

\* An index that is somewhere has not been run, and any other one has been run once.
RunsFit ==
  \A c \in Clients, n \in 1 .. MaxLoops : n <= client[c].loop =>
    \A i \in DOMAIN runs[c][n] :
      runs[c][n][i] = IF Unpushed(c, n, i) \/ Queued(c, n, i) \/ InLoop(c, n, i) THEN 0 ELSE 1

LoopInv == PoolType /\ Apart /\ LoopsFit /\ RunsFit

\* The blocks of a loop follow one another without a gap, up to its size.
LEMMA BlockEdges ==
  ASSUME NEW size \in Nat, NEW k \in Nat, k < NumBlocks(size)
  PROVE  /\ Block(size, k) = [first |-> Edge(size, k), end |-> Edge(size, k + 1)]
         /\ Edge(size, k) \in Nat /\ Edge(size, k + 1) \in Nat
         /\ Edge(size, k) <= Edge(size, k + 1)
<1> DEFINE B == BlockSize(size)
<1>1. PoolSize \in Nat \ {0} /\ NumBlocks(size) \in Nat
  BY ThreadPoolAssumption DEF NumBlocks
<1>2. B \in Nat /\ (NumBlocks(size) - 1) * B <= size
  <2>1. CASE size < PoolSize
    BY <1>1, <2>1 DEF NumBlocks, BlockSize
  <2>2. CASE ~(size < PoolSize)
    <3>1. B = size \div PoolSize /\ NumBlocks(size) = PoolSize
      BY <2>2 DEF NumBlocks, BlockSize
    <3>2. B \in Nat /\ PoolSize * B <= size
      BY <1>1, <3>1
    <3>3. (PoolSize - 1) * B = PoolSize * B - B
      BY <1>1, <3>2
    <3>4. QED BY <1>1, <3>1, <3>2, <3>3
  <2>3. QED BY <2>1, <2>2
<1>3. k # NumBlocks(size) /\ Edge(size, k) = k * B
  BY <1>1 DEF Edge
<1>4. k * B \in Nat /\ (k + 1) * B = k * B + B
  BY <1>2
<1>5. CASE k = NumBlocks(size) - 1
  <2>1. k + 1 = NumBlocks(size)
    BY <1>1, <1>5
  <2>2. Edge(size, k + 1) = size
    BY <2>1 DEF Edge
  <2>3. QED BY <1>2, <1>3, <1>4, <1>5, <2>2 DEF Block
<1>6. CASE k # NumBlocks(size) - 1
  <2>1. k + 1 # NumBlocks(size)
    BY <1>1, <1>6
  <2>2. Edge(size, k + 1) = (k + 1) * B
    BY <2>1 DEF Edge
  <2>3. QED BY <1>2, <1>3, <1>4, <1>6, <2>2 DEF Block
<1>7. QED BY <1>5, <1>6

\* Before the first block is pushed all of a loop is still to come, and after the last
\* one nothing is.
LEMMA LoopEdges ==
  ASSUME NEW size \in Nat
  PROVE  Edge(size, 0) = 0 /\ Edge(size, NumBlocks(size)) = size /\ NumBlocks(size) \in Nat
<1>1. PoolSize \in Nat \ {0} /\ NumBlocks(size) \in Nat /\ (NumBlocks(size) = 0 => size = 0)
  BY ThreadPoolAssumption DEF NumBlocks
<1>2. BlockSize(size) \in Nat
  BY <1>1 DEF BlockSize
<1>3. QED BY <1>1, <1>2 DEF Edge

\* No worker has a task if the number of those that have is 0; it is 1 if one has.
LEMMA IdleMeans ==
  ASSUME NEW b
  PROVE  /\ Cardinality({w \in PoolWorkers : b[w] # NoTask}) = 0 <=> \A w \in PoolWorkers : b[w] = NoTask
         /\ \A v \in PoolWorkers :
              b[v] # NoTask /\ (\A w \in PoolWorkers \ {v} : b[w] = NoTask)
                => Cardinality({w \in PoolWorkers : b[w] # NoTask}) = 1
<1> DEFINE B == {w \in PoolWorkers : b[w] # NoTask}
<1>1. IsFiniteSet(PoolWorkers) /\ B \subseteq PoolWorkers
  BY FS_Interval, ThreadPoolAssumption DEF PoolWorkers
<1>2. IsFiniteSet(B)
  BY <1>1, FS_Subset
<1>3. Cardinality(B) = 0 <=> B = {}
  BY <1>2, FS_EmptySet
<1>4. ASSUME NEW v \in PoolWorkers, b[v] # NoTask, \A w \in PoolWorkers \ {v} : b[w] = NoTask
      PROVE  Cardinality(B) = 1
  <2>1. B = {v} BY <1>4
  <2>2. QED BY <2>1, FS_Singleton
<1>5. QED BY <1>3, <1>4

\* Everything is done when no task is queued and no worker has one.
LEMMA DoneMeans == AllDone <=> tasks = <<>> /\ \A w \in PoolWorkers : busy[w] = NoTask
BY IdleMeans DEF AllDone, CurrentTasks

\* The pool starts with nothing to do.
LEMMA InitLoops == ThreadPoolInit => LoopInv
<1> SUFFICES ASSUME ThreadPoolInit PROVE LoopInv
  OBVIOUS
<1>1. \A c \in Clients : client[c] = Doing("out", 0, 0, 0)
  BY DEF ThreadPoolInit
<1>2. PoolType
  <2>1. <<>> \in Counts
    <3>1. <<>> = [i \in 1 .. 0 |-> 0] /\ [i \in 1 .. 0 |-> 0] \in [1 .. 0 -> Nat]
      OBVIOUS
    <3>2. QED BY <3>1 DEF Counts
  <2>2. Doing("out", 0, 0, 0) \in Stage /\ MaxLoops \in Nat
    BY ThreadPoolAssumption DEF Doing, Stage
  <2>3. ThreadPoolTypeOK
    <3>1. waiting \in BOOLEAN /\ poolRunning \in BOOLEAN
      BY DEF ThreadPoolInit
    <3>2. \A c \in Clients : client[c].loop = 0 /\ client[c].size = 0
      BY <1>1 DEF Doing
    <3>3. 0 \in 0 .. MaxLoops
      BY <2>2
    <3>4. QED BY <3>1, <3>2, <3>3 DEF ThreadPoolInit, ThreadPoolTypeOK
  <2>4. runs \in [Clients -> [1 .. MaxLoops -> Counts]]
    BY <2>1 DEF ThreadPoolInit
  <2>5. client \in [Clients -> Stage]
    BY <2>2 DEF ThreadPoolInit
  <2>6. tasks \in Seq(Task) /\ busy \in [PoolWorkers -> Task \cup {NoTask}] /\ notified \subseteq Clients
    BY DEF ThreadPoolInit
  <2>7. QED BY <2>3, <2>4, <2>5, <2>6 DEF PoolType
<1>3. Apart /\ LoopsFit
  <2>1. \A c \in Clients : NumBlocks(client[c].size) \in Nat
    BY <1>1, LoopEdges DEF Doing
  <2>2. QED
    BY <1>1, <2>1 DEF ThreadPoolInit, Apart, LoopsFit, Doing, Disjoint, Covers, Unpushed, Queued, InLoop
<1>4. RunsFit
  BY <1>1 DEF RunsFit, Doing
<1>5. QED BY <1>2, <1>3, <1>4 DEF LoopInv

\* A client whose loop is pushed whole may go where it likes as long as it does not
\* claim to have waited while there are tasks.
LEMMA StageChanges ==
  ASSUME LoopInv, NEW c \in Clients, NEW s \in {"out", "asleep", "waited"},
         UNCHANGED <<tasks, busy, runs>>, client' = [client EXCEPT ![c].stage = s],
         client[c].stage = "push" => client[c].blocks = NumBlocks(client[c].size),
         s = "waited" => AllDone
  PROVE  Apart' /\ LoopsFit' /\ RunsFit' /\ client' \in [Clients -> Stage]
<1>1. /\ client' \in [Clients -> Stage]
      /\ \A d \in Clients : /\ client'[d].loop = client[d].loop
                            /\ client'[d].size = client[d].size
                            /\ client'[d].blocks = client[d].blocks
                            /\ client'[d].stage = (IF d = c THEN s ELSE client[d].stage)
                            /\ client[d].size \in Nat
  BY DEF LoopInv, PoolType, Stage
<1>2. \A d \in Clients : \A n, i : Unpushed(d, n, i)' => Unpushed(d, n, i)
  BY <1>1 DEF Unpushed
<1>3. \A d, n, i : (Queued(d, n, i)' <=> Queued(d, n, i)) /\ (InLoop(d, n, i)' <=> InLoop(d, n, i))
  BY DEF Queued, InLoop
<1>4. Apart'
  BY <1>2, <1>3 DEF LoopInv, Apart
<1>5. LoopsFit'
  <2>1. s = "waited" => tasks = <<>> /\ \A w \in PoolWorkers : busy[w] = NoTask
    BY DoneMeans
  <2>2. QED BY <1>1, <2>1 DEF LoopInv, LoopsFit
<1>6. RunsFit'
  <2> SUFFICES ASSUME NEW d \in Clients, NEW n \in 1 .. MaxLoops, n <= client[d].loop,
                      NEW i \in DOMAIN runs[d][n]
               PROVE  Unpushed(d, n, i)' <=> Unpushed(d, n, i)
    BY <1>1, <1>3 DEF LoopInv, RunsFit
  <2>1. CASE d = c /\ client[c].stage = "push" /\ n = client[c].loop
    <3>1. i \in 1 .. client[c].size
      BY <2>1 DEF LoopInv, LoopsFit
    <3>2. Edge(client[c].size, client[c].blocks) = client[c].size
      BY <1>1, <2>1, LoopEdges
    <3>3. QED BY <1>1, <1>2, <3>1, <3>2 DEF Unpushed
  <2>2. CASE ~(d = c /\ client[c].stage = "push" /\ n = client[c].loop)
    BY <1>1, <2>2 DEF Unpushed
  <2>3. QED BY <2>1, <2>2
<1>7. QED BY <1>1, <1>4, <1>5, <1>6

\* The steps of a client outside its loops.
LEMMA WaitingKeeps ==
  ASSUME LoopInv, NEW c \in Clients,
         EndLoop(c) \/ WaitForAll(c) \/ Awake(c) \/ WaitTimesOut(c) \/ Return(c) \/ Destroy(c)
  PROVE  LoopInv'
<1>1. /\ UNCHANGED <<tasks, busy, runs>>
      /\ \E s \in {"out", "asleep", "waited"} :
           /\ client' = [client EXCEPT ![c].stage = s]
           /\ s = "waited" => AllDone
      /\ client[c].stage = "push" => client[c].blocks = NumBlocks(client[c].size)
  <2>1. \A d \in notified : client[d].stage = "asleep"
    BY DEF LoopInv, PoolType, ThreadPoolTypeOK
  <2>2. QED
    BY <2>1 DEF EndLoop, WaitForAll, Awake, WaitTimesOut, Return, Destroy, Check
<1>2. Apart' /\ LoopsFit' /\ RunsFit' /\ client' \in [Clients -> Stage]
  BY <1>1, StageChanges
<1>3. waiting' \in BOOLEAN /\ poolRunning' \in BOOLEAN
  BY DEF LoopInv, PoolType, ThreadPoolTypeOK, EndLoop, WaitForAll, Awake, WaitTimesOut, Return, Destroy, Check
<1>4. notified' \subseteq {d \in Clients : client'[d].stage = "asleep"}
  BY DEF LoopInv, PoolType, ThreadPoolTypeOK, EndLoop, WaitForAll, Awake, WaitTimesOut, Return, Destroy, Check
<1>5. PoolType'
  BY <1>1, <1>2, <1>3, <1>4 DEF LoopInv, PoolType, ThreadPoolTypeOK, Stage
<1>6. QED BY <1>2, <1>5 DEF LoopInv

\* A new loop: none of its indices has been run or is in a task.
LEMMA BeginKeeps ==
  ASSUME LoopInv, NEW c \in Clients, NEW size \in LoopSizes, BeginLoop(c, size)
  PROVE  LoopInv'
<1> DEFINE m == client[c].loop + 1
<1>1. /\ UNCHANGED <<tasks, busy, waiting, notified, poolRunning>>
      /\ client[c].stage = "out" /\ m \in 1 .. MaxLoops /\ size \in Nat
      /\ \A d \in Clients : client[d].loop \in 0 .. MaxLoops
  BY ThreadPoolAssumption DEF LoopInv, PoolType, Stage, BeginLoop
<1>2. /\ client' \in [Clients -> Stage]
      /\ client'[c] = Doing("push", m, size, 0)
      /\ \A d \in Clients : d # c => client'[d] = client[d]
  BY <1>1 DEF LoopInv, PoolType, Stage, BeginLoop, Doing
<1>3. [i \in 1 .. size |-> 0] \in Counts
  BY <1>1 DEF Counts
<1>4. /\ runs' \in [Clients -> [1 .. MaxLoops -> Counts]]
      /\ runs'[c][m] = [i \in 1 .. size |-> 0]
      /\ \A d \in Clients, n \in 1 .. MaxLoops : ~(d = c /\ n = m) => runs'[d][n] = runs[d][n]
  BY <1>1, <1>3 DEF LoopInv, PoolType, BeginLoop
<1>5. PoolType'
  <2>1. notified' \subseteq {d \in Clients : client'[d].stage = "asleep"}
    BY <1>1, <1>2 DEF LoopInv, PoolType, ThreadPoolTypeOK
  <2>2. \A d \in Clients : client'[d].loop \in 0 .. MaxLoops /\ client'[d].size \in LoopSizes \cup {0}
    BY <1>1, <1>2 DEF LoopInv, PoolType, ThreadPoolTypeOK, Doing
  <2>3. QED BY <1>1, <1>2, <1>4, <2>1, <2>2 DEF LoopInv, PoolType, ThreadPoolTypeOK
<1>6. \A d, n, i : (Queued(d, n, i)' <=> Queued(d, n, i)) /\ (InLoop(d, n, i)' <=> InLoop(d, n, i))
  BY <1>1 DEF Queued, InLoop
<1>7. \A i : ~Queued(c, m, i) /\ ~InLoop(c, m, i)
  <2>1. ASSUME NEW a \in DOMAIN tasks, tasks[a].of = c PROVE tasks[a].loop # m
    <3>1. tasks[a].loop <= client[c].loop
      BY <2>1 DEF LoopInv, LoopsFit
    <3>2. tasks[a] \in Task
      BY DEF LoopInv, PoolType
    <3>3. tasks[a].loop \in Nat
      BY <3>2 DEF Task
    <3>4. QED BY <1>1, <3>1, <3>3
  <2>2. ASSUME NEW w \in PoolWorkers, busy[w] # NoTask, busy[w].of = c PROVE busy[w].loop # m
    <3>1. busy[w].loop <= client[c].loop
      BY <2>2 DEF LoopInv, LoopsFit
    <3>2. busy[w] \in Task
      BY <2>2 DEF LoopInv, PoolType
    <3>3. busy[w].loop \in Nat
      BY <3>2 DEF Task
    <3>4. QED BY <1>1, <3>1, <3>3
  <2>3. QED BY <2>1, <2>2 DEF Queued, InLoop, Covers
<1>8. \A d \in Clients, n \in 1 .. MaxLoops : \A i :
        ~(d = c /\ n = m) => (Unpushed(d, n, i)' <=> Unpushed(d, n, i))
  BY <1>1, <1>2 DEF Unpushed, Doing
<1>9. Apart'
  BY <1>1, <1>6, <1>7, <1>8 DEF LoopInv, Apart
<1>10. LoopsFit'
  <2>1. NumBlocks(size) \in Nat /\ 0 <= NumBlocks(size)
    BY <1>1, LoopEdges
  <2>2. ASSUME NEW a \in DOMAIN tasks, tasks[a].of = c PROVE tasks[a].loop <= m
    <3>1. tasks[a] \in Task BY DEF LoopInv, PoolType
    <3>2. tasks[a].loop \in Nat /\ tasks[a].loop <= client[c].loop
      BY <2>2, <3>1 DEF LoopInv, LoopsFit, Task
    <3>3. QED BY <1>1, <3>2
  <2>3. ASSUME NEW w \in PoolWorkers, busy[w] # NoTask, busy[w].of = c PROVE busy[w].loop <= m
    <3>1. busy[w] \in Task BY <2>3 DEF LoopInv, PoolType
    <3>2. QED BY <1>1, <2>3, <3>1 DEF LoopInv, LoopsFit, Task
  <2>4. DOMAIN runs'[c][m] = 1 .. size
    BY <1>4
  <2> SUFFICES ASSUME NEW d \in Clients
               PROVE  /\ client'[d].loop > 0 => DOMAIN runs'[d][client'[d].loop] = 1 .. client'[d].size
                      /\ client'[d].blocks <= NumBlocks(client'[d].size)
                      /\ client'[d].stage = "push" => client'[d].loop > 0
                      /\ \A a \in DOMAIN tasks : tasks[a].of = d =>
                           tasks[a].loop <= client'[d].loop /\ client'[d].stage # "waited"
                      /\ \A w \in PoolWorkers : busy[w] # NoTask /\ busy[w].of = d =>
                           busy[w].loop <= client'[d].loop /\ client'[d].stage # "waited"
    BY <1>1 DEF LoopsFit
  <2>5. CASE d = c
    BY <1>1, <1>2, <2>1, <2>2, <2>3, <2>4, <2>5 DEF Doing
  <2>6. CASE d # c
    <3>1. client[d].loop > 0 => client[d].loop \in 1 .. MaxLoops
      BY <1>1
    <3>2. QED BY <1>2, <1>4, <2>6, <3>1 DEF LoopInv, LoopsFit
  <2>7. QED BY <2>5, <2>6
<1>11. RunsFit'
  <2> SUFFICES ASSUME NEW d \in Clients, NEW n \in 1 .. MaxLoops, n <= client'[d].loop,
                      NEW i \in DOMAIN runs'[d][n]
               PROVE  runs'[d][n][i] =
                        IF Unpushed(d, n, i)' \/ Queued(d, n, i)' \/ InLoop(d, n, i)' THEN 0 ELSE 1
    BY DEF RunsFit
  <2>1. CASE d = c /\ n = m
    <3>1. i \in 1 .. size /\ runs'[d][n][i] = 0
      BY <1>4, <2>1
    <3>2. Edge(size, 0) = 0
      BY <1>1, LoopEdges
    <3>3. Unpushed(d, n, i)'
      BY <1>2, <2>1, <3>1, <3>2 DEF Unpushed, Doing
    <3>4. QED BY <3>1, <3>3
  <2>2. CASE ~(d = c /\ n = m)
    <3>1. n <= client[d].loop
      BY <1>1, <1>2, <2>2 DEF Doing
    <3>2. QED BY <1>4, <1>6, <1>8, <2>2, <3>1 DEF LoopInv, RunsFit
  <2>3. QED BY <2>1, <2>2
<1>12. QED BY <1>5, <1>9, <1>10, <1>11 DEF LoopInv

\* A block is pushed: its indices leave what is still to be pushed.
LEMMA PushKeeps ==
  ASSUME LoopInv, NEW c \in Clients, PushBlock(c)
  PROVE  LoopInv'
<1> DEFINE do   == client[c]
           t    == [of |-> c, loop |-> do.loop, block |-> Block(do.size, do.blocks)]
           from == Edge(do.size, do.blocks)
           to   == Edge(do.size, do.blocks + 1)
<1>1. /\ UNCHANGED <<busy, waiting, notified, poolRunning, runs>>
      /\ do.stage = "push" /\ do.size \in Nat /\ do.blocks \in Nat /\ do.loop \in 1 .. MaxLoops
      /\ do.blocks < NumBlocks(do.size) /\ NumBlocks(do.size) \in Nat
  BY LoopEdges DEF LoopInv, PoolType, LoopsFit, Stage, PushBlock
<1>2. /\ t.block = [first |-> from, end |-> to]
      /\ from \in Nat /\ to \in Nat /\ from <= to
  BY <1>1, BlockEdges
<1>3. /\ client' \in [Clients -> Stage]
      /\ client'[c].stage = "push" /\ client'[c].loop = do.loop /\ client'[c].size = do.size
      /\ client'[c].blocks = do.blocks + 1
      /\ \A d \in Clients : d # c => client'[d] = client[d]
  BY <1>1 DEF LoopInv, PoolType, Stage, PushBlock
<1> HIDE DEF from, to
<1>4. t \in Task
  BY <1>1, <1>2 DEF Task
<1>5. /\ tasks' \in Seq(Task) /\ DOMAIN tasks' = DOMAIN tasks \cup {Len(tasks) + 1}
      /\ tasks'[Len(tasks) + 1] = t /\ Len(tasks) + 1 \notin DOMAIN tasks
      /\ \A a \in DOMAIN tasks : tasks'[a] = tasks[a]
  BY <1>4 DEF LoopInv, PoolType, PushBlock
<1>6. t # NoTask /\ t.of = c /\ t.loop = do.loop /\ t.block.first = from /\ t.block.end = to
  BY <1>2, <1>4 DEF Task, NoTask
<1> HIDE DEF t
<1>7. \A d \in Clients, n, i \in Nat :
        Covers(t, d, n, i) <=> d = c /\ n = do.loop /\ from < i /\ i <= to
  BY <1>6 DEF Covers
<1>8. \A d \in Clients, n, i \in Nat :
        Unpushed(d, n, i)' <=> Unpushed(d, n, i) /\ ~Covers(t, d, n, i)
  BY <1>1, <1>2, <1>3, <1>7 DEF Unpushed, from, to
<1>9. \A d \in Clients, n, i \in Nat : Covers(t, d, n, i) => Unpushed(d, n, i)
  BY <1>1, <1>2, <1>7 DEF Unpushed, from
<1>10. \A d, n, i : /\ Queued(d, n, i)' <=> Queued(d, n, i) \/ Covers(t, d, n, i)
                    /\ InLoop(d, n, i)' <=> InLoop(d, n, i)
  BY <1>1, <1>5 DEF Queued, InLoop
<1>11. PoolType'
  <2>1. notified' \subseteq {d \in Clients : client'[d].stage = "asleep"}
    BY <1>1, <1>3 DEF LoopInv, PoolType, ThreadPoolTypeOK
  <2>2. \A d \in Clients : client'[d].loop \in 0 .. MaxLoops /\ client'[d].size \in LoopSizes \cup {0}
    BY <1>1, <1>3 DEF LoopInv, PoolType, ThreadPoolTypeOK
  <2>3. QED BY <1>1, <1>3, <1>5, <2>1, <2>2 DEF LoopInv, PoolType, ThreadPoolTypeOK
<1>12. Apart'
  <2>1. \A a \in DOMAIN tasks : Disjoint(tasks[a], t) /\ Disjoint(t, tasks[a])
    BY <1>9 DEF LoopInv, Apart, Queued, Disjoint
  <2>2. \A w \in PoolWorkers : Disjoint(t, busy[w])
    BY <1>9 DEF LoopInv, Apart, InLoop, Disjoint
  <2>3. \A a, b \in DOMAIN tasks' : a # b => Disjoint(tasks'[a], tasks'[b])
    BY <1>5, <2>1 DEF LoopInv, Apart
  <2>4. \A a \in DOMAIN tasks', w \in PoolWorkers : Disjoint(tasks'[a], busy'[w])
    BY <1>1, <1>5, <2>2 DEF LoopInv, Apart
  <2>5. \A v, w \in PoolWorkers : v # w => Disjoint(busy'[v], busy'[w])
    BY <1>1 DEF LoopInv, Apart
  <2>6. \A d \in Clients, n \in 1 .. MaxLoops, i \in Nat :
          Unpushed(d, n, i)' => ~Queued(d, n, i)' /\ ~InLoop(d, n, i)'
    BY <1>8, <1>10 DEF LoopInv, Apart
  <2>7. QED BY <2>3, <2>4, <2>5, <2>6 DEF Apart
<1>13. LoopsFit'
  <2>1. do.blocks + 1 <= NumBlocks(do.size)
    BY <1>1
  <2>2. QED BY <1>1, <1>3, <1>5, <1>6, <2>1 DEF LoopInv, LoopsFit
<1>14. RunsFit'
  <2> SUFFICES ASSUME NEW d \in Clients, NEW n \in 1 .. MaxLoops, n <= client'[d].loop,
                      NEW i \in DOMAIN runs[d][n]
               PROVE  runs[d][n][i] =
                        IF Unpushed(d, n, i)' \/ Queued(d, n, i)' \/ InLoop(d, n, i)' THEN 0 ELSE 1
    BY <1>1 DEF RunsFit
  <2>1. i \in Nat /\ n <= client[d].loop
    <3>1. runs[d][n] \in Counts
      BY DEF LoopInv, PoolType
    <3>2. PICK size \in Nat : runs[d][n] \in [1 .. size -> Nat]
      BY <3>1 DEF Counts
    <3>3. QED BY <1>3, <3>2
  <2>2. QED BY <1>8, <1>9, <1>10, <2>1 DEF LoopInv, RunsFit
<1>15. QED BY <1>11, <1>12, <1>13, <1>14 DEF LoopInv

\* A worker takes the first task of the queue: what was queued is running.
LEMMA TakeKeeps ==
  ASSUME LoopInv, NEW v \in PoolWorkers, WorkerTakes(v)
  PROVE  LoopInv'
<1>1. /\ UNCHANGED <<waiting, client, notified, poolRunning, runs>>
      /\ busy[v] = NoTask /\ tasks \in Seq(Task) /\ tasks # <<>>
      /\ busy \in [PoolWorkers -> Task \cup {NoTask}]
  BY DEF LoopInv, PoolType, WorkerTakes
<1>2. /\ 1 \in DOMAIN tasks /\ tasks[1] \in Task /\ busy' = [busy EXCEPT ![v] = tasks[1]]
      /\ tasks' \in Seq(Task)
      /\ \A a \in DOMAIN tasks' : a + 1 \in DOMAIN tasks /\ a + 1 # 1 /\ tasks'[a] = tasks[a + 1]
      /\ \A b \in DOMAIN tasks : b # 1 => b - 1 \in DOMAIN tasks' /\ tasks'[b - 1] = tasks[b]
  BY <1>1 DEF WorkerTakes
<1>3. /\ busy' \in [PoolWorkers -> Task \cup {NoTask}] /\ busy'[v] = tasks[1]
      /\ \A w \in PoolWorkers : w # v => busy'[w] = busy[w]
  BY <1>1, <1>2
<1>4. PoolType'
  BY <1>1, <1>2, <1>3 DEF LoopInv, PoolType, ThreadPoolTypeOK
<1>5. \A d, n, i : /\ Queued(d, n, i) => Queued(d, n, i)' \/ InLoop(d, n, i)'
                   /\ InLoop(d, n, i) => InLoop(d, n, i)'
                   /\ Queued(d, n, i)' => Queued(d, n, i)
                   /\ InLoop(d, n, i)' => InLoop(d, n, i) \/ Queued(d, n, i)
  <2> TAKE d, n, i
  <2>1. ~Covers(busy[v], d, n, i)
    BY <1>1 DEF Covers
  <2>2. InLoop(d, n, i) => InLoop(d, n, i)'
    BY <1>3, <2>1 DEF InLoop
  <2>3. Queued(d, n, i)' => Queued(d, n, i)
    BY <1>2 DEF Queued
  <2>4. InLoop(d, n, i)' => InLoop(d, n, i) \/ Queued(d, n, i)
    BY <1>2, <1>3 DEF InLoop, Queued
  <2>5. ASSUME NEW a \in DOMAIN tasks, Covers(tasks[a], d, n, i)
        PROVE  Queued(d, n, i)' \/ InLoop(d, n, i)'
    <3>1. CASE a = 1 BY <1>3, <2>5, <3>1 DEF InLoop
    <3>2. CASE a # 1 BY <1>2, <2>5, <3>2 DEF Queued
    <3>3. QED BY <3>1, <3>2
  <2>6. QED BY <2>2, <2>3, <2>4, <2>5 DEF Queued
<1>6. \A d, n, i : Unpushed(d, n, i)' <=> Unpushed(d, n, i)
  BY <1>1 DEF Unpushed
<1>7. Apart'
  <2>1. \A a, b \in DOMAIN tasks' : a # b => Disjoint(tasks'[a], tasks'[b])
    <3> SUFFICES ASSUME NEW a \in DOMAIN tasks', NEW b \in DOMAIN tasks', a # b
                 PROVE  Disjoint(tasks'[a], tasks'[b])
      OBVIOUS
    <3>1. a \in Nat /\ b \in Nat
      BY <1>2
    <3>2. a + 1 # b + 1
      BY <3>1
    <3>3. QED BY <1>2, <3>2 DEF LoopInv, Apart
  <2>2. \A a \in DOMAIN tasks', w \in PoolWorkers : Disjoint(tasks'[a], busy'[w])
    BY <1>2, <1>3 DEF LoopInv, Apart
  <2>3. \A u, w \in PoolWorkers : u # w => Disjoint(busy'[u], busy'[w])
    <3>1. \A t, u : Disjoint(t, u) => Disjoint(u, t)
      BY DEF Disjoint
    <3>2. QED BY <1>2, <1>3, <3>1 DEF LoopInv, Apart
  <2>4. \A d \in Clients, n \in 1 .. MaxLoops, i \in Nat :
          Unpushed(d, n, i)' => ~Queued(d, n, i)' /\ ~InLoop(d, n, i)'
    BY <1>5, <1>6 DEF LoopInv, Apart
  <2>5. QED BY <2>1, <2>2, <2>3, <2>4 DEF Apart
<1>8. LoopsFit'
  <2>1. \A a \in DOMAIN tasks' : \E b \in DOMAIN tasks : tasks'[a] = tasks[b]
    BY <1>2
  <2>2. \A w \in PoolWorkers : busy'[w] = busy[w] \/ \E b \in DOMAIN tasks : busy'[w] = tasks[b]
    BY <1>2, <1>3
  <2>3. QED BY <1>1, <2>1, <2>2 DEF LoopInv, LoopsFit
<1>9. RunsFit'
  BY <1>1, <1>5, <1>6 DEF LoopInv, RunsFit
<1>10. QED BY <1>4, <1>7, <1>8, <1>9 DEF LoopInv

\* A task ends: its indices have been run, once, and are nowhere else.
LEMMA EndKeeps ==
  ASSUME LoopInv, NEW v \in PoolWorkers, WorkerEnds(v)
  PROVE  LoopInv'
<1> DEFINE t == busy[v]
<1>1. /\ UNCHANGED <<tasks, waiting, client, poolRunning>>
      /\ t # NoTask /\ busy \in [PoolWorkers -> Task \cup {NoTask}]
      /\ busy' = [busy EXCEPT ![v] = NoTask]
  BY DEF LoopInv, PoolType, WorkerEnds
<1>2. t \in Task /\ t.of \in Clients /\ t.loop \in 1 .. MaxLoops
  BY <1>1 DEF Task
<1>3. /\ busy' \in [PoolWorkers -> Task \cup {NoTask}] /\ busy'[v] = NoTask
      /\ \A w \in PoolWorkers : w # v => busy'[w] = busy[w]
  BY <1>1
<1> DEFINE counts == runs[t.of][t.loop]
           after  == [i \in DOMAIN counts |->
                        IF t.block.first < i /\ i <= t.block.end THEN counts[i] + 1 ELSE counts[i]]
<1>4. counts \in Counts /\ after \in Counts
  <2>1. counts \in Counts
    BY <1>2 DEF LoopInv, PoolType
  <2>2. PICK size \in Nat : counts \in [1 .. size -> Nat]
    BY <2>1 DEF Counts
  <2> HIDE DEF counts, t
  <2>3. after \in [1 .. size -> Nat]
    <3>1. DOMAIN counts = 1 .. size /\ \A i \in 1 .. size : counts[i] \in Nat /\ counts[i] + 1 \in Nat
      BY <2>2
    <3>2. QED BY <3>1
  <2>4. QED BY <2>1, <2>2, <2>3 DEF Counts
<1>5. /\ runs' \in [Clients -> [1 .. MaxLoops -> Counts]]
      /\ runs'[t.of][t.loop] = after
      /\ \A d \in Clients, n \in 1 .. MaxLoops :
           ~(d = t.of /\ n = t.loop) => runs'[d][n] = runs[d][n]
  <2>1. runs' = [runs EXCEPT ![t.of] = [runs[t.of] EXCEPT ![t.loop] = after]]
    BY DEF WorkerEnds
  <2> HIDE DEF after, t
  <2>2. QED BY <1>2, <1>4, <2>1 DEF LoopInv, PoolType
<1>6. PoolType'
  <2>1. notified' \subseteq {d \in Clients : client'[d].stage = "asleep"}
    BY <1>1 DEF LoopInv, PoolType, ThreadPoolTypeOK, WorkerEnds
  <2>2. QED BY <1>1, <1>3, <1>5, <2>1 DEF LoopInv, PoolType, ThreadPoolTypeOK
<1>7. \A d, n, i : /\ Queued(d, n, i)' <=> Queued(d, n, i)
                   /\ InLoop(d, n, i)' => InLoop(d, n, i)
                   /\ InLoop(d, n, i) => InLoop(d, n, i)' \/ Covers(t, d, n, i)
                   /\ Covers(t, d, n, i) => InLoop(d, n, i)
                   /\ Unpushed(d, n, i)' <=> Unpushed(d, n, i)
  <2> TAKE d, n, i
  <2>1. ~Covers(busy'[v], d, n, i)
    BY <1>3 DEF Covers
  <2>2. QED BY <1>1, <1>3, <2>1 DEF Queued, InLoop, Unpushed
<1>8. \A d \in Clients, n \in 1 .. MaxLoops, i \in Nat :
        Covers(t, d, n, i) => ~Queued(d, n, i)' /\ ~InLoop(d, n, i)' /\ ~Unpushed(d, n, i)'
  <2> SUFFICES ASSUME NEW d \in Clients, NEW n \in 1 .. MaxLoops, NEW i \in Nat, Covers(t, d, n, i)
               PROVE  ~Queued(d, n, i)' /\ ~InLoop(d, n, i)' /\ ~Unpushed(d, n, i)'
    OBVIOUS
  <2>1. ~Queued(d, n, i)
    BY DEF LoopInv, Apart, Disjoint, Queued
  <2>2. ~InLoop(d, n, i)'
    <3>1. ~Covers(busy'[v], d, n, i)
      BY <1>3 DEF Covers
    <3>2. QED BY <1>3, <3>1 DEF LoopInv, Apart, Disjoint, InLoop
  <2>3. ~Unpushed(d, n, i)
    BY <1>7 DEF LoopInv, Apart
  <2>4. QED BY <1>7, <2>1, <2>2, <2>3
<1>9. Apart'
  <2>1. \A u : Disjoint(u, NoTask) /\ Disjoint(NoTask, u)
    BY DEF Disjoint, Covers
  <2>2. QED BY <1>1, <1>3, <1>7, <2>1 DEF LoopInv, Apart
<1>10. LoopsFit'
  <2>1. \A d \in Clients, n \in 1 .. MaxLoops : DOMAIN runs'[d][n] = DOMAIN runs[d][n]
    BY <1>5
  <2>2. \A d \in Clients : client[d].loop > 0 => client[d].loop \in 1 .. MaxLoops
    BY DEF LoopInv, PoolType, ThreadPoolTypeOK
  <2>3. QED BY <1>1, <1>3, <2>1, <2>2 DEF LoopInv, LoopsFit
<1>11. RunsFit'
  <2> SUFFICES ASSUME NEW d \in Clients, NEW n \in 1 .. MaxLoops, n <= client[d].loop,
                      NEW i \in DOMAIN runs'[d][n]
               PROVE  runs'[d][n][i] =
                        IF Unpushed(d, n, i)' \/ Queued(d, n, i)' \/ InLoop(d, n, i)' THEN 0 ELSE 1
    BY <1>1 DEF RunsFit
  <2>1. i \in DOMAIN runs[d][n] /\ i \in Nat
    <3>1. runs[d][n] \in Counts
      BY DEF LoopInv, PoolType
    <3>2. PICK size \in Nat : runs[d][n] \in [1 .. size -> Nat]
      BY <3>1 DEF Counts
    <3>3. DOMAIN after = DOMAIN counts
      OBVIOUS
    <3> HIDE DEF after
    <3>4. DOMAIN runs'[d][n] = DOMAIN runs[d][n]
      BY <1>5, <3>3
    <3>5. QED BY <3>2, <3>4
  <2>2. CASE Covers(t, d, n, i)
    <3>1. d = t.of /\ n = t.loop /\ t.block.first < i /\ i <= t.block.end
      BY <2>2 DEF Covers
    <3>2. runs[d][n][i] = 0
      BY <1>7, <2>1, <2>2 DEF LoopInv, RunsFit
    <3>3. counts[i] = 0 /\ i \in DOMAIN counts
      BY <2>1, <3>1, <3>2
    <3>4. after[i] = counts[i] + 1
      BY <3>1, <3>3
    <3> HIDE DEF after, counts
    <3>5. runs'[d][n][i] = 1
      BY <1>5, <3>1, <3>3, <3>4
    <3>6. QED BY <1>8, <2>1, <2>2, <3>5
  <2>3. CASE ~Covers(t, d, n, i)
    <3>1. runs'[d][n][i] = runs[d][n][i]
      <4>1. CASE d = t.of /\ n = t.loop
        <5>1. ~(t.block.first < i /\ i <= t.block.end) /\ i \in DOMAIN counts
          BY <1>1, <2>1, <2>3, <4>1 DEF Covers
        <5>2. after[i] = counts[i]
          BY <5>1
        <5> HIDE DEF after
        <5>3. QED BY <1>5, <4>1, <5>2
      <4>2. CASE ~(d = t.of /\ n = t.loop)
        BY <1>5, <4>2
      <4>3. QED BY <4>1, <4>2
    <3>2. QED BY <1>7, <2>1, <2>3, <3>1 DEF LoopInv, RunsFit
  <2>4. QED BY <2>2, <2>3
<1>12. QED BY <1>6, <1>9, <1>10, <1>11 DEF LoopInv

\* Every step of the pool keeps the invariant.
LEMMA StepLoops == LoopInv /\ [ThreadPoolNext]_threadPoolVars => LoopInv'
<1> SUFFICES ASSUME LoopInv, [ThreadPoolNext]_threadPoolVars PROVE LoopInv'
  OBVIOUS
<1>1. CASE UNCHANGED threadPoolVars
  <2>1. \A d, n, i : /\ Queued(d, n, i)' <=> Queued(d, n, i)
                     /\ InLoop(d, n, i)' <=> InLoop(d, n, i)
                     /\ Unpushed(d, n, i)' <=> Unpushed(d, n, i)
    BY <1>1 DEF threadPoolVars, Queued, InLoop, Unpushed
  <2>2. PoolType' /\ LoopsFit'
    BY <1>1 DEF threadPoolVars, LoopInv, PoolType, ThreadPoolTypeOK, LoopsFit
  <2>3. Apart' /\ RunsFit'
    BY <1>1, <2>1 DEF threadPoolVars, LoopInv, Apart, RunsFit
  <2>4. QED BY <2>2, <2>3 DEF LoopInv
<1>2. QED
  BY <1>1, BeginKeeps, PushKeeps, WaitingKeeps, TakeKeeps, EndKeeps DEF ThreadPoolNext

\* The invariant holds in every behaviour.
LEMMA InvariantOfLoops == ThreadPoolSpec => []LoopInv
BY InitLoops, StepLoops, PTL DEF ThreadPoolSpec

\* What the clients do, and who was notified, keep their types.
THEOREM LoopsTypeCorrect == ThreadPoolSpec => []ThreadPoolTypeOK
<1>1. LoopInv => ThreadPoolTypeOK BY DEF LoopInv, PoolType
<1>2. QED BY <1>1, InvariantOfLoops, PTL

\* A client that has waited (waitForAll) finds the body of its loops run once for every
\* index: the blocks cover a loop without a gap or an overlap (pushLoop), and
\* no client returns while a task of its own is queued or runs, for any number of
\* clients, workers and indices.
THEOREM IndicesRunOnce == ThreadPoolSpec => []LoopsRunOnce
<1>1. LoopInv => LoopsRunOnce
  <2> SUFFICES ASSUME LoopInv, NEW c \in Clients, client[c].stage = "waited",
                      NEW n \in 1 .. client[c].loop, NEW i \in DOMAIN runs[c][n]
               PROVE  runs[c][n][i] = 1
    BY DEF LoopsRunOnce
  <2>1. n \in 1 .. MaxLoops /\ n <= client[c].loop
    BY ThreadPoolAssumption DEF LoopInv, PoolType, ThreadPoolTypeOK
  <2>2. ~Unpushed(c, n, i) /\ ~Queued(c, n, i) /\ ~InLoop(c, n, i)
    BY DEF LoopInv, LoopsFit, Unpushed, Queued, InLoop, Covers
  <2>3. QED BY <2>1, <2>2 DEF LoopInv, RunsFit
<1>2. QED BY <1>1, InvariantOfLoops, PTL

\* A client that sleeps has said so, and is notified once everything is done.
SleepInv ==
  \A c \in Clients : client[c].stage = "asleep" => waiting /\ (AllDone => c \in notified)

\* One client sets the flag when it falls asleep, and nobody else resets it.  The worker
\* that ends the last task finds the flag set.
LEMMA StepSleep ==
  ASSUME \A c, d \in Clients : c = d, LoopInv, SleepInv, [ThreadPoolNext]_threadPoolVars
  PROVE  SleepInv'
<1>1. client \in [Clients -> Stage] /\ \A c \in notified : client[c].stage = "asleep"
  BY DEF LoopInv, PoolType, ThreadPoolTypeOK
<1>2. ASSUME NEW c \in Clients, client'[c].stage # "asleep" PROVE SleepInv'
  BY <1>2 DEF SleepInv
<1>3. ASSUME NEW c \in Clients, UNCHANGED <<tasks, busy>>, ~AllDone, waiting' = TRUE
      PROVE  SleepInv'
  BY <1>3 DEF SleepInv, AllDone, CurrentTasks
<1>4. ASSUME NEW c \in Clients, NEW size \in LoopSizes,
             BeginLoop(c, size)
      PROVE  SleepInv'
  <2>1. client'[c].stage # "asleep"
    BY <1>1, <1>4 DEF BeginLoop, Doing
  <2>2. QED BY <1>2, <2>1
<1>5. ASSUME NEW c \in Clients,
             PushBlock(c) \/ EndLoop(c) \/ WaitTimesOut(c) \/ Return(c) \/ Destroy(c)
      PROVE  SleepInv'
  <2>1. client'[c].stage # "asleep"
    BY <1>1, <1>5 DEF PushBlock, EndLoop, WaitTimesOut, Return, Destroy, Stage
  <2>2. QED BY <1>2, <2>1
<1>6. ASSUME NEW c \in Clients, WaitForAll(c) \/ Awake(c) PROVE SleepInv'
  <2>1. CASE AllDone
    <3>1. client'[c].stage # "asleep"
      <4>1. client' = [client EXCEPT ![c].stage = "waited"]
        BY <1>6, <2>1 DEF WaitForAll, Awake, Check
      <4>2. QED BY <1>1, <4>1 DEF Stage
    <3>2. QED BY <1>2, <3>1
  <2>2. CASE ~AllDone
    <3>1. waiting' = TRUE
      <4>1. CASE WaitForAll(c) BY <2>2, <4>1 DEF WaitForAll, Check
      <4>2. CASE Awake(c)
        <5>1. waiting BY <1>1, <4>2 DEF Awake, SleepInv
        <5>2. waiting' = waiting BY <2>2, <4>2 DEF Awake, Check
        <5>3. QED BY <5>1, <5>2 DEF LoopInv, PoolType, ThreadPoolTypeOK
      <4>3. QED BY <1>6, <4>1, <4>2
    <3>2. QED BY <1>3, <1>6, <2>2, <3>1 DEF WaitForAll, Awake
  <2>3. QED BY <2>1, <2>2
<1>7. ASSUME NEW v \in PoolWorkers, WorkerTakes(v) PROVE SleepInv'
  <2>1. busy'[v] \in Task
    BY <1>7 DEF WorkerTakes, LoopInv, PoolType
  <2>2. busy'[v] # NoTask
    BY <2>1 DEF Task, NoTask
  <2>3. ~AllDone'
    BY <2>2, IdleMeans DEF AllDone, CurrentTasks
  <2>4. QED BY <1>7, <2>3 DEF WorkerTakes, SleepInv
<1>8. ASSUME NEW v \in PoolWorkers, WorkerEnds(v) PROVE SleepInv'
  <2> SUFFICES ASSUME NEW c \in Clients, client'[c].stage = "asleep"
               PROVE  waiting' /\ (AllDone' => c \in notified')
    BY DEF SleepInv
  <2>1. client' = client /\ waiting' = waiting /\ tasks' = tasks /\ busy[v] # NoTask
    BY <1>8 DEF WorkerEnds
  <2>2. waiting
    BY <2>1 DEF SleepInv
  <2>3. ASSUME AllDone' PROVE c \in notified'
    <3>1. tasks = <<>> /\ \A w \in PoolWorkers : busy'[w] = NoTask
      BY <2>1, <2>3, IdleMeans DEF AllDone, CurrentTasks
    <3>2. \A w \in PoolWorkers \ {v} : busy[w] = NoTask
      BY <1>8, <3>1 DEF WorkerEnds, LoopInv, PoolType
    <3>3. CurrentTasks = 1
      BY <2>1, <3>2, IdleMeans DEF CurrentTasks
    <3>4. QED BY <1>8, <2>1, <2>2, <3>1, <3>3 DEF WorkerEnds
  <2>4. QED BY <2>1, <2>2, <2>3
<1>9. CASE UNCHANGED threadPoolVars
  BY <1>9 DEF threadPoolVars, SleepInv, AllDone, CurrentTasks
<1>10. QED
  BY <1>4, <1>5, <1>6, <1>7, <1>8, <1>9 DEF ThreadPoolNext

\* With one client, as the loading of a project has (loadAndParseSources is the only one
\* to wait), no sleep outlasts the work: when everything is done the client was
\* notified, however workers, time limits and the client's own loops interleave.
\* Two clients would reset the flag for each other.
THEOREM SleeperIsWoken ==
  ASSUME \A c, d \in Clients : c = d
  PROVE  ThreadPoolSpec => []NobodyOversleeps
<1>1. ThreadPoolInit => SleepInv
  BY DEF ThreadPoolInit, SleepInv, Doing
<1>2. LoopInv /\ SleepInv /\ [ThreadPoolNext]_threadPoolVars => SleepInv'
  BY StepSleep
<1>3. SleepInv => NobodyOversleeps
  BY DEF SleepInv, NobodyOversleeps
<1>4. QED BY <1>1, <1>2, <1>3, InvariantOfLoops, PTL DEF ThreadPoolSpec

-----------------------------------------------------------------------------
(* Conditional compilation *)

\* A branch of the standard's reading.
Reading == [before : BOOLEAN, now : BOOLEAN, closed : BOOLEAN]

\* A conditional directive may stand in such a text, and what it makes of it.
Legal(bl, t) ==
  /\ t.kind \in {"elsif", "else"} => bl # <<>> /\ ~Last(bl).closed
  /\ t.kind = "endif" => bl # <<>>

Follow(bl, t) ==
  CASE t.kind \in {"ifdef", "ifndef"} ->
         Append(bl, [before |-> FALSE, now |-> Holds(t, meant), closed |-> FALSE])
    [] t.kind = "elsif" -> Append(Front(bl), Branch(Last(bl), Holds(t, meant), FALSE))
    [] t.kind = "else"  -> Append(Front(bl), Branch(Last(bl), TRUE, TRUE))
    [] t.kind = "endif" -> Front(bl)

\* The branches up to number i are active.
ActiveTo(bl, i) == \A j \in 1 .. i : bl[j].now /\ ~bl[j].before

\* The stack of branches says of each what the standard says.
Agree(stack, bl) ==
  /\ Len(stack) = Len(bl)
  /\ \A i \in 1 .. Len(bl) :
       /\ stack[i].hasElse <=> bl[i].closed
       /\ stack[i].currentActive <=> ActiveTo(bl, i)
       /\ stack[i].anyTaken <=> ActiveTo(bl, i - 1) /\ (bl[i].before \/ bl[i].now)

\* The text has been read up to behind t, but t is not carried out.
Behind(t) == \E bl \in Seq(Reading) :
  Agree(branchStack, bl) /\ Legal(bl, t) /\ blocks = Follow(bl, t)

\* What is known as long as the text is in order and no directive came too early.
InOrder ==
  /\ macros = meant /\ ~looping /\ Len(handlers) <= 1 /\ (fate.done <=> fate.active)
  /\ handlers # <<>> => currentToken = NoItem /\ ~skipping /\ Behind(handlers[1])
  /\ handlers = <<>> /\ currentToken \in Conditionals => Behind(currentToken)
  /\ handlers = <<>> /\ currentToken \notin Conditionals =>
       /\ Agree(branchStack, blocks)
       /\ currentToken # EndOfFile => (skipping <=> ~Active)
       /\ currentToken \in PlainTokens => (currentToken.active <=> Active)

PreprocessorType ==
  /\ PreprocessorTypeOK
  /\ blocks \in Seq(Reading) /\ meant \subseteq MacroNames
  /\ looping \in BOOLEAN /\ skipping \in BOOLEAN /\ malformed \in BOOLEAN /\ early \in BOOLEAN
  /\ fate \in [done : BOOLEAN, active : BOOLEAN]

PreprocessorInv == PreprocessorType /\ (~malformed /\ ~early => InOrder)

BranchState == [currentActive : BOOLEAN, anyTaken : BOOLEAN, hasElse : BOOLEAN]

\* A sequence without its last element, and with another one in its place.
LEMMA FrontOf ==
  ASSUME NEW S, NEW s \in Seq(S), s # <<>>
  PROVE  /\ Front(s) \in Seq(S) /\ Len(Front(s)) = Len(s) - 1
         /\ \A i \in 1 .. Len(s) - 1 : Front(s)[i] = s[i]
         /\ Last(s) = s[Len(s)] /\ Last(s) \in S /\ Len(s) \in Nat \ {0}
<1>1. Len(s) \in Nat \ {0}
  BY EmptySeq, LenProperties
<1>2. Front(s) = SubSeq(s, 1, Len(s) - 1) /\ Last(s) = s[Len(s)]
  BY DEF Front, Last
<1>3. \A i \in 1 .. Len(s) : s[i] \in S
  BY ElementOfSeq
<1>4. /\ SubSeq(s, 1, Len(s) - 1) \in Seq(S)
      /\ Len(SubSeq(s, 1, Len(s) - 1)) = Len(s) - 1
      /\ \A i \in 1 .. Len(s) - 1 : SubSeq(s, 1, Len(s) - 1)[i] = s[i]
  <2> DEFINE k == Len(s) - 1
  <2>1. k \in Nat /\ 1 \in Int /\ k \in Int /\ \A i \in 1 .. k : s[i] \in S
    BY <1>1, <1>3
  <2> HIDE DEF k
  <2>2. /\ SubSeq(s, 1, k) \in Seq(S)
        /\ Len(SubSeq(s, 1, k)) = (IF 1 <= k THEN k - 1 + 1 ELSE 0)
        /\ \A i \in 1 .. k - 1 + 1 : SubSeq(s, 1, k)[i] = s[1 + i - 1]
    BY <2>1, SubSeqProperties
  <2>3. /\ Len(SubSeq(s, 1, k)) = k
        /\ \A i \in 1 .. k : SubSeq(s, 1, k)[i] = s[i]
    BY <2>1, <2>2
  <2>4. QED BY <2>2, <2>3 DEF k
<1>5. QED BY <1>1, <1>2, <1>3, <1>4

\* A sequence with another element in the place of its last one.
LEMMA LastReplaced ==
  ASSUME NEW S, NEW s \in Seq(S), s # <<>>, NEW e \in S
  PROVE  /\ Append(Front(s), e) \in Seq(S) /\ Len(Append(Front(s), e)) = Len(s)
         /\ Append(Front(s), e)[Len(s)] = e
         /\ \A i \in 1 .. Len(s) - 1 : Append(Front(s), e)[i] = s[i]
<1>1. /\ Front(s) \in Seq(S) /\ Len(Front(s)) = Len(s) - 1
      /\ \A i \in 1 .. Len(s) - 1 : Front(s)[i] = s[i]
      /\ Len(s) \in Nat \ {0}
  BY FrontOf
<1>2. /\ Append(Front(s), e) \in Seq(S) /\ Len(Append(Front(s), e)) = Len(Front(s)) + 1
      /\ Append(Front(s), e)[Len(Front(s)) + 1] = e
      /\ \A i \in 1 .. Len(Front(s)) : Append(Front(s), e)[i] = Front(s)[i]
  BY <1>1, AppendProperties
<1>3. QED BY <1>1, <1>2

\* One branch more is active if those around it are and it is itself.
LEMMA OneMoreActive ==
  ASSUME NEW bl, NEW i \in Nat
  PROVE  ActiveTo(bl, i + 1) <=> ActiveTo(bl, i) /\ bl[i + 1].now /\ ~bl[i + 1].before
<1>1. 1 .. i + 1 = (1 .. i) \cup {i + 1} OBVIOUS
<1>2. QED BY <1>1 DEF ActiveTo

\* The branches up to a number decide whether they are active.
LEMMA SameActive ==
  ASSUME NEW bl, NEW other, NEW i \in Nat, NEW k \in Nat, i <= k, \A j \in 1 .. k : bl[j] = other[j]
  PROVE  ActiveTo(bl, i) <=> ActiveTo(other, i)
BY DEF ActiveTo

\* Where the two agree, the innermost branch is active for the one if it is for the other.
LEMMA AroundAgrees ==
  ASSUME NEW bl \in Seq(Reading), branchStack \in Seq(BranchState), Agree(branchStack, bl)
  PROVE  (branchStack = <<>> \/ Last(branchStack).currentActive) <=> ActiveTo(bl, Len(bl))
<1>1. Len(bl) \in Nat /\ Len(branchStack) = Len(bl)
  BY LenProperties DEF Agree
<1>2. CASE branchStack = <<>>
  <2>1. 1 .. Len(bl) = {} BY <1>1, <1>2
  <2>2. QED BY <1>2, <2>1 DEF ActiveTo
<1>3. CASE branchStack # <<>>
  <2>1. Last(branchStack) = branchStack[Len(branchStack)] /\ Len(branchStack) \in Nat \ {0}
    BY <1>3, FrontOf
  <2>2. QED BY <1>1, <1>3, <2>1 DEF Agree
<1>4. QED BY <1>2, <1>3

\* `ifdef and `ifndef: one branch more on both sides.
LEMMA IfDefFollows ==
  ASSUME NEW bl \in Seq(Reading), NEW t, branchStack \in Seq(BranchState), Agree(branchStack, bl),
         macros = meant, t.kind \in {"ifdef", "ifndef"}, HandleIfDef(t)
  PROVE  /\ Follow(bl, t) \in Seq(Reading) /\ branchStack' \in Seq(BranchState)
         /\ Agree(branchStack', Follow(bl, t))
         /\ skipping' <=> ~ActiveTo(Follow(bl, t), Len(Follow(bl, t)))
<1> DEFINE n    == Len(bl)
           b    == [before |-> FALSE, now |-> Holds(t, meant), closed |-> FALSE]
           next == Append(bl, b)
           around == branchStack = <<>> \/ Last(branchStack).currentActive
           take == around /\ Holds(t, meant)
           e    == Entry(take, take, FALSE)
<1>1. Follow(bl, t) = next
  BY DEF Follow
<1>2. branchStack' = Append(branchStack, e) /\ skipping' = ~take
  BY DEF HandleIfDef, EnterBranch, EvalConditionalExpr, Holds
<1>3. b \in Reading /\ e \in BranchState
  BY DEF Reading, BranchState, Holds, Entry
<1>4. around <=> ActiveTo(bl, n)
  BY AroundAgrees
<1> HIDE DEF around
<1>5. n \in Nat /\ Len(branchStack) = n
  BY LenProperties DEF Agree
<1>6. /\ next \in Seq(Reading) /\ Len(next) = n + 1 /\ next[n + 1] = b
      /\ \A i \in 1 .. n : next[i] = bl[i]
      /\ branchStack' \in Seq(BranchState) /\ Len(branchStack') = n + 1 /\ branchStack'[n + 1] = e
      /\ \A i \in 1 .. n : branchStack'[i] = branchStack[i]
  <2>1. /\ next \in Seq(Reading) /\ Len(next) = n + 1 /\ next[n + 1] = b
        /\ \A i \in 1 .. n : next[i] = bl[i]
    BY <1>3, AppendProperties
  <2> HIDE DEF e, b
  <2>2. QED BY <1>2, <1>3, <1>5, <2>1, AppendProperties
<1> HIDE DEF next
<1>7. \A i \in 0 .. n : ActiveTo(next, i) <=> ActiveTo(bl, i)
  <2> SUFFICES ASSUME NEW i \in 0 .. n PROVE ActiveTo(next, i) <=> ActiveTo(bl, i)
    OBVIOUS
  <2>1. i \in Nat /\ i <= n BY <1>5
  <2>2. QED BY <1>5, <1>6, <2>1, SameActive
<1>8. ActiveTo(next, n + 1) <=> take
  <2>1. ActiveTo(next, n + 1) <=> ActiveTo(next, n) /\ next[n + 1].now /\ ~next[n + 1].before
    BY <1>5, OneMoreActive
  <2>2. QED BY <1>4, <1>5, <1>6, <1>7, <2>1
<1>9. Agree(branchStack', next)
  <2> SUFFICES ASSUME NEW i \in 1 .. n + 1
               PROVE  /\ branchStack'[i].hasElse <=> next[i].closed
                      /\ branchStack'[i].currentActive <=> ActiveTo(next, i)
                      /\ branchStack'[i].anyTaken <=> ActiveTo(next, i - 1) /\ (next[i].before \/ next[i].now)
    BY <1>6 DEF Agree
  <2>1. CASE i = n + 1
    <3>1. i - 1 = n BY <1>5, <2>1
    <3>2. ActiveTo(next, i - 1) <=> around BY <1>4, <1>5, <1>7, <3>1
    <3>3. ~b.before /\ ~b.closed /\ (b.now <=> Holds(t, meant))
      BY DEF Holds
    <3>4. ~e.hasElse /\ (e.currentActive <=> take) /\ (e.anyTaken <=> take)
      BY DEF Entry
    <3> HIDE DEF b, e
    <3>5. QED BY <1>6, <1>8, <2>1, <3>2, <3>3, <3>4
  <2>2. CASE i # n + 1
    <3>1. i \in 1 .. n /\ i - 1 \in 0 .. n /\ i \in 0 .. n BY <1>5, <2>2
    <3>2. QED BY <1>6, <1>7, <3>1 DEF Agree
  <2>3. QED BY <2>1, <2>2
<1>10. QED BY <1>1, <1>2, <1>6, <1>8, <1>9

\* `elsif and `else: another branch takes the place of the innermost one on both sides.
LEMMA ElseFollows ==
  ASSUME NEW bl \in Seq(Reading), branchStack \in Seq(BranchState), Agree(branchStack, bl),
         NEW holds \in BOOLEAN, NEW last \in BOOLEAN,
         bl # <<>>, ~Last(bl).closed, ShouldTakeElse(holds, last)
  PROVE  LET next == Append(Front(bl), Branch(Last(bl), holds, last))
         IN  /\ next \in Seq(Reading) /\ branchStack' \in Seq(BranchState)
             /\ Agree(branchStack', next)
             /\ skipping' <=> ~ActiveTo(next, Len(next))
<1> DEFINE n      == Len(bl)
           b      == Branch(Last(bl), holds, last)
           next   == Append(Front(bl), b)
           entry  == branchStack[n]
           around == n = 1 \/ branchStack[n - 1].currentActive
           taken  == ~entry.anyTaken /\ around /\ holds
           e      == Entry(taken, entry.anyTaken \/ taken, last)
<1>1. n \in Nat \ {0} /\ Len(branchStack) = n /\ Last(bl) = bl[n] /\ bl[n] \in Reading
  <2>1. Len(bl) \in Nat \ {0} /\ Last(bl) = bl[Len(bl)] /\ Last(bl) \in Reading
    BY FrontOf
  <2>2. Len(branchStack) = Len(bl)
    BY DEF Agree
  <2>3. QED BY <2>1, <2>2
<1>2. branchStack # <<>> /\ entry \in BranchState /\ n \in DOMAIN branchStack
  BY <1>1
<1>3. ~entry.hasElse
  BY <1>1 DEF Agree
<1>4. branchStack' = [branchStack EXCEPT ![n] = e] /\ skipping' = ~taken
  BY <1>1, <1>2, <1>3 DEF ShouldTakeElse, EnterBranch
<1>5. b \in Reading /\ e \in BranchState
  BY <1>1 DEF Reading, BranchState, Entry, Branch
<1>6. /\ next \in Seq(Reading) /\ Len(next) = n /\ next[n] = b
      /\ \A i \in 1 .. n - 1 : next[i] = bl[i]
  BY <1>5, LastReplaced
<1> HIDE DEF e, next
<1>7. /\ branchStack' \in Seq(BranchState) /\ Len(branchStack') = n /\ branchStack'[n] = e
      /\ \A i \in 1 .. n - 1 : branchStack'[i] = branchStack[i]
  BY <1>1, <1>2, <1>4, <1>5
<1>8. \A i \in 0 .. n - 1 : ActiveTo(next, i) <=> ActiveTo(bl, i)
  <2> SUFFICES ASSUME NEW i \in 0 .. n - 1 PROVE ActiveTo(next, i) <=> ActiveTo(bl, i)
    OBVIOUS
  <2> DEFINE k == n - 1
  <2>1. i \in Nat /\ k \in Nat /\ i <= k BY <1>1
  <2>2. QED BY <1>6, <2>1, SameActive
<1>9. around <=> ActiveTo(bl, n - 1)
  <2>1. CASE n = 1
    BY <2>1 DEF ActiveTo
  <2>2. CASE n # 1
    <3>1. n - 1 \in 1 .. n BY <1>1, <2>2
    <3>2. QED BY <2>2, <3>1 DEF Agree
  <2>3. QED BY <2>1, <2>2
<1>10. entry.anyTaken <=> ActiveTo(bl, n - 1) /\ (bl[n].before \/ bl[n].now)
  BY <1>1 DEF Agree
<1>11. (b.before <=> bl[n].before \/ bl[n].now) /\ (b.now <=> holds) /\ (b.closed <=> last)
  BY <1>1 DEF Branch
<1>12. (e.hasElse <=> last) /\ (e.currentActive <=> taken) /\ (e.anyTaken <=> entry.anyTaken \/ taken)
  BY DEF e, Entry
<1> HIDE DEF b, entry, around
<1>13. ActiveTo(next, n) <=> taken
  <2>1. n - 1 \in Nat /\ (n - 1) + 1 = n BY <1>1
  <2>2. ActiveTo(next, n) <=> ActiveTo(next, n - 1) /\ next[n].now /\ ~next[n].before
    BY <2>1, OneMoreActive
  <2>3. ActiveTo(next, n - 1) <=> ActiveTo(bl, n - 1)
    BY <1>1, <1>8
  <2>4. QED BY <1>6, <1>9, <1>10, <1>11, <2>2, <2>3
<1>14. Agree(branchStack', next)
  <2> SUFFICES ASSUME NEW i \in 1 .. n
               PROVE  /\ branchStack'[i].hasElse <=> next[i].closed
                      /\ branchStack'[i].currentActive <=> ActiveTo(next, i)
                      /\ branchStack'[i].anyTaken <=> ActiveTo(next, i - 1) /\ (next[i].before \/ next[i].now)
    BY <1>6, <1>7 DEF Agree
  <2>1. CASE i = n
    <3>1. ActiveTo(next, i - 1) <=> around BY <1>1, <1>8, <1>9, <2>1
    <3>2. QED BY <1>6, <1>7, <1>9, <1>10, <1>11, <1>12, <1>13, <2>1, <3>1
  <2>2. CASE i # n
    <3>1. i \in 1 .. n - 1 /\ i - 1 \in 0 .. n - 1 /\ i \in 0 .. n - 1 BY <1>1, <2>2
    <3>2. QED BY <1>6, <1>7, <1>8, <3>1 DEF Agree
  <2>3. QED BY <2>1, <2>2
<1>15. QED BY <1>4, <1>6, <1>7, <1>13, <1>14 DEF next, b

\* `endif: the innermost branch goes on both sides.
LEMMA EndIfFollows ==
  ASSUME NEW bl \in Seq(Reading), branchStack \in Seq(BranchState), Agree(branchStack, bl),
         bl # <<>>, HandleEndIf
  PROVE  /\ Front(bl) \in Seq(Reading) /\ branchStack' \in Seq(BranchState)
         /\ Agree(branchStack', Front(bl))
         /\ skipping' <=> ~ActiveTo(Front(bl), Len(Front(bl)))
<1> DEFINE n    == Len(bl)
           next == Front(bl)
           rest == Front(branchStack)
<1>1. n \in Nat \ {0} /\ Len(branchStack) = n
  BY FrontOf DEF Agree
<1>2. branchStack # <<>>
  BY <1>1
<1>3. /\ next \in Seq(Reading) /\ Len(next) = n - 1
      /\ \A i \in 1 .. n - 1 : next[i] = bl[i]
  BY FrontOf
<1>4. /\ rest \in Seq(BranchState) /\ Len(rest) = n - 1
      /\ \A i \in 1 .. n - 1 : rest[i] = branchStack[i]
  BY <1>1, <1>2, FrontOf
<1>5. branchStack' = rest /\ skipping' = ~(rest = <<>> \/ Last(rest).currentActive)
  BY <1>2 DEF HandleEndIf, EnterBranch
<1> HIDE DEF next, rest
<1>6. \A i \in 0 .. n - 1 : ActiveTo(next, i) <=> ActiveTo(bl, i)
  <2> SUFFICES ASSUME NEW i \in 0 .. n - 1 PROVE ActiveTo(next, i) <=> ActiveTo(bl, i)
    OBVIOUS
  <2> DEFINE k == n - 1
  <2>1. i \in Nat /\ k \in Nat /\ i <= k BY <1>1
  <2>2. QED BY <1>3, <2>1, SameActive
<1>7. Agree(branchStack', next)
  <2> SUFFICES ASSUME NEW i \in 1 .. n - 1
               PROVE  /\ rest[i].hasElse <=> next[i].closed
                      /\ rest[i].currentActive <=> ActiveTo(next, i)
                      /\ rest[i].anyTaken <=> ActiveTo(next, i - 1) /\ (next[i].before \/ next[i].now)
    BY <1>3, <1>4, <1>5 DEF Agree
  <2>1. i \in 1 .. n /\ i - 1 \in 0 .. n - 1 /\ i \in 0 .. n - 1 BY <1>1
  <2>2. QED BY <1>3, <1>4, <1>6, <2>1 DEF Agree
<1>8. (rest = <<>> \/ Last(rest).currentActive) <=> ActiveTo(next, n - 1)
  <2>1. CASE rest = <<>>
    <3>1. n - 1 = 0 BY <1>4, <2>1, EmptySeq
    <3>2. ActiveTo(next, 0) BY DEF ActiveTo
    <3>3. QED BY <2>1, <3>1, <3>2
  <2>2. CASE rest # <<>>
    <3>1. Last(rest) = rest[Len(rest)] /\ Len(rest) \in Nat \ {0}
      BY <1>4, <2>2, FrontOf
    <3>2. n - 1 \in 1 .. n - 1 BY <1>1, <1>4, <3>1
    <3>3. rest[n - 1].currentActive <=> ActiveTo(next, n - 1)
      BY <1>3, <1>5, <1>7, <3>2 DEF Agree
    <3>4. QED BY <1>4, <2>2, <3>1, <3>3
  <2>3. QED BY <2>1, <2>2
<1>9. QED BY <1>3, <1>4, <1>5, <1>7, <1>8 DEF next

\* What the standard's reading and the open branches hold.
LEMMA TypesOfBranches ==
  ASSUME PreprocessorType
  PROVE  branchStack \in Seq(BranchState) /\ blocks \in Seq(Reading)
BY DEF PreprocessorType, PreprocessorTypeOK, BranchState

\* Whatever the conditional directive, carrying it out where both sides agree before it
\* makes them agree behind it, and text is skipped exactly where it is not active.
LEMMA DecidedRight ==
  ASSUME NEW bl \in Seq(Reading), NEW t \in Conditionals, branchStack \in Seq(BranchState),
         Agree(branchStack, bl), Legal(bl, t), macros = meant,
         CASE t.kind = "else"  -> ShouldTakeElse(TRUE, TRUE)
           [] t.kind = "endif" -> HandleEndIf
           [] OTHER -> Decide(t)
  PROVE  /\ Follow(bl, t) \in Seq(Reading) /\ branchStack' \in Seq(BranchState)
         /\ Agree(branchStack', Follow(bl, t))
         /\ skipping' <=> ~ActiveTo(Follow(bl, t), Len(Follow(bl, t)))
<1>1. t.kind \in {"ifdef", "ifndef", "elsif", "else", "endif"}
  BY DEF Conditionals, Conditions
<1>2. CASE t.kind \in {"ifdef", "ifndef"}
  <2>1. HandleIfDef(t) BY <1>2 DEF Decide
  <2>2. QED BY <1>2, <2>1, IfDefFollows
<1>3. CASE t.kind = "elsif"
  <2>1. bl # <<>> /\ ~Last(bl).closed BY <1>3 DEF Legal
  <2>2. ShouldTakeElse(EvalConditionalExpr(t), FALSE) /\ ~(t.kind = "ifndef")
    BY <1>3 DEF Decide
  <2>3. CASE t.name \in meant
    <3>1. EvalConditionalExpr(t) = TRUE /\ Holds(t, meant) = TRUE
      BY <2>2, <2>3 DEF EvalConditionalExpr, Holds
    <3>2. ShouldTakeElse(TRUE, FALSE) BY <2>2, <3>1
    <3>3. Follow(bl, t) = Append(Front(bl), Branch(Last(bl), TRUE, FALSE))
      BY <1>3, <3>1 DEF Follow
    <3>4. QED BY <2>1, <3>2, <3>3, ElseFollows
  <2>4. CASE t.name \notin meant
    <3>1. EvalConditionalExpr(t) = FALSE /\ Holds(t, meant) = FALSE
      BY <2>2, <2>4 DEF EvalConditionalExpr, Holds
    <3>2. ShouldTakeElse(FALSE, FALSE) BY <2>2, <3>1
    <3>3. Follow(bl, t) = Append(Front(bl), Branch(Last(bl), FALSE, FALSE))
      BY <1>3, <3>1 DEF Follow
    <3>4. QED BY <2>1, <3>2, <3>3, ElseFollows
  <2>5. QED BY <2>3, <2>4
<1>4. CASE t.kind = "else"
  <2>1. bl # <<>> /\ ~Last(bl).closed BY <1>4 DEF Legal
  <2>2. ShouldTakeElse(TRUE, TRUE) BY <1>4
  <2>3. Follow(bl, t) = Append(Front(bl), Branch(Last(bl), TRUE, TRUE))
    BY <1>4 DEF Follow
  <2>4. QED BY <2>1, <2>2, <2>3, ElseFollows
<1>5. CASE t.kind = "endif"
  <2>1. bl # <<>> BY <1>5 DEF Legal
  <2>2. HandleEndIf BY <1>5
  <2>3. Follow(bl, t) = Front(bl) BY <1>5 DEF Follow
  <2>4. QED BY <2>1, <2>2, <2>3, EndIfFollows
<1>6. QED BY <1>1, <1>2, <1>3, <1>4, <1>5

\* Reading a conditional directive: it is legal, unless the text is not in order.
LEMMA ReadsConditional ==
  ASSUME NEW t \in Conditionals, Read(t), ~malformed', malformed \in BOOLEAN
  PROVE  ~malformed /\ Legal(blocks, t) /\ blocks' = Follow(blocks, t) /\ meant' = meant
<1>1. t.kind \in {"ifdef", "ifndef", "elsif", "else", "endif"}
  BY DEF Conditionals, Conditions
<1>2. ~malformed /\ Legal(blocks, t)
  BY <1>1 DEF Read, Legal
<1>3. meant' = meant
  BY <1>1 DEF Read
<1>4. blocks' = Follow(blocks, t)
  BY <1>1, <1>2 DEF Read, Legal, Follow
<1>5. QED BY <1>2, <1>3, <1>4

\* Reading anything else.
LEMMA ReadsOther ==
  ASSUME NEW t \in PlainTokens \cup Directives \cup {EndOfFile}, Read(t), malformed \in BOOLEAN
  PROVE  /\ malformed' = malformed /\ blocks' = blocks
         /\ t \notin Directives \/ ~Active => meant' = meant
         /\ t.kind = "define" /\ Active => meant' = meant \cup {t.name}
         /\ t.kind = "undef" /\ Active => meant' = meant \ {t.name}
         /\ t.kind = "include" => meant' = meant
<1>1. t.kind \in {"token", "eof", "define", "undef", "include"}
  BY DEF PlainTokens, Directives, EndOfFile
<1>2. t \notin Directives => t.kind \in {"token", "eof"}
  BY DEF PlainTokens, EndOfFile
<1>3. malformed' = malformed /\ blocks' = blocks
  BY <1>1 DEF Read
<1>4. QED BY <1>1, <1>2, <1>3 DEF Read

\* The pieces of text differ in their kinds.
LEMMA Kinds ==
  /\ \A t \in Conditionals : t.kind \in {"ifdef", "ifndef", "elsif", "else", "endif"}
  /\ \A t \in Conditions : t.kind \in {"ifdef", "ifndef", "elsif"}
  /\ \A t \in Directives : t.kind \in {"define", "undef", "include"} /\ t.active \in BOOLEAN
                           /\ (t.kind # "include" => t.name \in MacroNames)
  /\ \A t \in PlainTokens : t.kind = "token" /\ t.active \in BOOLEAN
  /\ NoItem.kind = "none" /\ EndOfFile.kind = "eof"
<1>1. \A t \in Conditions : t.kind \in {"ifdef", "ifndef", "elsif"}
  BY DEF Conditions
<1>2. \A t \in Conditionals : t.kind \in {"ifdef", "ifndef", "elsif", "else", "endif"}
  BY <1>1 DEF Conditionals
<1>3. \A t \in PlainTokens : t.kind = "token" /\ t.active \in BOOLEAN
  BY DEF PlainTokens
<1>4. ASSUME NEW t \in Directives
      PROVE  /\ t.kind \in {"define", "undef", "include"} /\ t.active \in BOOLEAN
             /\ t.kind # "include" => t.name \in MacroNames
  <2>1. CASE t \in [kind : {"define", "undef"}, name : MacroNames, active : BOOLEAN]
    BY <2>1
  <2>2. CASE t \in [kind : {"include"}, active : BOOLEAN]
    BY <2>2
  <2>3. QED BY <2>1, <2>2 DEF Directives
<1>5. QED BY <1>1, <1>2, <1>3, <1>4 DEF NoItem, EndOfFile

\* A stack of branches as the types have it.
Stacks == {s \in Seq(BranchState) : \A i \in DOMAIN s : s[i].currentActive => s[i].anyTaken}

\* Carrying out a conditional directive keeps the stack of its type.
LEMMA StackKept ==
  ASSUME branchStack \in Stacks, NEW t,
         \/ HandleIfDef(t) \/ HandleEndIf
         \/ \E holds, last \in BOOLEAN : ShouldTakeElse(holds, last)
  PROVE  branchStack' \in Stacks /\ skipping' \in BOOLEAN
<1>1. branchStack \in Seq(BranchState) /\ \A i \in DOMAIN branchStack :
        branchStack[i].currentActive => branchStack[i].anyTaken
  BY DEF Stacks
<1>2. CASE HandleIfDef(t)
  <2> DEFINE take == /\ branchStack = <<>> \/ Last(branchStack).currentActive
                     /\ EvalConditionalExpr(t) # (t.kind = "ifndef")
             e == Entry(take, take, FALSE)
  <2>1. branchStack' = Append(branchStack, e) /\ skipping' = ~take
    BY <1>2 DEF HandleIfDef, EnterBranch
  <2>2. e \in BranchState /\ (e.currentActive => e.anyTaken)
    BY DEF Entry, BranchState
  <2> HIDE DEF e
  <2>3. branchStack' \in Seq(BranchState) /\ DOMAIN branchStack' = 1 .. Len(branchStack) + 1
    BY <1>1, <2>1, <2>2
  <2>4. \A i \in DOMAIN branchStack' : branchStack'[i] = e \/ (i \in DOMAIN branchStack /\ branchStack'[i] = branchStack[i])
    <3>1. Len(branchStack) \in Nat /\ branchStack'[Len(branchStack) + 1] = e
          /\ \A i \in 1 .. Len(branchStack) : branchStack'[i] = branchStack[i]
      BY <1>1, <2>1, <2>2, AppendProperties
    <3>2. \A i \in DOMAIN branchStack' : i = Len(branchStack) + 1 \/ i \in 1 .. Len(branchStack)
      BY <2>3, <3>1
    <3>3. DOMAIN branchStack = 1 .. Len(branchStack)
      BY <1>1
    <3> SUFFICES ASSUME NEW i \in DOMAIN branchStack'
                 PROVE  branchStack'[i] = e \/ (i \in DOMAIN branchStack /\ branchStack'[i] = branchStack[i])
      OBVIOUS
    <3>4. CASE i = Len(branchStack) + 1
      BY <3>1, <3>4
    <3>5. CASE i \in 1 .. Len(branchStack)
      BY <3>1, <3>3, <3>5
    <3>6. QED BY <3>2, <3>4, <3>5
  <2>5. QED BY <1>1, <2>1, <2>2, <2>3, <2>4 DEF Stacks
<1>3. CASE HandleEndIf
  <2>1. CASE branchStack = <<>>
    BY <1>1, <1>3, <2>1 DEF HandleEndIf, EnterBranch, Stacks
  <2>2. CASE branchStack # <<>>
    <3>1. branchStack' = Front(branchStack) /\ skipping' \in BOOLEAN
      BY <1>3, <2>2 DEF HandleEndIf, EnterBranch
    <3>2. /\ branchStack' \in Seq(BranchState) /\ DOMAIN branchStack' = 1 .. Len(branchStack) - 1
          /\ \A i \in 1 .. Len(branchStack) - 1 : branchStack'[i] = branchStack[i]
          /\ Len(branchStack) \in Nat
      BY <1>1, <2>2, <3>1, FrontOf
    <3>3. \A i \in DOMAIN branchStack' : i \in DOMAIN branchStack /\ branchStack'[i] = branchStack[i]
      BY <1>1, <3>2
    <3>4. QED BY <1>1, <3>1, <3>2, <3>3 DEF Stacks
  <2>3. QED BY <2>1, <2>2
<1>4. ASSUME NEW holds \in BOOLEAN, NEW last \in BOOLEAN, ShouldTakeElse(holds, last)
      PROVE  branchStack' \in Stacks /\ skipping' \in BOOLEAN
  <2> DEFINE n     == Len(branchStack)
             entry == branchStack[n]
             taken == /\ ~entry.anyTaken
                      /\ n = 1 \/ branchStack[n - 1].currentActive
                      /\ holds
             e     == Entry(taken, entry.anyTaken \/ taken, last)
  <2>1. CASE branchStack = <<>> \/ entry.hasElse
    BY <1>1, <1>4, <2>1 DEF ShouldTakeElse, EnterBranch, Stacks
  <2>2. CASE ~(branchStack = <<>> \/ entry.hasElse)
    <3>1. branchStack' = [branchStack EXCEPT ![n] = e] /\ skipping' = ~taken
      BY <1>4, <2>2 DEF ShouldTakeElse, EnterBranch
    <3>2. e \in BranchState /\ (e.currentActive => e.anyTaken)
      BY DEF Entry, BranchState
    <3> HIDE DEF e
    <3>3. n \in DOMAIN branchStack
      BY <1>1, <2>2
    <3> HIDE DEF n
    <3>4. branchStack' \in Seq(BranchState) /\ \A i \in DOMAIN branchStack' :
            branchStack'[i] = e \/ (i \in DOMAIN branchStack /\ branchStack'[i] = branchStack[i])
      <4>1. branchStack' \in Seq(BranchState)
        BY <1>1, <3>1, <3>2, <3>3
      <4>2. DOMAIN branchStack' = DOMAIN branchStack
        BY <1>1, <3>1, <3>3
      <4>3. \A i \in DOMAIN branchStack : branchStack'[i] = IF i = n THEN e ELSE branchStack[i]
        BY <1>1, <3>1, <3>3
      <4>4. QED BY <4>1, <4>2, <4>3
    <3>5. QED BY <1>1, <3>1, <3>2, <3>4 DEF Stacks
  <2>3. QED BY <2>1, <2>2
<1>5. QED BY <1>2, <1>3, <1>4

\* Reading the next piece of text keeps the types.
LEMMA RawKept ==
  ASSUME PreprocessorType, NEW t \in Conditionals \cup PlainTokens \cup Directives \cup {EndOfFile},
         NextRaw(t)
  PROVE  /\ lexers' \in 0 .. MaxIncludeDepth + 1
         /\ includeDepth' = IF lexers' = 0 THEN 0 ELSE lexers' - 1
         /\ blocks' \in Seq(Reading) /\ meant' \subseteq MacroNames /\ malformed' \in BOOLEAN
<1>1. CASE currentToken # NoItem
  BY <1>1 DEF PreprocessorType, PreprocessorTypeOK, NextRaw
<1>2. CASE currentToken = NoItem
  <2>1. /\ Read(t) /\ includeDepth' = includeDepth
        /\ lexers' = lexers \/ (lexers = 1 /\ lexers' = 0)
    <3>1. Read(t) BY <1>2 DEF NextRaw
    <3>2. UNCHANGED includeDepth BY <1>2 DEF NextRaw
    <3>3. IF t = EndOfFile THEN lexers = 1 /\ lexers' = 0 ELSE UNCHANGED lexers
      BY <1>2 DEF NextRaw
    <3>4. lexers' = lexers \/ (lexers = 1 /\ lexers' = 0)
      <4>1. CASE t = EndOfFile BY <3>3, <4>1
      <4>2. CASE t # EndOfFile BY <3>3, <4>2
      <4>3. QED BY <4>1, <4>2
    <3>5. QED BY <3>1, <3>2, <3>4
  <2>2. /\ lexers' \in 0 .. MaxIncludeDepth + 1
        /\ includeDepth' = IF lexers' = 0 THEN 0 ELSE lexers' - 1
    BY <2>1, PreprocessorAssumption DEF PreprocessorType, PreprocessorTypeOK
  <2>3. blocks \in Seq(Reading) /\ malformed \in BOOLEAN /\ meant \subseteq MacroNames
    BY DEF PreprocessorType
  <2>4. CASE t \in Conditionals
    <3>1. meant' = meant
      BY <2>1, <2>4, Kinds DEF Read
    <3>2. malformed' \in BOOLEAN
      BY <2>1 DEF Read
    <3>3. blocks' \in Seq(Reading)
      <4>1. \A b, closed \in BOOLEAN : [before |-> FALSE, now |-> b, closed |-> closed] \in Reading
        BY DEF Reading
      <4>2. Holds(t, meant) \in BOOLEAN
        BY DEF Holds
      <4>3. CASE t.kind \in {"ifdef", "ifndef"}
        <5>1. blocks' = Append(blocks, [before |-> FALSE, now |-> Holds(t, meant), closed |-> FALSE])
          BY <2>1, <4>3 DEF Read
        <5>2. [before |-> FALSE, now |-> Holds(t, meant), closed |-> FALSE] \in Reading
          BY <4>2 DEF Reading
        <5>3. QED BY <2>3, <5>1, <5>2, AppendProperties
      <4>4. CASE t.kind \in {"elsif", "else"}
        <5>1. CASE blocks # <<>> /\ ~Last(blocks).closed
          <6>1. \E now, last \in BOOLEAN :
                  blocks' = Append(Front(blocks), Branch(Last(blocks), now, last))
            BY <2>1, <4>2, <4>4, <5>1 DEF Read
          <6>2. \A now, last \in BOOLEAN : Branch(Last(blocks), now, last) \in Reading
            BY <2>3, <5>1, FrontOf DEF Branch, Reading
          <6>3. QED BY <2>3, <5>1, <6>1, <6>2, LastReplaced
        <5>2. CASE ~(blocks # <<>> /\ ~Last(blocks).closed)
          <6>1. blocks' = blocks BY <2>1, <4>4, <5>2 DEF Read
          <6>2. QED BY <2>3, <6>1
        <5>3. QED BY <5>1, <5>2
      <4>5. CASE t.kind = "endif"
        <5>1. blocks' = blocks \/ (blocks # <<>> /\ blocks' = Front(blocks))
          <6>1. CASE blocks = <<>>
            BY <2>1, <4>5, <6>1 DEF Read
          <6>2. CASE blocks # <<>>
            BY <2>1, <4>5, <6>2 DEF Read
          <6>3. QED BY <6>1, <6>2
        <5>2. QED BY <2>3, <5>1, FrontOf
      <4>6. QED BY <2>4, <4>3, <4>4, <4>5, Kinds
    <3>4. QED BY <2>2, <2>3, <3>1, <3>2, <3>3
  <2>5. CASE t \notin Conditionals
    <3>1. t \in PlainTokens \cup Directives \cup {EndOfFile}
      BY <2>5
    <3>2. malformed' = malformed /\ blocks' = blocks
      BY <2>1, <2>3, <3>1, ReadsOther
    <3>3. meant' \subseteq MacroNames
      BY <2>1, <2>3, <3>1, Kinds DEF Read
    <3>4. QED BY <2>2, <2>3, <3>2, <3>3
  <2>6. QED BY <2>4, <2>5
<1>3. QED BY <1>1, <1>2

\* What is read, carried out and read ahead keeps its type.
LEMMA StepTypes ==
  ASSUME PreprocessorType, [PreprocessorNext]_preprocessorVars
  PROVE  PreprocessorType'
<1> USE DEF PreprocessorType, PreprocessorTypeOK
<1>1. branchStack \in Stacks /\ \A s : s \in Stacks => s \in Seq(BranchState)
  BY DEF Stacks, BranchState
<1> DEFINE Read_ == /\ lexers' \in 0 .. MaxIncludeDepth + 1
                    /\ includeDepth' = IF lexers' = 0 THEN 0 ELSE lexers' - 1
                    /\ blocks' \in Seq(Reading) /\ meant' \subseteq MacroNames /\ malformed' \in BOOLEAN
           Stack_ == /\ branchStack' \in Seq([currentActive : BOOLEAN, anyTaken : BOOLEAN, hasElse : BOOLEAN])
                     /\ \A i \in DOMAIN branchStack' :
                          branchStack'[i].currentActive => branchStack'[i].anyTaken
           Rest_ == /\ macros' \in SUBSET MacroNames
                    /\ currentToken' \in Conditionals \cup PlainTokens \cup {NoItem, EndOfFile}
                    /\ handlers' \in Seq(Conditions)
                    /\ looping' \in BOOLEAN /\ skipping' \in BOOLEAN /\ early' \in BOOLEAN
                    /\ fate' \in [done : BOOLEAN, active : BOOLEAN]
<1>2. Read_ /\ Stack_ /\ Rest_ => PreprocessorType'
  OBVIOUS
<1>3. branchStack' \in Stacks => Stack_
  BY DEF Stacks, BranchState
<1>4. branchStack' = branchStack => Stack_
  BY <1>1, <1>3
<1> HIDE DEF Read_, Stack_, PreprocessorType, PreprocessorTypeOK
<1>5. ASSUME NEW t \in Conditions, Decide(t) PROVE Stack_ /\ skipping' \in BOOLEAN
  <2>1. EvalConditionalExpr(t) \in BOOLEAN
    BY DEF EvalConditionalExpr
  <2>2. HandleIfDef(t) \/ \E holds, last \in BOOLEAN : ShouldTakeElse(holds, last)
    BY <1>5, <2>1 DEF Decide
  <2>3. QED BY <1>1, <1>3, <2>2, StackKept
<1>6. ASSUME NEW t \in Conditionals, HandleConditional(t) PROVE PreprocessorType'
  <2>1. Read_
    BY <1>6, RawKept DEF HandleConditional, Read_
  <2>2. HandleIfDef(t) \/ HandleEndIf \/ \E holds, last \in BOOLEAN : ShouldTakeElse(holds, last)
    <3>1. EvalConditionalExpr(t) \in BOOLEAN
      BY DEF EvalConditionalExpr
    <3>2. QED BY <1>6, <3>1 DEF HandleConditional, Decide
  <2>3. Stack_ /\ skipping' \in BOOLEAN
    BY <1>1, <1>3, <2>2, StackKept
  <2>4. Rest_
    BY <1>6, <2>3 DEF HandleConditional, PreprocessorType, PreprocessorTypeOK
  <2>5. QED BY <1>2, <2>1, <2>3, <2>4
<1>7. ASSUME NEW t \in Conditionals, ParseCondition(t) PROVE PreprocessorType'
  <2>1. Read_
    BY <1>7, RawKept DEF ParseCondition, Read_
  <2>2. Rest_
    <3>1. handlers' \in Seq(Conditions)
      BY <1>7 DEF ParseCondition, PreprocessorType, PreprocessorTypeOK
    <3>2. looping' = FALSE /\ currentToken' = NoItem /\ UNCHANGED <<macros, skipping, early, fate>>
      BY <1>7 DEF ParseCondition
    <3>3. QED BY <3>1, <3>2 DEF PreprocessorType, PreprocessorTypeOK
  <2>3. Stack_
    BY <1>4, <1>7 DEF ParseCondition
  <2>4. QED BY <1>2, <2>1, <2>2, <2>3
<1>8. ASSUME NEW t \in Conditionals \cup PlainTokens \cup {EndOfFile}, PeekEnds(t) PROVE PreprocessorType'
  <2>1. Read_
    BY <1>8, RawKept DEF PeekEnds, Read_
  <2>2. Last(handlers) \in Conditions /\ Front(handlers) \in Seq(Conditions)
    BY <1>8, FrontOf DEF PeekEnds, PreprocessorType, PreprocessorTypeOK
  <2>3. Stack_ /\ skipping' \in BOOLEAN
    BY <1>5, <1>8, <2>2 DEF PeekEnds
  <2>4. Rest_
    BY <1>8, <2>2, <2>3 DEF PeekEnds, PreprocessorType, PreprocessorTypeOK
  <2>5. QED BY <1>2, <2>1, <2>3, <2>4
<1>9. ASSUME NEW t \in Directives, HandleDirective(t) PROVE PreprocessorType'
  <2>1. Read_
    BY <1>9, RawKept DEF HandleDirective, Read_
  <2>2. macros' \in SUBSET MacroNames
    BY <1>9, Kinds DEF HandleDirective, PreprocessorType, PreprocessorTypeOK
  <2>3. fate' \in [done : BOOLEAN, active : BOOLEAN]
    BY <1>9, Kinds DEF HandleDirective, Meets
  <2>4. looping' \in BOOLEAN /\ early' \in BOOLEAN
    BY <1>9 DEF HandleDirective, PreprocessorType
  <2>5. Rest_
    BY <1>9, <2>2, <2>3, <2>4 DEF HandleDirective, PreprocessorType, PreprocessorTypeOK
  <2>6. Stack_
    BY <1>4, <1>9 DEF HandleDirective
  <2>7. QED BY <1>2, <2>1, <2>5, <2>6
<1>10. ASSUME NEW t \in Directives, HandleInclude(t) PROVE PreprocessorType'
  <2>1. Read_
    <3>1. /\ lexers \in 0 .. MaxIncludeDepth + 1 /\ lexers > 0 /\ includeDepth = lexers - 1
          /\ IF includeDepth >= MaxIncludeDepth THEN UNCHANGED <<lexers, includeDepth>>
             ELSE lexers' = lexers + 1 /\ includeDepth' = includeDepth + 1
      BY <1>10 DEF HandleInclude, PreprocessorType, PreprocessorTypeOK
    <3>2. lexers' \in 0 .. MaxIncludeDepth + 1 /\ lexers' > 0 /\ includeDepth' = lexers' - 1
      BY <3>1, PreprocessorAssumption
    <3>3. UNCHANGED <<blocks, meant, malformed>>
      BY <1>10 DEF HandleInclude
    <3>4. blocks' \in Seq(Reading) /\ meant' \subseteq MacroNames /\ malformed' \in BOOLEAN
      BY <3>3 DEF PreprocessorType
    <3>5. includeDepth' = IF lexers' = 0 THEN 0 ELSE lexers' - 1
      <4>1. lexers' # 0 BY <3>1, PreprocessorAssumption
      <4>2. QED BY <3>2, <4>1
    <3>6. QED BY <3>2, <3>4, <3>5 DEF Read_
  <2>2. fate' \in [done : BOOLEAN, active : BOOLEAN]
    BY <1>10, Kinds DEF HandleInclude, Meets
  <2>3. looping' \in BOOLEAN /\ early' \in BOOLEAN
    BY <1>10 DEF HandleInclude, PreprocessorType
  <2>4. Rest_
    BY <1>10, <2>2, <2>3 DEF HandleInclude, PreprocessorType, PreprocessorTypeOK
  <2>5. Stack_
    BY <1>4, <1>10 DEF HandleInclude
  <2>6. QED BY <1>2, <2>1, <2>4, <2>5
<1>11. ASSUME NEW t \in PlainTokens \cup Directives, \/ t \in PlainTokens /\ EmitToken(t)
                                                     \/ Skip(t)
       PROVE  PreprocessorType'
  <2>1. Read_
    BY <1>11, RawKept DEF EmitToken, Skip, Read_
  <2>2. fate' \in [done : BOOLEAN, active : BOOLEAN]
    <3>1. t.active \in BOOLEAN
      BY Kinds
    <3>2. Meets(t, TRUE) \/ Meets(t, FALSE)
      BY <1>11 DEF EmitToken, Skip
    <3>3. ASSUME NEW acts \in BOOLEAN, Meets(t, acts) PROVE fate' \in [done : BOOLEAN, active : BOOLEAN]
      BY <3>1, <3>3 DEF Meets
    <3>4. QED BY <3>2, <3>3
  <2>3. Rest_
    BY <1>11, <2>2 DEF EmitToken, Skip, PreprocessorType, PreprocessorTypeOK
  <2>4. Stack_
    BY <1>4, <1>11 DEF EmitToken, Skip
  <2>5. QED BY <1>2, <2>1, <2>3, <2>4
<1>12. ASSUME NEW t \in Conditionals \cup {EndOfFile}, SkipEnds(t) PROVE PreprocessorType'
  <2>1. Read_
    BY <1>12, RawKept DEF SkipEnds, Read_
  <2>2. Rest_
    BY <1>12 DEF SkipEnds, PreprocessorType, PreprocessorTypeOK
  <2>3. Stack_
    BY <1>4, <1>12 DEF SkipEnds
  <2>4. QED BY <1>2, <2>1, <2>2, <2>3
<1>13. CASE EndOfInclude
  <2>1. Read_
    <3>1. /\ lexers \in 0 .. MaxIncludeDepth + 1 /\ lexers > 1 /\ includeDepth = lexers - 1
          /\ lexers' = lexers - 1 /\ includeDepth' = includeDepth - 1
      BY <1>13 DEF EndOfInclude, PreprocessorType, PreprocessorTypeOK
    <3>2. lexers' \in 0 .. MaxIncludeDepth + 1 /\ lexers' > 0 /\ includeDepth' = lexers' - 1
      BY <3>1, PreprocessorAssumption
    <3>3. QED BY <1>13, <3>2 DEF EndOfInclude, PreprocessorType, Read_
  <2>2. Rest_
    BY <1>13 DEF EndOfInclude, controlVars, PreprocessorType, PreprocessorTypeOK
  <2>3. Stack_
    BY <1>4, <1>13 DEF EndOfInclude
  <2>4. QED BY <1>2, <2>1, <2>2, <2>3
<1>14. CASE UNCHANGED preprocessorVars
  BY <1>14 DEF preprocessorVars, PreprocessorType, PreprocessorTypeOK
<1>15. QED
  BY <1>6, <1>7, <1>8, <1>9, <1>10, <1>11, <1>12, <1>13, <1>14 DEF PreprocessorNext

\* The text read so far is active if all its branches are.
LEMMA WholeActive ==
  ASSUME NEW bl \in Seq(Reading)
  PROVE  (\A i \in DOMAIN bl : bl[i].now /\ ~bl[i].before) <=> ActiveTo(bl, Len(bl))
BY DEF ActiveTo

\* A conditional directive is next, new or read ahead, while nobody peeks; it is legal,
\* and both sides agree on the text before it.
LEMMA NextIsBehind ==
  ASSUME PreprocessorType, InOrder, handlers = <<>>, NEW t \in Conditionals, NextRaw(t), ~malformed'
  PROVE  \E bl \in Seq(Reading) :
           Agree(branchStack, bl) /\ Legal(bl, t) /\ blocks' = Follow(bl, t) /\ meant' = meant
<1>1. CASE currentToken = NoItem
  <2>1. Read(t) BY <1>1 DEF NextRaw
  <2>2. Agree(branchStack, blocks)
    <3>1. currentToken \notin Conditionals BY <1>1, Kinds
    <3>2. QED BY <3>1 DEF InOrder
  <2>3. Legal(blocks, t) /\ blocks' = Follow(blocks, t) /\ meant' = meant
    BY <2>1, ReadsConditional DEF PreprocessorType
  <2>4. QED BY <2>2, <2>3, TypesOfBranches
<1>2. CASE currentToken # NoItem
  <2>1. t = currentToken /\ blocks' = blocks /\ meant' = meant
    BY <1>2 DEF NextRaw
  <2>2. Behind(t)
    BY <2>1 DEF InOrder
  <2>3. QED BY <2>1, <2>2 DEF Behind
<1>3. QED BY <1>1, <1>2

\* Something else is next while nobody peeks and nothing conditional is read ahead: it is
\* active if what is not skipped is.
LEMMA NextIsPlain ==
  ASSUME PreprocessorType, InOrder, handlers = <<>>,
         NEW t \in PlainTokens \cup Directives, NextRaw(t)
  PROVE  /\ Agree(branchStack, blocks) /\ (skipping <=> ~Active) /\ (t.active <=> Active)
         /\ blocks' = blocks /\ malformed' = malformed
         /\ currentToken = NoItem => Read(t)
         /\ currentToken # NoItem => t \in PlainTokens /\ meant' = meant
<1>1. t \notin Conditionals \cup {EndOfFile} /\ t # NoItem
  BY Kinds
<1>2. CASE currentToken = NoItem
  <2>1. Read(t) /\ t.active = Active
    BY <1>1, <1>2 DEF NextRaw
  <2>2. currentToken \notin Conditionals /\ currentToken # EndOfFile
    BY <1>2, Kinds
  <2>3. Agree(branchStack, blocks) /\ (skipping <=> ~Active)
    BY <2>2 DEF InOrder
  <2>4. blocks' = blocks /\ malformed' = malformed
    BY <2>1, ReadsOther DEF PreprocessorType
  <2>5. QED BY <1>2, <2>1, <2>3, <2>4
<1>3. CASE currentToken # NoItem
  <2>1. t = currentToken /\ blocks' = blocks /\ malformed' = malformed /\ meant' = meant
    BY <1>3 DEF NextRaw
  <2>2. currentToken \in PlainTokens
    <3>1. currentToken \in Conditionals \cup PlainTokens \cup {NoItem, EndOfFile}
      BY DEF PreprocessorType, PreprocessorTypeOK
    <3>2. QED BY <1>1, <1>3, <2>1, <3>1
  <2>3. QED BY <1>1, <1>3, <2>1, <2>2 DEF InOrder
<1>4. QED BY <1>2, <1>3

\* A conditional directive that needs no peek.
LEMMA ConditionalKeeps ==
  ASSUME PreprocessorType, PreprocessorType', InOrder, NEW t \in Conditionals, HandleConditional(t),
         ~malformed'
  PROVE  InOrder'
<1>1. handlers = <<>>
  BY DEF HandleConditional, InOrder
<1>2. NextRaw(t)
  BY DEF HandleConditional
<1>3. PICK bl \in Seq(Reading) :
        Agree(branchStack, bl) /\ Legal(bl, t) /\ blocks' = Follow(bl, t) /\ meant' = meant
  BY <1>1, <1>2, NextIsBehind
<1>4. Agree(branchStack', blocks') /\ (skipping' <=> ~ActiveTo(blocks', Len(blocks')))
  <2>1. (CASE t.kind = "else"  -> ShouldTakeElse(TRUE, TRUE)
           [] t.kind = "endif" -> HandleEndIf
           [] OTHER -> Decide(t))
    BY DEF HandleConditional
  <2>2. macros = meant BY DEF InOrder
  <2>3. QED BY <1>3, <2>1, <2>2, DecidedRight, TypesOfBranches
<1>5. skipping' <=> ~Active'
  <2>1. blocks' \in Seq(Reading) BY DEF PreprocessorType
  <2>2. QED BY <1>4, <2>1, WholeActive DEF Active
<1>6. currentToken' = NoItem /\ NoItem \notin Conditionals /\ NoItem \notin PlainTokens
      /\ UNCHANGED <<macros, handlers, looping, fate>>
  BY Kinds DEF HandleConditional
<1>7. QED BY <1>1, <1>3, <1>4, <1>5, <1>6 DEF InOrder

\* A condition in parentheses: the handler waits, and both sides agree on the text
\* before its directive.
LEMMA ConditionKeeps ==
  ASSUME PreprocessorType, InOrder, NEW t \in Conditionals, ParseCondition(t), ~malformed'
  PROVE  InOrder'
<1>1. handlers = <<>> /\ NextRaw(t) /\ ~skipping /\ t \in Conditions
  BY DEF ParseCondition, InOrder
<1>2. PICK bl \in Seq(Reading) :
        Agree(branchStack, bl) /\ Legal(bl, t) /\ blocks' = Follow(bl, t) /\ meant' = meant
  BY <1>1, NextIsBehind
<1>3. /\ handlers' = <<t>> /\ looping' = FALSE /\ currentToken' = NoItem
      /\ UNCHANGED <<branchStack, macros, skipping, fate>>
  BY <1>1 DEF ParseCondition
<1>4. Follow(bl, t)' = Follow(bl, t)
  BY <1>2 DEF Follow, Holds
<1>5. Behind(t)'
  BY <1>2, <1>3, <1>4 DEF Behind
<1>6. handlers' # <<>> /\ handlers'[1] = t /\ Len(handlers') = 1
  BY <1>3
<1>7. QED BY <1>1, <1>2, <1>3, <1>5, <1>6 DEF InOrder

\* The peek is over: the directive it was for is decided, and both sides agree behind it;
\* what the peek found is read ahead.
LEMMA PeekKeeps ==
  ASSUME PreprocessorType, PreprocessorType', InOrder,
         NEW t \in Conditionals \cup PlainTokens \cup {EndOfFile}, PeekEnds(t), ~malformed'
  PROVE  InOrder'
<1> DEFINE h == handlers[1]
<1>1. Len(handlers) = 1 /\ handlers \in Seq(Conditions) /\ handlers # <<>>
  <2>1. handlers \in Seq(Conditions) BY DEF PreprocessorType, PreprocessorTypeOK
  <2>2. handlers # <<>> BY DEF PeekEnds
  <2>3. Len(handlers) <= 1 BY DEF InOrder
  <2>4. Len(handlers) \in Nat \ {0} BY <2>1, <2>2, FrontOf
  <2>5. Len(handlers) = 1 BY <2>3, <2>4
  <2>6. QED BY <2>1, <2>2, <2>5
<1>2. Last(handlers) = h /\ h \in Conditions /\ Front(handlers) = <<>>
  <2>1. /\ Front(handlers) \in Seq(Conditions) /\ Len(Front(handlers)) = 0
        /\ Last(handlers) = handlers[1] /\ Last(handlers) \in Conditions
    <3>1. /\ Front(handlers) \in Seq(Conditions) /\ Len(Front(handlers)) = Len(handlers) - 1
          /\ Last(handlers) = handlers[Len(handlers)] /\ Last(handlers) \in Conditions
      BY <1>1, FrontOf
    <3>2. QED BY <1>1, <3>1
  <2>2. QED BY <2>1, EmptySeq
<1>3. handlers' = <<>> /\ looping' = FALSE /\ currentToken' = t /\ UNCHANGED <<macros, fate>>
  <2>1. looping' = (Len(handlers) > 1) /\ handlers' = Front(handlers) /\ currentToken' = t
        /\ UNCHANGED <<macros, fate>>
    BY DEF PeekEnds
  <2>2. (Len(handlers) > 1) = FALSE BY <1>1
  <2>3. QED BY <1>2, <2>1, <2>2
<1>4. currentToken = NoItem /\ Behind(h) /\ macros = meant
  BY <1>1 DEF InOrder
<1>5. Decide(h) /\ NextRaw(t)
  BY <1>2 DEF PeekEnds
<1>6. Read(t) /\ (t \notin Conditionals \cup {EndOfFile} => t.active = Active)
  BY <1>4, <1>5 DEF NextRaw
<1>7. PICK bl \in Seq(Reading) : Agree(branchStack, bl) /\ Legal(bl, h) /\ blocks = Follow(bl, h)
  BY <1>4 DEF Behind
<1> HIDE DEF h
<1>8. Agree(branchStack', blocks) /\ (skipping' <=> ~ActiveTo(blocks, Len(blocks)))
  <2>1. h \in Conditionals /\ h.kind \notin {"else", "endif"}
    BY <1>2, Kinds DEF Conditionals
  <2>2. (CASE h.kind = "else"  -> ShouldTakeElse(TRUE, TRUE)
           [] h.kind = "endif" -> HandleEndIf
           [] OTHER -> Decide(h))
    BY <1>5, <2>1
  <2>3. QED BY <1>4, <1>7, <2>1, <2>2, DecidedRight, TypesOfBranches
<1>9. CASE t \in Conditionals
  <2>1. Legal(blocks, t) /\ blocks' = Follow(blocks, t) /\ meant' = meant
    BY <1>6, <1>9, ReadsConditional DEF PreprocessorType
  <2>2. \E other \in Seq(Reading) :
          Agree(branchStack', other) /\ Legal(other, t) /\ blocks' = Follow(other, t)
    BY <1>8, <2>1, TypesOfBranches
  <2>3. \A other : Follow(other, t)' = Follow(other, t)
    BY <2>1 DEF Follow, Holds
  <2>4. Behind(t)'
    BY <2>2, <2>3 DEF Behind
  <2>5. QED BY <1>3, <1>4, <1>9, <2>1, <2>4 DEF InOrder
<1>10. CASE t \notin Conditionals
  <2>1. blocks' = blocks /\ meant' = meant
    <3>1. t \in PlainTokens \cup {EndOfFile} /\ t \notin Directives
      BY <1>10, Kinds
    <3>2. QED BY <1>6, <3>1, ReadsOther DEF PreprocessorType
  <2>2. Active <=> ActiveTo(blocks, Len(blocks))
    BY WholeActive, TypesOfBranches DEF Active
  <2>3. Active' <=> Active
    BY <2>1 DEF Active
  <2>4. t \in PlainTokens => (t.active <=> Active)
    BY <1>6, Kinds
  <2>5. QED BY <1>3, <1>4, <1>8, <1>10, <2>1, <2>2, <2>3, <2>4 DEF InOrder
<1>11. QED BY <1>9, <1>10

\* A directive is carried out only where text is active; it changes on both sides the
\* same names.
LEMMA DirectiveKeeps ==
  ASSUME PreprocessorType, InOrder, NEW t \in Directives, HandleDirective(t), ~early'
  PROVE  InOrder'
<1>1. handlers = <<>> /\ NextRaw(t) /\ ~skipping /\ t.kind \in {"define", "undef"}
  BY Kinds DEF HandleDirective
<1>2. /\ Agree(branchStack, blocks) /\ (skipping <=> ~Active) /\ (t.active <=> Active)
      /\ blocks' = blocks /\ (currentToken = NoItem => Read(t))
      /\ (currentToken # NoItem => t \in PlainTokens)
  BY <1>1, NextIsPlain
<1>3. Read(t) /\ Active
  BY <1>1, <1>2, Kinds
<1>4. macros' = meant'
  <2>1. macros = meant BY DEF InOrder
  <2>2. CASE t.kind = "define"
    BY <1>3, <2>1, <2>2, ReadsOther DEF HandleDirective, PreprocessorType
  <2>3. CASE t.kind = "undef"
    BY <1>3, <2>1, <2>3, ReadsOther DEF HandleDirective, PreprocessorType
  <2>4. QED BY <1>1, <2>2, <2>3
<1>5. Active' <=> Active
  BY <1>2 DEF Active
<1>6. /\ looping' = FALSE /\ currentToken' = NoItem /\ NoItem \notin Conditionals /\ NoItem \notin PlainTokens
      /\ UNCHANGED <<branchStack, handlers, skipping>>
  BY <1>1, Kinds DEF HandleDirective
<1>7. fate'.done <=> fate'.active
  BY <1>2, <1>3 DEF HandleDirective, Meets
<1>8. QED BY <1>1, <1>2, <1>4, <1>5, <1>6, <1>7 DEF InOrder

\* A file is included only by active text.
LEMMA IncludeKeeps ==
  ASSUME PreprocessorType, InOrder, NEW t \in Directives, HandleInclude(t), ~early'
  PROVE  InOrder'
<1>1. /\ handlers = <<>> /\ ~skipping /\ currentToken = NoItem /\ t.active = Active
      /\ looping' = FALSE /\ Meets(t, TRUE)
      /\ UNCHANGED <<branchStack, macros, currentToken, handlers, skipping, blocks, meant>>
  BY DEF HandleInclude
<1>2. currentToken \notin Conditionals /\ currentToken \notin PlainTokens /\ currentToken # EndOfFile
  BY <1>1, Kinds
<1>3. Active' <=> Active
  BY <1>1 DEF Active
<1>4. Active /\ (fate'.done <=> fate'.active)
  BY <1>1, <1>2 DEF InOrder, Meets
<1>5. QED BY <1>1, <1>2, <1>3, <1>4 DEF InOrder

\* A token the parser gets is active, and what is skipped is not.
LEMMA TextKeeps ==
  ASSUME PreprocessorType, InOrder, NEW t \in PlainTokens \cup Directives,
         \/ t \in PlainTokens /\ EmitToken(t)
         \/ Skip(t)
  PROVE  InOrder'
<1>1. /\ NextRaw(t) /\ currentToken' = NoItem
      /\ UNCHANGED <<branchStack, macros, handlers, looping, skipping>>
  BY DEF EmitToken, Skip
<1>2. handlers = <<>>
  BY DEF EmitToken, Skip, InOrder
<1>3. /\ Agree(branchStack, blocks) /\ (skipping <=> ~Active) /\ (t.active <=> Active)
      /\ blocks' = blocks /\ (currentToken = NoItem => Read(t))
      /\ (currentToken # NoItem => meant' = meant)
  BY <1>1, <1>2, NextIsPlain
<1>4. meant' = meant
  <2>1. t \notin Directives \/ ~Active
    BY <1>3, Kinds DEF EmitToken, Skip
  <2>2. QED BY <1>3, <2>1, ReadsOther DEF PreprocessorType
<1>5. fate'.done <=> fate'.active
  <2>1. CASE t \in PlainTokens /\ EmitToken(t)
    <3>1. fate' = [done |-> TRUE, active |-> t.active] /\ ~skipping
      BY <2>1 DEF EmitToken, Meets
    <3>2. QED BY <1>3, <3>1
  <2>2. CASE Skip(t)
    <3>1. fate' = [done |-> FALSE, active |-> t.active] /\ skipping
      BY <2>2 DEF Skip, Meets
    <3>2. QED BY <1>3, <3>1
  <2>3. QED BY <2>1, <2>2
<1>6. Active' <=> Active
  BY <1>3 DEF Active
<1>7. NoItem \notin Conditionals /\ NoItem \notin PlainTokens
  BY Kinds
<1>8. QED BY <1>1, <1>2, <1>3, <1>4, <1>5, <1>6, <1>7 DEF InOrder

\* The directive that ends the skipping is read ahead and not carried out yet.
LEMMA SkipEndKeeps ==
  ASSUME PreprocessorType, InOrder, NEW t \in Conditionals \cup {EndOfFile}, SkipEnds(t), ~malformed'
  PROVE  InOrder'
<1>1. /\ NextRaw(t) /\ currentToken' = t /\ skipping' = FALSE
      /\ UNCHANGED <<branchStack, macros, handlers, looping, fate>>
  BY DEF SkipEnds
<1>2. handlers = <<>>
  BY DEF SkipEnds, InOrder
<1>3. CASE t \in Conditionals
  <2>1. PICK bl \in Seq(Reading) :
          Agree(branchStack, bl) /\ Legal(bl, t) /\ blocks' = Follow(bl, t) /\ meant' = meant
    BY <1>1, <1>2, <1>3, NextIsBehind
  <2>2. Follow(bl, t)' = Follow(bl, t)
    BY <2>1 DEF Follow, Holds
  <2>3. Behind(t)'
    BY <1>1, <2>1, <2>2 DEF Behind
  <2>4. QED BY <1>1, <1>2, <1>3, <2>1, <2>3 DEF InOrder
<1>4. CASE t = EndOfFile
  <2>1. t \notin Conditionals /\ t \notin PlainTokens /\ t \notin Directives
    BY <1>4, Kinds
  <2>2. blocks' = blocks /\ meant' = meant
    <3>1. CASE currentToken = NoItem
      <4>1. Read(t) BY <1>1, <3>1 DEF NextRaw
      <4>2. QED BY <1>4, <2>1, <4>1, ReadsOther DEF PreprocessorType
    <3>2. CASE currentToken # NoItem
      BY <1>1, <3>2 DEF NextRaw
    <3>3. QED BY <3>1, <3>2
  <2>3. Agree(branchStack, blocks)
    <3>1. currentToken \notin Conditionals
      BY <1>1, <2>1, Kinds DEF NextRaw
    <3>2. QED BY <1>2, <3>1 DEF InOrder
  <2>4. QED BY <1>1, <1>2, <1>4, <2>1, <2>2, <2>3 DEF InOrder
<1>5. QED BY <1>3, <1>4

\* Every step of the preprocessor keeps the invariant.
LEMMA StepPreprocessor ==
  PreprocessorInv /\ [PreprocessorNext]_preprocessorVars => PreprocessorInv'
<1> SUFFICES ASSUME PreprocessorInv, [PreprocessorNext]_preprocessorVars
             PROVE  PreprocessorInv'
  OBVIOUS
<1>1. PreprocessorType /\ PreprocessorType'
  BY StepTypes DEF PreprocessorInv
<1> SUFFICES ASSUME ~malformed', ~early' PROVE InOrder'
  BY <1>1 DEF PreprocessorInv
<1>2. \A t : Read(t) => (malformed => malformed')
  BY DEF Read
<1>3. \A t : NextRaw(t) => (malformed => malformed')
  BY <1>2 DEF NextRaw
<1>4. CASE EndOfInclude
  <2>1. InOrder
    BY <1>4 DEF EndOfInclude, PreprocessorInv
  <2>2. /\ Active' <=> Active
        /\ Behind(currentToken) => Behind(currentToken)'
        /\ Behind(handlers[1]) => Behind(handlers[1])'
    BY <1>4 DEF EndOfInclude, controlVars, Active, Behind, Follow, Holds
  <2>3. QED BY <1>4, <2>1, <2>2 DEF EndOfInclude, controlVars, InOrder
<1>5. CASE UNCHANGED preprocessorVars
  <2>1. InOrder
    BY <1>5 DEF preprocessorVars, PreprocessorInv
  <2>2. /\ Active' <=> Active
        /\ Behind(currentToken) => Behind(currentToken)'
        /\ Behind(handlers[1]) => Behind(handlers[1])'
    BY <1>5 DEF preprocessorVars, Active, Behind, Follow, Holds
  <2>3. QED BY <1>5, <2>1, <2>2 DEF preprocessorVars, InOrder
<1>6. CASE PreprocessorNext /\ ~EndOfInclude
  <2>1. ~malformed /\ ~early
    <3>1. early' = early \/ (early => early')
      BY <1>6 DEF PreprocessorNext, HandleConditional, ParseCondition, PeekEnds, HandleDirective,
                  HandleInclude, EmitToken, Skip, SkipEnds
    <3>2. malformed => malformed'
      BY <1>3, <1>6 DEF PreprocessorNext, HandleConditional, ParseCondition, PeekEnds, HandleDirective,
                  HandleInclude, EmitToken, Skip, SkipEnds
    <3>3. QED BY <3>1, <3>2
  <2>2. InOrder
    BY <2>1 DEF PreprocessorInv
  <2>3. QED
    BY <1>1, <1>6, <2>2, ConditionalKeeps, ConditionKeeps, PeekKeeps, DirectiveKeeps, IncludeKeeps,
       TextKeeps, SkipEndKeeps DEF PreprocessorNext
<1>7. QED BY <1>4, <1>5, <1>6

\* At the start nothing is open and nothing is defined.
LEMMA InitPreprocessor == PreprocessorInit => PreprocessorInv
<1> SUFFICES ASSUME PreprocessorInit PROVE PreprocessorInv
  OBVIOUS
<1>1. <<>> \in Seq(Reading) /\ <<>> \in Seq(Conditions) /\ <<>> \in Seq(BranchState)
  OBVIOUS
<1>2. 1 \in 0 .. MaxIncludeDepth + 1
  BY PreprocessorAssumption
<1>3. PreprocessorTypeOK
  BY <1>1, <1>2 DEF PreprocessorInit, PreprocessorTypeOK, BranchState
<1>4. PreprocessorType
  BY <1>1, <1>3 DEF PreprocessorInit, PreprocessorType
<1>5. InOrder
  <2>1. currentToken = NoItem /\ currentToken \notin Conditionals /\ currentToken \notin PlainTokens
    BY Kinds DEF PreprocessorInit
  <2>2. Agree(branchStack, blocks) /\ Active
    BY DEF PreprocessorInit, Agree, Active
  <2>3. Len(handlers) <= 1
    BY DEF PreprocessorInit
  <2>4. QED BY <2>1, <2>2, <2>3 DEF PreprocessorInit, InOrder
<1>6. QED BY <1>4, <1>5 DEF PreprocessorInv

\* The invariant holds in every behaviour.
LEMMA InvariantOfPreprocessor == PreprocessorSpec => []PreprocessorInv
BY InitPreprocessor, StepPreprocessor, PTL DEF PreprocessorSpec

\* The stack of files and the stack of branches keep their types: includes nest no
\* deeper than allowed, and an active branch counts as taken.
THEOREM PreprocessorTypeCorrect == PreprocessorSpec => []PreprocessorTypeOK
<1>1. PreprocessorInv => PreprocessorTypeOK BY DEF PreprocessorInv, PreprocessorType
<1>2. QED BY <1>1, InvariantOfPreprocessor, PTL

\* In text whose conditional directives are in order, and as long as no directive stands
\* right behind a condition in parentheses, exactly the text the standard calls
\* active has an effect, however deep branches and files nest and whatever the
\* names are (handleIfDefDirective, shouldTakeElseBranch, handleEndIfDirective,
\* parseBranchDirective).
THEOREM ExactlyActiveTextCounts == PreprocessorSpec => []ActiveTextCounts
<1>1. PreprocessorInv => ActiveTextCounts
  <2> SUFFICES ASSUME PreprocessorInv, ~malformed, ~early PROVE fate.done = fate.active
    BY DEF ActiveTextCounts
  <2>1. fate.done \in BOOLEAN /\ fate.active \in BOOLEAN
    BY DEF PreprocessorInv, PreprocessorType
  <2>2. fate.done <=> fate.active
    BY DEF PreprocessorInv, InOrder
  <2>3. QED BY <2>1, <2>2
<1>2. QED BY <1>1, InvariantOfPreprocessor, PTL

-----------------------------------------------------------------------------
(* Sequences that are put one behind the other *)

\* A sequence that is not empty is flattened from left to right.
LEMMA FlattenRun ==
  ASSUME NEW S, NEW s \in Seq(Seq(S)), Len(s) > 0
  PROVE  \E g \in [0 .. Len(s) - 1 -> Seq(S)] :
           /\ g[0] = s[1] /\ \A k \in 0 .. Len(s) - 1 - 1 : g[k + 1] = g[k] \o s[k + 2]
           /\ FlattenSeq(s) = g[Len(s) - 1]
<1> DEFINE n == Len(s) - 1
           F == [p \in Seq(S) \X (0 .. n - 1) |-> p[1] \o s[p[2] + 2]]
           Run(c) == c = [i \in 1 .. Len(s) |-> IF i = 1 THEN s[i] ELSE c[i - 1] \o s[i]]
           f == CHOOSE c : Run(c)
<1>1. n \in Nat /\ n + 1 = Len(s) /\ \A i \in 1 .. Len(s) : s[i] \in Seq(S)
  OBVIOUS
<1> HIDE DEF n
<1>2. \A a \in Seq(S) : \A k \in 0 .. n - 1 : F[<<a, k>>] = a \o s[k + 2] /\ a \o s[k + 2] \in Seq(S)
  <2>1. TAKE a \in Seq(S)
  <2>2. TAKE k \in 0 .. n - 1
  <2>3. k + 2 \in 1 .. Len(s)
    BY <1>1
  <2>4. a \o s[k + 2] \in Seq(S)
    BY <1>1, <2>3, ConcatProperties
  <2>5. F[<<a, k>>] = a \o s[k + 2]
    OBVIOUS
  <2>6. QED BY <2>4, <2>5
<1> HIDE DEF F
<1>3. PICK g : Loop(Seq(S), s[1], F, n, g)
  <2>1. Stays(Seq(S), F, n)
    BY <1>2 DEF Stays
  <2>2. s[1] \in Seq(S)
    BY <1>1
  <2>3. QED BY <1>1, <2>1, <2>2, LoopRuns
<1>4. g \in [0 .. n -> Seq(S)] /\ g[0] = s[1]
  BY <1>3 DEF Loop
<1>5. ASSUME NEW k \in 0 .. n - 1 PROVE g[k + 1] = g[k] \o s[k + 2]
  <2>1. g[k] \in Seq(S)
    BY <1>1, <1>4
  <2>2. g[k + 1] = F[<<g[k], k>>]
    BY <1>3 DEF Loop
  <2>3. QED BY <1>2, <2>1, <2>2
<1> DEFINE c == [i \in 1 .. Len(s) |-> g[i - 1]]
<1>6. Run(c)
  <2>1. ASSUME NEW i \in 1 .. Len(s) PROVE c[i] = IF i = 1 THEN s[i] ELSE c[i - 1] \o s[i]
    <3>1. CASE i = 1
      BY <1>4, <3>1
    <3>2. CASE i # 1
      <4>1. i - 2 \in 0 .. n - 1 /\ (i - 2) + 1 = i - 1 /\ (i - 2) + 2 = i /\ i - 1 \in 1 .. Len(s)
        BY <1>1, <3>2
      <4>2. c[i] = g[i - 1] /\ c[i - 1] = g[i - 2]
        BY <4>1
      <4>3. g[i - 1] = g[i - 2] \o s[i]
        BY <1>5, <4>1
      <4>4. QED BY <3>2, <4>2, <4>3
    <3>3. QED BY <3>1, <3>2
  <2>2. QED BY <2>1
<1>7. Run(f)
  BY <1>6, Zenon
<1>8. FlattenSeq(s) = f[Len(s)]
  BY DEF FlattenSeq
<1> HIDE DEF f
<1>9. \A i \in 1 .. Len(s) : f[i] = IF i = 1 THEN s[i] ELSE f[i - 1] \o s[i]
  BY <1>7
<1> DEFINE T == {k \in Nat : k <= n => f[k + 1] = g[k]}
<1>10. 0 \in T
  <2>1. 1 \in 1 .. Len(s) /\ 0 + 1 = 1
    BY <1>1
  <2>2. f[1] = s[1]
    BY <1>9, <2>1
  <2>3. QED BY <1>4, <2>1, <2>2
<1>11. ASSUME NEW k \in Nat, k \in T PROVE k + 1 \in T
  <2>1. SUFFICES ASSUME k + 1 <= n PROVE f[(k + 1) + 1] = g[k + 1]
    OBVIOUS
  <2>2. k \in 0 .. n - 1 /\ k + 2 \in 1 .. Len(s) /\ k + 2 # 1 /\ (k + 2) - 1 = k + 1 /\ (k + 1) + 1 = k + 2
    BY <1>1, <2>1
  <2>3. f[k + 2] = f[k + 1] \o s[k + 2]
    BY <1>9, <2>2
  <2>4. f[k + 1] = g[k]
    <3>1. k <= n
      BY <1>1, <2>1
    <3>2. QED BY <1>11, <3>1
  <2>5. QED BY <1>5, <2>2, <2>3, <2>4
<1> HIDE DEF T
<1>12. n \in T
  BY <1>1, <1>10, <1>11, Induction
<1>13. FlattenSeq(s) = g[n]
  <2>1. f[n + 1] = g[n] /\ n + 1 = Len(s)
    BY <1>1, <1>12 DEF T
  <2>2. QED BY <1>8, <2>1
<1>14. \A k \in 0 .. n - 1 : g[k + 1] = g[k] \o s[k + 2]
  BY <1>5
<1>15. n = Len(s) - 1
  BY DEF n
<1>16. QED BY <1>4, <1>14, <1>13, <1>15

\* No sequences make the empty one.
LEMMA FlattenNone == FlattenSeq(<<>>) = <<>>
BY DEF FlattenSeq

\* Flattened sequences of tokens are a sequence of tokens.
LEMMA FlattenType ==
  ASSUME NEW S, NEW s \in Seq(Seq(S))
  PROVE  FlattenSeq(s) \in Seq(S)
<1>1. CASE Len(s) = 0
  <2>1. s = <<>>
    BY <1>1, EmptySeq
  <2>2. QED BY <2>1, FlattenNone, EmptySeq
<1>2. CASE Len(s) > 0
  <2>1. Len(s) - 1 \in 0 .. Len(s) - 1
    BY <1>2
  <2>2. PICK g \in [0 .. Len(s) - 1 -> Seq(S)] : FlattenSeq(s) = g[Len(s) - 1]
    BY <1>2, FlattenRun
  <2>3. QED BY <2>1, <2>2
<1>3. QED BY <1>1, <1>2

\* One sequence more is put behind what the others give.
LEMMA FlattenAppend ==
  ASSUME NEW S, NEW s \in Seq(Seq(S)), NEW e \in Seq(S)
  PROVE  FlattenSeq(Append(s, e)) = FlattenSeq(s) \o e
<1> DEFINE t == Append(s, e)
           n == Len(s)
<1>1. t \in Seq(Seq(S)) /\ Len(t) = n + 1 /\ n \in Nat /\ t[n + 1] = e /\ \A i \in 1 .. n : t[i] = s[i]
  BY AppendProperties
<1> HIDE DEF t
<1>2. PICK h \in [0 .. n -> Seq(S)] :
        /\ h[0] = t[1] /\ \A k \in 0 .. n - 1 : h[k + 1] = h[k] \o t[k + 2]
        /\ FlattenSeq(t) = h[n]
  <2>1. Len(t) > 0 /\ Len(t) - 1 = n
    BY <1>1
  <2> HIDE DEF n
  <2>2. QED BY <1>1, <2>1, FlattenRun
<1>3. CASE n = 0
  <2>1. s = <<>> /\ FlattenSeq(s) = <<>>
    BY <1>3, FlattenNone
  <2>2. FlattenSeq(t) = e
    BY <1>1, <1>2, <1>3
  <2>3. <<>> \o e = e
    BY ConcatEmptySeq
  <2>4. QED BY <2>1, <2>2, <2>3 DEF t
<1>4. CASE n > 0
  <2>1. PICK g \in [0 .. n - 1 -> Seq(S)] :
          /\ g[0] = s[1] /\ \A k \in 0 .. n - 1 - 1 : g[k + 1] = g[k] \o s[k + 2]
          /\ FlattenSeq(s) = g[n - 1]
    BY <1>4, FlattenRun
  <2> DEFINE T == {k \in Nat : k <= n - 1 => g[k] = h[k]}
  <2>2. 0 \in T
    BY <1>1, <1>2, <1>4, <2>1
  <2>3. ASSUME NEW k \in Nat, k \in T PROVE k + 1 \in T
    <3>1. SUFFICES ASSUME k + 1 <= n - 1 PROVE g[k + 1] = h[k + 1]
      OBVIOUS
    <3>2. k \in 0 .. n - 1 - 1 /\ k \in 0 .. n - 1 /\ k + 2 \in 1 .. n
      BY <1>1, <3>1
    <3>3. g[k] = h[k]
      BY <1>1, <2>3, <3>1
    <3>4. g[k + 1] = g[k] \o s[k + 2]
      BY <2>1, <3>2
    <3>5. h[k + 1] = h[k] \o t[k + 2]
      BY <1>2, <3>2
    <3>6. QED BY <1>1, <3>2, <3>3, <3>4, <3>5
  <2> HIDE DEF T
  <2>4. n - 1 \in Nat
    BY <1>1, <1>4
  <2>5. n - 1 \in T
    BY <2>2, <2>3, <2>4, Induction
  <2>6. g[n - 1] = h[n - 1]
    BY <2>4, <2>5 DEF T
  <2>7. n - 1 \in 0 .. n - 1 /\ (n - 1) + 1 = n /\ (n - 1) + 2 = n + 1
    BY <1>1, <1>4
  <2>8. h[n] = h[n - 1] \o t[n + 1]
    BY <1>2, <2>7
  <2>9. QED BY <1>1, <1>2, <2>1, <2>6, <2>8 DEF t
<1>5. QED BY <1>1, <1>3, <1>4

\* Flattening two rows of sequences is flattening each.
LEMMA FlattenConcat ==
  ASSUME NEW S, NEW s \in Seq(Seq(S)), NEW t \in Seq(Seq(S))
  PROVE  FlattenSeq(s \o t) = FlattenSeq(s) \o FlattenSeq(t)
<1> DEFINE T == {n \in Nat : \A u \in Seq(Seq(S)) : Len(u) = n =>
                                FlattenSeq(s \o u) = FlattenSeq(s) \o FlattenSeq(u)}
<1>1. 0 \in T
  <2>1. SUFFICES ASSUME NEW u \in Seq(Seq(S)), Len(u) = 0
                 PROVE  FlattenSeq(s \o u) = FlattenSeq(s) \o FlattenSeq(u)
    OBVIOUS
  <2>2. u = <<>>
    BY <2>1
  <2>3. s \o <<>> = s /\ FlattenSeq(s) \o <<>> = FlattenSeq(s)
    BY FlattenType, ConcatEmptySeq
  <2>4. QED BY <2>2, <2>3, FlattenNone
<1>2. ASSUME NEW n \in Nat, n \in T PROVE n + 1 \in T
  <2>1. SUFFICES ASSUME NEW u \in Seq(Seq(S)), Len(u) = n + 1
                 PROVE  FlattenSeq(s \o u) = FlattenSeq(s) \o FlattenSeq(u)
    OBVIOUS
  <2>2. PICK v \in Seq(Seq(S)), e \in Seq(S) : u = Append(v, e)
    <3>1. u # <<>>
      BY <2>1, EmptySeq
    <3>2. QED BY <3>1, SequenceEmptyOrAppend
  <2>3. Len(v) = n
    BY <2>1, <2>2, AppendProperties
  <2>4. FlattenSeq(s \o v) = FlattenSeq(s) \o FlattenSeq(v)
    BY <1>2, <2>3
  <2>5. s \o u = Append(s \o v, e)
    <3>1. u = v \o <<e>>
      BY <2>2, AppendIsConcat
    <3>2. s \o v \in Seq(Seq(S))
      BY ConcatProperties
    <3>3. <<e>> \in Seq(Seq(S))
      OBVIOUS
    <3>4. Append(s \o v, e) = (s \o v) \o <<e>>
      BY <3>2, AppendIsConcat
    <3>5. (s \o v) \o <<e>> = s \o (v \o <<e>>)
      BY <3>3, ConcatAssociative
    <3>6. QED BY <3>1, <3>4, <3>5
  <2>6. FlattenSeq(s \o u) = FlattenSeq(s \o v) \o e
    <3>1. s \o v \in Seq(Seq(S))
      BY ConcatProperties
    <3>2. QED BY <2>5, <3>1, FlattenAppend
  <2>7. FlattenSeq(u) = FlattenSeq(v) \o e
    BY <2>2, FlattenAppend
  <2>8. FlattenSeq(s) \in Seq(S) /\ FlattenSeq(v) \in Seq(S)
    BY FlattenType
  <2>9. QED BY <2>4, <2>6, <2>7, <2>8, ConcatAssociative
<1> HIDE DEF T
<1>3. Len(t) \in T
  <2>1. Len(t) \in Nat
    OBVIOUS
  <2>2. QED BY <1>1, <1>2, <2>1, Induction
<1>4. QED BY <1>3 DEF T

-----------------------------------------------------------------------------
(* Each item is replaced by a text *)

Image(F, text) == [k \in DOMAIN text |-> F[text[k]]]

Spread(F, text) == FlattenSeq(Image(F, text))

\* F makes a text of tokens B from each token of A.
Makes(F, A, B) == F \in [A -> Seq(B)]

\* A token is a text.
LEMMA One == ASSUME NEW S, NEW x \in S PROVE <<x>> \in Seq(S)
OBVIOUS

\* A function on the first n numbers is a sequence of length n.
LEMMA Row ==
  ASSUME NEW S, NEW n \in Nat, NEW r \in [1 .. n -> S]
  PROVE  r \in Seq(S) /\ Len(r) = n
<1>1. r \in Seq(S)
  BY SeqDef
<1>2. Len(r) \in Nat /\ 1 .. Len(r) = 1 .. n
  BY <1>1, LenProperties
<1>3. QED BY <1>1, <1>2

\* The image of a text has a text for each token.
LEMMA Images ==
  ASSUME NEW A, NEW B, NEW F, Makes(F, A, B), NEW text \in Seq(A)
  PROVE  /\ Image(F, text) \in Seq(Seq(B))
         /\ Len(Image(F, text)) = Len(text)
         /\ \A i \in 1 .. Len(text) : Image(F, text)[i] = F[text[i]]
<1>1. DOMAIN text = 1 .. Len(text) /\ Len(text) \in Nat /\ \A i \in 1 .. Len(text) : text[i] \in A
  BY LenProperties
<1> DEFINE r == Image(F, text)
<1>2. \A i \in 1 .. Len(text) : r[i] = F[text[i]] /\ r[i] \in Seq(B)
  BY <1>1 DEF Image, Makes
<1>3. r \in [1 .. Len(text) -> Seq(B)]
  BY <1>1, <1>2 DEF Image
<1> HIDE DEF r
<1>4. r \in Seq(Seq(B)) /\ Len(r) = Len(text)
  BY <1>1, <1>3, Row
<1>5. QED BY <1>2, <1>4 DEF r

\* A spread text is a text.
LEMMA SpreadType ==
  ASSUME NEW A, NEW B, NEW F, Makes(F, A, B), NEW text \in Seq(A)
  PROVE  Spread(F, text) \in Seq(B)
BY Images, FlattenType DEF Spread

\* The empty text stays empty.
LEMMA SpreadNone ==
  ASSUME NEW F
  PROVE  Spread(F, <<>>) = <<>>
<1>1. Image(F, <<>>) = <<>>
  BY DEF Image
<1>2. QED BY <1>1, FlattenNone DEF Spread

\* A text is spread in two parts as well as in one.
LEMMA SpreadConcat ==
  ASSUME NEW A, NEW B, NEW F, Makes(F, A, B), NEW s \in Seq(A), NEW t \in Seq(A)
  PROVE  Spread(F, s \o t) = Spread(F, s) \o Spread(F, t)
<1> DEFINE x == Image(F, s)
           y == Image(F, t)
           c == s \o t
           z == Image(F, c)
<1>1. s \o t \in Seq(A) /\ Len(s \o t) = Len(s) + Len(t) /\ Len(s) \in Nat /\ Len(t) \in Nat
  BY ConcatProperties
<1>2. x \in Seq(Seq(B)) /\ Len(x) = Len(s) /\ \A i \in 1 .. Len(s) : x[i] = F[s[i]]
  <2>1. x \in Seq(Seq(B))
    BY Images
  <2>2. Len(x) = Len(s)
    BY Images
  <2>3. \A i \in 1 .. Len(s) : x[i] = F[s[i]]
    BY Images
  <2>4. QED BY <2>1, <2>2, <2>3
<1>3. y \in Seq(Seq(B)) /\ Len(y) = Len(t) /\ \A i \in 1 .. Len(t) : y[i] = F[t[i]]
  <2>1. y \in Seq(Seq(B))
    BY Images
  <2>2. Len(y) = Len(t)
    BY Images
  <2>3. \A i \in 1 .. Len(t) : y[i] = F[t[i]]
    BY Images
  <2>4. QED BY <2>1, <2>2, <2>3
<1>4. z \in Seq(Seq(B)) /\ Len(z) = Len(s) + Len(t) /\ \A i \in 1 .. Len(s) + Len(t) : z[i] = F[(s \o t)[i]]
  <2>1. c \in Seq(A) /\ Len(c) = Len(s) + Len(t)
    BY <1>1
  <2> HIDE DEF c
  <2>2. z \in Seq(Seq(B))
    BY <2>1, Images
  <2>3. Len(z) = Len(s) + Len(t)
    BY <2>1, Images
  <2>4. \A i \in 1 .. Len(c) : z[i] = F[c[i]]
    <3>1. c \in Seq(A)
      BY <2>1
    <3>2. QED BY <3>1, Images
  <2>5. QED BY <2>1, <2>2, <2>3, <2>4 DEF c
<1> HIDE DEF x, y, z
<1>5. x \o y \in Seq(Seq(B)) /\ Len(x \o y) = Len(s) + Len(t)
  <2>1. x \in Seq(Seq(B)) /\ y \in Seq(Seq(B))
    BY <1>2, <1>3
  <2>2. x \o y \in Seq(Seq(B)) /\ Len(x \o y) = Len(x) + Len(y)
    BY <2>1, ConcatProperties
  <2>3. QED BY <1>2, <1>3, <2>2
<1>6. ASSUME NEW i \in 1 .. Len(s) + Len(t)
      PROVE  z[i] = (x \o y)[i]
  <2>1. (s \o t)[i] = IF i <= Len(s) THEN s[i] ELSE t[i - Len(s)]
    BY ConcatProperties
  <2>2. (x \o y)[i] = IF i <= Len(s) THEN x[i] ELSE y[i - Len(s)]
    BY <1>2, <1>3, ConcatProperties
  <2>3. CASE i <= Len(s)
    <3>1. i \in 1 .. Len(s)
      BY <1>1, <2>3
    <3>2. QED BY <1>2, <1>4, <2>1, <2>2, <2>3, <3>1
  <2>4. CASE ~(i <= Len(s))
    <3>1. i - Len(s) \in 1 .. Len(t)
      BY <1>1, <2>4
    <3>2. QED BY <1>3, <1>4, <2>1, <2>2, <2>4, <3>1
  <2>5. QED BY <2>3, <2>4
<1>7. z = x \o y
  BY <1>4, <1>5, <1>6, SeqEqual
<1>8. FlattenSeq(x \o y) = FlattenSeq(x) \o FlattenSeq(y)
  BY <1>2, <1>3, FlattenConcat
<1>9. QED BY <1>7, <1>8 DEF Spread, x, y, z, c

\* A text of one token becomes what that token becomes.
LEMMA SpreadOne ==
  ASSUME NEW A, NEW B, NEW F, Makes(F, A, B), NEW i \in A
  PROVE  Spread(F, <<i>>) = F[i]
<1>1. Image(F, <<i>>) = <<F[i]>>
  BY DEF Image
<1>2. FlattenSeq(<<F[i]>>) = F[i]
  <2>1. <<>> \in Seq(Seq(B)) /\ F[i] \in Seq(B) /\ Append(<<>>, F[i]) = <<F[i]>>
    BY DEF Makes
  <2>2. FlattenSeq(Append(<<>>, F[i])) = <<>> \o F[i]
    BY <2>1, FlattenAppend, FlattenNone
  <2>3. QED BY <2>1, <2>2, ConcatEmptySeq
<1>3. QED BY <1>1, <1>2 DEF Spread

-----------------------------------------------------------------------------
(* Texts *)

Words_      == {Word(m) : m \in Macro}
SimpleUses  == {Use(m, <<>>) : m \in Simple}

\* The pieces that the definitions d contain.
Glued(d) == {Pieces(m) : m \in {n \in Simple : \E o \in Macro : Pieces(n) \in ToSet(d[o])}}

\* The tokens of an argument, and of any text that is expanded.
Plain(d)  == Words_ \cup SimpleUses \cup Glued(d)
WithArgument(d) == {Use(m, arg) : m \in Functions_, arg \in Seq(Plain(d))}
Tokens(d) == Plain(d) \cup WithArgument(d)

\* What the body of the macro m is made of.
Written(d, m) == Atoms(m) \cup Glued(d) \cup {Use(n, <<a>>) : n \in Functions_, a \in Atoms(m)}

IsDefinitions(d) ==
  /\ DOMAIN d = Macro
  /\ \A m \in Macro : d[m] \in Seq(Written(d, m))

\* What becomes of one item of a body when the argument is put in, and of one token in
\* a round.
Put(arg, i) ==
  CASE i.kind = "param" -> arg
    [] i.kind = "use" /\ i.arg = <<Param>> -> <<Use(i.of, arg)>>
    [] OTHER -> <<i>>

Unfold(d, i) == IF i.kind = "word" THEN <<i>> ELSE Substitute(d[i.of], i.arg)

\* The form of a word.
LEMMA AWord ==
  ASSUME NEW i \in Words_
  PROVE  i.kind = "word" /\ i.of \in Macro /\ i = Word(i.of)
<1>1. PICK m \in Macro : i = Word(m)
  BY DEF Words_
<1>2. i.kind = "word" /\ i.of = m
  BY <1>1 DEF Word
<1>3. QED BY <1>1, <1>2

\* The form of a use without argument.
LEMMA ASimpleUse ==
  ASSUME NEW i \in SimpleUses
  PROVE  i.kind = "use" /\ i.of \in Simple /\ i.arg = <<>> /\ i = Use(i.of, <<>>)
<1>1. PICK m \in Simple : i = Use(m, <<>>)
  BY DEF SimpleUses
<1>2. i.kind = "use" /\ i.of = m /\ i.arg = <<>>
  BY <1>1 DEF Use
<1>3. QED BY <1>1, <1>2

\* The form of pieces that are not pasted yet.
LEMMA Piece ==
  ASSUME NEW d, NEW i \in Glued(d)
  PROVE  i.kind = "pieces" /\ i.of \in Simple /\ i.arg = <<>> /\ i = Pieces(i.of)
<1>1. PICK m \in Simple : i = Pieces(m)
  BY DEF Glued
<1>2. i.kind = "pieces" /\ i.of = m /\ i.arg = <<>>
  BY <1>1 DEF Pieces
<1>3. QED BY <1>1, <1>2

\* The form of a use with an argument.
LEMMA AUse ==
  ASSUME NEW d, NEW i \in WithArgument(d)
  PROVE  i.kind = "use" /\ i.of \in Functions_ /\ i.arg \in Seq(Plain(d)) /\ i = Use(i.of, i.arg)
<1>1. PICK m \in Functions_, arg \in Seq(Plain(d)) : i = Use(m, arg)
  BY DEF WithArgument
<1>2. i.kind = "use" /\ i.of = m /\ i.arg = arg
  BY <1>1 DEF Use
<1>3. QED BY <1>1, <1>2

\* What can stand in the body of m.
LEMMA AnItem ==
  ASSUME NEW d, NEW m \in Macro, NEW i \in Written(d, m)
  PROVE  \/ i \in Plain(d)
         \/ m \in Functions_ /\ i = Param
         \/ \E n \in Functions_, a \in Atoms(m) : i = Use(n, <<a>>)
<1>1. CASE i \in Atoms(m)
  BY <1>1 DEF Atoms, Plain, Words_, SimpleUses, Macro
<1>2. CASE i \in Glued(d)
  BY <1>2 DEF Plain
<1>3. QED BY <1>1, <1>2 DEF Written

\* The parameter, a use that passes it on, or an item that stays.
LEMMA PutIs ==
  ASSUME NEW d, NEW m \in Macro, NEW i \in Written(d, m)
  PROVE  \/ \A arg : Put(arg, i) = arg
         \/ \E l \in Functions_ : \A arg : Put(arg, i) = <<Use(l, arg)>>
         \/ i \in Tokens(d) /\ \A arg : Put(arg, i) = <<i>>
<1>1. CASE i = Param
  BY <1>1 DEF Param, Put
<1>2. CASE i \in Plain(d)
  <2>1. i \in Words_ \/ i \in SimpleUses \/ i \in Glued(d)
    BY <1>2 DEF Plain
  <2>2. i.kind = "word" \/ i.kind = "pieces" \/ (i.kind = "use" /\ i.arg = <<>>)
    BY <2>1, AWord, ASimpleUse, Piece
  <2>3. <<>> # <<Param>>
    OBVIOUS
  <2>4. \A arg : Put(arg, i) = <<i>>
    BY <2>2, <2>3 DEF Put
  <2>5. QED BY <1>2, <2>4 DEF Tokens
<1>3. ASSUME NEW n \in Functions_, NEW a \in Atoms(m), i = Use(n, <<a>>)
      PROVE  \/ \E l \in Functions_ : \A arg : Put(arg, i) = <<Use(l, arg)>>
             \/ i \in Tokens(d) /\ \A arg : Put(arg, i) = <<i>>
  <2>1. i.kind = "use" /\ i.of = n /\ i.arg = <<a>>
    BY <1>3 DEF Use
  <2>2. CASE a = Param
    BY <2>1, <2>2 DEF Put
  <2>3. CASE a # Param
    <3>1. \A arg : Put(arg, i) = <<i>>
      <4>1. <<a>> # <<Param>>
        BY <2>3
      <4>2. QED BY <2>1, <4>1 DEF Put
    <3>2. a \in Plain(d)
      BY <2>3 DEF Atoms, Words_, SimpleUses, Plain
    <3>3. <<a>> \in Seq(Plain(d))
      BY <3>2, One
    <3>4. \E l \in Functions_, b \in Seq(Plain(d)) : i = Use(l, b)
      BY <1>3, <3>3
    <3>5. i \in WithArgument(d)
      BY <3>4 DEF WithArgument
    <3>6. QED BY <3>1, <3>5 DEF Tokens
  <2>4. QED BY <2>2, <2>3
<1>4. QED BY <1>1, <1>2, <1>3, AnItem

\* A use with an argument of plain tokens is a token.
LEMMA UseType ==
  ASSUME NEW d, NEW l \in Functions_, NEW arg \in Seq(Plain(d))
  PROVE  Use(l, arg) \in Tokens(d)
BY DEF Tokens, WithArgument

\* What is put in the place of an item is a text.
LEMMA PutType ==
  ASSUME NEW d, NEW m \in Macro, NEW i \in Written(d, m), NEW arg \in Seq(Plain(d))
  PROVE  Put(arg, i) \in Seq(Tokens(d))
<1>1. Plain(d) \subseteq Tokens(d)
  BY DEF Tokens
<1>2. arg \in Seq(Tokens(d))
  BY <1>1, SeqMonotonic
<1>3. \A l \in Functions_ : <<Use(l, arg)>> \in Seq(Tokens(d))
  BY UseType, One
<1>4. i \in Tokens(d) => <<i>> \in Seq(Tokens(d))
  BY One
<1>5. QED BY <1>2, <1>3, <1>4, PutIs

Putting(d, m, arg) == [i \in Written(d, m) |-> Put(arg, i)]

\* Substituting spreads the body.
LEMMA SubstituteSpreads ==
  ASSUME NEW d, NEW m \in Macro, NEW body \in Seq(Written(d, m)), NEW arg \in Seq(Plain(d))
  PROVE  /\ Substitute(body, arg) = Spread(Putting(d, m, arg), body)
         /\ Makes(Putting(d, m, arg), Written(d, m), Tokens(d))
<1>1. \A k \in DOMAIN body : body[k] \in Written(d, m)
  OBVIOUS
<1>2. \A k \in DOMAIN body : Putting(d, m, arg)[body[k]] = Put(arg, body[k])
  BY <1>1 DEF Putting
<1>3. Image(Putting(d, m, arg), body) = [k \in DOMAIN body |-> Put(arg, body[k])]
  BY <1>2 DEF Image
<1>4. Substitute(body, arg) = FlattenSeq([k \in DOMAIN body |-> Put(arg, body[k])])
  BY DEF Substitute, Put
<1>5. Makes(Putting(d, m, arg), Written(d, m), Tokens(d))
  BY PutType DEF Makes, Putting
<1>6. QED BY <1>3, <1>4, <1>5 DEF Spread

\* A body with an argument in it is a text.
LEMMA SubstituteType ==
  ASSUME NEW d, NEW m \in Macro, NEW body \in Seq(Written(d, m)), NEW arg \in Seq(Plain(d))
  PROVE  Substitute(body, arg) \in Seq(Tokens(d))
BY SubstituteSpreads, SpreadType

\* The argument is put in each part of a body.
LEMMA SubstituteConcat ==
  ASSUME NEW d, NEW m \in Macro, NEW s \in Seq(Written(d, m)), NEW t \in Seq(Written(d, m)),
         NEW arg \in Seq(Plain(d))
  PROVE  Substitute(s \o t, arg) = Substitute(s, arg) \o Substitute(t, arg)
<1>1. s \o t \in Seq(Written(d, m))
  BY ConcatProperties
<1>2. /\ Substitute(s \o t, arg) = Spread(Putting(d, m, arg), s \o t)
      /\ Makes(Putting(d, m, arg), Written(d, m), Tokens(d))
  BY <1>1, SubstituteSpreads
<1>3. /\ Substitute(s, arg) = Spread(Putting(d, m, arg), s)
      /\ Substitute(t, arg) = Spread(Putting(d, m, arg), t)
  BY SubstituteSpreads
<1> DEFINE A == Written(d, m)
           B == Tokens(d)
           F == Putting(d, m, arg)
<1>4. Spread(F, s \o t) = Spread(F, s) \o Spread(F, t)
  <2>1. s \in Seq(A) /\ t \in Seq(A) /\ Makes(F, A, B)
    BY <1>2
  <2> HIDE DEF A, B, F
  <2>2. QED BY <2>1, SpreadConcat
<1>5. QED BY <1>2, <1>3, <1>4

\* The argument is put in a body of one item.
LEMMA SubstituteOne ==
  ASSUME NEW d, NEW m \in Macro, NEW i \in Written(d, m), NEW arg \in Seq(Plain(d))
  PROVE  Substitute(<<i>>, arg) = Put(arg, i)
<1>1. <<i>> \in Seq(Written(d, m))
  BY One
<1>2. /\ Substitute(<<i>>, arg) = Spread(Putting(d, m, arg), <<i>>)
      /\ Makes(Putting(d, m, arg), Written(d, m), Tokens(d))
  BY <1>1, SubstituteSpreads
<1>3. Spread(Putting(d, m, arg), <<i>>) = Putting(d, m, arg)[i]
  BY <1>2, SpreadOne
<1>4. QED BY <1>2, <1>3 DEF Putting

\* The argument is put in a body with one item more.
LEMMA SubstituteAppend ==
  ASSUME NEW d, NEW m \in Macro, NEW s \in Seq(Written(d, m)), NEW i \in Written(d, m),
         NEW arg \in Seq(Plain(d))
  PROVE  Substitute(Append(s, i), arg) = Substitute(s, arg) \o Put(arg, i)
<1> DEFINE t == <<i>>
<1>1. t \in Seq(Written(d, m))
  BY One
<1>2. Substitute(t, arg) = Put(arg, i)
  BY SubstituteOne
<1>3. Append(s, i) = s \o t
  BY AppendIsConcat
<1> HIDE DEF t
<1>4. Substitute(s \o t, arg) = Substitute(s, arg) \o Substitute(t, arg)
  BY <1>1, SubstituteConcat
<1>5. QED BY <1>2, <1>3, <1>4

\* The empty body stays empty.
LEMMA SubstituteNone ==
  ASSUME NEW arg
  PROVE  Substitute(<<>>, arg) = <<>>
<1>1. FlattenSeq(<<>>) = <<>>
  BY FlattenNone
<1>2. QED BY <1>1 DEF Substitute

\* What a token becomes in a round is a text.
LEMMA UnfoldType ==
  ASSUME NEW d, IsDefinitions(d), NEW i \in Tokens(d)
  PROVE  Unfold(d, i) \in Seq(Tokens(d))
<1>1. CASE i \in Words_
  <2>1. Unfold(d, i) = <<i>>
    BY <1>1, AWord DEF Unfold
  <2>2. QED BY <2>1, One
<1>2. CASE i \notin Words_
  <2>1. i \in SimpleUses \/ i \in Glued(d) \/ i \in WithArgument(d)
    BY <1>2 DEF Tokens, Plain
  <2>2. i.kind # "word" /\ i.of \in Macro /\ i.arg \in Seq(Plain(d))
    <3>1. <<>> \in Seq(Plain(d))
      OBVIOUS
    <3>2. CASE i \in SimpleUses
      BY <3>1, <3>2, ASimpleUse DEF Macro
    <3>3. CASE i \in Glued(d)
      BY <3>1, <3>3, Piece DEF Macro
    <3>4. CASE i \in WithArgument(d)
      BY <3>4, AUse DEF Macro
    <3>5. QED BY <2>1, <3>2, <3>3, <3>4
  <2>3. d[i.of] \in Seq(Written(d, i.of))
    BY <2>2 DEF IsDefinitions
  <2>4. Unfold(d, i) = Substitute(d[i.of], i.arg)
    BY <2>2 DEF Unfold
  <2>5. QED BY <2>2, <2>3, <2>4, SubstituteType
<1>3. QED BY <1>1, <1>2

Unfolding(d) == [i \in Tokens(d) |-> Unfold(d, i)]

\* A round spreads the text.
LEMMA UnfoldedSpreads ==
  ASSUME NEW d, IsDefinitions(d), NEW text \in Seq(Tokens(d))
  PROVE  /\ Unfolded(d, text) = Spread(Unfolding(d), text)
         /\ Makes(Unfolding(d), Tokens(d), Tokens(d))
<1>1. \A k \in DOMAIN text : text[k] \in Tokens(d)
  OBVIOUS
<1>2. \A k \in DOMAIN text : Unfolding(d)[text[k]] = Unfold(d, text[k])
  BY <1>1 DEF Unfolding
<1>3. Image(Unfolding(d), text) = [k \in DOMAIN text |-> Unfold(d, text[k])]
  BY <1>2 DEF Image
<1>4. Unfolded(d, text) = FlattenSeq([k \in DOMAIN text |-> Unfold(d, text[k])])
  BY DEF Unfolded, Unfold
<1>5. Makes(Unfolding(d), Tokens(d), Tokens(d))
  BY UnfoldType DEF Makes, Unfolding
<1>6. QED BY <1>3, <1>4, <1>5 DEF Spread

\* A round makes a text of a text.
LEMMA UnfoldedType ==
  ASSUME NEW d, IsDefinitions(d), NEW text \in Seq(Tokens(d))
  PROVE  Unfolded(d, text) \in Seq(Tokens(d))
BY UnfoldedSpreads, SpreadType

\* A round unfolds each part of a text.
LEMMA UnfoldedConcat ==
  ASSUME NEW d, IsDefinitions(d), NEW s \in Seq(Tokens(d)), NEW t \in Seq(Tokens(d))
  PROVE  Unfolded(d, s \o t) = Unfolded(d, s) \o Unfolded(d, t)
<1>1. s \o t \in Seq(Tokens(d))
  BY ConcatProperties
<1>2. Unfolded(d, s \o t) = Spread(Unfolding(d), s \o t) /\ Makes(Unfolding(d), Tokens(d), Tokens(d))
  BY <1>1, UnfoldedSpreads
<1>3. Unfolded(d, s) = Spread(Unfolding(d), s) /\ Unfolded(d, t) = Spread(Unfolding(d), t)
  BY UnfoldedSpreads
<1> DEFINE A == Tokens(d)
           F == Unfolding(d)
<1>4. Spread(F, s \o t) = Spread(F, s) \o Spread(F, t)
  <2>1. s \in Seq(A) /\ t \in Seq(A) /\ Makes(F, A, A)
    BY <1>2
  <2> HIDE DEF A, F
  <2>2. QED BY <2>1, SpreadConcat
<1>5. QED BY <1>2, <1>3, <1>4

\* A round unfolds a text of one token.
LEMMA UnfoldedOne ==
  ASSUME NEW d, IsDefinitions(d), NEW i \in Tokens(d)
  PROVE  Unfolded(d, <<i>>) = Unfold(d, i)
<1>1. <<i>> \in Seq(Tokens(d))
  BY One
<1>2. Unfolded(d, <<i>>) = Unfolding(d)[i]
  BY <1>1, UnfoldedSpreads, SpreadOne
<1>3. QED BY <1>2 DEF Unfolding

-----------------------------------------------------------------------------
(* Rounds *)

\* The texts after each round.
RoundsOf(d, t, n, g) ==
  /\ g \in [0 .. n -> Seq(Tokens(d))] /\ g[0] = t
  /\ \A k \in 0 .. n - 1 : g[k + 1] = Unfolded(d, g[k])
  /\ Meaning(d, t, n) = g[n]

\* The rounds of Meaning, a function that is chosen, are those it defines.
LEMMA MeaningRun ==
  ASSUME NEW d, IsDefinitions(d), NEW t \in Seq(Tokens(d)), NEW n \in Nat
  PROVE  \E g : RoundsOf(d, t, n, g)
<1> DEFINE S == Seq(Tokens(d))
           F == [p \in S \X (0 .. n - 1) |-> Unfolded(d, p[1])]
           Run(g) == g = [k \in 0 .. n |-> IF k = 0 THEN t ELSE Unfolded(d, g[k - 1])]
           c == CHOOSE g : Run(g)
<1>1. \A a \in S : \A k \in 0 .. n - 1 : F[<<a, k>>] = Unfolded(d, a) /\ Unfolded(d, a) \in S
  BY UnfoldedType
<1>2. t \in S
  OBVIOUS
<1>3. Meaning(d, t, n) = c[n]
  BY DEF Meaning
<1> HIDE DEF S, F
<1>4. PICK g : Loop(S, t, F, n, g)
  <2>1. Stays(S, F, n)
    BY <1>1 DEF Stays
  <2>2. QED BY <1>2, <2>1, LoopRuns
<1>5. g \in [0 .. n -> S] /\ g[0] = t
  BY <1>4 DEF Loop
<1>6. ASSUME NEW k \in 0 .. n - 1 PROVE g[k + 1] = Unfolded(d, g[k])
  <2>1. g[k] \in S
    BY <1>5
  <2>2. g[k + 1] = F[<<g[k], k>>]
    BY <1>4 DEF Loop
  <2>3. QED BY <1>1, <2>1, <2>2
<1>7. Run(g)
  <2>1. \A k \in 0 .. n : g[k] = IF k = 0 THEN t ELSE Unfolded(d, g[k - 1])
    <3>1. TAKE k \in 0 .. n
    <3>2. CASE k = 0
      BY <1>5, <3>2
    <3>3. CASE k # 0
      <4>1. k - 1 \in 0 .. n - 1 /\ (k - 1) + 1 = k
        BY <3>3
      <4>2. QED BY <1>6, <3>3, <4>1
    <3>4. QED BY <3>2, <3>3
  <2>2. g = [k \in 0 .. n |-> g[k]]
    BY <1>5
  <2>3. QED BY <2>1, <2>2
<1>8. Run(c)
  BY <1>7, Zenon
<1> HIDE DEF c
<1>9. \A k \in 0 .. n : c[k] = IF k = 0 THEN t ELSE Unfolded(d, c[k - 1])
  BY <1>8
<1> DEFINE T == {k \in Nat : k <= n => c[k] = g[k]}
<1>10. 0 \in T
  BY <1>5, <1>9
<1>11. ASSUME NEW k \in Nat, k \in T PROVE k + 1 \in T
  <2>1. SUFFICES ASSUME k + 1 <= n PROVE c[k + 1] = g[k + 1]
    OBVIOUS
  <2>2. k \in 0 .. n - 1 /\ k + 1 \in 0 .. n /\ k + 1 # 0 /\ (k + 1) - 1 = k /\ k <= n
    BY <2>1
  <2>3. c[k + 1] = Unfolded(d, c[k])
    BY <1>9, <2>2
  <2>4. c[k] = g[k]
    BY <1>11, <2>2
  <2>5. QED BY <1>6, <2>2, <2>3, <2>4
<1> HIDE DEF T
<1>12. n \in T
  BY <1>10, <1>11, Induction
<1>13. Meaning(d, t, n) = g[n]
  BY <1>3, <1>12 DEF T
<1>14. \A k \in 0 .. n - 1 : g[k + 1] = Unfolded(d, g[k])
  BY <1>6
<1>15. QED BY <1>5, <1>13, <1>14 DEF S, RoundsOf

\* The first round and one round more.
LEMMA MeaningIs ==
  ASSUME NEW d, IsDefinitions(d), NEW t \in Seq(Tokens(d)), NEW n \in Nat
  PROVE  /\ Meaning(d, t, 0) = t
         /\ Meaning(d, t, n) \in Seq(Tokens(d))
         /\ Meaning(d, t, n + 1) = Unfolded(d, Meaning(d, t, n))
<1> DEFINE S == Seq(Tokens(d))
<1>1. Meaning(d, t, 0) = t
  <2>1. PICK g : RoundsOf(d, t, 0, g)
    BY MeaningRun
  <2>2. QED BY <2>1 DEF RoundsOf
<1>2. PICK g : RoundsOf(d, t, n, g)
  BY MeaningRun
<1>3. PICK h : RoundsOf(d, t, n + 1, h)
  BY MeaningRun
<1>4. g \in [0 .. n -> S] /\ g[0] = t /\ Meaning(d, t, n) = g[n]
  BY <1>2 DEF RoundsOf
<1>5. \A k \in 0 .. n - 1 : g[k + 1] = Unfolded(d, g[k])
  BY <1>2 DEF RoundsOf
<1>6. h[0] = t /\ Meaning(d, t, n + 1) = h[n + 1]
  BY <1>3 DEF RoundsOf
<1>7. \A k \in 0 .. n + 1 - 1 : h[k + 1] = Unfolded(d, h[k])
  BY <1>3 DEF RoundsOf
<1> HIDE DEF S
<1> DEFINE T == {k \in Nat : k <= n => g[k] = h[k]}
<1>8. 0 \in T
  BY <1>4, <1>6
<1>9. ASSUME NEW k \in Nat, k \in T PROVE k + 1 \in T
  <2>1. SUFFICES ASSUME k + 1 <= n PROVE g[k + 1] = h[k + 1]
    OBVIOUS
  <2>2. k \in 0 .. n - 1 /\ k \in 0 .. n + 1 - 1 /\ k <= n
    BY <2>1
  <2>3. g[k + 1] = Unfolded(d, g[k])
    BY <1>5, <2>2
  <2>4. h[k + 1] = Unfolded(d, h[k])
    BY <1>7, <2>2
  <2>5. g[k] = h[k]
    BY <1>9, <2>2
  <2>6. QED BY <2>3, <2>4, <2>5
<1> HIDE DEF T
<1>10. n \in T
  BY <1>8, <1>9, Induction
<1>11. g[n] = h[n]
  BY <1>10 DEF T
<1>12. n \in 0 .. n + 1 - 1
  OBVIOUS
<1>13. h[n + 1] = Unfolded(d, h[n])
  BY <1>7, <1>12
<1>14. g[n] \in S
  BY <1>4
<1>15. QED BY <1>1, <1>4, <1>6, <1>11, <1>13, <1>14 DEF S

\* The rounds after the first are those of what it made.
LEMMA MeaningNext ==
  ASSUME NEW d, IsDefinitions(d), NEW t \in Seq(Tokens(d)), NEW n \in Nat
  PROVE  Meaning(d, t, n + 1) = Meaning(d, Unfolded(d, t), n)
<1> DEFINE u == Unfolded(d, t)
           T == {k \in Nat : Meaning(d, t, k + 1) = Meaning(d, u, k)}
<1>1. u \in Seq(Tokens(d))
  BY UnfoldedType
<1>2. 0 \in T
  <2>1. 0 \in Nat
    OBVIOUS
  <2>2. Meaning(d, t, 0 + 1) = Unfolded(d, Meaning(d, t, 0)) /\ Meaning(d, t, 0) = t
    BY <2>1, MeaningIs
  <2>3. Meaning(d, u, 0) = u
    BY <1>1, <2>1, MeaningIs
  <2>4. QED BY <2>1, <2>2, <2>3
<1>3. ASSUME NEW k \in Nat, k \in T PROVE k + 1 \in T
  <2>1. k + 1 \in Nat
    OBVIOUS
  <2>2. Meaning(d, t, (k + 1) + 1) = Unfolded(d, Meaning(d, t, k + 1))
    BY <2>1, MeaningIs
  <2>3. Meaning(d, u, k + 1) = Unfolded(d, Meaning(d, u, k))
    BY <1>1, MeaningIs
  <2>4. Meaning(d, t, k + 1) = Meaning(d, u, k)
    BY <1>3
  <2>5. QED BY <2>1, <2>2, <2>3, <2>4
<1> HIDE DEF T
<1>4. n \in T
  BY <1>2, <1>3, Induction
<1>5. QED BY <1>4 DEF T

\* Texts are unfolded apart from each other.
LEMMA MeaningConcat ==
  ASSUME NEW d, IsDefinitions(d), NEW s \in Seq(Tokens(d)), NEW t \in Seq(Tokens(d)), NEW n \in Nat
  PROVE  Meaning(d, s \o t, n) = Meaning(d, s, n) \o Meaning(d, t, n)
<1> DEFINE c == s \o t
           T == {k \in Nat : Meaning(d, c, k) = Meaning(d, s, k) \o Meaning(d, t, k)}
<1>1. c \in Seq(Tokens(d))
  BY ConcatProperties
<1>2. 0 \in T
  <2>1. 0 \in Nat
    OBVIOUS
  <2>2. Meaning(d, s, 0) = s /\ Meaning(d, t, 0) = t
    BY <2>1, MeaningIs
  <2>3. Meaning(d, c, 0) = c
    BY <1>1, <2>1, MeaningIs
  <2>4. QED BY <2>1, <2>2, <2>3
<1> HIDE DEF c
<1>3. ASSUME NEW k \in Nat, k \in T PROVE k + 1 \in T
  <2>1. Meaning(d, c, k + 1) = Unfolded(d, Meaning(d, c, k))
    BY <1>1, MeaningIs
  <2>2. /\ Meaning(d, s, k + 1) = Unfolded(d, Meaning(d, s, k)) /\ Meaning(d, s, k) \in Seq(Tokens(d))
        /\ Meaning(d, t, k + 1) = Unfolded(d, Meaning(d, t, k)) /\ Meaning(d, t, k) \in Seq(Tokens(d))
    BY MeaningIs
  <2>3. Meaning(d, c, k) = Meaning(d, s, k) \o Meaning(d, t, k)
    BY <1>3
  <2>4. Unfolded(d, Meaning(d, s, k) \o Meaning(d, t, k)) = Unfolded(d, Meaning(d, s, k)) \o Unfolded(d, Meaning(d, t, k))
    BY <2>2, UnfoldedConcat
  <2>5. k + 1 \in Nat
    OBVIOUS
  <2>6. QED BY <2>1, <2>2, <2>3, <2>4, <2>5
<1> HIDE DEF T
<1>4. n \in T
  BY <1>2, <1>3, Induction
<1>5. QED BY <1>4 DEF T, c

-----------------------------------------------------------------------------
(* What a text means *)

\* A text of words is a text.
LEMMA WordsAreTokens ==
  ASSUME NEW d, NEW w \in Seq(Words_)
  PROVE  w \in Seq(Tokens(d))
<1>1. Words_ \subseteq Tokens(d)
  BY DEF Tokens, Plain
<1>2. QED BY <1>1, SeqMonotonic

\* A round leaves words as they are.
LEMMA WordsStay ==
  ASSUME NEW d, IsDefinitions(d), NEW w \in Seq(Words_)
  PROVE  Unfolded(d, w) = w
<1> DEFINE T == {n \in Nat : \A v \in Seq(Words_) : Len(v) = n => Unfolded(d, v) = v}
<1>1. 0 \in T
  <2>1. SUFFICES ASSUME NEW v \in Seq(Words_), Len(v) = 0 PROVE Unfolded(d, v) = v
    OBVIOUS
  <2>2. v = <<>>
    BY <2>1, EmptySeq
  <2>3. v \in Seq(Tokens(d))
    BY WordsAreTokens
  <2>4. Unfolded(d, v) = Spread(Unfolding(d), v)
    BY <2>3, UnfoldedSpreads
  <2>5. QED BY <2>2, <2>4, SpreadNone
<1>2. ASSUME NEW n \in Nat, n \in T PROVE n + 1 \in T
  <2>1. SUFFICES ASSUME NEW v \in Seq(Words_), Len(v) = n + 1 PROVE Unfolded(d, v) = v
    OBVIOUS
  <2>2. PICK u \in Seq(Words_), e \in Words_ : v = Append(u, e)
    <3>1. v # <<>>
      BY <2>1, EmptySeq
    <3>2. QED BY <3>1, SequenceEmptyOrAppend
  <2>3. Len(u) = n
    BY <2>1, <2>2, AppendProperties
  <2>4. Unfolded(d, u) = u
    BY <1>2, <2>3
  <2>5. v = u \o <<e>>
    BY <2>2, AppendIsConcat
  <2>6. u \in Seq(Tokens(d)) /\ e \in Tokens(d) /\ <<e>> \in Seq(Tokens(d))
    <3>1. e \in Tokens(d)
      BY DEF Tokens, Plain
    <3>2. QED BY <3>1, WordsAreTokens, One
  <2>7. Unfolded(d, <<e>>) = <<e>>
    BY <2>6, UnfoldedOne, AWord DEF Unfold
  <2>8. QED BY <2>4, <2>5, <2>6, <2>7, UnfoldedConcat
<1> HIDE DEF T
<1>3. Len(w) \in T
  <2>1. Len(w) \in Nat
    OBVIOUS
  <2>2. QED BY <1>1, <1>2, <2>1, Induction
<1>4. QED BY <1>3 DEF T

\* The text t means the words w: some round leaves them.
Means(d, t, w) == w \in Seq(Words_) /\ \E n \in Nat : Meaning(d, t, n) = w

\* Words are left as they are in all rounds that follow.
LEMMA MeaningStays ==
  ASSUME NEW d, IsDefinitions(d), NEW t \in Seq(Tokens(d)), NEW w \in Seq(Words_),
         NEW n \in Nat, Meaning(d, t, n) = w, NEW m \in Nat, n <= m
  PROVE  Meaning(d, t, m) = w
<1> DEFINE T == {j \in Nat : Meaning(d, t, n + j) = w}
<1>1. 0 \in T
  <2>1. n + 0 = n
    OBVIOUS
  <2>2. QED BY <2>1
<1>2. ASSUME NEW j \in Nat, j \in T PROVE j + 1 \in T
  <2>1. n + j \in Nat /\ n + (j + 1) = (n + j) + 1 /\ j + 1 \in Nat
    OBVIOUS
  <2>2. Meaning(d, t, (n + j) + 1) = Unfolded(d, Meaning(d, t, n + j))
    BY <2>1, MeaningIs
  <2>3. Meaning(d, t, n + j) = w
    BY <1>2
  <2>4. QED BY <2>1, <2>2, <2>3, WordsStay
<1> HIDE DEF T
<1>3. m - n \in Nat /\ n + (m - n) = m
  OBVIOUS
<1>4. m - n \in T
  BY <1>1, <1>2, <1>3, Induction
<1>5. QED BY <1>3, <1>4 DEF T

\* A text means one text at most.
LEMMA MeansOne ==
  ASSUME NEW d, IsDefinitions(d), NEW t \in Seq(Tokens(d)), NEW v, NEW w, Means(d, t, v), Means(d, t, w)
  PROVE  v = w
<1>1. PICK n \in Nat : Meaning(d, t, n) = v
  BY DEF Means
<1>2. PICK k \in Nat : Meaning(d, t, k) = w
  BY DEF Means
<1>3. v \in Seq(Words_) /\ w \in Seq(Words_)
  BY DEF Means
<1>4. PICK m \in Nat : n <= m /\ k <= m
  <2>1. n + k \in Nat /\ n <= n + k /\ k <= n + k
    OBVIOUS
  <2>2. QED BY <2>1
<1>5. Meaning(d, t, m) = v
  BY <1>1, <1>3, <1>4, MeaningStays
<1>6. Meaning(d, t, m) = w
  BY <1>2, <1>3, <1>4, MeaningStays
<1>7. QED BY <1>5, <1>6

\* Words mean themselves.
LEMMA WordsMean ==
  ASSUME NEW d, IsDefinitions(d), NEW w \in Seq(Words_)
  PROVE  Means(d, w, w)
<1>1. w \in Seq(Tokens(d)) /\ 0 \in Nat
  BY WordsAreTokens
<1>2. Meaning(d, w, 0) = w
  BY <1>1, MeaningIs
<1>3. QED BY <1>1, <1>2 DEF Means

\* A round does not change what a text means.
LEMMA MeansUnfolded ==
  ASSUME NEW d, IsDefinitions(d), NEW t \in Seq(Tokens(d)), NEW w
  PROVE  Means(d, t, w) <=> Means(d, Unfolded(d, t), w)
<1>1. ASSUME Means(d, t, w) PROVE Means(d, Unfolded(d, t), w)
  <2>1. PICK n \in Nat : Meaning(d, t, n) = w
    BY <1>1 DEF Means
  <2>2. w \in Seq(Words_) /\ n + 1 \in Nat /\ n <= n + 1
    BY <1>1 DEF Means
  <2>3. Meaning(d, t, n + 1) = w
    BY <2>1, <2>2, MeaningStays
  <2>4. Meaning(d, Unfolded(d, t), n) = w
    BY <2>3, MeaningNext
  <2>5. QED BY <2>2, <2>4 DEF Means
<1>2. ASSUME Means(d, Unfolded(d, t), w) PROVE Means(d, t, w)
  <2>1. PICK n \in Nat : Meaning(d, Unfolded(d, t), n) = w
    BY <1>2 DEF Means
  <2>2. Meaning(d, t, n + 1) = w
    BY <2>1, MeaningNext
  <2>3. n + 1 \in Nat
    OBVIOUS
  <2>4. QED BY <1>2, <2>2, <2>3 DEF Means
<1>3. QED BY <1>1, <1>2

\* Of words put behind each other both parts are words.
LEMMA WordsSplit ==
  ASSUME NEW S, NEW s \in Seq(S), NEW t \in Seq(S), NEW W, s \o t \in Seq(W)
  PROVE  s \in Seq(W) /\ t \in Seq(W)
<1> DEFINE c == s \o t
<1>1. /\ Len(s) \in Nat /\ Len(t) \in Nat /\ Len(c) = Len(s) + Len(t)
      /\ s \in [1 .. Len(s) -> S] /\ t \in [1 .. Len(t) -> S]
  BY ConcatProperties, LenProperties
<1>2. \A i \in 1 .. Len(s) + Len(t) : c[i] = IF i <= Len(s) THEN s[i] ELSE t[i - Len(s)]
  BY ConcatProperties
<1>3. \A i \in 1 .. Len(c) : c[i] \in W
  OBVIOUS
<1> HIDE DEF c
<1>4. s \in Seq(W)
  <2>1. \A i \in 1 .. Len(s) : s[i] \in W
    <3>1. TAKE i \in 1 .. Len(s)
    <3>2. i \in 1 .. Len(s) + Len(t) /\ i <= Len(s)
      BY <1>1
    <3>3. QED BY <1>1, <1>2, <1>3, <3>2
  <2>2. s \in [1 .. Len(s) -> W]
    BY <1>1, <2>1
  <2>3. QED BY <1>1, <2>2, Row
<1>5. t \in Seq(W)
  <2>1. \A i \in 1 .. Len(t) : t[i] \in W
    <3>1. TAKE i \in 1 .. Len(t)
    <3>2. i + Len(s) \in 1 .. Len(s) + Len(t) /\ ~(i + Len(s) <= Len(s)) /\ (i + Len(s)) - Len(s) = i
      BY <1>1
    <3>3. c[i + Len(s)] = t[i]
      BY <1>2, <3>2
    <3>4. QED BY <1>1, <1>3, <3>2, <3>3
  <2>2. t \in [1 .. Len(t) -> W]
    BY <1>1, <2>1
  <2>3. QED BY <1>1, <2>2, Row
<1>6. QED BY <1>4, <1>5

\* The words w are those that s means and those that t means.
Parts(d, s, t, w) == \E u, v : Means(d, s, u) /\ Means(d, t, v) /\ w = u \o v

\* What two texts mean together is what each means, one behind the other.
LEMMA MeansParts ==
  ASSUME NEW d, IsDefinitions(d), NEW s \in Seq(Tokens(d)), NEW t \in Seq(Tokens(d)), NEW w,
         Means(d, s \o t, w)
  PROVE  Parts(d, s, t, w)
<1>1. PICK n \in Nat : Meaning(d, s \o t, n) = w
  BY DEF Means
<1> DEFINE u == Meaning(d, s, n)
           v == Meaning(d, t, n)
<1>2. w = u \o v
  BY <1>1, MeaningConcat
<1>3. u \in Seq(Tokens(d)) /\ v \in Seq(Tokens(d))
  BY MeaningIs
<1>4. w \in Seq(Words_)
  BY DEF Means
<1>5. Means(d, s, u) <=> u \in Seq(Words_)
  BY DEF Means
<1>6. Means(d, t, v) <=> v \in Seq(Words_)
  BY DEF Means
<1> HIDE DEF u, v
<1>7. u \in Seq(Words_) /\ v \in Seq(Words_)
  BY <1>2, <1>3, <1>4, WordsSplit
<1>8. QED BY <1>2, <1>5, <1>6, <1>7 DEF Parts

\* Two texts mean together what each means, one behind the other.
LEMMA MeansJoined ==
  ASSUME NEW d, IsDefinitions(d), NEW s \in Seq(Tokens(d)), NEW t \in Seq(Tokens(d)),
         NEW u, NEW v, Means(d, s, u), Means(d, t, v)
  PROVE  Means(d, s \o t, u \o v)
<1>1. PICK n \in Nat : Meaning(d, s, n) = u
  BY DEF Means
<1>2. PICK k \in Nat : Meaning(d, t, k) = v
  BY DEF Means
<1>3. u \in Seq(Words_) /\ v \in Seq(Words_)
  BY DEF Means
<1> DEFINE m == n + k
<1>9. m \in Nat /\ n <= m /\ k <= m
  OBVIOUS
<1> HIDE DEF m
<1>4. Meaning(d, s, m) = u
  BY <1>1, <1>3, <1>9, MeaningStays
<1>5. Meaning(d, t, m) = v
  BY <1>2, <1>3, <1>9, MeaningStays
<1>6. Meaning(d, s \o t, m) = u \o v
  BY <1>9, <1>4, <1>5, MeaningConcat
<1>7. u \o v \in Seq(Words_)
  BY <1>3, ConcatProperties
<1>8. QED BY <1>9, <1>6, <1>7 DEF Means

-----------------------------------------------------------------------------
(* Texts that mean the same *)

Same(d, s, t) == \A w : Means(d, s, w) <=> Means(d, t, w)

\* A part is replaced by one that means the same.
LEMMA MeansReplaced ==
  ASSUME NEW d, IsDefinitions(d),
         NEW s \in Seq(Tokens(d)), NEW t \in Seq(Tokens(d)), Same(d, s, t),
         NEW u \in Seq(Tokens(d)), NEW v \in Seq(Tokens(d)), Same(d, u, v),
         NEW w, Means(d, s \o u, w)
  PROVE  Means(d, t \o v, w)
<1>1. Parts(d, s, u, w)
  BY MeansParts
<1>2. PICK e, f : Means(d, s, e) /\ Means(d, u, f) /\ w = e \o f
  BY <1>1 DEF Parts
<1>3. Means(d, t, e) /\ Means(d, v, f)
  BY <1>2 DEF Same
<1>4. QED BY <1>2, <1>3, MeansJoined

\* Texts of parts that mean the same mean the same.
LEMMA SameConcat ==
  ASSUME NEW d, IsDefinitions(d),
         NEW s \in Seq(Tokens(d)), NEW t \in Seq(Tokens(d)), Same(d, s, t),
         NEW u \in Seq(Tokens(d)), NEW v \in Seq(Tokens(d)), Same(d, u, v)
  PROVE  Same(d, s \o u, t \o v)
<1>1. Same(d, t, s) /\ Same(d, v, u)
  BY DEF Same
<1>2. \A w : Means(d, s \o u, w) => Means(d, t \o v, w)
  BY MeansReplaced
<1>3. \A w : Means(d, t \o v, w) => Means(d, s \o u, w)
  BY <1>1, MeansReplaced
<1>4. QED BY <1>2, <1>3 DEF Same

\* The use of a macro means what its body means with the argument in it.
LEMMA UseMeans ==
  ASSUME NEW d, IsDefinitions(d), NEW i \in Tokens(d), i.kind # "word"
  PROVE  Same(d, <<i>>, Substitute(d[i.of], i.arg))
<1>1. <<i>> \in Seq(Tokens(d))
  BY One
<1>2. Unfolded(d, <<i>>) = Substitute(d[i.of], i.arg)
  BY UnfoldedOne DEF Unfold
<1>3. QED BY <1>1, <1>2, MeansUnfolded DEF Same

\* The words that n rounds make of s are also what t means.
Transfers(d, s, t, n) == Meaning(d, s, n) \in Seq(Words_) => Means(d, t, Meaning(d, s, n))

\* Texts that mean the same transfer words to each other.
LEMMA SameTransfers ==
  ASSUME NEW d, NEW s, NEW t, Same(d, s, t), NEW n \in Nat
  PROVE  Transfers(d, s, t, n)
BY DEF Same, Transfers, Means

\* What holds of all items holds of the body.
LEMMA BodyTransfers ==
  ASSUME NEW d, IsDefinitions(d), NEW a \in Seq(Plain(d)), NEW b \in Seq(Plain(d)), NEW n \in Nat,
         NEW m \in Macro, \A i \in Written(d, m) : Transfers(d, Put(a, i), Put(b, i), n),
         NEW body \in Seq(Written(d, m))
  PROVE  Transfers(d, Substitute(body, a), Substitute(body, b), n)
<1> DEFINE T == {k \in Nat : \A u \in Seq(Written(d, m)) : Len(u) = k =>
                                Transfers(d, Substitute(u, a), Substitute(u, b), n)}
<1>1. 0 \in T
  <2>1. SUFFICES ASSUME NEW u \in Seq(Written(d, m)), Len(u) = 0
                 PROVE  Transfers(d, Substitute(u, a), Substitute(u, b), n)
    OBVIOUS
  <2>2. u = <<>>
    BY <2>1, EmptySeq
  <2>3. Substitute(u, a) = Substitute(u, b)
    BY <2>2, SubstituteNone
  <2>4. QED BY <2>3 DEF Transfers, Means
<1>2. ASSUME NEW k \in Nat, k \in T PROVE k + 1 \in T
  <2>1. SUFFICES ASSUME NEW u \in Seq(Written(d, m)), Len(u) = k + 1
                 PROVE  Transfers(d, Substitute(u, a), Substitute(u, b), n)
    OBVIOUS
  <2>2. PICK v \in Seq(Written(d, m)), e \in Written(d, m) : u = Append(v, e)
    <3>1. u # <<>>
      BY <2>1, EmptySeq
    <3>2. QED BY <3>1, SequenceEmptyOrAppend
  <2>3. Len(v) = k
    BY <2>1, <2>2, AppendProperties
  <2>4. Transfers(d, Substitute(v, a), Substitute(v, b), n)
    BY <1>2, <2>3
  <2>5. Transfers(d, Put(a, e), Put(b, e), n)
    OBVIOUS
  <2>7. \A arg \in Seq(Plain(d)) :
           /\ Substitute(u, arg) = Substitute(v, arg) \o Put(arg, e)
           /\ Substitute(v, arg) \in Seq(Tokens(d)) /\ Put(arg, e) \in Seq(Tokens(d))
    <3>1. TAKE arg \in Seq(Plain(d))
    <3>2. Substitute(u, arg) = Substitute(v, arg) \o Put(arg, e)
      BY <2>2, SubstituteAppend
    <3>3. Substitute(v, arg) \in Seq(Tokens(d)) /\ Put(arg, e) \in Seq(Tokens(d))
      BY SubstituteType, PutType
    <3>4. QED BY <3>2, <3>3
  <2> DEFINE p == Substitute(v, a)
             q == Put(a, e)
             r == Substitute(v, b)
             s == Put(b, e)
  <2>8. p \in Seq(Tokens(d)) /\ q \in Seq(Tokens(d)) /\ r \in Seq(Tokens(d)) /\ s \in Seq(Tokens(d))
    BY <2>7
  <2>9. Substitute(u, a) = p \o q /\ Substitute(u, b) = r \o s
    BY <2>7
  <2> HIDE DEF p, q, r, s
  <2>10. Meaning(d, p \o q, n) = Meaning(d, p, n) \o Meaning(d, q, n)
    BY <2>8, MeaningConcat
  <2>11. Meaning(d, p, n) \in Seq(Tokens(d)) /\ Meaning(d, q, n) \in Seq(Tokens(d))
    BY <2>8, MeaningIs
  <2>12. ASSUME Meaning(d, p \o q, n) \in Seq(Words_) PROVE Means(d, r \o s, Meaning(d, p \o q, n))
    <3>1. Meaning(d, p, n) \in Seq(Words_) /\ Meaning(d, q, n) \in Seq(Words_)
      BY <2>10, <2>11, <2>12, WordsSplit
    <3>2. Means(d, r, Meaning(d, p, n)) /\ Means(d, s, Meaning(d, q, n))
      BY <2>4, <2>5, <3>1 DEF Transfers, p, q, r, s
    <3>3. QED BY <2>8, <2>10, <3>2, MeansJoined
  <2>13. QED BY <2>9, <2>12 DEF Transfers
<1> HIDE DEF T
<1>3. Len(body) \in T
  <2>1. Len(body) \in Nat
    OBVIOUS
  <2>2. QED BY <1>1, <1>2, <2>1, Induction
<1>4. QED BY <1>3 DEF T

\* The items of a body with either of two arguments that mean the same.
LEMMA ItemsTransfer ==
  ASSUME NEW d, IsDefinitions(d), NEW a \in Seq(Plain(d)), NEW b \in Seq(Plain(d)), Same(d, a, b),
         NEW n \in Nat
  PROVE  \A m \in Macro : \A i \in Written(d, m) : Transfers(d, Put(a, i), Put(b, i), n)
<1> DEFINE Claim(k) == \A m \in Macro : \A i \in Written(d, m) : Transfers(d, Put(a, i), Put(b, i), k)
           T == {k \in Nat : Claim(k)}
<1>1. ASSUME NEW k \in Nat,
             \A l \in Functions_ : Transfers(d, <<Use(l, a)>>, <<Use(l, b)>>, k)
      PROVE  Claim(k)
  <2>1. SUFFICES ASSUME NEW m \in Macro, NEW i \in Written(d, m)
                 PROVE  Transfers(d, Put(a, i), Put(b, i), k)
    OBVIOUS
  <2>2. Transfers(d, a, b, k)
    BY SameTransfers
  <2>3. Transfers(d, <<i>>, <<i>>, k)
    BY DEF Transfers, Means
  <2>4. QED BY <1>1, <2>2, <2>3, PutIs
<1>2. \A l \in Functions_ : Use(l, a) \in Tokens(d) /\ Use(l, b) \in Tokens(d)
  BY UseType
<1>3. \A l \in Functions_ : <<Use(l, a)>> \in Seq(Tokens(d)) /\ <<Use(l, b)>> \in Seq(Tokens(d))
  BY <1>2, One
<1>4. 0 \in T
  <2>1. ASSUME NEW l \in Functions_ PROVE Transfers(d, <<Use(l, a)>>, <<Use(l, b)>>, 0)
    <3>1. Meaning(d, <<Use(l, a)>>, 0) = <<Use(l, a)>>
      <4>1. 0 \in Nat
        OBVIOUS
      <4>2. QED BY <1>3, <4>1, MeaningIs
    <3>2. <<Use(l, a)>> \notin Seq(Words_)
      <4>1. SUFFICES ASSUME <<Use(l, a)>> \in Seq(Words_) PROVE FALSE
        OBVIOUS
      <4>2. Use(l, a) \in Words_
        BY <4>1
      <4>3. Use(l, a).kind = "use"
        BY DEF Use
      <4>4. QED BY <4>2, <4>3, AWord
    <3>3. QED BY <3>1, <3>2 DEF Transfers
  <2>2. QED BY <1>1, <2>1
<1>5. ASSUME NEW k \in Nat, k \in T PROVE k + 1 \in T
  <2>1. ASSUME NEW l \in Functions_ PROVE Transfers(d, <<Use(l, a)>>, <<Use(l, b)>>, k + 1)
    <3>1. l \in Macro /\ d[l] \in Seq(Written(d, l))
      BY DEF Macro, IsDefinitions
    <3>2. Transfers(d, Substitute(d[l], a), Substitute(d[l], b), k)
      BY <1>5, <3>1, BodyTransfers
    <3>3. \A arg \in Seq(Plain(d)) : Unfolded(d, <<Use(l, arg)>>) = Substitute(d[l], arg)
      <4>1. TAKE arg \in Seq(Plain(d))
      <4>2. Use(l, arg) \in Tokens(d)
        BY UseType
      <4>3. Unfolded(d, <<Use(l, arg)>>) = Unfold(d, Use(l, arg))
        BY <4>2, UnfoldedOne
      <4>4. QED BY <4>3 DEF Unfold, Use
    <3>4. Meaning(d, <<Use(l, a)>>, k + 1) = Meaning(d, Substitute(d[l], a), k)
      <4>1. Meaning(d, <<Use(l, a)>>, k + 1) = Meaning(d, Unfolded(d, <<Use(l, a)>>), k)
        BY <1>3, MeaningNext
      <4>2. QED BY <3>3, <4>1
    <3>5. \A w : Means(d, <<Use(l, b)>>, w) <=> Means(d, Substitute(d[l], b), w)
      <4> DEFINE u == <<Use(l, b)>>
      <4>1. u \in Seq(Tokens(d)) /\ Unfolded(d, u) = Substitute(d[l], b)
        BY <1>3, <3>3
      <4> HIDE DEF u
      <4>2. \A w : Means(d, u, w) <=> Means(d, Unfolded(d, u), w)
        BY <4>1, MeansUnfolded
      <4>3. QED BY <4>1, <4>2 DEF u
    <3>6. QED BY <3>2, <3>4, <3>5 DEF Transfers
  <2>2. k + 1 \in Nat
    OBVIOUS
  <2>3. QED BY <1>1, <2>1, <2>2
<1> HIDE DEF T
<1>6. n \in T
  BY <1>4, <1>5, Induction
<1>7. QED BY <1>6 DEF T

\* An argument may be replaced by one that means the same.
LEMMA SameArgument ==
  ASSUME NEW d, IsDefinitions(d), NEW a \in Seq(Plain(d)), NEW b \in Seq(Plain(d)), Same(d, a, b),
         NEW m \in Macro
  PROVE  Same(d, Substitute(d[m], a), Substitute(d[m], b))
<1>1. Same(d, b, a)
  BY DEF Same
<1>2. d[m] \in Seq(Written(d, m))
  BY DEF IsDefinitions
<1>3. ASSUME NEW p \in Seq(Plain(d)), NEW q \in Seq(Plain(d)), Same(d, p, q), NEW w,
             Means(d, Substitute(d[m], p), w)
      PROVE  Means(d, Substitute(d[m], q), w)
  <2>1. PICK n \in Nat : Meaning(d, Substitute(d[m], p), n) = w
    BY <1>3 DEF Means
  <2>2. \A i \in Written(d, m) : Transfers(d, Put(p, i), Put(q, i), n)
    BY <1>3, ItemsTransfer
  <2>3. Transfers(d, Substitute(d[m], p), Substitute(d[m], q), n)
    BY <1>2, <2>2, BodyTransfers
  <2>4. QED BY <1>3, <2>1, <2>3 DEF Transfers, Means
<1>4. QED BY <1>1, <1>3 DEF Same

-----------------------------------------------------------------------------
(* Pasting *)

Settled(d) == Words_ \cup Glued(d)

PasteOne(i) == IF i.kind = "pieces" THEN Use(i.of, <<>>) ELSE i

\* The kinds of tokens lie in each other.
LEMMA SettledTokens ==
  ASSUME NEW d
  PROVE  Settled(d) \subseteq Plain(d) /\ Plain(d) \subseteq Tokens(d) /\ Settled(d) \subseteq Tokens(d)
BY DEF Settled, Plain, Tokens

\* Pasting a token does not change what it means, and leaves words only as they are.
LEMMA PasteOneIs ==
  ASSUME NEW d, IsDefinitions(d), NEW i \in Settled(d)
  PROVE  /\ PasteOne(i) \in Tokens(d)
         /\ Same(d, <<PasteOne(i)>>, <<i>>)
         /\ PasteOne(i) = i => i \in Words_
<1>1. CASE i \in Words_
  <2>1. PasteOne(i) = i
    BY <1>1, AWord DEF PasteOne
  <2>2. QED BY <1>1, <2>1 DEF Same, Tokens, Plain
<1>2. CASE i \in Glued(d)
  <2> DEFINE u == PasteOne(i)
  <2>1. i.kind = "pieces" /\ i.of \in Simple /\ i.arg = <<>> /\ i \in Tokens(d)
    BY <1>2, Piece DEF Tokens, Plain
  <2>2. u = Use(i.of, <<>>)
    BY <2>1 DEF PasteOne
  <2>3. u \in Tokens(d)
    BY <2>1, <2>2 DEF Tokens, Plain, SimpleUses
  <2>4. u.kind = "use" /\ u.of = i.of /\ u.arg = i.arg
    BY <2>1, <2>2 DEF Use
  <2> HIDE DEF u
  <2>5. Same(d, <<u>>, Substitute(d[u.of], u.arg))
    BY <2>3, <2>4, UseMeans
  <2>6. Same(d, <<i>>, Substitute(d[i.of], i.arg))
    BY <2>1, UseMeans
  <2>7. Same(d, <<u>>, <<i>>)
    BY <2>4, <2>5, <2>6 DEF Same
  <2>8. u # i
    BY <2>1, <2>4
  <2>9. QED BY <2>3, <2>7, <2>8 DEF u
<1>3. QED BY <1>1, <1>2 DEF Settled

\* A text is pasted token by token.
LEMMA PasteIs ==
  ASSUME NEW d, IsDefinitions(d), NEW text \in Seq(Settled(d))
  PROVE  /\ Paste(text) \in Seq(Tokens(d))
         /\ Len(Paste(text)) = Len(text)
         /\ \A k \in 1 .. Len(text) : Paste(text)[k] = PasteOne(text[k])
<1>1. Len(text) \in Nat /\ DOMAIN text = 1 .. Len(text) /\ \A k \in 1 .. Len(text) : text[k] \in Settled(d)
  BY LenProperties
<1>2. \A k \in 1 .. Len(text) : Paste(text)[k] = PasteOne(text[k]) /\ Paste(text)[k] \in Tokens(d)
  <2>1. \A k \in 1 .. Len(text) : Paste(text)[k] = PasteOne(text[k])
    BY <1>1 DEF Paste, PasteOne
  <2>2. QED BY <1>1, <2>1, PasteOneIs
<1>3. Paste(text) \in [1 .. Len(text) -> Tokens(d)]
  <2>1. DOMAIN Paste(text) = 1 .. Len(text) /\ Paste(text) = [k \in 1 .. Len(text) |-> Paste(text)[k]]
    BY <1>1 DEF Paste
  <2>2. QED BY <1>2, <2>1
<1>4. QED BY <1>1, <1>2, <1>3, Row

\* Pasting does not change the meaning, and changes every text that has pieces.
LEMMA PasteSame ==
  ASSUME NEW d, IsDefinitions(d), NEW text \in Seq(Settled(d))
  PROVE  Same(d, Paste(text), text)
<1> DEFINE T == {n \in Nat : \A t \in Seq(Settled(d)) : Len(t) = n => Same(d, Paste(t), t)}
<1>1. 0 \in T
  <2>1. SUFFICES ASSUME NEW t \in Seq(Settled(d)), Len(t) = 0 PROVE Same(d, Paste(t), t)
    OBVIOUS
  <2>2. t = <<>>
    BY <2>1, EmptySeq
  <2>3. Paste(t) \in Seq(Tokens(d)) /\ Len(Paste(t)) = 0
    BY <2>1, PasteIs
  <2>4. Paste(t) = <<>>
    BY <2>3, EmptySeq
  <2>5. QED BY <2>2, <2>4 DEF Same
<1>2. ASSUME NEW n \in Nat, n \in T PROVE n + 1 \in T
  <2>1. SUFFICES ASSUME NEW t \in Seq(Settled(d)), Len(t) = n + 1 PROVE Same(d, Paste(t), t)
    OBVIOUS
  <2>2. PICK v \in Seq(Settled(d)), e \in Settled(d) : t = Append(v, e)
    <3>1. t # <<>>
      BY <2>1, EmptySeq
    <3>2. QED BY <3>1, SequenceEmptyOrAppend
  <2>3. Len(v) = n /\ t[n + 1] = e /\ \A k \in 1 .. n : t[k] = v[k]
    BY <2>1, <2>2, AppendProperties
  <2>4. Same(d, Paste(v), v)
    BY <1>2, <2>3
  <2> DEFINE p == Paste(v)
             f == PasteOne(e)
  <2>5. p \in Seq(Tokens(d)) /\ Len(p) = n /\ \A k \in 1 .. n : p[k] = PasteOne(v[k])
    BY <2>3, PasteIs
  <2>6. f \in Tokens(d) /\ Same(d, <<f>>, <<e>>)
    BY PasteOneIs
  <2>7. Paste(t) \in Seq(Tokens(d)) /\ Len(Paste(t)) = n + 1 /\ \A k \in 1 .. n + 1 : Paste(t)[k] = PasteOne(t[k])
    BY <2>1, PasteIs
  <2> HIDE DEF p
  <2>8. Paste(t) = Append(p, f)
    <3>1. Append(p, f) \in Seq(Tokens(d)) /\ Len(Append(p, f)) = n + 1
      BY <2>5, <2>6, AppendProperties
    <3>2. ASSUME NEW k \in 1 .. n + 1 PROVE Paste(t)[k] = Append(p, f)[k]
      <4>1. CASE k = n + 1
        BY <2>3, <2>5, <2>7, <4>1
      <4>2. CASE k # n + 1
        <5>1. k \in 1 .. n
          BY <4>2
        <5>2. QED BY <2>3, <2>5, <2>7, <5>1
      <4>3. QED BY <4>1, <4>2
    <3>3. QED BY <2>7, <3>1, <3>2, SeqEqual
  <2> HIDE DEF f
  <2>9. v \in Seq(Tokens(d)) /\ <<e>> \in Seq(Tokens(d)) /\ <<f>> \in Seq(Tokens(d))
    <3>1. Settled(d) \subseteq Tokens(d)
      BY SettledTokens
    <3>2. v \in Seq(Tokens(d))
      BY <3>1, SeqMonotonic
    <3>3. QED BY <2>6, <3>1, <3>2, One
  <2>10. Same(d, p \o <<f>>, v \o <<e>>)
    BY <2>4, <2>5, <2>6, <2>9, SameConcat DEF p
  <2>11. Append(p, f) = p \o <<f>> /\ Append(v, e) = v \o <<e>>
    BY <2>5, <2>6, AppendIsConcat
  <2>12. QED BY <2>2, <2>8, <2>10, <2>11
<1> HIDE DEF T
<1>3. Len(text) \in T
  <2>1. Len(text) \in Nat
    OBVIOUS
  <2>2. QED BY <1>1, <1>2, <2>1, Induction
<1>4. QED BY <1>3 DEF T

\* A text that pasting does not change is words.
LEMMA NothingPasted ==
  ASSUME NEW d, IsDefinitions(d), NEW text \in Seq(Settled(d)), Paste(text) = text
  PROVE  text \in Seq(Words_)
<1>1. \A k \in 1 .. Len(text) : text[k] \in Settled(d) /\ PasteOne(text[k]) = text[k]
  BY PasteIs
<1>2. \A k \in 1 .. Len(text) : text[k] \in Words_
  BY <1>1, PasteOneIs
<1>3. Len(text) \in Nat /\ text \in [1 .. Len(text) -> Settled(d)]
  BY LenProperties
<1>4. text \in [1 .. Len(text) -> Words_]
  BY <1>2, <1>3
<1>5. QED BY <1>3, <1>4, Row

-----------------------------------------------------------------------------
(* A frame stands for the use that it expands *)

FrameType(d) ==
  [todo : Seq(Tokens(d)), done : Seq(Settled(d)), expanded : BOOLEAN,
   already : SUBSET Macro, for : Tokens(d) \cup {NoUse}]

\* What is done and what is to be done mean what the use u means, or its argument.
StandsFor(d, f, u) ==
  /\ f \in FrameType(d) /\ u \in Tokens(d) /\ u.kind = "use"
  /\ \/ f.for = NoUse /\ Same(d, f.done \o f.todo, <<u>>)
     \/ /\ f.for = u /\ Param \in ToSet(d[u.of])
        /\ f.todo \in Seq(Plain(d)) /\ Same(d, f.done \o f.todo, u.arg)

\* A use is a use.
LEMMA NoUseIsNone == ASSUME NEW u, u.kind = "use" PROVE u # NoUse
BY DEF NoUse

\* A token is settled, or the use of a macro.
LEMMA ATokenIs ==
  ASSUME NEW d, NEW i \in Tokens(d)
  PROVE  \/ i \in Settled(d) /\ i.kind # "use"
         \/ i.kind = "use" /\ i.of \in Macro /\ i.arg \in Seq(Plain(d))
<1>1. CASE i \in Words_
  BY <1>1, AWord DEF Settled
<1>2. CASE i \in Glued(d)
  BY <1>2, Piece DEF Settled
<1>3. CASE i \in SimpleUses
  BY <1>3, ASimpleUse, EmptySeq DEF Macro
<1>4. CASE i \in WithArgument(d)
  BY <1>4, AUse DEF Macro
<1>5. QED BY <1>1, <1>2, <1>3, <1>4 DEF Tokens, Plain

\* A frame that begins is a frame.
LEMMA FrameIs ==
  ASSUME NEW d, NEW todo \in Seq(Tokens(d)), NEW already \in SUBSET Macro, NEW for \in Tokens(d) \cup {NoUse}
  PROVE  Frame(todo, already, for) \in FrameType(d)
BY DEF Frame, FrameType

\* A token joins the text before it or the text behind it.
LEMMA Regrouped ==
  ASSUME NEW S, NEW s \in Seq(S), NEW h \in S, NEW o, o = <<h>>, NEW r \in Seq(S)
  PROVE  Append(s, h) \o r = s \o (o \o r)
<1>1. o \in Seq(S)
  BY One
<1>2. Append(s, h) = s \o o
  BY AppendIsConcat
<1>3. (s \o o) \o r = s \o (o \o r)
  BY <1>1, ConcatAssociative
<1>4. QED BY <1>2, <1>3

\* A token that stays goes from one side to the other.
LEMMA MoveHead ==
  ASSUME NEW S, NEW s \in Seq(S), NEW t \in Seq(S), t # <<>>
  PROVE  /\ Append(s, Head(t)) \o Tail(t) = s \o t
         /\ t = <<Head(t)>> \o Tail(t) /\ Head(t) \in S /\ Tail(t) \in Seq(S)
<1> DEFINE h == Head(t)
           r == Tail(t)
           o == <<h>>
<1>1. h \in S /\ r \in Seq(S)
  BY HeadTailProperties
<1>2. o \in Seq(S)
  BY <1>1, One
<1>3. t = o \o r
  <2>1. Len(r) = Len(t) - 1 /\ \A i \in 1 .. Len(r) : r[i] = t[i + 1]
    BY HeadTailProperties
  <2>2. Len(t) \in Nat \ {0} /\ t[1] = h
    BY EmptySeq
  <2>3. o \o r \in Seq(S) /\ Len(o \o r) = Len(t) /\ Len(o) = 1 /\ o[1] = h
    BY <1>1, <1>2, <2>1, <2>2, ConcatProperties
  <2> HIDE DEF o, r, h
  <2>4. ASSUME NEW i \in 1 .. Len(t) PROVE t[i] = (o \o r)[i]
    <3>1. i \in 1 .. Len(o) + Len(r)
      BY <2>1, <2>2, <2>3
    <3>2. (o \o r)[i] = IF i <= Len(o) THEN o[i] ELSE r[i - Len(o)]
      BY <1>1, <1>2, <3>1, ConcatProperties
    <3>3. CASE i = 1
      BY <2>2, <2>3, <3>2, <3>3
    <3>4. CASE i # 1
      <4>1. ~(i <= Len(o)) /\ i - 1 \in 1 .. Len(r) /\ (i - 1) + 1 = i
        BY <2>1, <2>2, <2>3, <3>4
      <4>2. r[i - 1] = t[i]
        BY <2>1, <4>1
      <4>3. QED BY <2>3, <3>2, <4>1, <4>2
    <3>5. QED BY <3>3, <3>4
  <2>5. QED BY <2>3, <2>4, SeqEqual
<1> HIDE DEF h, r
<1>5. Append(s, h) \o r = s \o (o \o r)
  BY <1>1, Regrouped
<1>6. QED BY <1>1, <1>3, <1>5 DEF o, h, r

Kept(f) == [f EXCEPT !.todo = Tail(@), !.done = Append(@, Head(f.todo))]

\* A frame stands for the same use when a token is kept.
LEMMA KeepStands ==
  ASSUME NEW d, NEW f, NEW u, StandsFor(d, f, u), f.todo # <<>>, Head(f.todo).kind # "use"
  PROVE  StandsFor(d, Kept(f), u)
<1> DEFINE i == Head(f.todo)
           g == Kept(f)
<1>1. f \in FrameType(d) /\ f.todo \in Seq(Tokens(d)) /\ f.done \in Seq(Settled(d))
  BY DEF StandsFor, FrameType
<1>2. f.done \in Seq(Tokens(d))
  BY <1>1, SettledTokens, SeqMonotonic
<1>3. i \in Tokens(d) /\ Tail(f.todo) \in Seq(Tokens(d)) /\ Append(f.done, i) \o Tail(f.todo) = f.done \o f.todo
  <2> DEFINE s == f.done
             t == f.todo
             S == Tokens(d)
  <2>1. s \in Seq(S) /\ t \in Seq(S) /\ t # <<>>
    BY <1>1, <1>2
  <2> HIDE DEF s, t, S
  <2>2. Append(s, Head(t)) \o Tail(t) = s \o t /\ Head(t) \in S /\ Tail(t) \in Seq(S)
    BY <2>1, MoveHead
  <2>3. QED BY <2>2 DEF s, t, S
<1>4. Append(f.done, i) \in Seq(Settled(d))
  <2>1. i \in Settled(d)
    BY <1>3, ATokenIs
  <2>2. QED BY <1>1, <2>1, AppendProperties
<1>5. /\ g.todo = Tail(f.todo) /\ g.done = Append(f.done, i) /\ g.for = f.for /\ g \in FrameType(d)
  BY <1>1, <1>3, <1>4 DEF Kept, FrameType
<1>6. f.todo \in Seq(Plain(d)) => Tail(f.todo) \in Seq(Plain(d))
  BY HeadTailProperties
<1> HIDE DEF g
<1>7. g.done \o g.todo = f.done \o f.todo
  BY <1>3, <1>5
<1>8. QED BY <1>5, <1>6, <1>7 DEF StandsFor, g

\* A frame that begins stands for its use.
LEMMA ExpandStands ==
  ASSUME IsDefinitions(bodies), NEW u \in Tokens(bodies), u.kind = "use", NEW already \in SUBSET Macro
  PROVE  StandsFor(bodies, Expand(u, already), u)
<1> DEFINE d == bodies
           t == Substitute(d[u.of], u.arg)
<1>1. u.of \in Macro /\ u.arg \in Seq(Plain(d))
  BY ATokenIs
<1>2. d[u.of] \in Seq(Written(d, u.of))
  BY <1>1 DEF IsDefinitions
<1>3. t \in Seq(Tokens(d)) /\ u.arg \in Seq(Tokens(d))
  BY <1>1, <1>2, SubstituteType, SettledTokens, SeqMonotonic
<1>4. Same(d, t, <<u>>)
  BY UseMeans DEF Same
<1>5. CASE NeedsArgument(u)
  <2> DEFINE f == Frame(u.arg, {}, u)
  <2>1. Expand(u, already) = f /\ Param \in ToSet(d[u.of])
    BY <1>5 DEF Expand, NeedsArgument
  <2>2. f \in FrameType(d)
    BY <1>3, FrameIs
  <2>3. f.for = u /\ f.done = <<>> /\ f.todo = u.arg
    BY DEF Frame
  <2>4. <<>> \o u.arg = u.arg
    BY <1>3, ConcatEmptySeq
  <2> HIDE DEF f
  <2>5. QED BY <1>1, <2>1, <2>2, <2>3, <2>4 DEF StandsFor, Same
<1>6. CASE ~NeedsArgument(u)
  <2> DEFINE f == Frame(t, already \cup {u.of}, NoUse)
  <2>1. Expand(u, already) = f
    BY <1>6 DEF Expand
  <2>2. f \in FrameType(d)
    BY <1>1, <1>3, FrameIs
  <2>3. f.for = NoUse /\ f.done = <<>> /\ f.todo = t
    BY DEF Frame
  <2>4. <<>> \o t = t
    BY <1>3, ConcatEmptySeq
  <2> HIDE DEF f, t
  <2>5. QED BY <1>4, <2>1, <2>2, <2>3, <2>4 DEF StandsFor
<1>7. QED BY <1>5, <1>6

\* The body with the expanded argument means what it means with the argument as it was.
LEMMA ArgumentStands ==
  ASSUME NEW d, IsDefinitions(d), NEW f, NEW u, StandsFor(d, f, u), f.todo = <<>>, f.for # NoUse,
         NEW already \in SUBSET Macro
  PROVE  f.for = u /\ StandsFor(d, Frame(Substitute(d[u.of], f.done), already, NoUse), u)
<1> DEFINE t == Substitute(d[u.of], f.done)
           b == Substitute(d[u.of], u.arg)
           g == Frame(t, already, NoUse)
<1>1. f.for = u /\ f.done \in Seq(Settled(d)) /\ Same(d, f.done \o f.todo, u.arg) /\ u \in Tokens(d) /\ u.kind = "use"
  BY DEF StandsFor, FrameType
<1>2. f.done \in Seq(Plain(d))
  BY <1>1, SettledTokens, SeqMonotonic
<1>3. f.done \o f.todo = f.done
  BY <1>2, ConcatEmptySeq
<1>4. u.of \in Macro /\ u.arg \in Seq(Plain(d))
  BY <1>1, ATokenIs
<1>5. Same(d, f.done, u.arg)
  BY <1>1, <1>3
<1>6. Same(d, t, b)
  BY <1>2, <1>4, <1>5, SameArgument
<1>7. Same(d, <<u>>, b)
  BY <1>1, UseMeans
<1>8. t \in Seq(Tokens(d))
  <2>1. d[u.of] \in Seq(Written(d, u.of))
    BY <1>4 DEF IsDefinitions
  <2>2. QED BY <1>2, <1>4, <2>1, SubstituteType
<1>9. g \in FrameType(d)
  BY <1>8, FrameIs
<1>10. g.for = NoUse /\ g.done = <<>> /\ g.todo = t
  BY DEF Frame
<1>11. <<>> \o t = t
  BY <1>8, ConcatEmptySeq
<1> HIDE DEF g, t, b
<1>12. Same(d, g.done \o g.todo, <<u>>)
  BY <1>6, <1>7, <1>10, <1>11 DEF Same
<1>13. QED BY <1>1, <1>9, <1>10, <1>12 DEF StandsFor, g, t

\* Three texts are grouped one way or the other.
LEMMA Grouped ==
  ASSUME NEW S, NEW s \in Seq(S), NEW e \in Seq(S), NEW r \in Seq(S)
  PROVE  s \o (e \o r) = (s \o e) \o r
BY ConcatAssociative

\* The first token to be done is replaced by a text that means the same.
LEMMA HeadReplaced ==
  ASSUME NEW d, IsDefinitions(d), NEW s \in Seq(Tokens(d)), NEW t \in Seq(Tokens(d)), t # <<>>,
         NEW e \in Seq(Tokens(d)), Same(d, e, <<Head(t)>>)
  PROVE  Same(d, (s \o e) \o Tail(t), s \o t)
<1> DEFINE o == <<Head(t)>>
           r == Tail(t)
           S == Tokens(d)
<1>1. t = o \o r /\ Head(t) \in S /\ r \in Seq(S)
  BY MoveHead
<1>2. o \in Seq(S)
  BY <1>1, One
<1>3. Same(d, e, o)
  OBVIOUS
<1> HIDE DEF o, r, S
<1>4. Same(d, r, r) /\ Same(d, s, s)
  BY DEF Same
<1>5. Same(d, e \o r, o \o r)
  BY <1>1, <1>2, <1>3, <1>4, SameConcat DEF S
<1> DEFINE x == e \o r
           y == o \o r
<1>6. x \in Seq(S) /\ y \in Seq(S)
  BY <1>1, <1>2, ConcatProperties DEF S
<1>7. Same(d, x, y)
  BY <1>5
<1>8. s \o (e \o r) = (s \o e) \o r
  <2>1. s \in Seq(S) /\ e \in Seq(S)
    BY DEF S
  <2>2. QED BY <1>1, <2>1, Grouped
<1> HIDE DEF x, y
<1>9. Same(d, s \o x, s \o y)
  BY <1>4, <1>6, <1>7, SameConcat DEF S
<1>10. s \o x = (s \o e) \o r /\ y = t
  BY <1>1, <1>8 DEF x, y
<1>11. QED BY <1>9, <1>10 DEF r

Replaced(f, g) == [f EXCEPT !.todo = Tail(@), !.done = @ \o g.done, !.expanded = TRUE]

\* The expanded body takes the place of its use.
LEMMA BodyStands ==
  ASSUME NEW d, IsDefinitions(d), NEW f, NEW u, StandsFor(d, f, u), f.todo # <<>>,
         NEW g, StandsFor(d, g, Head(f.todo)), g.for = NoUse, g.todo = <<>>
  PROVE  StandsFor(d, Replaced(f, g), u)
<1> DEFINE s == f.done
           t == f.todo
           e == g.done
           h == Replaced(f, g)
<1>1. f \in FrameType(d) /\ t \in Seq(Tokens(d)) /\ s \in Seq(Settled(d)) /\ e \in Seq(Settled(d))
  BY DEF StandsFor, FrameType
<1>2. s \in Seq(Tokens(d)) /\ e \in Seq(Tokens(d))
  BY <1>1, SettledTokens, SeqMonotonic
<1>3. Same(d, e, <<Head(t)>>)
  <2>1. Head(t).kind = "use"
    BY DEF StandsFor
  <2>2. Same(d, e \o g.todo, <<Head(t)>>)
    BY <2>1, NoUseIsNone DEF StandsFor
  <2>3. e \o g.todo = e
    BY <1>2, ConcatEmptySeq
  <2>4. QED BY <2>2, <2>3
<1>4. Tail(t) \in Seq(Tokens(d))
  BY <1>1, HeadTailProperties
<1>5. s \o e \in Seq(Settled(d))
  BY <1>1, ConcatProperties
<1>6. /\ h.todo = Tail(t) /\ h.done = s \o e /\ h.for = f.for /\ h \in FrameType(d)
  BY <1>1, <1>4, <1>5 DEF Replaced, FrameType
<1>7. t \in Seq(Plain(d)) => Tail(t) \in Seq(Plain(d))
  BY HeadTailProperties
<1> HIDE DEF h
<1>8. Same(d, h.done \o h.todo, s \o t)
  <2>1. t # <<>>
    OBVIOUS
  <2> HIDE DEF s, t, e
  <2>2. Same(d, (s \o e) \o Tail(t), s \o t)
    BY <1>1, <1>2, <1>3, <2>1, HeadReplaced
  <2>3. QED BY <1>6, <2>2
<1>9. QED BY <1>6, <1>7, <1>8 DEF StandsFor, Same, h

\* A round ends: the pasted text stands for the use, and the words are what it means.
LEMMA RoundStands ==
  ASSUME NEW d, IsDefinitions(d), NEW f, NEW u, StandsFor(d, f, u), f.todo = <<>>, f.for = NoUse,
         NEW already \in SUBSET Macro
  PROVE  /\ StandsFor(d, Frame(Paste(f.done), already, NoUse), u)
         /\ Paste(f.done) = f.done => Means(d, <<u>>, f.done)
<1> DEFINE s == f.done
           p == Paste(s)
           g == Frame(p, already, NoUse)
<1>1. s \in Seq(Settled(d)) /\ u \in Tokens(d) /\ u.kind = "use" /\ f.for # u
  BY NoUseIsNone DEF StandsFor, FrameType
<1>2. s \in Seq(Tokens(d))
  BY <1>1, SettledTokens, SeqMonotonic
<1>3. s \o f.todo = s
  BY <1>2, ConcatEmptySeq
<1>4. Same(d, s, <<u>>)
  BY <1>1, <1>3 DEF StandsFor
<1>5. p \in Seq(Tokens(d)) /\ Same(d, p, s)
  BY <1>1, PasteIs, PasteSame
<1> HIDE DEF s, p
<1>6. Same(d, p, <<u>>)
  BY <1>4, <1>5 DEF Same
<1>7. g \in FrameType(d) /\ g.todo = p /\ g.done = <<>> /\ g.for = NoUse
  <2>1. NoUse \in Tokens(d) \cup {NoUse}
    OBVIOUS
  <2>2. QED BY <1>5, <2>1, FrameIs DEF Frame
<1>8. <<>> \o p = p
  BY <1>5, ConcatEmptySeq
<1> HIDE DEF g
<1>9. StandsFor(d, g, u)
  BY <1>1, <1>6, <1>7, <1>8 DEF StandsFor
<1>10. p = s => Means(d, <<u>>, s)
  <2>1. SUFFICES ASSUME p = s PROVE Means(d, <<u>>, s)
    OBVIOUS
  <2>2. s \in Seq(Words_)
    BY <1>1, <2>1, NothingPasted DEF p
  <2>3. Means(d, s, s)
    BY <2>2, WordsMean
  <2>4. QED BY <1>4, <2>3 DEF Same
<1>11. QED BY <1>9, <1>10 DEF g, p, s

-----------------------------------------------------------------------------
(* The stack of frames *)

\* The use that frame n expands.
OuterUse(u, fs, n) == IF n = 1 THEN u ELSE Head(fs[n - 1].todo)

\* Each frame stands for the use that is next in the frame around it.
FramesRight(d, u, fs) ==
  /\ fs \in Seq(FrameType(d))
  /\ \A n \in 1 .. Len(fs) : StandsFor(d, fs[n], OuterUse(u, fs, n))
  /\ \A n \in 1 .. Len(fs) : n < Len(fs) => fs[n].todo # <<>>

\* A stack of one frame.
LEMMA FirstFrame ==
  ASSUME NEW d, NEW u, NEW g, StandsFor(d, g, u)
  PROVE  FramesRight(d, u, <<g>>)
<1>1. g \in FrameType(d)
  BY DEF StandsFor
<1>2. <<g>> \in Seq(FrameType(d)) /\ Len(<<g>>) = 1 /\ <<g>>[1] = g
  BY <1>1
<1>3. QED BY <1>2 DEF FramesRight, OuterUse

\* The innermost frame is replaced by one for the same use.
LEMMA TopReplaced ==
  ASSUME NEW d, NEW u, NEW fs, FramesRight(d, u, fs), fs # <<>>,
         NEW g, StandsFor(d, g, OuterUse(u, fs, Len(fs)))
  PROVE  FramesRight(d, u, [fs EXCEPT ![Len(fs)] = g])
<1> DEFINE n == Len(fs)
           hs == [fs EXCEPT ![n] = g]
<1>1. fs \in Seq(FrameType(d)) /\ g \in FrameType(d)
  BY DEF FramesRight, StandsFor
<1>2. n \in Nat \ {0}
  BY <1>1, EmptySeq
<1>3. hs \in Seq(FrameType(d)) /\ Len(hs) = n /\ hs[n] = g /\ \A k \in 1 .. n : k # n => hs[k] = fs[k]
  BY <1>1, <1>2
<1>4. \A k \in 1 .. n : StandsFor(d, fs[k], OuterUse(u, fs, k))
  BY DEF FramesRight
<1>5. \A k \in 1 .. n : k < n => fs[k].todo # <<>>
  BY DEF FramesRight
<1>6. StandsFor(d, g, OuterUse(u, fs, n))
  OBVIOUS
<1> HIDE DEF hs, n
<1>7. \A k \in 1 .. n : OuterUse(u, hs, k) = OuterUse(u, fs, k)
  <2>1. TAKE k \in 1 .. n
  <2>2. k # 1 => k - 1 \in 1 .. n /\ k - 1 # n
    BY <1>2
  <2>3. QED BY <1>3, <2>2 DEF OuterUse
<1>8. \A k \in 1 .. n : StandsFor(d, hs[k], OuterUse(u, hs, k))
  BY <1>2, <1>3, <1>4, <1>6, <1>7
<1>9. \A k \in 1 .. n : k < n => hs[k].todo # <<>>
  BY <1>2, <1>3, <1>5
<1>10. QED BY <1>3, <1>8, <1>9 DEF FramesRight, hs, n

\* A frame is put on the stack for the next use.
LEMMA Pushed ==
  ASSUME NEW d, NEW u, NEW fs, FramesRight(d, u, fs), fs # <<>>, Last(fs).todo # <<>>,
         NEW g, StandsFor(d, g, Head(Last(fs).todo))
  PROVE  FramesRight(d, u, Append(fs, g))
<1> DEFINE n == Len(fs)
           m == n + 1
           hs == Append(fs, g)
<1>1. fs \in Seq(FrameType(d)) /\ g \in FrameType(d)
  BY DEF FramesRight, StandsFor
<1>2. n \in Nat \ {0} /\ Last(fs) = fs[n]
  BY <1>1, EmptySeq DEF Last
<1>3. hs \in Seq(FrameType(d)) /\ Len(hs) = m /\ hs[m] = g /\ \A k \in 1 .. n : hs[k] = fs[k]
  BY <1>1, <1>2, AppendProperties
<1>4. \A k \in 1 .. n : StandsFor(d, fs[k], OuterUse(u, fs, k))
  BY DEF FramesRight
<1>5. \A k \in 1 .. n : k < n => fs[k].todo # <<>>
  BY DEF FramesRight
<1>6. StandsFor(d, g, Head(fs[n].todo)) /\ fs[n].todo # <<>>
  BY <1>2
<1>7. m \in Nat /\ m > n /\ m - 1 = n /\ m # 1
  BY <1>2
<1>8. \A k \in 1 .. m : k = m \/ k \in 1 .. n
  BY <1>2
<1> HIDE DEF hs, n, m
<1>9. \A k \in 1 .. n : OuterUse(u, hs, k) = OuterUse(u, fs, k)
  <2>1. TAKE k \in 1 .. n
  <2>2. k # 1 => k - 1 \in 1 .. n
    BY <1>2
  <2>3. QED BY <1>3, <2>2 DEF OuterUse
<1>10. OuterUse(u, hs, m) = Head(fs[n].todo)
  <2>1. n \in 1 .. n
    BY <1>2
  <2>2. QED BY <1>3, <1>7, <2>1 DEF OuterUse
<1>11. \A k \in 1 .. m : StandsFor(d, hs[k], OuterUse(u, hs, k))
  BY <1>3, <1>4, <1>6, <1>8, <1>9, <1>10
<1>12. \A k \in 1 .. m : k < m => hs[k].todo # <<>>
  <2>1. TAKE k \in 1 .. m
  <2>2. SUFFICES ASSUME k < m PROVE hs[k].todo # <<>>
    OBVIOUS
  <2>3. k \in 1 .. n
    BY <1>7, <1>8, <2>2
  <2>4. hs[k] = fs[k]
    BY <1>3, <2>3
  <2>5. k = n \/ k < n
    BY <1>2, <2>3
  <2>6. QED BY <1>5, <1>6, <2>3, <2>4, <2>5
<1>13. QED BY <1>3, <1>11, <1>12 DEF FramesRight, hs

\* The innermost frame is taken off.
LEMMA Popped ==
  ASSUME NEW d, NEW u, NEW fs, FramesRight(d, u, fs), Len(fs) > 1
  PROVE  /\ FramesRight(d, u, Front(fs)) /\ Front(fs) # <<>> /\ Len(Front(fs)) = Len(fs) - 1
         /\ Last(Front(fs)) = fs[Len(fs) - 1] /\ Front(fs)[Len(fs) - 1] = fs[Len(fs) - 1]
         /\ OuterUse(u, Front(fs), Len(fs) - 1) = OuterUse(u, fs, Len(fs) - 1)
<1> DEFINE n == Len(fs)
           m == n - 1
           hs == Front(fs)
<1>1. fs \in Seq(FrameType(d))
  BY DEF FramesRight
<1>2. n \in Nat /\ m \in Nat \ {0} /\ n = m + 1
  BY <1>1
<1>3. hs \in Seq(FrameType(d)) /\ Len(hs) = m /\ \A k \in 1 .. m : hs[k] = fs[k]
  <2>1. hs = SubSeq(fs, 1, m)
    BY DEF Front
  <2>2. m \in Int /\ m <= n
    BY <1>2
  <2> HIDE DEF hs, m
  <2>3. hs \in Seq(FrameType(d))
    BY <1>1, <1>2, <2>1, <2>2, SubSeqProperties
  <2>4. Len(hs) = m
    BY <1>1, <1>2, <2>1, <2>2, SubSeqProperties
  <2>5. \A k \in 1 .. m : hs[k] = fs[k]
    BY <1>1, <1>2, <2>1, <2>2, SubSeqProperties
  <2>6. QED BY <2>3, <2>4, <2>5
<1>4. \A k \in 1 .. n : StandsFor(d, fs[k], OuterUse(u, fs, k))
  BY DEF FramesRight
<1>5. \A k \in 1 .. n : k < n => fs[k].todo # <<>>
  BY DEF FramesRight
<1> HIDE DEF hs, n, m
<1>6. \A k \in 1 .. m : k \in 1 .. n /\ k < n
  BY <1>2
<1>7. \A k \in 1 .. m : OuterUse(u, hs, k) = OuterUse(u, fs, k)
  <2>1. TAKE k \in 1 .. m
  <2>2. k # 1 => k - 1 \in 1 .. m
    BY <1>2
  <2>3. QED BY <1>3, <2>2 DEF OuterUse
<1>8. FramesRight(d, u, hs)
  <2>1. \A k \in 1 .. m : StandsFor(d, hs[k], OuterUse(u, hs, k))
    BY <1>3, <1>4, <1>6, <1>7
  <2>2. \A k \in 1 .. m : hs[k].todo # <<>>
    BY <1>3, <1>5, <1>6
  <2>3. QED BY <1>3, <2>1, <2>2 DEF FramesRight
<1>9. m \in 1 .. m
  BY <1>2
<1>10. hs # <<>>
  BY <1>2, <1>3, EmptySeq
<1>11. Last(hs) = fs[m] /\ hs[m] = fs[m]
  BY <1>3, <1>9 DEF Last
<1>12. OuterUse(u, hs, m) = OuterUse(u, fs, m)
  BY <1>7, <1>9
<1>13. QED BY <1>3, <1>8, <1>10, <1>11, <1>12 DEF hs, m, n

\* The innermost frame stands for its use.
LEMMA TopStands ==
  ASSUME NEW d, NEW u, NEW fs, FramesRight(d, u, fs), fs # <<>>
  PROVE  /\ Len(fs) \in Nat \ {0} /\ Last(fs) = fs[Len(fs)]
         /\ StandsFor(d, Last(fs), OuterUse(u, fs, Len(fs)))
         /\ Last(fs) \in FrameType(d) /\ Last(fs).already \in SUBSET Macro
<1>1. fs \in Seq(FrameType(d))
  BY DEF FramesRight
<1>2. Len(fs) \in Nat \ {0} /\ Last(fs) = fs[Len(fs)]
  BY <1>1, EmptySeq DEF Last
<1>3. StandsFor(d, Last(fs), OuterUse(u, fs, Len(fs)))
  BY <1>2 DEF FramesRight
<1>4. Last(fs) \in FrameType(d)
  BY <1>3 DEF StandsFor
<1>5. Last(fs).already \in SUBSET Macro
  BY <1>4 DEF FrameType
<1>6. QED BY <1>2, <1>3, <1>4, <1>5

\* An empty stack.
LEMMA NoFrames ==
  ASSUME NEW d, NEW u
  PROVE  FramesRight(d, u, <<>>)
BY DEF FramesRight

-----------------------------------------------------------------------------
(* The bodies and the use at the start *)

\* The uses that are written somewhere are tokens.
LEMMA AnExpandedUse ==
  ASSUME NEW d
  PROVE  Uses \subseteq {u \in Tokens(d) : u.kind = "use" /\ u.of \in Macro}
<1>1. SUFFICES ASSUME NEW u \in Uses PROVE u \in Tokens(d) /\ u.kind = "use" /\ u.of \in Macro
  OBVIOUS
<1>2. CASE u \in SimpleUses
  BY <1>2, ASimpleUse DEF Tokens, Plain, Macro
<1>3. ASSUME NEW m \in Functions_, NEW a \in Plain(d), u = Use(m, <<a>>)
      PROVE  u \in Tokens(d) /\ u.kind = "use" /\ u.of \in Macro
  <2>1. <<a>> \in Seq(Plain(d))
    BY One
  <2>2. u \in Tokens(d)
    BY <1>3, <2>1, UseType
  <2>3. QED BY <1>3, <2>2 DEF Use, Macro
<1>4. CASE u \in {Use(m, <<a>>) : m \in Functions_, a \in Arguments}
  <2>1. PICK m \in Functions_, a \in Arguments : u = Use(m, <<a>>)
    BY <1>4
  <2>2. a \in Plain(d)
    BY DEF Arguments, SimpleUses, Plain, Words_
  <2>3. QED BY <1>3, <2>1, <2>2
<1>5. QED BY <1>2, <1>4 DEF Uses, SimpleUses

\* A body has the items that are written in it, and the pieces among all pieces.
LEMMA BodyWritten ==
  ASSUME NEW d, NEW m \in Macro, d[m] \in Bodies(m)
  PROVE  d[m] \in Seq(Written(d, m))
<1>1. d[m] \in Seq(Items(m))
  <2>1. CASE d[m] = <<>>
    BY <2>1
  <2>2. ASSUME NEW i \in Items(m), d[m] = <<i>> PROVE d[m] \in Seq(Items(m))
    BY <2>2, One
  <2>3. ASSUME NEW i \in Items(m), NEW j \in Items(m), d[m] = <<i, j>> PROVE d[m] \in Seq(Items(m))
    <3>1. <<i, j>> \in Seq(Items(m))
      OBVIOUS
    <3>2. QED BY <2>3, <3>1
  <2>4. QED BY <2>1, <2>2, <2>3 DEF Bodies
<1>2. Len(d[m]) \in Nat /\ DOMAIN d[m] = 1 .. Len(d[m]) /\ \A k \in 1 .. Len(d[m]) : d[m][k] \in Items(m)
  BY <1>1, LenProperties
<1>3. ASSUME NEW k \in 1 .. Len(d[m]) PROVE d[m][k] \in Written(d, m)
  <2> DEFINE i == d[m][k]
  <2>1. i \in Items(m) /\ i \in ToSet(d[m])
    BY <1>2 DEF ToSet
  <2>2. CASE i \in {Pieces(n) : n \in Simple}
    <3>1. PICK n \in Simple : i = Pieces(n)
      BY <2>2
    <3>2. i \in Glued(d)
      BY <2>1, <3>1 DEF Glued
    <3>3. QED BY <3>2 DEF Written
  <2>3. CASE i \notin {Pieces(n) : n \in Simple}
    <3> DEFINE P == {Pieces(n) : n \in Simple}
               U == {Use(n, <<a>>) : n \in Functions_, a \in Atoms(m)}
    <3>1. Items(m) = Atoms(m) \cup P \cup U
      BY DEF Items
    <3>2. Written(d, m) = Atoms(m) \cup Glued(d) \cup U
      BY DEF Written
    <3>3. i \notin P
      BY <2>3
    <3> HIDE DEF i, P, U
    <3>4. i \in Atoms(m) \/ i \in U
      BY <2>1, <3>1, <3>3
    <3>5. QED BY <3>2, <3>4 DEF i
  <2>4. QED BY <2>2, <2>3
<1>4. d[m] \in [1 .. Len(d[m]) -> Written(d, m)]
  BY <1>1, <1>2, <1>3
<1>5. QED BY <1>2, <1>4, Row

\* The definitions and the use at the start.
LEMMA StartDefinitions ==
  ASSUME MacrosInit
  PROVE  IsDefinitions(bodies) /\ usage \in Uses
<1>1. PICK s \in Definitions(Simple), f \in Definitions(Functions_) :
        bodies = [m \in Macro |-> IF m \in Simple THEN s[m] ELSE f[m]]
  BY DEF MacrosInit
<1>2. /\ DOMAIN s = Simple /\ \A m \in Simple : s[m] \in Bodies(m)
      /\ DOMAIN f = Functions_ /\ \A m \in Functions_ : f[m] \in Bodies(m)
  BY DEF Definitions
<1>4. DOMAIN bodies = Macro /\ \A m \in Macro : bodies[m] \in Bodies(m)
  BY <1>1, <1>2 DEF Macro
<1>5. IsDefinitions(bodies)
  BY <1>4, BodyWritten DEF IsDefinitions
<1>6. usage \in Uses
  <2>1. CASE usage \in {Use(m, <<>>) : m \in Simple}
    BY <2>1 DEF Uses
  <2>2. CASE usage \in {Use(m, <<Use(n, <<>>)>>) : m \in Functions_, n \in Simple}
    <3>1. PICK m \in Functions_, n \in Simple : usage = Use(m, <<Use(n, <<>>)>>)
      BY <2>2
    <3> DEFINE a == Use(n, <<>>)
    <3>2. a \in Arguments /\ usage = Use(m, <<a>>)
      BY <3>1 DEF Arguments
    <3> HIDE DEF a
    <3>3. QED BY <3>2 DEF Uses
  <2>3. QED BY <2>1, <2>2 DEF MacrosInit
<1>7. QED BY <1>5, <1>6

\* What is done and to be done always means the use, and the result is what it means.
MeansRight ==
  /\ IsDefinitions(bodies) /\ usage \in Uses
  /\ FramesRight(bodies, usage, frames)
  /\ Running => frames # <<>>
  /\ expansion.outcome = "done" => Means(bodies, <<usage>>, expansion.result)

\* Nothing is done at the start.
LEMMA MeansRightInit == MacrosInit => MeansRight
<1>1. SUFFICES ASSUME MacrosInit PROVE MeansRight
  OBVIOUS
<1>2. IsDefinitions(bodies) /\ usage \in Uses
  BY <1>1, StartDefinitions
<1>3. usage \in Tokens(bodies) /\ usage.kind = "use"
  BY <1>2, AnExpandedUse
<1>4. StandsFor(bodies, Expand(usage, {}), usage)
  BY <1>2, <1>3, ExpandStands
<1>5. frames = <<Expand(usage, {})>> /\ expansion.outcome = "expanding"
  BY <1>1 DEF MacrosInit
<1>6. FramesRight(bodies, usage, frames)
  BY <1>4, <1>5, FirstFrame
<1>7. QED BY <1>2, <1>5, <1>6 DEF MeansRight

\* Keep leaves the meaning as it is.
LEMMA MeansRightKeep ==
  ASSUME MeansRight, Keep
  PROVE  MeansRight'
<1> DEFINE f == Last(frames)
           n == Len(frames)
           u == OuterUse(usage, frames, n)
<1>1. /\ Running /\ f.todo # <<>> /\ Head(f.todo).kind # "use"
      /\ frames' = [frames EXCEPT ![n] = Kept(f)]
      /\ bodies' = bodies /\ usage' = usage /\ expansion' = expansion
  BY DEF Keep, Top, Kept
<1>2. FramesRight(bodies, usage, frames) /\ frames # <<>>
  BY <1>1 DEF MeansRight
<1>3. n \in Nat \ {0} /\ f = frames[n] /\ StandsFor(bodies, f, u)
  BY <1>2, TopStands
<1>4. StandsFor(bodies, Kept(f), u)
  BY <1>1, <1>3, KeepStands
<1>6. FramesRight(bodies, usage, frames')
  BY <1>1, <1>2, <1>4, TopReplaced
<1>7. frames' # <<>>
  <2>1. DOMAIN frames' = DOMAIN frames
    BY <1>1
  <2>2. DOMAIN frames # {}
    BY <1>2, EmptySeq DEF FramesRight
  <2>3. QED BY <2>1, <2>2
<1>8. QED BY <1>1, <1>6, <1>7 DEF MeansRight

\* An expansion that fails has no meaning to keep.
LEMMA MeansRightEnded ==
  ASSUME MeansRight, NEW outcome, outcome # "done", outcome # "expanding", EndWith(outcome, <<>>),
         UNCHANGED <<bodies, usage>>
  PROVE  MeansRight'
<1>1. frames' = <<>> /\ expansion'.outcome = outcome
  BY DEF EndWith
<1>2. FramesRight(bodies, usage, <<>>)
  BY NoFrames
<1>3. QED BY <1>1, <1>2 DEF MeansRight, Running

\* The frame that ExpandUse adds stands for the use.
LEMMA MeansRightUse ==
  ASSUME MeansRight, ExpandUse
  PROVE  MeansRight'
<1> DEFINE f == Last(frames)
           i == Head(f.todo)
<1>1. /\ Running /\ f.todo # <<>> /\ i.kind = "use"
      /\ IF i.of \in f.already THEN EndWith("recursive", <<>>) ELSE Push(i)
      /\ bodies' = bodies /\ usage' = usage
  BY DEF ExpandUse, Top
<1>2. FramesRight(bodies, usage, frames) /\ frames # <<>> /\ IsDefinitions(bodies)
  BY <1>1 DEF MeansRight
<1>3. CASE EndWith("recursive", <<>>)
  BY <1>1, <1>3, MeansRightEnded
<1>4. CASE EndWith("crashed", <<>>)
  BY <1>1, <1>4, MeansRightEnded
<1>5. CASE frames' = Append(frames, Expand(i, f.already)) /\ expansion' = expansion
  <2>1. f \in FrameType(bodies) /\ f.already \in SUBSET Macro
    BY <1>2, TopStands
  <2>2. i \in Tokens(bodies)
    <3>1. f.todo \in Seq(Tokens(bodies))
      BY <2>1 DEF FrameType
    <3>2. QED BY <1>1, <3>1, HeadTailProperties
  <2>3. StandsFor(bodies, Expand(i, f.already), i)
    BY <1>1, <1>2, <2>1, <2>2, ExpandStands
  <2>4. FramesRight(bodies, usage, frames')
    BY <1>1, <1>2, <1>5, <2>3, Pushed
  <2>5. frames' # <<>>
    <3>1. frames \in Seq(FrameType(bodies)) /\ Expand(i, f.already) \in FrameType(bodies)
      BY <1>2, <2>3 DEF FramesRight, StandsFor
    <3> DEFINE g == Expand(i, f.already)
    <3> HIDE DEF g
    <3>2. Append(frames, g) # <<>>
      BY <3>1 DEF g
    <3>3. QED BY <1>5, <3>2 DEF g
  <2>6. QED BY <1>1, <1>2, <1>5, <2>4, <2>5 DEF MeansRight
<1>6. QED BY <1>1, <1>3, <1>4, <1>5 DEF Push, Top

\* The body that ArgumentReady begins means what the use means.
LEMMA MeansRightArgument ==
  ASSUME MeansRight, ArgumentReady
  PROVE  MeansRight'
<1> DEFINE f == Last(frames)
           n == Len(frames)
           v == OuterUse(usage, frames, n)
           al == Around(n - 1) \cup {f.for.of}
           g == Frame(Substitute(bodies[f.for.of], f.done), al, NoUse)
<1>1. /\ Running /\ f.todo = <<>> /\ f.for # NoUse
      /\ frames' = [frames EXCEPT ![n] = g]
      /\ bodies' = bodies /\ usage' = usage /\ expansion' = expansion
  BY DEF ArgumentReady, Top
<1>2. FramesRight(bodies, usage, frames) /\ frames # <<>> /\ IsDefinitions(bodies)
  BY <1>1 DEF MeansRight
<1>3. n \in Nat \ {0} /\ f = frames[n] /\ StandsFor(bodies, f, v)
  BY <1>2, TopStands
<1>4. f.for = v /\ v \in Tokens(bodies) /\ v.kind = "use"
  BY <1>1, <1>3 DEF StandsFor
<1>5. al \in SUBSET Macro
  <2>1. v.of \in Macro
    BY <1>4, ATokenIs
  <2>2. Around(n - 1) \in SUBSET Macro
    <3>1. CASE n - 1 = 0
      BY <3>1 DEF Around
    <3>2. CASE n - 1 # 0
      <4>1. n - 1 \in 1 .. Len(frames)
        BY <1>3, <3>2
      <4>2. frames[n - 1] \in FrameType(bodies)
        BY <1>2, <4>1 DEF FramesRight
      <4>3. QED BY <3>2, <4>2 DEF Around, FrameType
    <3>3. QED BY <3>1, <3>2
  <2>3. QED BY <1>4, <2>1, <2>2
<1> HIDE DEF al
<1>6. StandsFor(bodies, g, v)
  <2>1. StandsFor(bodies, Frame(Substitute(bodies[v.of], f.done), al, NoUse), v)
    BY <1>1, <1>2, <1>3, <1>5, ArgumentStands
  <2>2. QED BY <1>4, <2>1
<1> HIDE DEF g
<1>7. FramesRight(bodies, usage, frames')
  BY <1>1, <1>2, <1>6, TopReplaced
<1>8. frames' # <<>>
  <2>1. DOMAIN frames' = DOMAIN frames
    BY <1>1
  <2>2. DOMAIN frames # {}
    BY <1>2, EmptySeq DEF FramesRight
  <2>3. QED BY <2>1, <2>2
<1>9. QED BY <1>1, <1>7, <1>8 DEF MeansRight

\* The expanded body of BodyReady means what the use means.
LEMMA MeansRightBody ==
  ASSUME MeansRight, BodyReady
  PROVE  MeansRight'
<1> DEFINE f == Last(frames)
           n == Len(frames)
           m == n - 1
           fs == Front(frames)
           e == frames[m]
           u == OuterUse(usage, frames, m)
<1>1. /\ Running /\ f.todo = <<>> /\ f.for = NoUse /\ n > 1
      /\ frames' = [fs EXCEPT ![m] = Replaced(e, f)]
      /\ bodies' = bodies /\ usage' = usage /\ expansion' = expansion
  BY DEF BodyReady, Top, Replaced
<1>2. FramesRight(bodies, usage, frames) /\ frames # <<>> /\ IsDefinitions(bodies)
  BY <1>1 DEF MeansRight
<1>3. n \in Nat \ {0} /\ StandsFor(bodies, f, OuterUse(usage, frames, n))
  BY <1>2, TopStands
<1>4. /\ FramesRight(bodies, usage, fs) /\ fs # <<>> /\ Len(fs) = m /\ fs[m] = e
      /\ OuterUse(usage, fs, m) = u
  BY <1>1, <1>2, Popped
<1>5. m \in 1 .. n /\ m < n /\ n # 1
  <2>1. n \in Nat /\ n > 1
    BY <1>1, <1>3
  <2> HIDE DEF n
  <2>2. QED BY <2>1
<1>6. StandsFor(bodies, e, u) /\ e.todo # <<>> /\ OuterUse(usage, frames, n) = Head(e.todo)
  BY <1>2, <1>5 DEF FramesRight, OuterUse
<1> HIDE DEF e, f, m, fs, u
<1>7. StandsFor(bodies, Replaced(e, f), u)
  BY <1>1, <1>2, <1>3, <1>6, BodyStands
<1>9. FramesRight(bodies, usage, frames')
  BY <1>1, <1>4, <1>7, TopReplaced
<1>10. frames' # <<>>
  <2>1. DOMAIN frames' = DOMAIN fs
    BY <1>1
  <2>2. DOMAIN fs # {}
    BY <1>4, EmptySeq DEF FramesRight
  <2>3. QED BY <2>1, <2>2
<1>11. QED BY <1>1, <1>9, <1>10 DEF MeansRight

\* NextRound keeps the meaning, and ends with the words that are meant.
LEMMA MeansRightRound ==
  ASSUME MeansRight, NextRound
  PROVE  MeansRight'
<1> DEFINE f == Last(frames)
           t == Paste(f.done)
           g == Frame(t, {usage.of}, NoUse)
<1>1. /\ Running /\ f.todo = <<>> /\ f.for = NoUse /\ Len(frames) = 1
      /\ bodies' = bodies /\ usage' = usage
  BY DEF NextRound, Top
<1>2. \/ t = f.done /\ EndWith("done", t)
      \/ EndWith("crashed", <<>>)
      \/ frames' = <<g>> /\ expansion' = expansion
  BY DEF NextRound, Top
<1>3. FramesRight(bodies, usage, frames) /\ frames # <<>> /\ IsDefinitions(bodies) /\ usage \in Uses
  BY <1>1 DEF MeansRight
<1>4. StandsFor(bodies, f, usage)
  BY <1>1, <1>3, TopStands DEF OuterUse
<1>5. {usage.of} \in SUBSET Macro
  BY <1>3, AnExpandedUse
<1>6. StandsFor(bodies, g, usage)
  BY <1>1, <1>3, <1>4, <1>5, RoundStands
<1>7. t = f.done => Means(bodies, <<usage>>, t)
  BY <1>1, <1>3, <1>4, <1>5, RoundStands
<1> HIDE DEF f, g, t
<1>8. CASE t = f.done /\ EndWith("done", t)
  <2>1. frames' = <<>> /\ expansion'.result = t /\ expansion'.outcome = "done"
    BY <1>8 DEF EndWith
  <2>2. FramesRight(bodies, usage, <<>>)
    BY NoFrames
  <2>3. Means(bodies, <<usage>>, expansion'.result)
    BY <1>7, <1>8, <2>1
  <2>4. QED BY <1>1, <2>1, <2>2, <2>3 DEF MeansRight, Running
<1>9. CASE EndWith("crashed", <<>>)
  BY <1>1, <1>9, MeansRightEnded
<1>10. CASE frames' = <<g>> /\ expansion' = expansion
  <2>1. FramesRight(bodies, usage, <<g>>)
    BY <1>6, FirstFrame
  <2>2. <<g>> # <<>>
    OBVIOUS
  <2>3. QED BY <1>1, <1>10, <2>1, <2>2 DEF MeansRight
<1>11. QED BY <1>2, <1>8, <1>9, <1>10

\* Every step keeps the meaning.
LEMMA MeansRightStep == MeansRight /\ [MacrosNext]_macroVars => MeansRight'
<1>1. SUFFICES ASSUME MeansRight, [MacrosNext]_macroVars PROVE MeansRight'
  OBVIOUS
<1>2. CASE UNCHANGED macroVars
  BY <1>1, <1>2 DEF macroVars, MeansRight, Running
<1>3. QED
  BY <1>1, <1>2, MeansRightKeep, MeansRightUse, MeansRightArgument, MeansRightBody, MeansRightRound DEF MacrosNext

\* The frames always mean the use, whatever is expanded first, and a result is what some
\* number of rounds make of the use.
THEOREM ResultIsMeant == MacrosSpec => []MeansRight
<1>1. MacrosInit => MeansRight
  BY MeansRightInit
<1>2. MeansRight /\ [MacrosNext]_macroVars => MeansRight'
  BY MeansRightStep
<1>3. QED BY <1>1, <1>2, PTL DEF MacrosSpec

\* The stack fits, whichever step adds to it or replaces a part of it.
LEMMA FramesFit ==
  ASSUME MacrosAssumption, MeansRight, MeansRight', MacrosTypeOK, [MacrosNext]_macroVars
  PROVE  Len(frames') <= MaxFrames
<1>1. /\ frames \in Seq(FrameType(bodies)) /\ frames' \in Seq(FrameType(bodies'))
      /\ Len(frames) \in Nat /\ Len(frames) <= MaxFrames /\ MaxFrames \in Nat \ {0}
  BY LenProperties DEF MeansRight, FramesRight, MacrosTypeOK, MacrosAssumption
<1>2. /\ Len(frames') \in Nat /\ DOMAIN frames' = 1 .. Len(frames')
      /\ DOMAIN frames = 1 .. Len(frames)
  BY <1>1, LenProperties
<1>3. ASSUME DOMAIN frames' \subseteq DOMAIN frames PROVE Len(frames') <= MaxFrames
  <2>1. CASE Len(frames') = 0
    BY <1>1, <2>1
  <2>2. CASE Len(frames') # 0
    <3>1. Len(frames') \in 1 .. Len(frames')
      BY <1>2, <2>2
    <3>2. Len(frames') \in 1 .. Len(frames)
      BY <1>2, <1>3, <3>1
    <3>3. QED BY <1>1, <1>2, <3>2
  <2>3. QED BY <2>1, <2>2
<1>4. ASSUME NEW outcome, NEW result, EndWith(outcome, result) PROVE Len(frames') <= MaxFrames
  BY <1>1, <1>4 DEF EndWith
<1>5. CASE UNCHANGED macroVars
  BY <1>1, <1>5 DEF macroVars
<1>6. CASE Keep \/ ArgumentReady
  <2>1. DOMAIN frames' = DOMAIN frames
    BY <1>6 DEF Keep, ArgumentReady
  <2>2. QED BY <1>3, <2>1
<1>7. CASE ExpandUse
  <2>1. \/ \E o : EndWith(o, <<>>)
        \/ Len(frames) # MaxFrames /\ \E g : frames' = Append(frames, g)
    BY <1>7 DEF ExpandUse, Push
  <2>2. ASSUME Len(frames) # MaxFrames, NEW g, frames' = Append(frames, g)
        PROVE  Len(frames') <= MaxFrames
    <3> DEFINE T == FrameType(bodies) \cup {g}
    <3>1. frames \in Seq(T) /\ g \in T
      BY <1>1
    <3>2. Len(frames') = Len(frames) + 1
      BY <2>2, <3>1, AppendProperties
    <3>3. QED BY <1>1, <2>2, <3>2
  <2>3. QED BY <1>4, <2>1, <2>2
<1>8. CASE BodyReady
  <2>1. /\ Len(frames) > 1
        /\ DOMAIN frames' = DOMAIN Front(frames)
    BY <1>8 DEF BodyReady
  <2>2. DOMAIN Front(frames) = 1 .. Len(frames) - 1
    BY <1>1 DEF Front
  <2>3. DOMAIN frames' \subseteq DOMAIN frames
    BY <1>1, <1>2, <2>1, <2>2
  <2>4. QED BY <1>3, <2>3
<1>9. CASE NextRound
  <2>1. \/ \E o, r : EndWith(o, r)
        \/ \E g : frames' = <<g>>
    BY <1>9 DEF NextRound
  <2>2. ASSUME NEW g, frames' = <<g>> PROVE Len(frames') <= MaxFrames
    BY <1>1, <2>2
  <2>3. QED BY <1>4, <2>1, <2>2
<1>10. QED BY <1>5, <1>6, <1>7, <1>8, <1>9 DEF MacrosNext

\* The macros around a frame are macros, and the outcome is one of four.
THEOREM MacrosTypeCorrect == MacrosSpec => []MacrosTypeOK
<1>1. ASSUME MeansRight PROVE \A n \in DOMAIN frames : frames[n].already \subseteq Macro
  <2>1. frames \in Seq(FrameType(bodies))
    BY <1>1 DEF MeansRight, FramesRight
  <2>2. ASSUME NEW n \in DOMAIN frames PROVE frames[n].already \subseteq Macro
    <3>1. frames[n] \in FrameType(bodies)
      BY <2>1, <2>2
    <3>2. QED BY <3>1 DEF FrameType
  <2>3. QED BY <2>2
<1>2. MacrosInit => MeansRight /\ MacrosTypeOK
  <2>1. SUFFICES ASSUME MacrosInit PROVE MeansRight /\ MacrosTypeOK
    OBVIOUS
  <2>2. MeansRight
    BY <2>1, MeansRightInit
  <2>3. Len(frames) <= MaxFrames /\ expansion.outcome = "expanding"
    <3>1. frames = <<Expand(usage, {})>> /\ expansion.outcome = "expanding"
      BY <2>1 DEF MacrosInit
    <3>2. Len(frames) = 1 /\ MaxFrames \in Nat \ {0}
      BY <3>1, MacrosAssumption DEF MacrosAssumption
    <3>3. QED BY <3>1, <3>2
  <2>4. QED BY <1>1, <2>2, <2>3 DEF MacrosTypeOK
<1>3. MeansRight /\ MacrosTypeOK /\ [MacrosNext]_macroVars => MeansRight' /\ MacrosTypeOK'
  <2>1. SUFFICES ASSUME MeansRight, MacrosTypeOK, [MacrosNext]_macroVars
                 PROVE  MeansRight' /\ MacrosTypeOK'
    OBVIOUS
  <2>2. MeansRight'
    BY <2>1, MeansRightStep
  <2>3. Len(frames') <= MaxFrames
    BY <2>1, <2>2, MacrosAssumption, FramesFit
  <2>4. \A n \in DOMAIN frames' : frames'[n].already \subseteq Macro
    <3>1. frames' \in Seq(FrameType(bodies'))
      BY <2>2 DEF MeansRight, FramesRight
    <3>2. ASSUME NEW n \in DOMAIN frames' PROVE frames'[n].already \subseteq Macro
      <4>1. frames'[n] \in FrameType(bodies')
        BY <3>1, <3>2
      <4>2. QED BY <4>1 DEF FrameType
    <3>3. QED BY <3>2
  <2>5. expansion'.outcome \in {"expanding", "done", "recursive", "crashed"}
    BY <2>1 DEF MacrosTypeOK, macroVars, MacrosNext, Keep, ExpandUse, ArgumentReady, BodyReady,
                NextRound, Push, EndWith
  <2>6. QED BY <2>2, <2>3, <2>4, <2>5 DEF MacrosTypeOK
<1>4. QED BY <1>2, <1>3, PTL DEF MacrosSpec

-----------------------------------------------------------------------------
(* How many rounds it takes *)

\* The text t is words after k rounds.
Ends(d, t, k) == Meaning(d, t, k) \in Seq(Words_)

\* Words stay words.
LEMMA EndsLater ==
  ASSUME NEW d, IsDefinitions(d), NEW t \in Seq(Tokens(d)), NEW k \in Nat, Ends(d, t, k), NEW m \in Nat, k <= m
  PROVE  Ends(d, t, m)
BY MeaningStays DEF Ends

\* Two texts end when both do.
LEMMA EndsJoined ==
  ASSUME NEW d, IsDefinitions(d), NEW s \in Seq(Tokens(d)), NEW t \in Seq(Tokens(d)), NEW k \in Nat
  PROVE  Ends(d, s \o t, k) <=> Ends(d, s, k) /\ Ends(d, t, k)
<1> DEFINE u == Meaning(d, s, k)
           v == Meaning(d, t, k)
<1>1. Meaning(d, s \o t, k) = u \o v
  BY MeaningConcat
<1>2. u \in Seq(Tokens(d)) /\ v \in Seq(Tokens(d))
  BY MeaningIs
<1>3. (Ends(d, s, k) <=> u \in Seq(Words_)) /\ (Ends(d, t, k) <=> v \in Seq(Words_))
  BY DEF Ends
<1>4. Ends(d, s \o t, k) <=> u \o v \in Seq(Words_)
  BY <1>1 DEF Ends
<1> HIDE DEF u, v
<1>5. u \o v \in Seq(Words_) => u \in Seq(Words_) /\ v \in Seq(Words_)
  BY <1>2, WordsSplit
<1>6. u \in Seq(Words_) /\ v \in Seq(Words_) => u \o v \in Seq(Words_)
  BY ConcatProperties
<1>7. QED BY <1>3, <1>4, <1>5, <1>6

\* A word has ended.
LEMMA EndsWord ==
  ASSUME NEW d, IsDefinitions(d), NEW i \in Words_, NEW k \in Nat
  PROVE  Ends(d, <<i>>, k)
<1> DEFINE t == <<i>>
<1>1. t \in Seq(Words_)
  BY One
<1> HIDE DEF t
<1>2. t \in Seq(Tokens(d)) /\ 0 \in Nat /\ 0 <= k
  BY <1>1, WordsAreTokens
<1>3. Ends(d, t, 0)
  BY <1>1, <1>2, MeaningIs DEF Ends
<1>4. QED BY <1>2, <1>3, EndsLater DEF t

\* A use ends one round after its body.
LEMMA EndsUse ==
  ASSUME NEW d, IsDefinitions(d), NEW i \in Tokens(d), i.kind # "word", NEW k \in Nat
  PROVE  /\ ~Ends(d, <<i>>, 0)
         /\ Ends(d, <<i>>, k + 1) <=> Ends(d, Substitute(d[i.of], i.arg), k)
<1> DEFINE t == <<i>>
<1>1. t \in Seq(Tokens(d)) /\ t \notin Seq(Words_)
  <2>1. t \in Seq(Tokens(d))
    BY One
  <2>2. SUFFICES ASSUME t \in Seq(Words_) PROVE FALSE
    BY <2>1
  <2>3. i \in Words_
    BY <2>2
  <2>4. QED BY <2>3, AWord
<1>2. Unfolded(d, t) = Substitute(d[i.of], i.arg)
  BY UnfoldedOne DEF Unfold
<1> HIDE DEF t
<1>3. Meaning(d, t, 0) = t
  <2>1. 0 \in Nat
    OBVIOUS
  <2>2. QED BY <1>1, <2>1, MeaningIs
<1>4. Meaning(d, t, k + 1) = Meaning(d, Substitute(d[i.of], i.arg), k)
  BY <1>1, <1>2, MeaningNext
<1>5. QED BY <1>1, <1>3, <1>4 DEF Ends, t

\* A body ends when what becomes of each of its items does.
LEMMA EndsBody ==
  ASSUME NEW d, IsDefinitions(d), NEW m \in Macro, NEW arg \in Seq(Plain(d)), NEW k \in Nat,
         NEW body \in Seq(Written(d, m))
  PROVE  Ends(d, Substitute(body, arg), k) <=> \A p \in 1 .. Len(body) : Ends(d, Put(arg, body[p]), k)
<1> DEFINE Claim(u) == Ends(d, Substitute(u, arg), k) <=> \A p \in 1 .. Len(u) : Ends(d, Put(arg, u[p]), k)
           T == {n \in Nat : \A u \in Seq(Written(d, m)) : Len(u) = n => Claim(u)}
<1>1. 0 \in T
  <2>1. SUFFICES ASSUME NEW u \in Seq(Written(d, m)), Len(u) = 0 PROVE Claim(u)
    OBVIOUS
  <2>2. u = <<>> /\ \A p \in 1 .. Len(u) : FALSE
    BY <2>1, EmptySeq
  <2>3. Substitute(u, arg) = <<>>
    BY <2>2, SubstituteNone
  <2>4. Ends(d, <<>>, k)
    <3>1. <<>> \in Seq(Words_) /\ <<>> \in Seq(Tokens(d)) /\ 0 \in Nat /\ 0 <= k
      OBVIOUS
    <3>2. Ends(d, <<>>, 0)
      BY <3>1, MeaningIs DEF Ends
    <3>3. QED BY <3>1, <3>2, EndsLater
  <2>5. QED BY <2>2, <2>3, <2>4
<1>2. ASSUME NEW n \in Nat, n \in T PROVE n + 1 \in T
  <2>1. SUFFICES ASSUME NEW u \in Seq(Written(d, m)), Len(u) = n + 1 PROVE Claim(u)
    OBVIOUS
  <2>2. PICK v \in Seq(Written(d, m)), e \in Written(d, m) : u = Append(v, e)
    <3>1. u # <<>>
      BY <2>1, EmptySeq
    <3>2. QED BY <3>1, SequenceEmptyOrAppend
  <2>3. Len(v) = n /\ u[n + 1] = e /\ \A p \in 1 .. n : u[p] = v[p]
    BY <2>1, <2>2, AppendProperties
  <2>4. Claim(v)
    BY <1>2, <2>3
  <2>5. Substitute(u, arg) = Substitute(v, arg) \o Put(arg, e)
    BY <2>2, SubstituteAppend
  <2>6. Substitute(v, arg) \in Seq(Tokens(d)) /\ Put(arg, e) \in Seq(Tokens(d))
    BY SubstituteType, PutType
  <2>7. Ends(d, Substitute(u, arg), k) <=> Ends(d, Substitute(v, arg), k) /\ Ends(d, Put(arg, e), k)
    BY <2>5, <2>6, EndsJoined
  <2>8. Ends(d, Substitute(v, arg), k) <=> \A p \in 1 .. n : Ends(d, Put(arg, v[p]), k)
    BY <2>3, <2>4
  <2>9. \A p \in 1 .. n + 1 : p = n + 1 \/ p \in 1 .. n
    OBVIOUS
  <2>10. n + 1 \in 1 .. n + 1 /\ \A p \in 1 .. n : p \in 1 .. n + 1
    OBVIOUS
  <2>11. (\A p \in 1 .. n + 1 : Ends(d, Put(arg, u[p]), k))
            <=> Ends(d, Put(arg, e), k) /\ \A p \in 1 .. n : Ends(d, Put(arg, v[p]), k)
    BY <2>3, <2>9, <2>10
  <2>12. QED BY <2>1, <2>7, <2>8, <2>11
<1> HIDE DEF T
<1>3. Len(body) \in T
  <2>1. Len(body) \in Nat
    OBVIOUS
  <2>2. QED BY <1>1, <1>2, <2>1, Induction
<1>4. QED BY <1>3 DEF T

\* The uses that are words after k rounds.
EndingUses(d, k) == {v \in Uses : Ends(d, <<v>>, k)}

\* What is left to count once the uses that end are known.
Counted(d) == Words_ \cup Uses \cup Glued(d)

\* A use has no argument, or one of a single token.
LEMMA AUseIs ==
  ASSUME NEW v \in Uses
  PROVE  \/ v \in SimpleUses
         \/ \E a \in Arguments : v.kind = "use" /\ v.of \in Functions_ /\ v.arg = <<a>>
<1>1. CASE v \in {Use(n, <<>>) : n \in Simple}
  BY <1>1 DEF SimpleUses
<1>2. CASE v \in {Use(m, <<a>>) : m \in Functions_, a \in Arguments}
  <2>1. PICK m \in Functions_, a \in Arguments : v = Use(m, <<a>>)
    BY <1>2
  <2>2. v.kind = "use" /\ v.of = m /\ v.arg = <<a>>
    BY <2>1 DEF Use
  <2>3. QED BY <2>2
<1>3. QED BY <1>1, <1>2 DEF Uses

\* The arguments are words and simple uses.
LEMMA ArgumentIs ==
  ASSUME NEW d
  PROVE  Arguments \subseteq Words_ \cup SimpleUses /\ SimpleUses \subseteq Uses
         /\ Arguments \subseteq Plain(d) /\ Arguments \subseteq Counted(d)
<1>1. Arguments = Words_ \cup SimpleUses
  BY DEF Arguments, Words_, SimpleUses
<1>2. SimpleUses \subseteq Uses
  BY DEF SimpleUses, Uses
<1>3. QED BY <1>1, <1>2 DEF Plain, Counted

\* What is put in the place of an item is one token that counts.
LEMMA PartOfUse ==
  ASSUME NEW d, MacrosAssumption, NEW v \in Uses, NEW j \in Written(d, v.of)
  PROVE  \E x \in Counted(d) : Put(v.arg, j) = <<x>>
<1>1. ASSUME j \in Plain(d) PROVE j \in Counted(d) /\ Put(v.arg, j) = <<j>>
  <2>1. j \in Words_ \/ j \in SimpleUses \/ j \in Glued(d)
    BY <1>1 DEF Plain
  <2>2. j.kind = "word" \/ j.kind = "pieces" \/ (j.kind = "use" /\ j.arg = <<>>)
    BY <2>1, AWord, ASimpleUse, Piece
  <2>3. <<>> # <<Param>>
    OBVIOUS
  <2>4. Put(v.arg, j) = <<j>>
    BY <2>2, <2>3 DEF Put
  <2>5. QED BY <2>1, <2>4, ArgumentIs DEF Counted
<1>2. ASSUME NEW n \in Functions_, NEW a \in Arguments PROVE Use(n, <<a>>) \in Counted(d)
  BY <1>2 DEF Uses, Counted
<1>3. ASSUME NEW n \in Functions_, NEW a \in Arguments, j = Use(n, <<a>>)
      PROVE  Put(v.arg, j) = <<j>>
  <2>1. j.kind = "use" /\ j.arg = <<a>>
    BY <1>3 DEF Use
  <2>2. a # Param
    <3>1. a.kind = "word" \/ a.kind = "use"
      BY ArgumentIs, AWord, ASimpleUse
    <3>2. QED BY <3>1 DEF Param
  <2>3. <<a>> # <<Param>>
    BY <2>2
  <2>4. QED BY <2>1, <2>3 DEF Put
<1>4. CASE v \in SimpleUses
  <2>1. v.of \in Macro /\ v.of \notin Functions_
    BY <1>4, ASimpleUse DEF MacrosAssumption, Macro
  <2>2. \A a \in Atoms(v.of) : a \in Arguments
    BY <2>1 DEF Atoms, Arguments
  <2>3. CASE j \in Plain(d)
    BY <1>1, <2>3
  <2>4. CASE \E n \in Functions_, a \in Atoms(v.of) : j = Use(n, <<a>>)
    <3>1. PICK n \in Functions_, a \in Atoms(v.of) : j = Use(n, <<a>>)
      BY <2>4
    <3>2. QED BY <1>2, <1>3, <2>2, <3>1
  <2>5. QED BY <2>1, <2>3, <2>4, AnItem
<1>5. ASSUME NEW b \in Arguments, v.kind = "use", v.of \in Functions_, v.arg = <<b>>
      PROVE  \E x \in Counted(d) : Put(v.arg, j) = <<x>>
  <2>1. v.of \in Macro /\ \A a \in Atoms(v.of) : a = Param \/ a \in Arguments
    BY <1>5 DEF Atoms, Arguments, Macro
  <2>2. b \in Counted(d)
    BY ArgumentIs
  <2>3. CASE j \in Plain(d)
    BY <1>1, <2>3
  <2>4. CASE j = Param
    <3>1. Put(v.arg, j) = v.arg
      BY <2>4 DEF Put, Param
    <3>2. QED BY <1>5, <2>2, <3>1
  <2>5. CASE \E n \in Functions_, a \in Atoms(v.of) : j = Use(n, <<a>>)
    <3>1. PICK n \in Functions_, a \in Atoms(v.of) : j = Use(n, <<a>>)
      BY <2>5
    <3>2. CASE a = Param
      <4>1. j.kind = "use" /\ j.arg = <<Param>> /\ j.of = n
        BY <3>1, <3>2 DEF Use
      <4>2. Put(v.arg, j) = <<Use(n, v.arg)>>
        BY <4>1 DEF Put
      <4>3. Use(n, v.arg) \in Counted(d)
        BY <1>2, <1>5
      <4>4. QED BY <4>2, <4>3
    <3>3. CASE a # Param
      BY <1>2, <1>3, <2>1, <3>1, <3>3
    <3>4. QED BY <3>2, <3>3
  <2>6. QED BY <2>1, <2>3, <2>4, <2>5, AnItem
<1>6. QED BY <1>4, <1>5, AUseIs

\* The pieces of a use end when the use does.
LEMMA CountedEnds ==
  ASSUME NEW d, IsDefinitions(d), NEW k \in Nat, NEW m \in Nat, EndingUses(d, k) = EndingUses(d, m),
         NEW x \in Counted(d)
  PROVE  Ends(d, <<x>>, k) <=> Ends(d, <<x>>, m)
<1>1. CASE x \in Words_
  BY <1>1, EndsWord
<1>2. CASE x \in Uses
  BY <1>2 DEF EndingUses
<1>3. CASE x \in Glued(d)
  <2> DEFINE v == Use(x.of, <<>>)
  <2>1. x.kind = "pieces" /\ x.of \in Simple /\ x.arg = <<>> /\ x \in Tokens(d)
    BY <1>3, Piece DEF Tokens, Plain
  <2>2. v \in Uses /\ v \in Tokens(d) /\ v.kind = "use" /\ v.of = x.of /\ v.arg = x.arg
    BY <2>1 DEF Uses, Tokens, Plain, SimpleUses, Use
  <2> HIDE DEF v
  <2>3. \A n \in Nat : Ends(d, <<x>>, n) <=> Ends(d, <<v>>, n)
    <3>1. TAKE n \in Nat
    <3>2. CASE n = 0
      BY <2>1, <2>2, <3>2, EndsUse
    <3>3. CASE n # 0
      <4> DEFINE l == n - 1
      <4>1. l \in Nat /\ n = l + 1
        BY <3>3
      <4> HIDE DEF l
      <4>2. Ends(d, <<x>>, l + 1) <=> Ends(d, Substitute(d[x.of], x.arg), l)
        BY <2>1, <4>1, EndsUse
      <4>3. Ends(d, <<v>>, l + 1) <=> Ends(d, Substitute(d[v.of], v.arg), l)
        BY <2>2, <4>1, EndsUse
      <4>4. QED BY <2>2, <4>1, <4>2, <4>3
    <3>4. QED BY <3>2, <3>3
  <2>4. Ends(d, <<v>>, k) <=> Ends(d, <<v>>, m)
    BY <2>2 DEF EndingUses
  <2>5. QED BY <2>3, <2>4
<1>4. QED BY <1>1, <1>2, <1>3 DEF Counted

\* One round in which no use ends is followed by another.
LEMMA NoRoundAdds ==
  ASSUME NEW d, IsDefinitions(d), MacrosAssumption, NEW k \in Nat,
         EndingUses(d, k) = EndingUses(d, k + 1)
  PROVE  EndingUses(d, k + 1) = EndingUses(d, (k + 1) + 1)
<1> DEFINE m == k + 1
<1>1. m \in Nat
  OBVIOUS
<1> HIDE DEF m
<1>2. ASSUME NEW v \in Uses PROVE Ends(d, <<v>>, k + 1) <=> Ends(d, <<v>>, m + 1)
  <2> DEFINE b == d[v.of]
  <2>1. v \in Tokens(d) /\ v.kind = "use" /\ v.of \in Macro
    BY AnExpandedUse
  <2>2. v.arg \in Seq(Plain(d))
    BY <2>1, ATokenIs
  <2>3. b \in Seq(Written(d, v.of))
    BY <2>1 DEF IsDefinitions
  <2>4. \A p \in 1 .. Len(b) : b[p] \in Written(d, v.of)
    BY <2>3
  <2> HIDE DEF b
  <2>5. \A p \in 1 .. Len(b) : Ends(d, Put(v.arg, b[p]), k) <=> Ends(d, Put(v.arg, b[p]), m)
    <3>1. TAKE p \in 1 .. Len(b)
    <3>2. PICK x \in Counted(d) : Put(v.arg, b[p]) = <<x>>
      BY <2>4, PartOfUse
    <3>3. Ends(d, <<x>>, k) <=> Ends(d, <<x>>, m)
      <4>1. EndingUses(d, k) = EndingUses(d, m)
        BY DEF m
      <4>2. QED BY <1>1, <4>1, CountedEnds
    <3>4. QED BY <3>2, <3>3
  <2>6. Ends(d, Substitute(b, v.arg), k) <=> Ends(d, Substitute(b, v.arg), m)
    <3>1. Ends(d, Substitute(b, v.arg), k) <=> \A p \in 1 .. Len(b) : Ends(d, Put(v.arg, b[p]), k)
      BY <2>1, <2>2, <2>3, EndsBody
    <3>2. Ends(d, Substitute(b, v.arg), m) <=> \A p \in 1 .. Len(b) : Ends(d, Put(v.arg, b[p]), m)
      BY <1>1, <2>1, <2>2, <2>3, EndsBody
    <3>3. QED BY <2>5, <3>1, <3>2
  <2>7. Ends(d, <<v>>, k + 1) <=> Ends(d, Substitute(b, v.arg), k)
    BY <2>1, EndsUse DEF b
  <2>8. Ends(d, <<v>>, m + 1) <=> Ends(d, Substitute(b, v.arg), m)
    BY <1>1, <2>1, EndsUse DEF b
  <2>9. QED BY <2>6, <2>7, <2>8
<1>3. EndingUses(d, k + 1) = EndingUses(d, m + 1)
  BY <1>2 DEF EndingUses
<1>4. QED BY <1>3 DEF m

\* A use that has ended stays so.
LEMMA RoundsAdd ==
  ASSUME NEW d, IsDefinitions(d), NEW k \in Nat
  PROVE  EndingUses(d, k) \subseteq EndingUses(d, k + 1)
<1>1. SUFFICES ASSUME NEW v \in Uses, Ends(d, <<v>>, k) PROVE Ends(d, <<v>>, k + 1)
  BY DEF EndingUses
<1> DEFINE t == <<v>>
<1>2. t \in Seq(Tokens(d))
  BY AnExpandedUse, One
<1>3. k + 1 \in Nat /\ k <= k + 1 /\ Ends(d, t, k)
  BY <1>1
<1> HIDE DEF t
<1>4. Ends(d, t, k + 1)
  BY <1>2, <1>3, EndsLater
<1>5. QED BY <1>4 DEF t

\* From a round that adds nothing on all are the same.
LEMMA NoneAddsLater ==
  ASSUME NEW d, IsDefinitions(d), MacrosAssumption, NEW k \in Nat,
         EndingUses(d, k) = EndingUses(d, k + 1), NEW m \in Nat, k <= m
  PROVE  EndingUses(d, m) = EndingUses(d, k)
<1> DEFINE Same_(j) == EndingUses(d, k + j) = EndingUses(d, k) /\ EndingUses(d, (k + j) + 1) = EndingUses(d, k)
           T == {j \in Nat : Same_(j)}
<1>1. 0 \in T
  <2>1. k + 0 = k
    OBVIOUS
  <2>2. QED BY <2>1
<1>2. ASSUME NEW j \in Nat, j \in T PROVE j + 1 \in T
  <2> DEFINE l == k + j
  <2>1. l \in Nat /\ k + (j + 1) = l + 1 /\ j + 1 \in Nat
    OBVIOUS
  <2>2. EndingUses(d, l) = EndingUses(d, k) /\ EndingUses(d, l + 1) = EndingUses(d, k)
    BY <1>2
  <2> HIDE DEF l
  <2>3. EndingUses(d, l + 1) = EndingUses(d, (l + 1) + 1)
    BY <2>1, <2>2, NoRoundAdds
  <2>4. QED BY <2>1, <2>2, <2>3
<1> HIDE DEF T
<1>3. m - k \in Nat /\ k + (m - k) = m
  OBVIOUS
<1>4. m - k \in T
  BY <1>1, <1>2, <1>3, Induction
<1>5. QED BY <1>3, <1>4 DEF T

\* The range of a function on a finite set is finite.
LEMMA FiniteRange ==
  ASSUME NEW S, IsFiniteSet(S), NEW T, NEW f \in [S -> T], \A t \in T : \E s \in S : f[s] = t
  PROVE  IsFiniteSet(T)
<1>1. f \in Surjection(S, T)
  BY DEF Surjection
<1>2. QED BY <1>1, FS_Surjection

\* There are finitely many uses.
LEMMA UsesFinite == MacrosAssumption => IsFiniteSet(Uses)
<1>1. SUFFICES ASSUME IsFiniteSet(Simple), IsFiniteSet(Functions_) PROVE IsFiniteSet(Uses)
  BY DEF MacrosAssumption
<1>2. IsFiniteSet(Macro)
  BY <1>1, FS_Union DEF Macro
<1>3. IsFiniteSet(SimpleUses)
  <2> DEFINE f == [m \in Simple |-> Use(m, <<>>)]
  <2>1. f \in [Simple -> SimpleUses] /\ \A t \in SimpleUses : \E s \in Simple : f[s] = t
    BY DEF SimpleUses
  <2> HIDE DEF f
  <2>2. QED BY <1>1, <2>1, FiniteRange
<1>4. IsFiniteSet(Words_)
  <2> DEFINE f == [m \in Macro |-> Word(m)]
  <2>1. f \in [Macro -> Words_] /\ \A t \in Words_ : \E s \in Macro : f[s] = t
    BY DEF Words_
  <2> HIDE DEF f
  <2>2. QED BY <1>2, <2>1, FiniteRange
<1>5. IsFiniteSet(Arguments)
  <2>1. Arguments = Words_ \cup SimpleUses
    BY DEF Arguments, Words_, SimpleUses
  <2>2. QED BY <1>3, <1>4, <2>1, FS_Union
<1> DEFINE V == {Use(m, <<a>>) : m \in Functions_, a \in Arguments}
<1>6. IsFiniteSet(V)
  <2> DEFINE P == Functions_ \X Arguments
             f == [p \in P |-> Use(p[1], <<p[2]>>)]
  <2>1. IsFiniteSet(P)
    BY <1>1, <1>5, FS_Product
  <2>2. f \in [P -> V]
    <3>1. ASSUME NEW p \in P PROVE Use(p[1], <<p[2]>>) \in V
      <4>1. p[1] \in Functions_ /\ p[2] \in Arguments
        OBVIOUS
      <4>2. QED BY <4>1
    <3> HIDE DEF V, P
    <3>2. QED BY <3>1
  <2>3. ASSUME NEW t \in V PROVE \E s \in P : f[s] = t
    <3>2. PICK m \in Functions_, a \in Arguments : t = Use(m, <<a>>)
      OBVIOUS
    <3>3. <<m, a>> \in P /\ f[<<m, a>>] = t
      BY <3>2
    <3>4. QED BY <3>3
  <2> HIDE DEF P, f, V
  <2>4. QED BY <2>1, <2>2, <2>3, FiniteRange
<1>7. Uses = SimpleUses \cup V
  BY DEF Uses, SimpleUses
<1> HIDE DEF V
<1>8. QED BY <1>3, <1>6, <1>7, FS_Union

\* Until a round adds nothing, each adds a use at least.
LEMMA RoundsCount ==
  ASSUME NEW d, IsDefinitions(d), MacrosAssumption, NEW n \in Nat
  PROVE  \/ n <= Cardinality(EndingUses(d, n))
         \/ \A m \in Nat : n <= m => EndingUses(d, m) = EndingUses(d, n)
<1> DEFINE Still_(k) == \A m \in Nat : k <= m => EndingUses(d, m) = EndingUses(d, k)
           T == {k \in Nat : k <= Cardinality(EndingUses(d, k)) \/ Still_(k)}
<1>1. \A k \in Nat : IsFiniteSet(EndingUses(d, k)) /\ Cardinality(EndingUses(d, k)) \in Nat
  <2>1. \A k : EndingUses(d, k) \in SUBSET Uses
    BY DEF EndingUses
  <2>2. QED BY <2>1, UsesFinite, FS_Subset, FS_CardinalityType
<1>2. 0 \in T
  BY <1>1
<1>3. ASSUME NEW k \in Nat, k \in T PROVE k + 1 \in T
  <2> DEFINE m == k + 1
             E == EndingUses(d, k)
             F == EndingUses(d, m)
  <2>1. E \subseteq F
    BY RoundsAdd
  <2>2. m \in Nat /\ k <= m
    OBVIOUS
  <2>3. CASE E = F
    <3>1. Still_(k)
      BY <2>3, NoneAddsLater
    <3>2. \A l \in Nat : m <= l => k <= l
      OBVIOUS
    <3>3. Still_(m)
      BY <2>3, <3>1, <3>2
    <3>4. QED BY <2>2, <3>3
  <2>4. CASE E # F
    <3>1. k <= Cardinality(E)
      BY <1>3, <2>2, <2>4
    <3>2. IsFiniteSet(F) /\ Cardinality(F) \in Nat /\ Cardinality(E) \in Nat
      BY <1>1, <2>2
    <3>3. Cardinality(E) <= Cardinality(F) /\ Cardinality(E) # Cardinality(F)
      <4> HIDE DEF E, F
      <4>1. QED BY <2>1, <2>4, <3>2, FS_Subset
    <3> HIDE DEF E, F
    <3>4. m <= Cardinality(F)
      BY <3>1, <3>2, <3>3
    <3>5. QED BY <2>2, <3>4 DEF F
  <2>5. QED BY <2>3, <2>4
<1> HIDE DEF T
<1>4. n \in T
  BY <1>2, <1>3, Induction
<1>5. QED BY <1>4 DEF T

\* A use that ends has ended after Longest rounds.
LEMMA LongestIsEnough ==
  ASSUME NEW d, IsDefinitions(d), MacrosAssumption, NEW v \in Uses, NEW n \in Nat, Ends(d, <<v>>, n)
  PROVE  Ends(d, <<v>>, Longest) /\ Longest \in Nat
<1> DEFINE t == <<v>>
           L == Longest
<1>1. IsFiniteSet(Uses) /\ L = Cardinality(Uses) /\ L \in Nat
  BY UsesFinite, FS_CardinalityType DEF Longest
<1>2. t \in Seq(Tokens(d))
  BY AnExpandedUse, One
<1>3. v \in EndingUses(d, n)
  BY DEF EndingUses
<1>4. v \in EndingUses(d, L)
  <2> HIDE DEF L
  <2>1. CASE n <= L
    <3>1. Ends(d, t, n)
      OBVIOUS
    <3> HIDE DEF t
    <3>2. Ends(d, t, L)
      BY <1>1, <1>2, <2>1, <3>1, EndsLater
    <3>3. QED BY <3>2 DEF EndingUses, t
  <2>2. CASE ~(n <= L)
    <3>1. CASE L <= Cardinality(EndingUses(d, L))
      <4> DEFINE E == EndingUses(d, L)
      <4>1. E \in SUBSET Uses
        BY DEF EndingUses
      <4> HIDE DEF E
      <4>2. Cardinality(E) <= L /\ Cardinality(E) \in Nat
        BY <1>1, <4>1, FS_Subset, FS_CardinalityType
      <4>3. Cardinality(E) = L
        BY <1>1, <3>1, <4>2 DEF E
      <4>4. E = Uses
        BY <1>1, <4>1, <4>3, FS_Subset
      <4>5. QED BY <4>4 DEF E
    <3>2. CASE \A m \in Nat : L <= m => EndingUses(d, m) = EndingUses(d, L)
      <4>1. L <= n
        BY <1>1, <2>2
      <4>2. QED BY <1>3, <3>2, <4>1
    <3>3. QED BY <1>1, <3>1, <3>2, RoundsCount
  <2>3. QED BY <2>1, <2>2
<1>5. QED BY <1>1, <1>4 DEF EndingUses

-----------------------------------------------------------------------------
(* Endless uses *)

\* The macros whose use stands in the body of m, and those reached from m.
Calls(d, m) == {n \in Macro : \E p \in 1 .. Len(d[m]) : d[m][p].kind = "use" /\ d[m][p].of = n}
Closed(d, C) == \A y \in C : Calls(d, y) \subseteq C
Reached(d, m) == {x \in Macro : \A C \in SUBSET Macro : Calls(d, m) \subseteq C /\ Closed(d, C) => x \in C}

\* What is called is reached, and what is called from there.
LEMMA ReachedOn ==
  ASSUME NEW d, NEW m
  PROVE  /\ Calls(d, m) \subseteq Reached(d, m) /\ Closed(d, Reached(d, m))
<1>1. Calls(d, m) \subseteq Reached(d, m)
  BY DEF Reached, Calls
<1>2. ASSUME NEW y \in Reached(d, m), NEW x \in Calls(d, y) PROVE x \in Reached(d, m)
  <2>1. x \in Macro
    BY DEF Calls
  <2>2. ASSUME NEW C \in SUBSET Macro, Calls(d, m) \subseteq C, Closed(d, C) PROVE x \in C
    <3>1. y \in C
      BY <2>2 DEF Reached
    <3>2. QED BY <2>2, <3>1 DEF Closed
  <2>3. QED BY <2>1, <2>2 DEF Reached
<1>3. QED BY <1>1, <1>2 DEF Closed

\* What is reached is called, or reached from what is called.
LEMMA ReachedFrom ==
  ASSUME NEW d, NEW m, NEW x \in Reached(d, m), x \notin Calls(d, m)
  PROVE  \E y \in Calls(d, m) : x \in Reached(d, y)
<1> DEFINE C == Calls(d, m) \cup {z \in Macro : \E y \in Calls(d, m) : z \in Reached(d, y)}
<1>1. C \in SUBSET Macro /\ Calls(d, m) \subseteq C
  BY DEF Calls
<1>2. ASSUME NEW z \in C, NEW w \in Calls(d, z) PROVE w \in C
  <2>1. w \in Macro
    BY DEF Calls
  <2>2. CASE z \in Calls(d, m)
    <3>1. w \in Reached(d, z)
      BY ReachedOn
    <3>2. QED BY <2>1, <2>2, <3>1
  <2>3. ASSUME NEW y \in Calls(d, m), z \in Reached(d, y) PROVE w \in C
    <3>1. w \in Reached(d, y)
      BY <2>3, ReachedOn DEF Closed
    <3>2. QED BY <2>1, <3>1
  <2>4. QED BY <2>2, <2>3
<1>3. Closed(d, C)
  BY <1>2 DEF Closed
<1>4. x \in C
  BY <1>1, <1>3 DEF Reached
<1>5. QED BY <1>4

\* The body of a macro that reaches m, where m reaches itself, uses such a macro.
LEMMA CycleCalls ==
  ASSUME NEW d, NEW m, m \in Reached(d, m), NEW x, m \in Reached(d, x)
  PROVE  \E y \in Calls(d, x) : m \in Reached(d, y)
<1>1. CASE m \in Calls(d, x)
  BY <1>1
<1>2. CASE m \notin Calls(d, x)
  BY <1>2, ReachedFrom
<1>3. QED BY <1>1, <1>2

\* The use of a macro that reaches one that reaches itself never ends.
LEMMA CycleIsEndless ==
  ASSUME NEW d, IsDefinitions(d), NEW m, m \in Reached(d, m), NEW n \in Nat
  PROVE  \A i \in Tokens(d) : i.kind = "use" /\ m \in Reached(d, i.of) => ~Ends(d, <<i>>, n)
<1> DEFINE Never(k) == \A i \in Tokens(d) : i.kind = "use" /\ m \in Reached(d, i.of) => ~Ends(d, <<i>>, k)
           T == {k \in Nat : Never(k)}
<1>1. 0 \in T
  <2>1. 0 \in Nat
    OBVIOUS
  <2>2. \A i \in Tokens(d) : i.kind = "use" => ~Ends(d, <<i>>, 0)
    BY <2>1, EndsUse
  <2>3. QED BY <2>1, <2>2
<1>2. ASSUME NEW k \in Nat, k \in T PROVE k + 1 \in T
  <2>1. SUFFICES ASSUME NEW i \in Tokens(d), i.kind = "use", m \in Reached(d, i.of), Ends(d, <<i>>, k + 1)
                 PROVE  FALSE
    OBVIOUS
  <2> DEFINE b == d[i.of]
  <2>2. i.of \in Macro /\ i.arg \in Seq(Plain(d))
    BY <2>1, ATokenIs
  <2>3. b \in Seq(Written(d, i.of))
    BY <2>2 DEF IsDefinitions
  <2>4. Ends(d, Substitute(b, i.arg), k)
    BY <2>1, EndsUse
  <2>5. PICK y \in Calls(d, i.of) : m \in Reached(d, y)
    BY <2>1, CycleCalls
  <2>6. PICK p \in 1 .. Len(b) : b[p].kind = "use" /\ b[p].of = y
    BY <2>5 DEF Calls
  <2>7. b[p] \in Written(d, i.of)
    BY <2>3, <2>6
  <2> HIDE DEF b
  <2>8. Ends(d, Put(i.arg, b[p]), k)
    BY <2>2, <2>3, <2>4, <2>6, EndsBody
  <2>9. PICK j : Put(i.arg, b[p]) = <<j>> /\ j.kind = "use" /\ j.of = y
    BY <2>6 DEF Put, Use
  <2>10. j \in Tokens(d)
    <3>1. <<j>> \in Seq(Tokens(d))
      BY <2>2, <2>7, <2>9, PutType
    <3>2. QED BY <3>1
  <2>11. ~Ends(d, <<j>>, k)
    BY <1>2, <2>5, <2>9, <2>10
  <2>12. QED BY <2>8, <2>9, <2>11
<1> HIDE DEF T
<1>3. n \in T
  BY <1>1, <1>2, Induction
<1>4. QED BY <1>3 DEF T

\* A use never ends if its argument does not.
LEMMA ArgumentIsEndless ==
  ASSUME NEW d, IsDefinitions(d), NEW v \in Tokens(d), v.kind = "use", Param \in ToSet(d[v.of]),
         NEW n \in Nat, Ends(d, <<v>>, n)
  PROVE  Ends(d, v.arg, n)
<1> DEFINE b == d[v.of]
           k == n - 1
<1>1. v.of \in Macro /\ v.arg \in Seq(Plain(d))
  BY ATokenIs
<1>2. b \in Seq(Written(d, v.of))
  BY <1>1 DEF IsDefinitions
<1>3. n # 0
  BY EndsUse
<1>4. k \in Nat /\ n = k + 1 /\ k <= n
  BY <1>3
<1>5. PICK p \in 1 .. Len(b) : b[p] = Param
  BY <1>2 DEF ToSet
<1> HIDE DEF k
<1>6. Ends(d, Substitute(b, v.arg), k)
  BY <1>4, EndsUse
<1> HIDE DEF b
<1>7. Ends(d, Put(v.arg, b[p]), k)
  BY <1>1, <1>2, <1>4, <1>5, <1>6, EndsBody
<1>8. Put(v.arg, b[p]) = v.arg
  BY <1>5 DEF Put, Param
<1>9. v.arg \in Seq(Tokens(d))
  BY <1>1, SettledTokens, SeqMonotonic
<1>10. QED BY <1>4, <1>7, <1>8, <1>9, EndsLater

Endless(d, t) == \A n \in Nat : ~Ends(d, t, n)

\* Of texts that mean the same both or none end.
LEMMA EndlessSame ==
  ASSUME NEW d, NEW s, NEW t, Same(d, s, t), Endless(d, s)
  PROVE  Endless(d, t)
<1>1. SUFFICES ASSUME NEW n \in Nat, Ends(d, t, n) PROVE FALSE
  BY DEF Endless
<1>2. Means(d, t, Meaning(d, t, n))
  BY <1>1 DEF Ends, Means
<1>3. Means(d, s, Meaning(d, t, n))
  BY <1>2 DEF Same
<1>4. PICK k \in Nat : Meaning(d, s, k) = Meaning(d, t, n) /\ Meaning(d, t, n) \in Seq(Words_)
  BY <1>3 DEF Means
<1>5. QED BY <1>4 DEF Endless, Ends

\* If the next use never ends, what the frame stands for does not.
LEMMA FrameIsEndless ==
  ASSUME NEW d, IsDefinitions(d), NEW f, NEW u, StandsFor(d, f, u), f.todo # <<>>,
         Endless(d, <<Head(f.todo)>>)
  PROVE  Endless(d, <<u>>)
<1> DEFINE s == f.done
           t == f.todo
           o == <<Head(t)>>
           r == Tail(t)
           S == Tokens(d)
<1>1. s \in Seq(Settled(d)) /\ t \in Seq(S) /\ t # <<>> /\ u \in S /\ u.kind = "use"
  BY DEF StandsFor, FrameType
<1>2. s \in Seq(S)
  BY <1>1, SettledTokens, SeqMonotonic
<1>3. Endless(d, o) /\ t = o \o r /\ o \in Seq(S) /\ r \in Seq(S)
  <2> HIDE DEF s, S
  <2>1. t = <<Head(t)>> \o Tail(t) /\ Head(t) \in S /\ Tail(t) \in Seq(S)
    BY <1>1, <1>2, MoveHead
  <2>2. QED BY <2>1, One
<1>4. \/ Same(d, s \o t, <<u>>)
      \/ Param \in ToSet(d[u.of]) /\ Same(d, s \o t, u.arg)
  BY DEF StandsFor
<1> HIDE DEF s, t, o, r
<1>5. Endless(d, s \o t)
  <2>1. SUFFICES ASSUME NEW n \in Nat, Ends(d, s \o t, n) PROVE FALSE
    BY DEF Endless
  <2>2. Ends(d, t, n)
    BY <1>1, <1>2, <2>1, EndsJoined DEF S
  <2>3. Ends(d, o, n)
    BY <1>3, <2>2, EndsJoined DEF S
  <2>4. QED BY <1>3, <2>3 DEF Endless
<1>6. CASE Same(d, s \o t, <<u>>)
  BY <1>5, <1>6, EndlessSame
<1>7. CASE Param \in ToSet(d[u.of]) /\ Same(d, s \o t, u.arg)
  <2>1. Endless(d, u.arg)
    BY <1>5, <1>7, EndlessSame
  <2>2. QED BY <1>1, <1>7, <2>1, ArgumentIsEndless DEF Endless, S
<1>8. QED BY <1>4, <1>6, <1>7

\* If the next use of the innermost frame never ends, the first use does not.
LEMMA StackIsEndless ==
  ASSUME NEW d, IsDefinitions(d), NEW u, NEW fs, FramesRight(d, u, fs), fs # <<>>,
         Last(fs).todo # <<>>, Endless(d, <<Head(Last(fs).todo)>>)
  PROVE  Endless(d, <<u>>)
<1> DEFINE l == Len(fs)
           Claim(n) == n \in 1 .. l => fs[n].todo # <<>> /\ Endless(d, <<Head(fs[n].todo)>>)
           T == {k \in Nat : Claim(l - k)}
<1>1. l \in Nat \ {0} /\ Last(fs) = fs[l]
  BY TopStands
<1>2. \A n \in 1 .. l : StandsFor(d, fs[n], OuterUse(u, fs, n))
  BY DEF FramesRight
<1>3. \A n \in 1 .. l : n < l => fs[n].todo # <<>>
  BY DEF FramesRight
<1> HIDE DEF l
<1>4. ASSUME NEW n \in 1 .. l, fs[n].todo # <<>>, Endless(d, <<Head(fs[n].todo)>>)
      PROVE  Endless(d, <<OuterUse(u, fs, n)>>)
  BY <1>2, <1>4, FrameIsEndless
<1>5. 0 \in T
  <2>1. l - 0 = l
    BY <1>1
  <2>2. QED BY <1>1, <2>1
<1>6. ASSUME NEW k \in Nat, k \in T PROVE k + 1 \in T
  <2> DEFINE n == l - k
             m == l - (k + 1)
  <2>1. SUFFICES ASSUME m \in 1 .. l PROVE fs[m].todo # <<>> /\ Endless(d, <<Head(fs[m].todo)>>)
    OBVIOUS
  <2>2. n \in 1 .. l /\ n # 1 /\ n - 1 = m /\ m < l
    BY <1>1, <2>1
  <2>3. fs[n].todo # <<>> /\ Endless(d, <<Head(fs[n].todo)>>)
    BY <1>6, <2>2
  <2> HIDE DEF n, m
  <2>4. Endless(d, <<OuterUse(u, fs, n)>>)
    BY <1>4, <2>2, <2>3
  <2>5. OuterUse(u, fs, n) = Head(fs[m].todo)
    BY <2>2 DEF OuterUse
  <2>6. QED BY <1>3, <2>1, <2>2, <2>4, <2>5
<1> HIDE DEF T
<1>7. l - 1 \in Nat /\ l - (l - 1) = 1 /\ 1 \in 1 .. l
  BY <1>1
<1>8. l - 1 \in T
  BY <1>5, <1>6, <1>7, Induction
<1>9. fs[1].todo # <<>> /\ Endless(d, <<Head(fs[1].todo)>>)
  BY <1>7, <1>8 DEF T
<1>10. QED BY <1>4, <1>7, <1>9 DEF OuterUse

-----------------------------------------------------------------------------
(* Chains of calls *)

\* The uses in the text t are of macros in C.
UsesIn(t, C) == \A p \in 1 .. Len(t) : t[p].kind = "use" => t[p].of \in C

\* The uses in two texts.
LEMMA UsesInJoined ==
  ASSUME NEW S, NEW s \in Seq(S), NEW t \in Seq(S), NEW C, UsesIn(s, C), UsesIn(t, C)
  PROVE  UsesIn(s \o t, C)
<1> DEFINE c == s \o t
<1>1. Len(s) \in Nat /\ Len(t) \in Nat /\ Len(c) = Len(s) + Len(t)
  BY ConcatProperties, LenProperties
<1>2. \A i \in 1 .. Len(s) + Len(t) : c[i] = IF i <= Len(s) THEN s[i] ELSE t[i - Len(s)]
  BY ConcatProperties
<1> HIDE DEF c
<1>3. ASSUME NEW p \in 1 .. Len(s) + Len(t), c[p].kind = "use" PROVE c[p].of \in C
  <2>1. CASE p <= Len(s)
    <3>1. p \in 1 .. Len(s) /\ c[p] = s[p]
      BY <1>1, <1>2, <2>1
    <3>2. QED BY <1>3, <3>1 DEF UsesIn
  <2>2. CASE ~(p <= Len(s))
    <3>1. p - Len(s) \in 1 .. Len(t) /\ c[p] = t[p - Len(s)]
      BY <1>1, <1>2, <2>2
    <3>2. QED BY <1>3, <3>1 DEF UsesIn
  <2>3. QED BY <2>1, <2>2
<1>4. QED BY <1>1, <1>3 DEF UsesIn, c

\* The uses in the rest of a text.
LEMMA UsesInTail ==
  ASSUME NEW S, NEW t \in Seq(S), t # <<>>, NEW C, UsesIn(t, C)
  PROVE  UsesIn(Tail(t), C) /\ (Head(t).kind = "use" => Head(t).of \in C)
<1> DEFINE r == Tail(t)
<1>1. Len(r) = Len(t) - 1 /\ \A i \in 1 .. Len(r) : r[i] = t[i + 1]
  BY HeadTailProperties
<1>2. Len(t) \in Nat \ {0} /\ Head(t) = t[1]
  BY EmptySeq
<1> HIDE DEF r
<1>3. ASSUME NEW p \in 1 .. Len(r), r[p].kind = "use" PROVE r[p].of \in C
  <2>1. p + 1 \in 1 .. Len(t)
    BY <1>1, <1>2
  <2>2. QED BY <1>1, <1>3, <2>1 DEF UsesIn
<1>4. 1 \in 1 .. Len(t)
  BY <1>2
<1>5. QED BY <1>2, <1>3, <1>4 DEF UsesIn, r

\* Words have no uses.
LEMMA WordsHaveNoUse ==
  ASSUME NEW w \in Seq(Words_), NEW C
  PROVE  UsesIn(w, C)
<1>1. \A p \in 1 .. Len(w) : w[p] \in Words_
  OBVIOUS
<1>2. QED BY <1>1, AWord DEF UsesIn

\* With words in the place of the parameter, if there is one, a body has the uses that
\* are written in it.
LEMMA BodyCalls ==
  ASSUME NEW d, NEW m \in Macro, NEW arg \in Seq(Plain(d)), NEW C, NEW body \in Seq(Written(d, m)),
         UsesIn(body, C), arg \in Seq(Words_) \/ \A p \in 1 .. Len(body) : body[p] # Param
  PROVE  UsesIn(Substitute(body, arg), C)
<1> DEFINE Claim(u) ==
             UsesIn(u, C) /\ (arg \in Seq(Words_) \/ \A p \in 1 .. Len(u) : u[p] # Param)
               => UsesIn(Substitute(u, arg), C)
           T == {n \in Nat : \A u \in Seq(Written(d, m)) : Len(u) = n => Claim(u)}
<1>1. 0 \in T
  <2>1. SUFFICES ASSUME NEW u \in Seq(Written(d, m)), Len(u) = 0 PROVE Claim(u)
    OBVIOUS
  <2>2. u = <<>>
    BY <2>1, EmptySeq
  <2>3. Substitute(u, arg) = <<>>
    BY <2>2, SubstituteNone
  <2>4. QED BY <2>3 DEF UsesIn
<1>2. ASSUME NEW n \in Nat, n \in T PROVE n + 1 \in T
  <2>1. SUFFICES ASSUME NEW u \in Seq(Written(d, m)), Len(u) = n + 1, UsesIn(u, C),
                        arg \in Seq(Words_) \/ \A p \in 1 .. Len(u) : u[p] # Param
                 PROVE  UsesIn(Substitute(u, arg), C)
    OBVIOUS
  <2>2. PICK v \in Seq(Written(d, m)), e \in Written(d, m) : u = Append(v, e)
    <3>1. u # <<>>
      BY <2>1, EmptySeq
    <3>2. QED BY <3>1, SequenceEmptyOrAppend
  <2>3. Len(v) = n /\ u[n + 1] = e /\ \A p \in 1 .. n : u[p] = v[p]
    BY <2>1, <2>2, AppendProperties
  <2>4. n + 1 \in 1 .. n + 1 /\ \A p \in 1 .. n : p \in 1 .. n + 1
    OBVIOUS
  <2>5. UsesIn(v, C) /\ (e.kind = "use" => e.of \in C)
    BY <2>1, <2>3, <2>4 DEF UsesIn
  <2>6. arg \in Seq(Words_) \/ (e # Param /\ \A p \in 1 .. n : v[p] # Param)
    BY <2>1, <2>3, <2>4
  <2>7. UsesIn(Substitute(v, arg), C)
    BY <1>2, <2>3, <2>5, <2>6
  <2>8. Substitute(u, arg) = Substitute(v, arg) \o Put(arg, e)
    BY <2>2, SubstituteAppend
  <2>9. Substitute(v, arg) \in Seq(Tokens(d)) /\ Put(arg, e) \in Seq(Tokens(d))
    BY SubstituteType, PutType
  <2>10. UsesIn(Put(arg, e), C)
    <3>1. CASE e = Param
      <4>1. Put(arg, e) = arg
        BY <3>1 DEF Put, Param
      <4>2. arg \in Seq(Words_)
        BY <2>6, <3>1
      <4>3. QED BY <4>1, <4>2, WordsHaveNoUse
    <3>2. ASSUME NEW x, Put(arg, e) = <<x>>, x.kind = "use" => e.kind = "use" /\ x.of = e.of
          PROVE  UsesIn(Put(arg, e), C)
      <4>1. Len(<<x>>) = 1 /\ <<x>>[1] = x
        OBVIOUS
      <4>2. QED BY <2>5, <3>2, <4>1 DEF UsesIn
    <3>3. CASE e # Param
      <4>1. e.kind # "param"
        BY <3>3, AnItem, AWord, ASimpleUse, Piece DEF Plain, Use
      <4>2. CASE e.kind = "use" /\ e.arg = <<Param>>
        <5>1. Put(arg, e) = <<Use(e.of, arg)>> /\ Use(e.of, arg).of = e.of
          BY <4>2 DEF Put, Use
        <5>2. QED BY <3>2, <4>2, <5>1
      <4>3. CASE ~(e.kind = "use" /\ e.arg = <<Param>>)
        <5>1. Put(arg, e) = <<e>>
          BY <4>1, <4>3 DEF Put
        <5>2. QED BY <3>2, <5>1
      <4>4. QED BY <4>2, <4>3
    <3>4. QED BY <3>1, <3>3
  <2>11. QED BY <2>7, <2>8, <2>9, <2>10, UsesInJoined
<1> HIDE DEF T
<1>3. Len(body) \in T
  <2>1. Len(body) \in Nat
    OBVIOUS
  <2>2. QED BY <1>1, <1>2, <2>1, Induction
<1>4. QED BY <1>3 DEF T

\* A use in the body of a frame is reached from all macros that are expanded around
\* it; no macro is around an argument.
ChainRight(d, f) ==
  /\ f.for # NoUse => f.already = {}
  /\ f.for = NoUse => \A m \in f.already : UsesIn(f.todo, Reached(d, m))

\* A body that begins goes on with the chain of calls.
LEMMA BodyChain ==
  ASSUME NEW d, IsDefinitions(d), NEW m \in Macro, NEW arg \in Seq(Plain(d)),
         arg \in Seq(Words_) \/ Param \notin ToSet(d[m]),
         NEW already, \A x \in already : m \in Reached(d, x)
  PROVE  ChainRight(d, Frame(Substitute(d[m], arg), already \cup {m}, NoUse))
<1> DEFINE t == Substitute(d[m], arg)
           b == d[m]
<1>1. b \in Seq(Written(d, m))
  BY DEF IsDefinitions
<1>2. \A p \in 1 .. Len(b) : b[p] \in Written(d, m) /\ b[p] \in ToSet(b)
  BY <1>1 DEF ToSet
<1>3. \A i \in Written(d, m) : i.kind = "use" => i.of \in Macro
  <2>1. TAKE i \in Written(d, m)
  <2>2. CASE i \in Plain(d)
    BY <2>2, AWord, ASimpleUse, Piece DEF Plain, Macro
  <2>3. CASE i = Param
    BY <2>3 DEF Param
  <2>4. CASE \E n \in Functions_, a \in Atoms(m) : i = Use(n, <<a>>)
    BY <2>4 DEF Use, Macro
  <2>5. i \in Plain(d) \/ i = Param \/ \E n \in Functions_, a \in Atoms(m) : i = Use(n, <<a>>)
    BY AnItem
  <2>6. QED BY <2>2, <2>3, <2>4, <2>5
<1>4. \A p \in 1 .. Len(b) : b[p].kind = "use" => b[p].of \in Calls(d, m)
  BY <1>2, <1>3 DEF Calls
<1>5. ASSUME NEW x \in already \cup {m} PROVE UsesIn(t, Reached(d, x))
  <2>1. Calls(d, m) \subseteq Reached(d, x)
    BY ReachedOn DEF Closed
  <2>2. UsesIn(b, Reached(d, x))
    BY <1>4, <2>1 DEF UsesIn
  <2>3. arg \in Seq(Words_) \/ \A p \in 1 .. Len(b) : b[p] # Param
    BY <1>2
  <2> HIDE DEF b
  <2>4. UsesIn(Substitute(b, arg), Reached(d, x))
    BY <1>1, <2>2, <2>3, BodyCalls
  <2>5. QED BY <2>4 DEF b
<1> DEFINE g == Frame(t, already \cup {m}, NoUse)
<1>6. g.for = NoUse /\ g.todo = t /\ g.already = already \cup {m}
  BY DEF Frame
<1> HIDE DEF g, t
<1>7. ChainRight(d, g)
  BY <1>5, <1>6 DEF ChainRight
<1>8. QED BY <1>7 DEF g, t

\* The next use is reached from all macros around it.
LEMMA NextReached ==
  ASSUME NEW d, NEW f \in FrameType(d), ChainRight(d, f), f.todo # <<>>, Head(f.todo).kind = "use"
  PROVE  \A x \in f.already : Head(f.todo).of \in Reached(d, x)
<1>1. f.todo \in Seq(Tokens(d))
  BY DEF FrameType
<1>2. CASE f.for # NoUse
  BY <1>2 DEF ChainRight
<1>3. CASE f.for = NoUse
  BY <1>1, <1>3, UsesInTail DEF ChainRight
<1>4. QED BY <1>2, <1>3

\* The frame for a use goes on with the chain of calls.
LEMMA ExpandChain ==
  ASSUME IsDefinitions(bodies), NEW u \in Tokens(bodies), u.kind = "use",
         NEW already, \A x \in already : u.of \in Reached(bodies, x)
  PROVE  ChainRight(bodies, Expand(u, already))
<1>1. u.of \in Macro /\ u.arg \in Seq(Plain(bodies))
  BY ATokenIs
<1>2. CASE NeedsArgument(u)
  <2>1. Expand(u, already) = Frame(u.arg, {}, u) /\ u # NoUse
    BY <1>2, NoUseIsNone DEF Expand
  <2>2. QED BY <2>1 DEF ChainRight, Frame
<1>3. CASE ~NeedsArgument(u)
  <2>1. Expand(u, already) = Frame(Substitute(bodies[u.of], u.arg), already \cup {u.of}, NoUse)
    BY <1>3 DEF Expand
  <2>2. Param \notin ToSet(bodies[u.of])
    BY <1>3 DEF NeedsArgument
  <2>3. QED BY <1>1, <2>1, <2>2, BodyChain
<1>4. QED BY <1>2, <1>3

\* Where nothing is pasted, what is done is words.
LEMMA NothingGlued ==
  ASSUME ~Pasted
  PROVE  Settled(bodies) = Words_
<1>1. ASSUME NEW n \in Simple, NEW o \in Macro, Pieces(n) \in ToSet(bodies[o]) PROVE FALSE
  <2>1. Pieces(n).kind = "pieces"
    BY DEF Pieces
  <2>2. QED BY <1>1, <2>1 DEF Pasted
<1>2. Glued(bodies) = {}
  BY <1>1 DEF Glued
<1>3. QED BY <1>2 DEF Settled

\* Words are not pasted.
LEMMA WordsNotPasted ==
  ASSUME NEW w \in Seq(Words_)
  PROVE  Paste(w) = w
<1>1. \A k \in DOMAIN w : w[k] \in Words_
  OBVIOUS
<1>2. \A k \in DOMAIN w : w[k].kind # "pieces"
  BY <1>1, AWord
<1>3. Paste(w) = [k \in DOMAIN w |-> w[k]]
  BY <1>2 DEF Paste
<1>4. QED BY <1>3

\* Where nothing is pasted all frames have such chains, and a use that is found to be
\* recursive never ends.
ChainsRight ==
  ~Pasted => /\ \A n \in 1 .. Len(frames) : ChainRight(bodies, frames[n])
             /\ expansion.outcome = "recursive" => Endless(bodies, <<usage>>)

\* The first frame has a chain of one call.
LEMMA ChainsRightInit == MacrosInit => ChainsRight
<1>1. SUFFICES ASSUME MacrosInit PROVE ChainsRight
  OBVIOUS
<1>2. IsDefinitions(bodies) /\ usage \in Tokens(bodies) /\ usage.kind = "use"
  BY <1>1, StartDefinitions, AnExpandedUse
<1>3. ChainRight(bodies, Expand(usage, {}))
  BY <1>2, ExpandChain
<1>4. frames = <<Expand(usage, {})>> /\ expansion.outcome = "expanding"
  BY <1>1 DEF MacrosInit
<1>5. Len(frames) = 1 /\ frames[1] = Expand(usage, {})
  BY <1>4
<1>6. QED BY <1>3, <1>4, <1>5 DEF ChainsRight

\* An expansion that ends otherwise says nothing of chains.
LEMMA ChainsEnded ==
  ASSUME NEW outcome, outcome # "recursive", NEW result, EndWith(outcome, result)
  PROVE  ChainsRight'
<1>1. frames' = <<>> /\ expansion'.outcome = outcome
  BY DEF EndWith
<1>2. Len(frames') = 0
  BY <1>1
<1>3. QED BY <1>1, <1>2 DEF ChainsRight

\* The innermost frame is replaced, or the only one changed.
LEMMA ChainReplaced ==
  ASSUME NEW d, NEW u, NEW fs, FramesRight(d, u, fs), fs # <<>>,
         \A n \in 1 .. Len(fs) : ChainRight(d, fs[n]), NEW g, ChainRight(d, g)
  PROVE  LET hs == [fs EXCEPT ![Len(fs)] = g] IN \A n \in 1 .. Len(hs) : ChainRight(d, hs[n])
<1> DEFINE l == Len(fs)
           hs == [fs EXCEPT ![l] = g]
<1>1. l \in Nat \ {0} /\ fs \in Seq(FrameType(d))
  BY TopStands DEF FramesRight
<1>2. Len(hs) = l /\ hs[l] = g /\ \A n \in 1 .. l : n # l => hs[n] = fs[n]
  BY <1>1
<1>3. \A n \in 1 .. l : ChainRight(d, fs[n])
  OBVIOUS
<1> HIDE DEF hs, l
<1>4. \A n \in 1 .. Len(hs) : ChainRight(d, hs[n])
  BY <1>2, <1>3
<1>5. QED BY <1>4 DEF hs, l

\* A frame is added.
LEMMA ChainPushed ==
  ASSUME NEW d, NEW u, NEW fs, FramesRight(d, u, fs),
         \A n \in 1 .. Len(fs) : ChainRight(d, fs[n]), NEW g \in FrameType(d), ChainRight(d, g)
  PROVE  LET hs == Append(fs, g) IN \A n \in 1 .. Len(hs) : ChainRight(d, hs[n])
<1> DEFINE l == Len(fs)
           hs == Append(fs, g)
<1>1. l \in Nat /\ fs \in Seq(FrameType(d))
  BY DEF FramesRight
<1>2. Len(hs) = l + 1 /\ hs[l + 1] = g /\ \A n \in 1 .. l : hs[n] = fs[n]
  BY <1>1, AppendProperties
<1>3. \A n \in 1 .. l : ChainRight(d, fs[n])
  OBVIOUS
<1>4. \A n \in 1 .. l + 1 : n = l + 1 \/ n \in 1 .. l
  BY <1>1
<1> HIDE DEF hs, l
<1>5. \A n \in 1 .. Len(hs) : ChainRight(d, hs[n])
  BY <1>2, <1>3, <1>4
<1>6. QED BY <1>5 DEF hs

\* The innermost frame is taken off.
LEMMA ChainPopped ==
  ASSUME NEW d, NEW u, NEW fs, FramesRight(d, u, fs), Len(fs) > 1,
         \A n \in 1 .. Len(fs) : ChainRight(d, fs[n])
  PROVE  \A n \in 1 .. Len(Front(fs)) : ChainRight(d, Front(fs)[n])
<1> DEFINE l == Len(fs)
           m == l - 1
           hs == Front(fs)
<1>1. l \in Nat /\ l > 1 /\ fs \in Seq(FrameType(d))
  BY DEF FramesRight
<1>2. m \in Int /\ 1 \in Int /\ hs = SubSeq(fs, 1, m) /\ \A n \in 1 .. m : n \in 1 .. l
  BY <1>1 DEF Front
<1>3. \A n \in 1 .. m : fs[n] \in FrameType(d)
  BY <1>1, <1>2
<1>4. \A n \in 1 .. l : ChainRight(d, fs[n])
  OBVIOUS
<1> HIDE DEF hs, m, l
<1>5. Len(hs) = IF 1 <= m THEN m - 1 + 1 ELSE 0
  BY <1>2, <1>3, SubSeqProperties
<1>6. \A n \in 1 .. m - 1 + 1 : hs[n] = fs[1 + n - 1]
  BY <1>2, <1>3, SubSeqProperties
<1>7. \A n \in 1 .. Len(hs) : n \in 1 .. m /\ hs[n] = fs[n]
  BY <1>2, <1>5, <1>6
<1>8. QED BY <1>2, <1>4, <1>7 DEF hs

\* Keep has fewer uses to do.
LEMMA ChainsRightKeep ==
  ASSUME MeansRight, ChainsRight, Keep
  PROVE  ChainsRight'
<1> DEFINE f == Last(frames)
           n == Len(frames)
<1>1. /\ Running /\ f.todo # <<>> /\ frames' = [frames EXCEPT ![n] = Kept(f)]
      /\ bodies' = bodies /\ usage' = usage /\ expansion' = expansion
  BY DEF Keep, Top, Kept
<1>2. FramesRight(bodies, usage, frames) /\ frames # <<>>
  BY <1>1 DEF MeansRight
<1>3. n \in Nat \ {0} /\ f = frames[n] /\ f \in FrameType(bodies)
  BY <1>2, TopStands
<1>4. SUFFICES ASSUME ~Pasted PROVE ChainsRight'
  BY <1>1 DEF ChainsRight, Pasted
<1>5. \A k \in 1 .. Len(frames) : ChainRight(bodies, frames[k])
  BY <1>4 DEF ChainsRight
<1>6. ChainRight(bodies, f)
  BY <1>3, <1>5
<1>7. f.todo \in Seq(Tokens(bodies))
  BY <1>3 DEF FrameType
<1> DEFINE g == Kept(f)
<1>8. g.for = f.for /\ g.already = f.already /\ g.todo = Tail(f.todo)
  BY <1>3 DEF Kept, FrameType
<1>9. frames' = [frames EXCEPT ![n] = g]
  BY <1>1
<1> HIDE DEF g, f
<1>10. ChainRight(bodies, g)
  BY <1>1, <1>6, <1>7, <1>8, UsesInTail DEF ChainRight
<1>11. \A k \in 1 .. Len(frames') : ChainRight(bodies, frames'[k])
  BY <1>2, <1>5, <1>9, <1>10, ChainReplaced
<1>12. expansion'.outcome # "recursive"
  BY <1>1 DEF Running
<1>13. QED BY <1>1, <1>11, <1>12 DEF ChainsRight

\* The frame that ExpandUse adds has a chain; a macro that is found around its use is endless.
LEMMA ChainsRightUse ==
  ASSUME MeansRight, ChainsRight, ExpandUse
  PROVE  ChainsRight'
<1> DEFINE f == Last(frames)
           i == Head(f.todo)
<1>1. /\ Running /\ f.todo # <<>> /\ i.kind = "use"
      /\ bodies' = bodies /\ usage' = usage
  BY DEF ExpandUse, Top
<1>2. \/ i.of \in f.already /\ EndWith("recursive", <<>>)
      \/ EndWith("crashed", <<>>)
      \/ frames' = Append(frames, Expand(i, f.already)) /\ expansion' = expansion
  BY DEF ExpandUse, Top, Push
<1>3. FramesRight(bodies, usage, frames) /\ frames # <<>> /\ IsDefinitions(bodies)
  BY <1>1 DEF MeansRight
<1>4. Len(frames) \in Nat \ {0} /\ f = frames[Len(frames)] /\ f \in FrameType(bodies)
  BY <1>3, TopStands
<1>5. SUFFICES ASSUME ~Pasted PROVE ChainsRight'
  BY <1>1 DEF ChainsRight, Pasted
<1>6. \A k \in 1 .. Len(frames) : ChainRight(bodies, frames[k])
  BY <1>5 DEF ChainsRight
<1>7. ChainRight(bodies, f)
  BY <1>4, <1>6
<1>8. \A x \in f.already : i.of \in Reached(bodies, x)
  BY <1>1, <1>4, <1>7, NextReached
<1>9. i \in Tokens(bodies) /\ f.already \in SUBSET Macro
  <2>1. f.todo \in Seq(Tokens(bodies)) /\ f.already \in SUBSET Macro
    BY <1>4 DEF FrameType
  <2>2. QED BY <1>1, <2>1, HeadTailProperties
<1>10. CASE i.of \in f.already /\ EndWith("recursive", <<>>)
  <2>1. i.of \in Reached(bodies, i.of)
    BY <1>8, <1>10
  <2>2. Endless(bodies, <<i>>)
    BY <1>1, <1>3, <1>9, <2>1, CycleIsEndless DEF Endless
  <2>3. Endless(bodies, <<usage>>)
    BY <1>1, <1>3, <2>2, StackIsEndless
  <2>4. frames' = <<>>
    BY <1>10 DEF EndWith
  <2>5. Len(frames') = 0
    BY <2>4
  <2>6. QED BY <1>1, <2>3, <2>5 DEF ChainsRight
<1>11. CASE EndWith("crashed", <<>>)
  BY <1>11, ChainsEnded
<1>12. CASE frames' = Append(frames, Expand(i, f.already)) /\ expansion' = expansion
  <2> DEFINE g == Expand(i, f.already)
  <2>1. ChainRight(bodies, g)
    BY <1>1, <1>3, <1>8, <1>9, ExpandChain
  <2>2. g \in FrameType(bodies)
    BY <1>1, <1>3, <1>9, ExpandStands DEF StandsFor
  <2>3. frames' = Append(frames, g)
    BY <1>12
  <2> HIDE DEF g
  <2>4. \A k \in 1 .. Len(frames') : ChainRight(bodies, frames'[k])
    BY <1>3, <1>6, <2>1, <2>2, <2>3, ChainPushed
  <2>5. expansion'.outcome # "recursive"
    BY <1>1, <1>12 DEF Running
  <2>6. QED BY <1>1, <2>4, <2>5 DEF ChainsRight
<1>13. QED BY <1>2, <1>10, <1>11, <1>12

\* The body that ArgumentReady begins has the chain of its use.
LEMMA ChainsRightArgument ==
  ASSUME MeansRight, ChainsRight, ArgumentReady
  PROVE  ChainsRight'
<1> DEFINE f == Last(frames)
           n == Len(frames)
           v == OuterUse(usage, frames, n)
           al == Around(n - 1)
           g == Frame(Substitute(bodies[f.for.of], f.done), al \cup {f.for.of}, NoUse)
<1>1. /\ Running /\ f.todo = <<>> /\ f.for # NoUse
      /\ frames' = [frames EXCEPT ![n] = g]
      /\ bodies' = bodies /\ usage' = usage /\ expansion' = expansion
  BY DEF ArgumentReady, Top
<1>2. FramesRight(bodies, usage, frames) /\ frames # <<>> /\ IsDefinitions(bodies)
  BY <1>1 DEF MeansRight
<1>3. n \in Nat \ {0} /\ f = frames[n] /\ f \in FrameType(bodies) /\ StandsFor(bodies, f, v)
  BY <1>2, TopStands
<1>4. f.for = v /\ v \in Tokens(bodies) /\ v.kind = "use"
  BY <1>1, <1>3 DEF StandsFor
<1>5. SUFFICES ASSUME ~Pasted PROVE ChainsRight'
  BY <1>1 DEF ChainsRight, Pasted
<1>6. \A k \in 1 .. Len(frames) : ChainRight(bodies, frames[k])
  BY <1>5 DEF ChainsRight
<1>7. f.done \in Seq(Words_) /\ f.done \in Seq(Plain(bodies))
  <2>1. f.done \in Seq(Settled(bodies))
    BY <1>3 DEF FrameType
  <2>2. QED BY <1>5, <2>1, NothingGlued, SettledTokens, SeqMonotonic
<1>8. \A x \in al : v.of \in Reached(bodies, x)
  <2>1. CASE n - 1 = 0
    BY <2>1 DEF Around
  <2>2. CASE n - 1 # 0
    <3> DEFINE m == n - 1
               e == frames[m]
    <3>1. m \in 1 .. Len(frames) /\ m < Len(frames) /\ n # 1 /\ m # 0
      BY <1>3, <2>2
    <3>2. e \in FrameType(bodies) /\ e.todo # <<>> /\ ChainRight(bodies, e) /\ v = Head(e.todo) /\ al = e.already
      BY <1>2, <1>6, <3>1 DEF FramesRight, OuterUse, Around
    <3> HIDE DEF m, e
    <3>3. \A x \in e.already : Head(e.todo).of \in Reached(bodies, x)
      BY <1>4, <3>2, NextReached
    <3>4. QED BY <3>2, <3>3
  <2>3. QED BY <2>1, <2>2
<1>9. v.of \in Macro
  BY <1>4, ATokenIs
<1>10. ChainRight(bodies, g)
  <2> HIDE DEF al
  <2>1. ChainRight(bodies, Frame(Substitute(bodies[v.of], f.done), al \cup {v.of}, NoUse))
    BY <1>2, <1>7, <1>8, <1>9, BodyChain
  <2>2. QED BY <1>4, <2>1
<1> HIDE DEF g
<1>11. \A k \in 1 .. Len(frames') : ChainRight(bodies, frames'[k])
  BY <1>1, <1>2, <1>6, <1>10, ChainReplaced
<1>12. expansion'.outcome # "recursive"
  BY <1>1 DEF Running
<1>13. QED BY <1>1, <1>11, <1>12 DEF ChainsRight

\* BodyReady goes on with the frame around the body.
LEMMA ChainsRightBody ==
  ASSUME MeansRight, ChainsRight, BodyReady
  PROVE  ChainsRight'
<1> DEFINE f == Last(frames)
           n == Len(frames)
           m == n - 1
           fs == Front(frames)
           e == frames[m]
           g == Replaced(e, f)
<1>1. /\ Running /\ n > 1 /\ frames' = [fs EXCEPT ![m] = g]
      /\ bodies' = bodies /\ usage' = usage /\ expansion' = expansion
  BY DEF BodyReady, Top, Replaced
<1>2. FramesRight(bodies, usage, frames) /\ frames # <<>> /\ IsDefinitions(bodies)
  BY <1>1 DEF MeansRight
<1>3. FramesRight(bodies, usage, fs) /\ fs # <<>> /\ Len(fs) = m
  BY <1>1, <1>2, Popped
<1>4. n \in Nat
  BY <1>2, TopStands
<1>5. SUFFICES ASSUME ~Pasted PROVE ChainsRight'
  BY <1>1 DEF ChainsRight, Pasted
<1>6. \A k \in 1 .. Len(frames) : ChainRight(bodies, frames[k])
  BY <1>5 DEF ChainsRight
<1>7. \A k \in 1 .. Len(fs) : ChainRight(bodies, fs[k])
  BY <1>1, <1>2, <1>6, ChainPopped
<1>8. e \in FrameType(bodies) /\ e.todo # <<>> /\ ChainRight(bodies, e)
  <2>1. m \in 1 .. n /\ m < n
    <3>1. n \in Nat /\ n > 1
      BY <1>1, <1>4
    <3> HIDE DEF n
    <3>2. QED BY <3>1
  <2> HIDE DEF m
  <2>2. QED BY <1>2, <1>6, <2>1 DEF FramesRight
<1>9. e.todo \in Seq(Tokens(bodies)) /\ g.for = e.for /\ g.already = e.already /\ g.todo = Tail(e.todo)
  BY <1>8 DEF Replaced, FrameType
<1> HIDE DEF g, e, fs, m
<1>10. ChainRight(bodies, g)
  BY <1>8, <1>9, UsesInTail DEF ChainRight
<1>11. \A k \in 1 .. Len(frames') : ChainRight(bodies, frames'[k])
  BY <1>1, <1>3, <1>7, <1>10, ChainReplaced
<1>12. expansion'.outcome # "recursive"
  BY <1>1 DEF Running
<1>13. QED BY <1>1, <1>11, <1>12 DEF ChainsRight

\* Where nothing is pasted NextRound has words only.
LEMMA ChainsRightRound ==
  ASSUME MeansRight, ChainsRight, NextRound
  PROVE  ChainsRight'
<1> DEFINE f == Last(frames)
           t == Paste(f.done)
           g == Frame(t, {usage.of}, NoUse)
<1>1. Running /\ Len(frames) = 1 /\ bodies' = bodies /\ usage' = usage
  BY DEF NextRound, Top
<1>2. \/ EndWith("done", t)
      \/ EndWith("crashed", <<>>)
      \/ frames' = <<g>> /\ expansion' = expansion
  BY DEF NextRound, Top
<1>3. FramesRight(bodies, usage, frames) /\ frames # <<>>
  BY <1>1 DEF MeansRight
<1>4. f.done \in Seq(Settled(bodies))
  BY <1>3, TopStands DEF FrameType
<1>5. SUFFICES ASSUME ~Pasted PROVE ChainsRight'
  BY <1>1 DEF ChainsRight, Pasted
<1>6. t \in Seq(Words_)
  BY <1>4, <1>5, NothingGlued, WordsNotPasted
<1>7. g.for = NoUse /\ g.todo = t
  BY DEF Frame
<1> HIDE DEF g, t
<1>8. ChainRight(bodies, g)
  BY <1>6, <1>7, WordsHaveNoUse DEF ChainRight
<1>9. CASE frames' = <<g>> /\ expansion' = expansion
  <2>1. Len(frames') = 1 /\ frames'[1] = g
    BY <1>9
  <2>2. expansion'.outcome # "recursive"
    BY <1>1, <1>9 DEF Running
  <2>3. QED BY <1>1, <1>8, <2>1, <2>2 DEF ChainsRight
<1>10. QED BY <1>2, <1>9, ChainsEnded

\* Every step keeps the chains.
LEMMA ChainsRightStep == MeansRight /\ ChainsRight /\ [MacrosNext]_macroVars => ChainsRight'
<1>1. SUFFICES ASSUME MeansRight, ChainsRight, [MacrosNext]_macroVars PROVE ChainsRight'
  OBVIOUS
<1>2. CASE UNCHANGED macroVars
  BY <1>1, <1>2 DEF macroVars, ChainsRight, Pasted
<1>3. QED
  BY <1>1, <1>2, ChainsRightKeep, ChainsRightUse, ChainsRightArgument, ChainsRightBody, ChainsRightRound
  DEF MacrosNext

\* What is meant after some rounds is meant after Longest, and the endless is not finished.
LEMMA RightFromMeaning ==
  ASSUME MacrosAssumption, MeansRight, ChainsRight
  PROVE  ExpandedRight
<1> DEFINE d == bodies
           t == <<usage>>
           w == Meaning(d, t, Longest)
<1>1. IsDefinitions(d) /\ usage \in Uses
  BY DEF MeansRight
<1>2. t \in Seq(Tokens(d))
  BY <1>1, AnExpandedUse, One
<1>3. Longest \in Nat
  BY UsesFinite, FS_CardinalityType DEF Longest
<1>4. w \in Seq(Tokens(d))
  BY <1>1, <1>2, <1>3, MeaningIs
<1>5. expansion.outcome = "done" => expansion.result = w
  <2>1. SUFFICES ASSUME expansion.outcome = "done" PROVE expansion.result = w
    OBVIOUS
  <2>2. Means(d, t, expansion.result)
    BY <2>1 DEF MeansRight
  <2>3. PICK n \in Nat : Ends(d, t, n)
    BY <2>2 DEF Means, Ends
  <2>4. Ends(d, t, Longest)
    BY <1>1, <2>3, LongestIsEnough
  <2>5. Means(d, t, w)
    BY <1>3, <2>4 DEF Means, Ends
  <2> HIDE DEF t, w
  <2>6. QED BY <1>1, <1>2, <2>2, <2>5, MeansOne
<1>6. expansion.outcome = "recursive" => Pasted \/ ~Finished(w)
  <2>1. SUFFICES ASSUME expansion.outcome = "recursive", ~Pasted, Finished(w) PROVE FALSE
    OBVIOUS
  <2>2. w \notin Seq(Words_)
    BY <1>3, <2>1 DEF ChainsRight, Endless, Ends
  <2> HIDE DEF w
  <2>3. Len(w) \in Nat /\ DOMAIN w = 1 .. Len(w) /\ \A k \in 1 .. Len(w) : w[k] \in Tokens(d)
    BY <1>4, LenProperties
  <2>4. \A k \in 1 .. Len(w) : w[k].kind = "word"
    BY <2>1, <2>3 DEF Finished, ToSet
  <2>5. \A k \in 1 .. Len(w) : w[k] \in Words_
    BY <2>3, <2>4, ASimpleUse, Piece, AUse DEF Tokens, Plain
  <2>6. w \in [1 .. Len(w) -> Words_]
    BY <1>4, <2>3, <2>5
  <2>7. QED BY <2>2, <2>3, <2>6, Row
<1>7. QED BY <1>5, <1>6 DEF ExpandedRight

\* A use becomes what its definition means, after as many rounds as there are uses, although
\* arguments are expanded first and pasting comes last; and where nothing is pasted a
\* macro is called recursive only if its meaning is endless.
THEOREM ExpandsRight == MacrosSpec => []ExpandedRight
<1>1. MacrosInit => MeansRight /\ ChainsRight
  BY MeansRightInit, ChainsRightInit
<1>2. MeansRight /\ ChainsRight /\ [MacrosNext]_macroVars => MeansRight' /\ ChainsRight'
  BY MeansRightStep, ChainsRightStep
<1>3. MeansRight /\ ChainsRight => ExpandedRight
  BY MacrosAssumption, RightFromMeaning
<1>4. QED BY <1>1, <1>2, <1>3, PTL DEF MacrosSpec
=============================================================================
