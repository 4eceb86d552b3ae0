# A verification of Vide's language server

Vide is a language server for SystemVerilog, written in Rust around slang, a
compiler front end in C++. This directory models the parts where several actors
act on shared state, and those algorithms of slang whose cases are hard to
enumerate in a test: TLA+ modules translated from the source, TLC configurations
that check them on small instances, and proofs for TLAPS about every instance.

Paths are relative to the repository: `gs/` stands for `src/src/global_state/`,
`crates/` for `src/crates/`, `slang/` for `src/crates/slang/`.

## 1. The system

```
  client  --LSP messages-->  main loop  <--Task-------  worker pool (snapshots)
  (editor) <--answers,        |    ^
            notifications     |    +--vfs::loader::Message--  loader thread
                              +--ServerMsg (config, invalidate)-->  + file watcher
```

One thread, the *main loop* (`gs/main_loop.rs`), owns the state. It takes one
event at a time from three channels (client, tasks, loader), chosen at random
when several are ready (crossbeam `select!`); from the task and loader channels
it drains everything queued in one turn. A turn ends with a tail:
`process_changes`, the release of what waited for readiness, refreshes for the
client, the start of a requested fetch. Everything slow runs elsewhere:

| Part | State | Operations | What is hard | Makes it correct |
|---|---|---|---|---|
| Workspace reload and readiness (`gs/workspace_state.rs`, `gs/reload.rs`, `crates/utils/src/excl_task.rs`) | requested, active and committed generation, loader version and progress, the exclusive task slot | request, fetch Begin/End, switch, loader progress, park and release | results of superseded fetches, failures, counts of parallel loaders out of order | one fetch at a time, the newest request wins, ready means loaded, nothing parked for ever |
| File loader (`crates/vfs/src/notify.rs`) | configuration, loaded paths | set configuration, load entries, invalidate, watch | batches of older configurations are dropped by the receiver | what was read last arrives; what is no longer listed is unloaded |
| VFS and change application (`crates/vfs/src/vfs.rs`, `gs/process_changes.rs`, `crates/hir/src/base_db/change.rs`) | file states, redirects of merged ids, change log, database texts and roots | write, merge, coalesce, apply | many writes of one file in one turn, merges | the database and the roots hold what the VFS holds |
| Requests (`src/src/global_state.rs`, `gs/dispatcher.rs`, `gs/respond.rs`, `gs/response_effect.rs`) | pending table, cancellation tokens, parked pulls, token cache | arrive, answer, retry, cancel, park, write, shut down | cancellation, interruption by writes, retries, panics, shutdown | each request answered once, workers told when nobody waits |
| Push diagnostics (`gs/process_changes.rs`, `gs/snapshot.rs`, `gs/diagnostics.rs`) | three revisions, deferral, cache of what is published | ask, compute, publish, clear | batches out of order and stale, documents closed meanwhile, owners shared by files | what is shown is true; what changed is asked for |
| Qihe, the external analyser (`gs/qihe.rs`) | run generation, progress and cancel tokens, findings | run, supersede, cancel, finish, fail | late and stale results, a snapshot held through external commands | one bar, always ended; nothing of a cancelled run |
| Open documents (`gs/mem_docs.rs`) | buffers by file id, aliases by path | open, change, close, remap | paths that turn out to be one file while they are open | each buffer has an owner; the analysis sees the buffer |
| Cancellation tokens and pool (`crates/utils/src/cancellation.rs`, `thread.rs`) | token tree, two queues with a latency budget | cancel, make a child, take a job | a child made during a cancellation, starvation | no child missed; a worker job waits for a burst at most; nothing queued is lost |
| Browser runtime (`src/packages/vide-extension-shared/src/browser/worker-runtime.ts`) | engine, pending requests with their timers, the pump | boot, stop, request, poll, time out | exceptions between a request and its answer, a boot that ends after the stop | an unanswered request has its timer and is polled for |
| slang: preprocessor (`slang/source/parsing/Preprocessor.cpp`, `Preprocessor_macros.cpp`) | branch stack, file stack, macros, macros being expanded | conditionals, include, define, expansion | lookahead across a directive; arguments, nested uses and pasting in one expansion | exactly the active text counts; a use becomes what its definition means |
| slang: sources and threads (`slang/source/text/SourceManager.cpp`, `slang/include/slang/util/ThreadPool.h`, `slang/source/driver/SourceLoader.cpp`) | cache of files, line offsets, task queue, names looked for | read, number lines, push a loop, wait, search libraries | the lock is let go in the middle; block sizes; names in hash order | one text for a file; every index once; no name forgotten |
| slang: numbers (`slang/source/numeric/SVInt.cpp`, `SVIntHelpers.h`) | words of data and of unknown bits | shifts, slices, extension, logic, sums, products, division | carries between words, bits above the width, Knuth's trial digits, signs | the bits the language defines, in canonical form |
| slang: the rest (parser, elaboration, binder, lookup, diagnostics, tools) | syntax trees, symbols | pure functions of the text | data, not control | unit tests of slang |
| Child processes (`crates/utils/src/process.rs`) | process group | wait, kill | system calls | an action of `Qihe` |
| Client watchers, configuration, LSP conversions, request handlers, i18n, trace, status, entry points | settings | pure or fire-and-forget | no concurrency of their own | inputs of the modules |
| Project model, HIR, IDE features, syntax wrapper | none / salsa database | pure functions | data, not control | unit and snapshot tests |
| VS Code extension, playground's interface (TypeScript) | status shown | starts the client | what it sends is an input | - |

`PROJECT.json` lists these with their files, and under *hazards* every place
where one of the hard behaviours bites.

## 2. The plan

Most important first; all but 14 are done.

1. `Readiness`, `WorkspaceReload`, `LatestRequestWins`: the core. Everything else waits for readiness.
2. Proofs about the core.
3. `FileChanges`, `VfsSync`: how file contents get into the database.
4. `Requests`, `OneAnswer` and their proofs, refinement included.
5. `Qihe` and its proofs.
6. `Diagnostics` and its proofs.
7. `MemDocs` and `Documents`: open documents against merged file ids, and their proofs.
8. `Cancellation` and `Pool` with their proofs.
9. `BrowserRuntime`: exceptions, timeouts and late answers.
10. slang: `Preprocessor`, `Macros`, `SourceManager`, `ThreadPool`, `LibrarySearch`, `SVIntBits`, `SVIntArithmetic`.
11. Proofs about `VfsSync`, `FileChanges`, `BufferIsAnalyzed`, `BrowserRuntime` and slang's `Preprocessor`, `SourceManager`, `ThreadPool` and `LibrarySearch`.
12. Proofs that slang's numbers are right for every width and every size of words: `SVIntBits`, then the loops of `SVIntArithmetic` and Knuth's algorithm.
13. Proof that macros expand to what they mean, for any number of macros: `ExpandedRight` of `Macros`.
14. Next: undecodable contents and the order of reading and watching in `VfsSync`; the progress bars of the loader; names and scopes in slang (`Lookup.cpp`) and the order in which its elaboration visits instances.

Components that share no state in the code are checked in one run, side by side
(`MCJobs`, `MCParts`, `MCSlang`): the first state chooses one of them, the others
rest in their initial states. Such a run has the states of its components added,
not multiplied, and says of each what a run of its own would.

## 3. The modules and the code

**Readiness** has the two bookkeeping records as values, and one operator per
method of `WorkspaceVfsReadiness` and `ExclTask`. **WorkspaceReload** composes
them with three processes: the main loop (turns of several steps: `StartTurn`
kinds, `TakeTask`/`HandleBegin`/`HandleEnd`, `TakeVfsMsg`/`HandleProgress`/
`HandleLoaded`, `FinishTurn` as the tail), the fetch worker (`FetcherBegin`,
`FetcherEnd`) and the loader (`LoaderTakeConfig`, `LoaderReadEntry`,
`LoaderCountEntry`, `LoaderReport`, `LoaderUnload`, `LoaderFinish`). Reading,
counting and reporting an entry are separate steps, as they are in the loader's
parallel threads. **LatestRequestWins** is the abstract promise: a generation
asked for is adopted or given up, and only the latest one.

**VfsSync** is the same pair of threads seen from the contents: which text was
read, sent, applied or dropped as stale, for loader batches, single-file
invalidations and watcher events, against documents opened and closed. A load
entry is one file. **FileChanges** is one turn of the main loop seen from the
VFS: the log of writes and merges, `Coalesce` case by case as in
`colease_modifications`, which keeps an entry for each file while it goes through
the log, the structure-change test, and the database after it.

**Requests** follows a request: `Arrive` (parked, answered in place, or a job),
`Worker` (return, fail, be interrupted by a pending write), `TakeAnswer` with
its effects, `TakeRetry`, `Cancel`, `BecomeReady`/`HandleAgain`, `BeginWrite`
and `EndWrite`, shutdown and `Exit`. **OneAnswer** is what a client may expect.

**Qihe** has the runs of the external analyser: `Spawn` supersedes, `Worker`
steps plan, run and report, `TakeResult` is `handle_qihe_task`, `BeginWrite`
and `EndWrite` bracket the main loop's wait for snapshots.

**Diagnostics** has the three revisions of a batch's freshness, `ProcessChanges`
as the tail of every turn that changes contents or documents, `Ask` for
`request_diagnostics`, `Publish` with the server's cache, and a Qihe run whose
findings are merged in. A write waits until no snapshot is left and the batches
it interrupts are stale on arrival, so writes here find no job running. Results
are a set: workers finish and send in any order.

**MemDocs** is `mem_docs.rs` as a value with one operator per method.
**Documents** composes it with the editor (`OpenDocument`, `ChangeDocument`,
`CloseDocument`), the loader and the VFS that finds out at a write that two paths
are one file; the tail of the turn carries the merge to the open documents.

**Cancellation** splits `child_token` and `cancel` where the code releases or
does not hold the lock of the children: the flag is read, the child linked, the
flag read again. **Pool** splits `recv` at every look at a queue, with a budget
for each thread. **BrowserRuntime** has one action per callback of the worker: a
message, a timer, the end of an `await`, each with the variant that throws.

**Preprocessor** keeps the branch stack, the file stack and the one token that
is read ahead, next to the reading the standard gives of the same text, so that
the two can be compared; the text is any sequence of directives and tokens.
**Macros** keeps the recursive calls of the expander as a stack of frames;
`Meaning` in its properties says what a use stands for: in every round, bodies are
put in the place of all uses that are left. `Longest` rounds are enough for what ends
at all, because a chain of nested uses without a recursion has each of the `Uses`
that can be written once at most.
**SourceManager** and **ThreadPool** have one step for each stretch under the
mutex. **LibrarySearch** takes the names of a round in any order.

**SVIntBits** and **SVIntArithmetic** are algorithms, one operator for each
function, and a transition system of two steps that takes up a number and
applies one operation: the numbers are all those of the widths in the cfg. Words
have two (`SVIntBits`) or four bits (`SVIntArithmetic`) instead of 64, which
changes none of the formulas, so that several words can be enumerated. The
reference is the definition on integers and on functions from positions to
0, 1, x and z. **SVInt** puts the two together.

Operators whose comment begins with *Mutant* are not part of the model. Each is
a plausible bug; put in place of the definition that follows it, it makes one
property fail.

## 4. The runs

| Run | Bounds | Shows |
|---|---|---|
| `reload` | 3 reloads (the one at start included), 2 entries in the second configuration and 1 in the others, 1 pull | NoAssertFails, ExclusiveFetch, NoReloadForgotten, ReadyMeansLoaded, ParkedNotLost, ProgressPaired, ClientRefreshed; ParkedAnswered; the core implements LatestRequestWins |
| `jobs` | 2 requests; 2 Qihe runs, 1 write | Accounted, CancelReaches, CacheMatchesClient, AnswersOnce (refinement of OneAnswer), OnceAnswered, AnsweredInCalm; BarsMatch, CancelledNotShown, BarsEnd |
| `parts` | see the cfg: 2 configurations, 3 file ids with 4 writes in a turn, 3 paths with 3 ids, 2 files with diagnostics, 3 tokens and 2 threads, 2 pool threads with a burst of 2, 3 requests | Delivered, GhostsExplained; DatabaseMirrors, RootsCurrent, DuplicatesGone; BuffersOwned, BufferIsAnalyzed; CacheIsShown, TrueWhenShown, RequestedWhenChanged, ServedOrOvertaken; CancelReachesChildren; NotStarved, EverythingRun; NoRequestForgotten |
| `slang` | 2 nested branches and 1 include; 2 macros with bodies of one item and a function with one of 2; 2 paths, 2 texts, 2 threads; loops of 0 to 5 with 2 workers; 3 names in 2 directories; vectors of up to 5 bits in words of 2; numbers of 3, 5 and 6 bits in words of 4 | ActiveTextCounts, ExpandedRight, OneTextPerPath, LoopsRunOnce, NobodyOversleeps, SearchComplete, NumbersRight |
| `file_flips` | 2 ids, 3 writes, 3 flips | RootsCurrent fails: see 6.1 |
| `vfs_ghosts` | 3 configurations, no events | UnreportedUnloaded fails: 6.2 |
| `qihe_cancel` | 1 run, 1 write | CancelStops fails: 6.3 |
| `diagnostics_closed` | 2 files | ClosedCleared fails: 6.4 |
| `skipped_inert` | as in `slang` | SkippedIsInert fails: 6.5 |
| `expansion_ends` | 2 macros | ExpansionEnds fails: 6.6 |
| `lines_race` | 1 file, 2 threads | LinesInOrder fails: 6.7 |
| `signed_division` | numbers of 3 and 6 bits in words of 4 | DivisionRight fails: 6.8 |

Why the bounds are enough. Three reloads give a fetch that is superseded and a
successor that is superseded or fails itself; two entries give counts that
overtake each other, in a configuration that supersedes one and is superseded
itself (with two entries in all of them the liveness check takes too long; the
safety properties are proved for any number). Four writes of one file reach
every pair of cases of the coalescing, three ids a merge next to a bystander;
more than two flips of one file in a turn is the case of `file_flips`. Two
configurations make one batch stale, three are needed to lose an unloading.
Requests interact only through write, readiness and cache: two of any method are
a request and the other that comes in its way. Two Qihe runs are one and its
successor. Two files are enough for one or two owners; one write is enough to
make any batch stale, two changes of the open documents for one that is opened
and closed, or two that are open. Three paths with three ids are two that are
merged, one open and one not, and a third that aliases either. Three tokens are
a chain or a parent of two; two threads are one that cancels and one that makes
a child. A burst of two with three queued jobs exhausts the budget of a thread
while the other takes jobs in between. Two branches give an `` `elsif `` with
branches in it, an include a condition that ends in another file. Two macros and
a function call each other, themselves and paste. Words of two bits give vectors
of three words, so that a middle word is shifted, copied and extended; in words
of four bits (half words of two) six bits need the step of Knuth's algorithm
that puts a digit back and give quotients of one and of two digits. Symmetry is
used for the files and texts of `parts` only, where no definition tells them
apart and no property is a liveness property.

Deadlock is checked except where the system does come to rest: after an exit
(`jobs`), and where the bounds are used up and all is settled (`parts`, `slang`
and the violation runs of their modules).

### Fairness

- Core: weak fairness for the fetch worker, the loader and the tail of a turn
  (threads that run); strong fairness for taking a task or a loader message,
  because `select!` chooses at random among ready channels, so a ready channel
  is not passed over for ever.
- `Requests`: weak fairness of workers and of the end of a write, strong
  fairness of taking results for the same reason, strong fairness of
  `BecomeReady`, which the core justifies (`ParkedAnswered`). `AnsweredInCalm`
  assumes that writes stop; retried requests are not answered otherwise.
- `Qihe`: `Spec` has the fairness of the loop and of cancellation, which
  `wait_with_cancellation` polls. Only `BarsEnd` also needs `CommandsEnd`: the
  external commands end by themselves.
- `Macros`: the expander runs on (weak fairness of its next step). It is one
  thread that waits for nobody.
- All other modules state safety only.

## 5. The proofs

They hold for all values of the constants (under their named assumptions), with
no bound; the two that have a hypothesis of their own say so.

- **WorkspaceReload_proofs.** Types first. `FetchInv` is inductive: it lists the
  stages a fetch goes through (none, given to a worker, Begin sent, End sent,
  Begin taken) and says for each what slot, generations and channel hold. From
  it: ExclusiveFetch, NoReloadForgotten, ProgressPaired, ParkedNotLost,
  ClientRefreshed, and that every step implements a step of LatestRequestWins
  (the safety half of `LatestWins`). ReadyMeansLoaded is not inductive: it is
  about the moment the last count arrives. `LoaderInv` says what a count in
  flight implies about entries that are read, reported and unloaded, whatever
  order the loader's threads take.
- **Parts_proofs**, the way from the disk to the database, and three small parts.
  *Loader and main loop* (`VfsSync`): a batch counts only under the main loop's
  configuration, so `SyncInv` speaks of the last batch on the way that names a
  file. It has the contents sent last (LastBatchCounts); if the loader counts the
  file as loaded, or still answers for it, the batch or the VFS has them under
  the loader's configuration (HeldArrive); of the others the VFS has nothing
  that was not lost with a batch (OthersGo). From it: Delivered, GhostsExplained.
  *Main loop and database* (`FileChanges`): `FilesInv` relates four things at
  every point of a turn, for each file: its coalesced entry, how often it
  appeared or vanished, its text at the start of the turn and its text now
  (`Stands` lists the six combinations). From it: DatabaseMirrors, RootsCurrent,
  DuplicatesGone, and that the main loop does not panic. Hypothesis:
  `MaxFlips <= 2`, a file appears or vanishes at most twice in a turn. That is not
  a bound for the prover's sake: with three the properties are false (6.1). The
  length of the log, the files and the texts are arbitrary.
  *Tokens, pool and browser worker*: CancelReachesChildren holds when nobody is cancelling; in
  between, `Covered` says who is on the way to a child: whoever cancels its parent
  still has it before them, or its maker still has to look. For the pool, `Counting`
  relates a thread's budget to the jobs that have passed the first worker job,
  `Concluded` says what each look at a queue has established although other threads
  take from it afterwards. NoRequestForgotten of the browser's worker becomes
  inductive with `Open`: while anything waits or the pump runs, the port is open and
  the engine announced.
- **Editing_proofs.** *Documents*: BuffersOwned is inductive once it is said of what is
  being carried over: `Owned` speaks of the table itself, `VfsInv` of ids and
  paths. Reconcile mends the buffer of the id that lost its owner (lemma
  ReconcileMends) and disturbs no other. BufferIsAnalyzed needs that no two paths
  with an id share it and that a file on disk has the id of the path that names it
  (`NamesApart`): then no write merges anything (lemma RegisterApart), and what the
  loader is let through for has no buffer (lemma LoadFollows).
  *Diagnostics*: TrueWhenShown needs to know what a batch on its way
  says. `IInv` adds that no job or batch is ahead of the server's freshness
  (Past), and that those of the present freshness are of the present documents
  and contents (Current). A turn that moves the freshness on makes all of them
  stale at once (lemma Later); one that does not leaves what they are computed
  from alone (lemma Stays). All its properties in `parts` are proved.
- **Jobs_proofs.** *Requests*: `IInv` = TypeOK, each request in one place (PlaceInv),
  tokens registered while somebody waits (TokenInv), replies counted
  (ReplyInv), cache equal to client. From it: Accounted, CancelReaches,
  CacheMatchesClient and the full refinement `Spec => Promise!Spec`.
  *Qihe*: `RunsInv` adds to the checked invariants that a run reports once
  (OneResult), that an active run is backed by the pool or the channel, and
  that write counts stay in bounds while one is pending.
- **Slang_proofs.** *Preprocessor*: `InOrder` compares the branch stack with the
  reading of the standard, level by level (a branch is active in one exactly if it is
  in the other, and has been taken in one exactly if it has in the other), as long as
  the text is well formed and no directive was carried out early; from it
  ActiveTextCounts, for texts and nesting of any depth. *SourceManager*: the cache
  and all buffers made from it agree, which OneTextPerPath itself says once the types
  are known. *LibrarySearch*: a name that is wanted and not known is still to be
  looked for or has been looked for in vain (`SearchInv`). *ThreadPool*: `LoopInv`
  says that the blocks of a loop that are queued, running and done are disjoint and
  together those that were pushed, and that they cut the range without gap or overlap
  (lemma BlockEdges). NobodyOversleeps (theorem SleeperIsWoken) has the hypothesis
  that there is one client: with two, one takes back the flag the other waits for (see
  6, below), and slang has one (`slang/source/driver/SourceLoader.cpp:264`, 287, 305).
  *Macros*. The code goes into one use after the other, expands an
  argument before it is put in its place, and pastes when all is done; the reference
  (`Meaning`) puts bodies in the place of all uses at once, round by round. Texts are
  the `Same` if they come to the same words, whatever number of rounds that takes, and
  a part can be replaced by one that is the same (lemma MeansReplaced), an argument
  too, which the body may repeat. `MeansRight` is inductive: what a frame has done,
  followed by what it has to do, is the `Same` as the use it stands for, or as that
  use's argument (`StandsFor`), so that a finished frame can take the use's place
  (theorem ResultIsMeant). ExpandedRight says more. First, that `Longest` rounds are enough:
  a round adds a use to those that are known to end, or no later round does
  (RoundsCount), and there are `Longest` uses (LongestIsEnough). Second, that where
  nothing is pasted `recursive` is no false alarm: the macro of a nested use is reached from
  all macros that are being expanded around it (`ChainsRight`), so one found among them
  is reached from itself and its use ends after no number of rounds. ExpandsRight is
  both. The macros, the stack and the memory are arbitrary. The bodies at the start
  are those of the runs, of up to two items; the proof uses of them only that they
  are sequences of what can be written (lemma BodyWritten).
- **Bits_proofs.** The reference reads a vector as a function from positions to
  bits; the code works on words. `Stored` is the form in which numbers are kept: words
  of the right count, nothing above the width, marked as unknown exactly if an unknown
  bit is set. A place of the whole is a word and a place in it (PlaceOf, PlaceAt), and
  `Has` says of every helper on words which places its result has, one lemma each
  (ShlHas, LshrHas, SignExtendHas, BitCpyHas, MirrorHas...). From them one lemma for
  each operation (*...Right*): its result is `Stored` and has the bits it should
  have, also where a shift crosses words, a copy begins inside one or the last word
  is half full. `BitsInv` (both numbers `Stored`, and BitsRight) is then inductive:
  BitsRight alone is not, as an operation may be applied to a number only if it is
  `Stored`. `WordBits` and all widths are arbitrary.
- **Sums_proofs.** First powers, digits and `Value`, what a row of digits stands for
  (ValueOfDigits: the digits of a number have its value). Then for each loop of the
  code what it keeps: the carry of a sum (AddWords), one line of a product (LineIs,
  MulIs), the remainder of a short division (ShortDivIs). For *Knuth's algorithm*: of
  the top digits the trial digit is the largest that fits, corrected by the third
  digit (TrialIs), so that it is the true digit or one more (GuessIsClose); the
  subtraction is right modulo the next power and reports a borrow exactly if the digit
  was too large (SubtractIs), and adding the divisor back mends that (AddBackSumIs);
  so a place leaves a remainder below the divisor (DividePlaceIs), and `PlacesDone`
  is kept down to the last place (KnuthDivIs). Last the signs: an amount is a negative
  number negated (AmountIs), and the results of `Udiv` and `Urem` are those of the
  amounts unless the code takes a number for negative (QuotientIs, RemainderIs).
  `SumInv` says that the operands fit their width, and ArithmeticRight. `HalfBits`
  and all widths are arbitrary, 32 and 128 included.
  NumbersRight, the property of the run, follows from both proofs about numbers.
- **Loops_proofs.** Induction on numbers, from the least element of a set of them, and
  loops as functions of the number of steps; *Macros* and the sums use it.

Assumptions are those of the modules: natural bounds, a stack with room for a frame,
finitely many macros, each with an argument or without (a name has one definition),
`None` and the special texts distinct from data. Nothing is assumed of the environment.

What stays with TLC is liveness, with the ENABLED of its fairness, which the prover
does not reach: `ParkedAnswered`, `OnceAnswered`, `AnsweredInCalm`, `BarsEnd` and the
liveness half of `LatestWins`.
All other properties of the passing runs are theorems.

## 6. Disagreements found

1. *A file that flips three times in a turn* (`file_flips`). Create, delete,
   create of a new file is coalesced into a modification; the turn does not see
   a structure change (`gs/process_changes.rs:59`), so the database gets a text
   for a file that no source root holds. Delete, create, delete of an existing
   file is filtered out altogether. A turn drains all queued loader batches, so
   flips within one turn do happen.
2. *Files left behind* (`vfs_ghosts`). The loader sends an unloading once and
   forgets the path; the main loop drops the batch if a newer configuration was
   set meanwhile (`gs/main_loop.rs:1326`). The file stays in the VFS.
3. *A Qihe run blocks the server* (`qihe_cancel`). The run keeps its snapshot
   while its commands run; the next edit makes the main loop wait for it
   (`crates/ide/src/db/apply_change.rs:13`), so neither a cancellation nor any
   request is taken until the commands end.
4. *Diagnostics of closed documents* (`diagnostics_closed`). A document closed
   while the workspace reloads keeps its diagnostics at the client: the deferral
   (`gs/process_changes.rs:332`) forgets the file. The same follows from a batch
   that is dropped as stale.
5. *Directives behind a condition* (`skipped_inert`). After `` `ifdef (X) `` the
   parser peeks for an operator and carries out a directive it meets before the
   branch is decided (`slang/source/parsing/Preprocessor.cpp:1244`): what is to
   be skipped takes effect, and `` `define X `` even decides the branch.
6. *Expansion without end* (`expansion_ends`). The macros that are being expanded
   are forgotten at the end of a round
   (`slang/source/parsing/Preprocessor_macros.cpp:105`); a nested macro that
   pastes the use of itself is expanded for ever.
7. *Line offsets added twice* (`lines_race`). Between the shared and the exclusive
   lock of `getRawLineNumber` nobody looks again whether they are there
   (`slang/source/text/SourceManager.cpp:600`).
8. *A quotient with the wrong sign* (`signed_division`). Signed numbers of several
   words whose magnitudes fit into one: a quotient of 2^63 or more is taken for
   negative (`slang/source/numeric/SVInt.cpp:2275`). `ArithmeticRight` excludes
   exactly these cases (`TakenForNegative`), and those of the least number, which
   stays negative when it is negated: in 128 bits it divided by 3 gives 0.

What the models show beyond that, without a run of its own; a property that would
fail excludes the case by a named condition:

- A stale batch is dropped and its files are not asked for again, so in `onType`
  mode two quick edits of files of different owners leave the first one's
  diagnostics old (`gs/main_loop.rs:1373`). A batch computed before Qihe findings
  arrive, taken after them, overwrites them, because its freshness has no part
  for the findings.
- A path that becomes another name of an open file lets the loader overwrite the
  buffer's text in the analysis: the loader's batch asks whether the file is open
  before the write that finds out (`gs/main_loop.rs:1343`). `BufferIsAnalyzed`
  holds while no two paths name one file (`Unlinked`).
- The browser's worker answers a request with an error when `send` throws and
  leaves it pending, so it may get a second answer (at most one from the server).
- `waitForAll` of slang's thread pool lets the first of several waiters take back
  the flag by which the others are notified (`slang/include/slang/util/ThreadPool.h:192`);
  a timed waiter does the same. The model has one client, and slang uses one.
- The source manager caches that a file could not be read; a thread that read it
  successfully meanwhile follows the empty entry (`"crashed"` in `SourceManager`).
- A use of a function macro in its own argument (`` `F(`G) `` with `G` defined as
  that use) recurses until the stack is used up (`"crashed"` in `Macros`).
- Dividing a positive number by the least one of its width passes `operator<`
  the wrong way round, and `divide` is then called with fewer digits above than
  below: it works outside its scratch space (part of `TakenForNegative`).
- `reverse` of a vector with unknown bits that is at most half a word wide
  returns zeros: it shifts by more than the width (`ReverseLoses`,
  `slang/source/numeric/SVInt.cpp:1701`). `set` copies bytes where it means words
  (line 1519) when a number gets its first unknown bit; it is not modelled.

## 7. Not modelled, and why

Answers' contents and conversions (pure functions of a snapshot); the operating
system's watcher and processes; text encodings and line endings; globs,
directories and symbolic links (entries are files); clients that pull
diagnostics, except for parking, retrying and answering their requests; the
progress bars of the loader; the versions of open documents. The core leaves out
pushes of diagnostics that set the deferred flag (they are in `Diagnostics`) and
the re-parking of a retried pull (in `Requests`). In `Diagnostics` the files of
a job are computed in one step, so two files of one batch never see different
findings.

Of slang, most is not modelled: the lexer and parser, the symbols and their
elaboration, the binder, name lookup, constant evaluation above the numbers,
its drivers and tools. They make up nearly all of the 120,000 lines of C++ in
the repository, and turn a text into trees and diagnostics in one thread; a
model of them would be a second implementation. What is modelled of slang is
what depends on order, threads, lookahead or carries. Of `SVInt` the conversions
from and to text, powers, `set`, counting and the products of more than seven
words are left out. Of the server the whole of HIR and the IDE features are
functions of a database snapshot.
