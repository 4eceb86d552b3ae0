----------------------------- MODULE Parts_proofs -----------------------------
(***************************************************************************)
(* The parts that share no state with others, for any files, texts,        *)
(* tokens, threads, jobs and requests.                                     *)
(*                                                                         *)
(* The loader thread and the main loop: when all is settled, what the      *)
(* loader counts as loaded is in the VFS with the contents read last, and  *)
(* what else is in the VFS is open or was lost with a batch that came too  *)
(* late.  A batch counts only if it carries the configuration of the main  *)
(* loop, so the argument is about the last batch on the way that names a   *)
(* file: it has the contents sent last, and if the loader counts the file  *)
(* as loaded it carries the loader's configuration.                        *)
(*                                                                         *)
(* The main loop and the database: at every point of a turn the coalesced  *)
(* entry of a file, the number of times it appeared or vanished, the text  *)
(* it had when the turn began and the one it has now fit together.         *)
(*                                                                         *)
(* What carries the work of the server: a cancelled parent leaves no child *)
(* behind; a waiting worker job is passed at most a burst of times by each *)
(* thread, and dropping the pool runs everything; the browser's worker     *)
(* forgets no request.                                                     *)
(***************************************************************************)
EXTENDS VfsSync, FileChanges, Cancellation, Pool, BrowserRuntime, SequenceTheorems,
        FiniteSetTheorems, WellFoundedInduction, TLAPS

-----------------------------------------------------------------------------
(* Loader and main loop *)

\* What is on its way between the two threads.
ConfigAwaits  == \E i \in DOMAIN inbox : inbox[i].kind = "config"
AskedAgain(f) == \E i \in DOMAIN inbox : inbox[i] = Invalidate(f)
OnTheWay(f)   == \E i \in DOMAIN channel : f \in DOMAIN channel[i].batch

LastConfigAt(i) ==
  inbox[i].kind = "config" /\ \A j \in DOMAIN inbox : j > i => inbox[j].kind # "config"

LastBatchAt(i, f) ==
  f \in DOMAIN channel[i].batch /\ \A j \in DOMAIN channel : j > i => f \notin DOMAIN channel[j].batch

\* The files the loader has reported under its configuration, and those it still
\* answers for: they are reported again, or unloaded when the configuration is done.
Held    == loadedPaths \cup loader.loaded
Claimed == Held \cup (loader.previous \ loader.reported)

\* While it loads, the loader has forgotten what it loaded before; it reports a file
\* once.
LoaderStages ==
  /\ loader.phase = "idle" => loader = IdleLoader(loader.version)
  /\ loader.phase = "loading" => loadedPaths = {}
  /\ loader.todo \cap loader.reported = {}

\* The loader has the configuration of the main loop, or will get it.
ConfigsInOrder ==
  /\ loader.version <= version
  /\ \A i \in DOMAIN inbox : inbox[i].version <= version
  /\ ~ConfigAwaits => loader.version = version
  /\ \A i \in DOMAIN inbox : LastConfigAt(i) => inbox[i].version = version

\* The loader answers for the files whose last contents it sent were not "gone".
ClaimsMatch == \A f \in DiskFiles : f \in Claimed <=> lastSent[f] # Absent

\* The last batch that names a file.
LastBatchCounts ==
  \A f \in DiskFiles : \A i \in DOMAIN channel : LastBatchAt(i, f) =>
    /\ channel[i].batch[f] = lastSent[f]
    /\ f \in Held => channel[i].version = loader.version

HeldArrive ==
  \A f \in Held : loader.version = version =>
    f \in openFiles \/ AskedAgain(f) \/ OnTheWay(f) \/ vfsText[f] = lastSent[f]

OthersGo ==
  \A f \in DiskFiles \ Claimed :
    f \in openFiles \/ AskedAgain(f) \/ OnTheWay(f) \/ vfsText[f] = Absent \/ f \in lost

SyncInv ==
  /\ SyncTypeOK
  /\ LoaderStages
  /\ ConfigsInOrder
  /\ ClaimsMatch
  /\ LastBatchCounts
  /\ HeldArrive
  /\ OthersGo

InboxMessage == [kind : {"config", "invalidate"}, version : 0 .. MaxConfigs, files : SUBSET DiskFiles]
Batch        == [version : 0 .. MaxConfigs, batch : LoadedBatch]

-----------------------------------------------------------------------------
(* Batches and queues *)

\* A batch names files of the disk and gives each of them contents.
LEMMA BatchType ==
  ASSUME NEW batch \in LoadedBatch
  PROVE  /\ DOMAIN batch \subseteq DiskFiles
         /\ \A f \in DOMAIN batch : batch[f] \in Contents
         /\ LoadedIn(batch) \subseteq DOMAIN batch
         /\ \A f \in DOMAIN batch : f \in LoadedIn(batch) <=> batch[f] # Absent
<1>1. PICK files \in SUBSET DiskFiles : batch \in [files -> Contents]
  BY DEF LoadedBatch
<1>2. QED BY <1>1 DEF LoadedIn

\* Contents for some of the files are a batch, and so is nothing.
LEMMA IsBatch ==
  /\ \A files \in SUBSET DiskFiles : \A batch \in [files -> Contents] : batch \in LoadedBatch
  /\ <<>> \in LoadedBatch /\ DOMAIN <<>> = {}
<1>1. \A files \in SUBSET DiskFiles : \A batch \in [files -> Contents] : batch \in LoadedBatch
  BY DEF LoadedBatch
<1>2. <<>> \in [1 .. 0 -> Contents]
  BY EmptySeq, LenProperties
<1>3. 1 .. 0 = {} /\ {} \in SUBSET DiskFiles
  OBVIOUS
<1>4. QED BY <1>1, <1>2, <1>3

\* What a message at the end of a queue changes.
LEMMA QueueAppend ==
  ASSUME NEW M, NEW queue \in Seq(M), NEW m \in M
  PROVE  /\ Append(queue, m) \in Seq(M)
         /\ DOMAIN queue = 1 .. Len(queue) /\ Len(queue) \in Nat
         /\ DOMAIN Append(queue, m) = 1 .. Len(queue) + 1
         /\ \A i \in DOMAIN queue : Append(queue, m)[i] = queue[i]
         /\ Append(queue, m)[Len(queue) + 1] = m
OBVIOUS

\* What is left of a queue without its head.
LEMMA QueueTail ==
  ASSUME NEW M, NEW queue \in Seq(M), queue # <<>>
  PROVE  /\ Tail(queue) \in Seq(M) /\ Head(queue) \in M
         /\ Head(queue) = queue[1] /\ 1 \in DOMAIN queue
         /\ DOMAIN queue = 1 .. Len(queue) /\ Len(queue) \in Nat \ {0}
         /\ DOMAIN Tail(queue) = 1 .. Len(queue) - 1
         /\ \A i \in DOMAIN Tail(queue) : Tail(queue)[i] = queue[i + 1]
<1>1. /\ Tail(queue) \in Seq(M) /\ Len(Tail(queue)) = Len(queue) - 1
      /\ \A i \in 1 .. Len(Tail(queue)) : Tail(queue)[i] = queue[i + 1]
  BY HeadTailProperties
<1>2. Len(queue) \in Nat \ {0}
  BY EmptySeq
<1>3. QED BY <1>1, <1>2

\* What sending a batch does to the batches on the way.
LEMMA SendEffect ==
  ASSUME SyncTypeOK, NEW n \in 0 .. MaxConfigs, NEW batch \in LoadedBatch, Send(n, batch)
  PROVE  /\ channel' \in Seq(Batch)
         /\ lastSent' \in [DiskFiles -> Contents]
         /\ \A f \in DiskFiles : lastSent'[f] = IF f \in DOMAIN batch THEN batch[f] ELSE lastSent[f]
         /\ \A f \in DiskFiles : OnTheWay(f)' <=> OnTheWay(f) \/ f \in DOMAIN batch
         /\ \A f \in DiskFiles : \A i \in DOMAIN channel' : LastBatchAt(i, f)' =>
              \/ f \in DOMAIN batch /\ channel'[i] = LoadedMsg(n, batch)
              \/ /\ f \notin DOMAIN batch /\ i \in DOMAIN channel
                 /\ LastBatchAt(i, f) /\ channel'[i] = channel[i]
<1> DEFINE m == LoadedMsg(n, batch)
<1>1. channel \in Seq(Batch) /\ m \in Batch /\ channel' = Append(channel, m)
  BY DEF SyncTypeOK, Batch, Send, LoadedMsg
<1> HIDE DEF m
<1>2. /\ channel' \in Seq(Batch)
      /\ DOMAIN channel = 1 .. Len(channel) /\ Len(channel) \in Nat
      /\ DOMAIN channel' = 1 .. Len(channel) + 1
      /\ \A i \in DOMAIN channel : channel'[i] = channel[i]
      /\ channel'[Len(channel) + 1] = m
  BY <1>1, QueueAppend
<1>3. m.batch = batch
  BY DEF m, LoadedMsg
<1>4. /\ lastSent' = [f \in DiskFiles |-> IF f \in DOMAIN batch THEN batch[f] ELSE lastSent[f]]
      /\ lastSent \in [DiskFiles -> Contents]
  BY DEF Send, SyncTypeOK
<1>5. lastSent' \in [DiskFiles -> Contents]
  BY <1>4, BatchType
<1>6. \A f \in DiskFiles : OnTheWay(f)' <=> OnTheWay(f) \/ f \in DOMAIN batch
  BY <1>2, <1>3 DEF OnTheWay
<1>7. ASSUME NEW f \in DiskFiles, NEW i \in DOMAIN channel', LastBatchAt(i, f)'
      PROVE  \/ f \in DOMAIN batch /\ channel'[i] = m
             \/ /\ f \notin DOMAIN batch /\ i \in DOMAIN channel
                /\ LastBatchAt(i, f) /\ channel'[i] = channel[i]
  <2>1. CASE i = Len(channel) + 1
    BY <2>1, <1>2, <1>3, <1>7 DEF LastBatchAt
  <2>2. CASE i # Len(channel) + 1
    <3>1. i \in DOMAIN channel
      BY <2>2, <1>2
    <3>2. i < Len(channel) + 1 /\ Len(channel) + 1 \in DOMAIN channel'
      BY <3>1, <1>2
    <3>3. f \notin DOMAIN batch
      BY <3>2, <1>2, <1>3, <1>7 DEF LastBatchAt
    <3>4. LastBatchAt(i, f)
      BY <3>1, <1>2, <1>7 DEF LastBatchAt
    <3>5. QED BY <3>1, <3>3, <3>4, <1>2
  <2>3. QED BY <2>1, <2>2
<1>8. QED BY <1>2, <1>4, <1>5, <1>6, <1>7 DEF m

-----------------------------------------------------------------------------
(* The loader *)

\* What the loader may do under a configuration: it sends a batch, or nothing, and
\* then answers for the files of the batch that are there.
Reports(batch) ==
  /\ \/ Send(loader.version, batch)
     \/ DOMAIN batch = {} /\ UNCHANGED <<channel, lastSent>>
  /\ loader'.version = loader.version
  /\ \A f \in DiskFiles :
       /\ f \in Held' <=> (IF f \in DOMAIN batch THEN batch[f] # Absent ELSE f \in Held)
       /\ f \in Claimed' <=> (IF f \in DOMAIN batch THEN batch[f] # Absent ELSE f \in Claimed)
       /\ AskedAgain(f) => AskedAgain(f)' \/ f \in DOMAIN batch
  /\ UNCHANGED mainVars

\* A batch carries the configuration of the loader and contents for what it names, so
\* a report keeps what is said of the files on the way.
LEMMA ReportKeeps ==
  ASSUME SyncInv, NEW batch \in LoadedBatch, Reports(batch),
         loader'.loaded \subseteq DiskFiles, loadedPaths' \subseteq DiskFiles
  PROVE  ClaimsMatch' /\ LastBatchCounts' /\ HeldArrive' /\ OthersGo'
<1> DEFINE named == DOMAIN batch
<1>1. \A f \in DiskFiles : OnTheWay(f)' <=> OnTheWay(f) \/ f \in named
  BY SendEffect DEF Reports, SyncInv, SyncTypeOK, OnTheWay
<1>2. \A f \in DiskFiles : lastSent'[f] = IF f \in named THEN batch[f] ELSE lastSent[f]
  BY SendEffect DEF Reports, SyncInv, SyncTypeOK
<1>3. \A f \in DiskFiles : \A i \in DOMAIN channel' : LastBatchAt(i, f)' =>
        \/ f \in named /\ channel'[i] = LoadedMsg(loader.version, batch)
        \/ f \notin named /\ i \in DOMAIN channel /\ LastBatchAt(i, f) /\ channel'[i] = channel[i]
  <2>1. SyncTypeOK /\ loader.version \in 0 .. MaxConfigs
    BY DEF SyncInv, SyncTypeOK
  <2>2. CASE Send(loader.version, batch)
    BY <2>1, <2>2, SendEffect
  <2>3. CASE named = {} /\ UNCHANGED channel
    BY <2>3 DEF LastBatchAt
  <2>4. QED BY <2>2, <2>3 DEF Reports
<1>4. Held \subseteq DiskFiles /\ Held' \subseteq DiskFiles /\ Claimed \subseteq DiskFiles
  BY DEF Held, Claimed, SyncInv, SyncTypeOK
<1> HIDE DEF named
<1>5. ClaimsMatch'
  BY <1>2 DEF ClaimsMatch, SyncInv, Reports, named
<1>6. LastBatchCounts'
  <2> SUFFICES ASSUME NEW f \in DiskFiles, NEW i \in DOMAIN channel', LastBatchAt(i, f)'
               PROVE  /\ channel'[i].batch[f] = lastSent'[f]
                      /\ f \in Held' => channel'[i].version = loader'.version
    BY DEF LastBatchCounts
  <2>1. CASE f \in named
    BY <2>1, <1>2, <1>3 DEF LoadedMsg, Reports
  <2>2. CASE f \notin named
    BY <2>2, <1>2, <1>3 DEF LastBatchCounts, SyncInv, Reports, named
  <2>3. QED BY <2>1, <2>2
<1>7. HeldArrive'
  BY <1>1, <1>2, <1>4 DEF HeldArrive, SyncInv, Reports, mainVars, named
<1>8. OthersGo'
  BY <1>1, <1>4 DEF OthersGo, SyncInv, Reports, mainVars, named
<1>9. QED BY <1>5, <1>6, <1>7, <1>8

\* What the other thread finds in its inbox stays in order when a message that is no
\* configuration is taken from it.
LEMMA TakenKeepsOrder ==
  ASSUME SyncInv, inbox # <<>>, Head(inbox).kind # "config", inbox' = Tail(inbox),
         loader'.version = loader.version, version' = version
  PROVE  ConfigsInOrder'
<1>1. inbox \in Seq(InboxMessage)
  BY DEF SyncInv, SyncTypeOK, InboxMessage
<1>2. /\ Head(inbox) = inbox[1] /\ Len(inbox) \in Nat \ {0}
      /\ DOMAIN inbox = 1 .. Len(inbox) /\ DOMAIN inbox' = 1 .. Len(inbox) - 1
      /\ \A i \in DOMAIN inbox' : inbox'[i] = inbox[i + 1]
  BY <1>1, QueueTail
<1>3. \A j \in DOMAIN inbox : j # 1 => j - 1 \in DOMAIN inbox' /\ inbox'[j - 1] = inbox[j]
  BY <1>2
<1>4. ~ConfigAwaits' => ~ConfigAwaits
  BY <1>2, <1>3 DEF ConfigAwaits
<1>5. \A i \in DOMAIN inbox' : LastConfigAt(i)' => i + 1 \in DOMAIN inbox /\ LastConfigAt(i + 1)
  <2> SUFFICES ASSUME NEW i \in DOMAIN inbox', LastConfigAt(i)'
               PROVE  i + 1 \in DOMAIN inbox /\ LastConfigAt(i + 1)
    OBVIOUS
  <2>1. i + 1 \in DOMAIN inbox /\ inbox[i + 1].kind = "config"
    BY <1>2 DEF LastConfigAt
  <2>2. ASSUME NEW j \in DOMAIN inbox, j > i + 1 PROVE inbox[j].kind # "config"
    <3>1. j - 1 \in DOMAIN inbox' /\ inbox'[j - 1] = inbox[j] /\ j - 1 > i
      BY <2>2, <1>2, <1>3
    <3>2. QED BY <3>1 DEF LastConfigAt
  <2>3. QED BY <2>1, <2>2 DEF LastConfigAt
<1>6. QED BY <1>2, <1>4, <1>5 DEF ConfigsInOrder, SyncInv

\* Nothing is taken from the inbox, or anything but a question for this file.
LEMMA SameInbox ==
  ASSUME SyncInv, UNCHANGED <<version, inbox>>, loader'.version = loader.version
  PROVE  ConfigsInOrder'
BY DEF SyncInv, ConfigsInOrder, ConfigAwaits, LastConfigAt

\* A configuration arrives: nothing is loaded under it, and what was loaded under the
\* one before is what the loader answers for.
LEMMA TakeConfigKeeps == SyncInv /\ TakeConfig => SyncInv'
<1> SUFFICES ASSUME SyncInv, TakeConfig PROVE SyncInv'
  OBVIOUS
<1>1. inbox \in Seq(InboxMessage)
  BY DEF SyncInv, SyncTypeOK, InboxMessage
<1>2. /\ Head(inbox) \in InboxMessage /\ inbox' \in Seq(InboxMessage)
      /\ Head(inbox) = inbox[1] /\ Len(inbox) \in Nat \ {0}
      /\ DOMAIN inbox = 1 .. Len(inbox) /\ DOMAIN inbox' = 1 .. Len(inbox) - 1
      /\ \A i \in DOMAIN inbox' : inbox'[i] = inbox[i + 1]
  BY <1>1, QueueTail DEF TakeConfig
<1>3. /\ Held' = {} /\ loader'.version = inbox[1].version
      /\ loader' = [phase |-> "loading", version |-> inbox[1].version,
                    todo |-> inbox[1].files, reported |-> {}, loaded |-> {},
                    previous |-> loadedPaths]
      /\ loader = IdleLoader(loader.version)
  BY <1>2 DEF TakeConfig, Held, LoaderStages, SyncInv
<1>4. Claimed' = Claimed
  BY <1>3 DEF Claimed, Held, IdleLoader
<1>5. SyncTypeOK' /\ LoaderStages'
  BY <1>2, <1>3 DEF TakeConfig, SyncInv, SyncTypeOK, LoaderStages, InboxMessage, mainVars
<1>6. ConfigsInOrder'
  <2>1. \A j \in DOMAIN inbox : j # 1 => j - 1 \in DOMAIN inbox' /\ inbox'[j - 1] = inbox[j]
    BY <1>2
  <2>2. 1 \in DOMAIN inbox /\ inbox[1].kind = "config"
    BY <1>2 DEF TakeConfig
  <2>3. version' = version
    BY DEF TakeConfig, mainVars
  <2>4. loader'.version <= version' /\ \A i \in DOMAIN inbox' : inbox'[i].version <= version'
    BY <1>2, <1>3, <2>2, <2>3 DEF ConfigsInOrder, SyncInv
  <2>5. ~ConfigAwaits' => LastConfigAt(1)
    BY <2>1, <2>2 DEF ConfigAwaits, LastConfigAt
  <2>6. ~ConfigAwaits' => loader'.version = version'
    BY <1>3, <2>2, <2>3, <2>5 DEF ConfigsInOrder, SyncInv
  <2>7. ASSUME NEW i \in DOMAIN inbox', LastConfigAt(i)' PROVE inbox'[i].version = version'
    <3>1. i + 1 \in DOMAIN inbox /\ inbox[i + 1].kind = "config"
      BY <1>2, <2>7 DEF LastConfigAt
    <3>2. ASSUME NEW j \in DOMAIN inbox, j > i + 1 PROVE inbox[j].kind # "config"
      <4>1. j - 1 \in DOMAIN inbox' /\ inbox'[j - 1] = inbox[j] /\ j - 1 > i
        BY <3>2, <1>2, <2>1
      <4>2. QED BY <4>1, <2>7 DEF LastConfigAt
    <3>3. LastConfigAt(i + 1)
      BY <3>1, <3>2 DEF LastConfigAt
    <3>4. QED BY <1>2, <2>3, <3>1, <3>3 DEF ConfigsInOrder, SyncInv
  <2>8. QED BY <2>4, <2>6, <2>7 DEF ConfigsInOrder
<1>7. \A f \in DiskFiles : AskedAgain(f) => AskedAgain(f)'
  <2> SUFFICES ASSUME NEW f \in DiskFiles, NEW i \in DOMAIN inbox, inbox[i] = Invalidate(f)
               PROVE  AskedAgain(f)'
    BY DEF AskedAgain
  <2>1. i # 1
    BY DEF TakeConfig, Invalidate
  <2>2. i - 1 \in DOMAIN inbox' /\ inbox'[i - 1] = Invalidate(f)
    BY <2>1, <1>2
  <2>3. QED BY <2>2 DEF AskedAgain, Invalidate
<1>8. ClaimsMatch' /\ LastBatchCounts' /\ HeldArrive' /\ OthersGo'
  BY <1>3, <1>4, <1>7 DEF TakeConfig, mainVars, SyncInv, ClaimsMatch, LastBatchCounts,
     LastBatchAt, HeldArrive, OthersGo, OnTheWay
<1>9. QED BY <1>5, <1>6, <1>8 DEF SyncInv

\* An entry is reported once, with what is there.
LEMMA LoadEntryKeeps ==
  ASSUME SyncInv, NEW f \in DiskFiles, LoadEntry(f)
  PROVE  SyncInv'
<1>1. PICK batch \in [{f} -> Contents] \cup {<<>>} :
        /\ loader' = [loader EXCEPT !.todo     = @ \ {f},
                                    !.reported = @ \cup DOMAIN batch,
                                    !.loaded   = @ \cup LoadedIn(batch)]
        /\ Send(loader.version, batch)
  BY DEF LoadEntry
<1>2. batch \in LoadedBatch /\ DOMAIN batch \subseteq {f}
  BY IsBatch, {f} \in SUBSET DiskFiles
<1>3. /\ LoadedIn(batch) \subseteq DOMAIN batch
      /\ \A g \in DOMAIN batch : g \in LoadedIn(batch) <=> batch[g] # Absent
  BY <1>2, BatchType
<1>4. /\ loader \in [phase : {"idle", "loading"}, version : 0 .. MaxConfigs,
                     todo : SUBSET DiskFiles, reported : SUBSET DiskFiles,
                     loaded : SUBSET DiskFiles, previous : SUBSET DiskFiles]
      /\ loader.loaded \subseteq loader.reported /\ f \in loader.todo
      /\ loader.todo \cap loader.reported = {}
  BY DEF SyncInv, SyncTypeOK, LoaderStages, LoadEntry
<1>5. /\ loader'.todo = loader.todo \ {f} /\ loader'.reported = loader.reported \cup DOMAIN batch
      /\ loader'.loaded = loader.loaded \cup LoadedIn(batch)
      /\ loader'.previous = loader.previous /\ loader'.version = loader.version
      /\ loader'.phase = loader.phase
  BY <1>1, <1>4
<1>6. loader.phase = "loading" /\ loadedPaths = {} /\ loadedPaths' = {}
  BY <1>4 DEF SyncInv, LoaderStages, LoadEntry, IdleLoader
<1>7. SyncTypeOK'
  <2>1. channel' \in Seq(Batch) /\ lastSent' \in [DiskFiles -> Contents]
    BY <1>1, <1>2, <1>4, SendEffect DEF SyncInv
  <2>2. loader' \in [phase : {"idle", "loading"}, version : 0 .. MaxConfigs,
                     todo : SUBSET DiskFiles, reported : SUBSET DiskFiles,
                     loaded : SUBSET DiskFiles, previous : SUBSET DiskFiles]
    BY <1>1, <1>2, <1>3, <1>4
  <2>3. QED BY <2>1, <2>2, <1>2, <1>3, <1>4, <1>5 DEF SyncInv, SyncTypeOK, LoadEntry, mainVars, Batch
<1>8. LoaderStages'
  BY <1>2, <1>4, <1>5, <1>6 DEF LoaderStages
<1>9. ConfigsInOrder'
  BY <1>5, SameInbox DEF LoadEntry, mainVars
<1>10. Reports(batch)
  <2>1. \A g \in DOMAIN batch : g \notin loader.reported
    BY <1>2, <1>4
  <2>2. \A g \in DiskFiles :
          /\ g \in Held' <=> (IF g \in DOMAIN batch THEN batch[g] # Absent ELSE g \in Held)
          /\ g \in Claimed' <=> (IF g \in DOMAIN batch THEN batch[g] # Absent ELSE g \in Claimed)
    BY <1>3, <1>4, <1>5, <1>6, <2>1 DEF Held, Claimed
  <2>3. \A g : AskedAgain(g) => AskedAgain(g)'
    BY DEF LoadEntry, AskedAgain, Invalidate
  <2>4. QED BY <1>1, <1>5, <2>2, <2>3 DEF Reports, LoadEntry
<1>11. QED BY <1>2, <1>7, <1>8, <1>9, <1>10, ReportKeeps DEF SyncInv, SyncTypeOK

\* When its entries are read, a configuration unloads what it has not reported.
LEMMA FinishConfigKeeps == SyncInv /\ FinishConfig => SyncInv'
<1> SUFFICES ASSUME SyncInv, FinishConfig PROVE SyncInv'
  OBVIOUS
<1> DEFINE unloaded == loader.previous \ loader.reported
           batch    == [f \in unloaded |-> Absent]
<1>1. /\ loader \in [phase : {"idle", "loading"}, version : 0 .. MaxConfigs,
                     todo : SUBSET DiskFiles, reported : SUBSET DiskFiles,
                     loaded : SUBSET DiskFiles, previous : SUBSET DiskFiles]
      /\ loader.loaded \subseteq loader.reported /\ loader.phase = "loading"
      /\ loadedPaths = {}
  BY DEF SyncInv, SyncTypeOK, LoaderStages, FinishConfig
<1>2. unloaded \in SUBSET DiskFiles /\ batch \in [unloaded -> Contents]
  BY <1>1 DEF Contents
<1>3. batch \in LoadedBatch /\ DOMAIN batch = unloaded /\ \A f \in unloaded : batch[f] = Absent
  BY <1>2, IsBatch
<1>4. /\ loader' = IdleLoader(loader.version) /\ loader'.version = loader.version
      /\ loader'.loaded = {} /\ loader'.previous = {} /\ loader'.reported = {}
      /\ loadedPaths' = loader.loaded
  BY DEF FinishConfig, IdleLoader
<1>5. \/ Send(loader.version, batch)
      \/ unloaded = {} /\ UNCHANGED <<channel, lastSent>>
  BY DEF FinishConfig
<1> HIDE DEF unloaded, batch
<1>6. SyncTypeOK'
  <2>1. channel' \in Seq(Batch) /\ lastSent' \in [DiskFiles -> Contents]
    BY <1>1, <1>3, <1>5, SendEffect DEF SyncInv, SyncTypeOK, Batch
  <2>2. QED BY <2>1, <1>1, <1>4 DEF SyncInv, SyncTypeOK, FinishConfig, mainVars, Batch, IdleLoader
<1>7. LoaderStages'
  BY <1>4 DEF LoaderStages, IdleLoader
<1>8. ConfigsInOrder'
  BY <1>4, SameInbox DEF FinishConfig, mainVars
<1>9. Reports(batch)
  <2>1. \A g \in DiskFiles :
          /\ g \in Held' <=> (IF g \in DOMAIN batch THEN batch[g] # Absent ELSE g \in Held)
          /\ g \in Claimed' <=> (IF g \in DOMAIN batch THEN batch[g] # Absent ELSE g \in Claimed)
    BY <1>1, <1>3, <1>4 DEF Held, Claimed, unloaded
  <2>2. \A g : AskedAgain(g) => AskedAgain(g)'
    BY DEF FinishConfig, AskedAgain, Invalidate
  <2>3. QED BY <1>3, <1>4, <1>5, <2>1, <2>2 DEF Reports, FinishConfig
<1>10. QED BY <1>3, <1>6, <1>7, <1>8, <1>9, ReportKeeps DEF SyncInv, SyncTypeOK

\* A report outside a configuration: the loader counts as loaded what it has found.
LEMMA RecordKeeps ==
  ASSUME SyncInv, NEW batch \in LoadedBatch, loader.phase = "idle",
         Send(loader.version, batch), loadedPaths' = Record(batch),
         UNCHANGED mainVars, loader' = loader,
         \A f \in DiskFiles : AskedAgain(f) => AskedAgain(f)' \/ f \in DOMAIN batch
  PROVE  /\ LoaderStages' /\ ClaimsMatch' /\ LastBatchCounts' /\ HeldArrive' /\ OthersGo'
         /\ channel' \in Seq(Batch) /\ lastSent' \in [DiskFiles -> Contents]
         /\ loadedPaths' \subseteq DiskFiles
<1>1. /\ DOMAIN batch \subseteq DiskFiles /\ LoadedIn(batch) \subseteq DOMAIN batch
      /\ \A g \in DOMAIN batch : g \in LoadedIn(batch) <=> batch[g] # Absent
  BY BatchType
<1>2. /\ loader.loaded = {} /\ loader.previous = {} /\ loader.version \in 0 .. MaxConfigs
      /\ loadedPaths \subseteq DiskFiles
  BY DEF SyncInv, LoaderStages, SyncTypeOK, IdleLoader
<1>3. loadedPaths' \subseteq DiskFiles
  BY <1>1, <1>2 DEF Record
<1>4. channel' \in Seq(Batch) /\ lastSent' \in [DiskFiles -> Contents]
  BY <1>2, SendEffect DEF SyncInv
<1>5. Reports(batch)
  BY <1>1, <1>2 DEF Reports, Held, Claimed, Record
<1>6. LoaderStages'
  BY DEF SyncInv, LoaderStages
<1>7. QED BY <1>2, <1>3, <1>4, <1>5, <1>6, ReportKeeps

\* A file is read again because it was asked for.
LEMMA TakeInvalidateKeeps == SyncInv /\ TakeInvalidate => SyncInv'
<1> SUFFICES ASSUME SyncInv, TakeInvalidate PROVE SyncInv'
  OBVIOUS
<1>1. inbox \in Seq(InboxMessage) /\ inbox # <<>>
  BY DEF SyncInv, SyncTypeOK, InboxMessage, TakeInvalidate
<1>2. /\ Head(inbox) \in InboxMessage /\ inbox' \in Seq(InboxMessage)
      /\ Head(inbox) = inbox[1] /\ Len(inbox) \in Nat \ {0}
      /\ DOMAIN inbox = 1 .. Len(inbox) /\ DOMAIN inbox' = 1 .. Len(inbox) - 1
      /\ \A i \in DOMAIN inbox' : inbox'[i] = inbox[i + 1]
  BY <1>1, QueueTail DEF TakeInvalidate
<1>3. PICK batch \in [inbox[1].files -> Contents] :
        Send(loader.version, batch) /\ loadedPaths' = Record(batch)
  BY <1>2 DEF TakeInvalidate
<1>4. batch \in LoadedBatch /\ DOMAIN batch = inbox[1].files
  BY <1>2, IsBatch DEF InboxMessage
<1>5. \A f \in DiskFiles : AskedAgain(f) => AskedAgain(f)' \/ f \in DOMAIN batch
  <2> SUFFICES ASSUME NEW f \in DiskFiles, NEW i \in DOMAIN inbox, inbox[i] = Invalidate(f)
               PROVE  AskedAgain(f)' \/ f \in DOMAIN batch
    BY DEF AskedAgain
  <2>1. CASE i = 1
    BY <2>1, <1>4 DEF Invalidate
  <2>2. CASE i # 1
    <3>1. i - 1 \in DOMAIN inbox' /\ inbox'[i - 1] = Invalidate(f)
      BY <2>2, <1>2
    <3>2. QED BY <3>1 DEF AskedAgain, Invalidate
  <2>3. QED BY <2>1, <2>2
<1>6. /\ LoaderStages' /\ ClaimsMatch' /\ LastBatchCounts' /\ HeldArrive' /\ OthersGo'
      /\ channel' \in Seq(Batch) /\ lastSent' \in [DiskFiles -> Contents]
      /\ loadedPaths' \subseteq DiskFiles
  BY <1>3, <1>4, <1>5, RecordKeeps DEF TakeInvalidate
<1>7. ConfigsInOrder'
  BY <1>1, TakenKeepsOrder DEF TakeInvalidate, mainVars
<1>8. SyncTypeOK'
  BY <1>2, <1>6 DEF SyncInv, SyncTypeOK, TakeInvalidate, mainVars, Batch, InboxMessage
<1>9. QED BY <1>6, <1>7, <1>8 DEF SyncInv

\* The watcher reports some files.
LEMMA TakeWatcherEventKeeps == SyncInv /\ TakeWatcherEvent => SyncInv'
<1> SUFFICES ASSUME SyncInv, TakeWatcherEvent PROVE SyncInv'
  OBVIOUS
<1>1. PICK batch \in LoadedBatch : Send(loader.version, batch) /\ loadedPaths' = Record(batch)
  BY DEF TakeWatcherEvent
<1>2. \A f : AskedAgain(f) => AskedAgain(f)'
  BY DEF TakeWatcherEvent, AskedAgain, Invalidate
<1>3. /\ LoaderStages' /\ ClaimsMatch' /\ LastBatchCounts' /\ HeldArrive' /\ OthersGo'
      /\ channel' \in Seq(Batch) /\ lastSent' \in [DiskFiles -> Contents]
      /\ loadedPaths' \subseteq DiskFiles
  BY <1>1, <1>2, RecordKeeps DEF TakeWatcherEvent
<1>4. ConfigsInOrder'
  BY SameInbox DEF TakeWatcherEvent, mainVars
<1>5. SyncTypeOK'
  <2>1. events' \in 0 .. MaxEvents
    BY SyncAssumption DEF SyncInv, SyncTypeOK, TakeWatcherEvent, AnEvent
  <2>2. QED BY <1>3, <2>1 DEF SyncInv, SyncTypeOK, TakeWatcherEvent, mainVars, Batch
<1>6. QED BY <1>3, <1>4, <1>5 DEF SyncInv

-----------------------------------------------------------------------------
(* The main loop *)

\* A new configuration: until the loader has it, nothing it sends counts.
LEMMA SetConfigKeeps ==
  ASSUME SyncInv, NEW files \in SUBSET DiskFiles, SetConfig(files)
  PROVE  SyncInv'
<1> DEFINE m == Config(version + 1, files)
<1>1. inbox \in Seq(InboxMessage) /\ m \in InboxMessage /\ inbox' = Append(inbox, m)
      /\ version \in Nat /\ version' = version + 1 /\ version' \in 0 .. MaxConfigs
      /\ m.kind = "config" /\ m.version = version + 1
  <2>1. version \in Nat /\ version' = version + 1 /\ version' \in 0 .. MaxConfigs
    BY SyncAssumption DEF SyncInv, SyncTypeOK, SetConfig
  <2>2. m \in InboxMessage /\ m.kind = "config" /\ m.version = version + 1
    BY <2>1 DEF InboxMessage, Config
  <2>3. inbox \in Seq(InboxMessage) /\ inbox' = Append(inbox, m)
    BY DEF SyncInv, SyncTypeOK, InboxMessage, SetConfig
  <2>4. QED BY <2>1, <2>2, <2>3
<1> HIDE DEF m
<1>2. /\ inbox' \in Seq(InboxMessage) /\ Len(inbox) \in Nat
      /\ DOMAIN inbox = 1 .. Len(inbox) /\ DOMAIN inbox' = 1 .. Len(inbox) + 1
      /\ \A i \in DOMAIN inbox : inbox'[i] = inbox[i]
      /\ inbox'[Len(inbox) + 1] = m
  BY <1>1, QueueAppend
<1>3. SyncTypeOK'
  BY <1>1, <1>2 DEF SyncInv, SyncTypeOK, SetConfig, loaderVars, InboxMessage
<1>4. loader' = loader /\ loader.version \in Nat /\ loader.version <= version
  BY DEF SyncInv, SyncTypeOK, ConfigsInOrder, SetConfig, loaderVars
<1>5. \A i \in DOMAIN inbox : inbox[i].version \in Nat /\ inbox[i].version <= version
  <2>1. \A i \in DOMAIN inbox : inbox[i] \in InboxMessage
    BY <1>1, <1>2
  <2>2. \A i \in DOMAIN inbox : inbox[i].version \in Nat
    BY <2>1 DEF InboxMessage
  <2>3. QED BY <2>2 DEF SyncInv, ConfigsInOrder
<1>6. ConfigsInOrder'
  <2>1. ConfigAwaits'
    BY <1>1, <1>2 DEF ConfigAwaits
  <2>2. ASSUME NEW i \in DOMAIN inbox', LastConfigAt(i)' PROVE inbox'[i].version = version'
    <3>1. ~(Len(inbox) + 1 > i)
      BY <1>1, <1>2, <2>2 DEF LastConfigAt
    <3>2. QED BY <3>1, <1>1, <1>2
  <2>3. \A i \in DOMAIN inbox' : inbox'[i].version <= version'
    BY <1>1, <1>2, <1>5
  <2>4. QED BY <1>1, <1>4, <2>1, <2>2, <2>3 DEF ConfigsInOrder
<1>7. \A f : AskedAgain(f) => AskedAgain(f)'
  <2> SUFFICES ASSUME NEW f, NEW i \in DOMAIN inbox, inbox[i] = Invalidate(f)
               PROVE  AskedAgain(f)'
    BY DEF AskedAgain
  <2>1. i \in DOMAIN inbox' /\ inbox'[i] = Invalidate(f)
    BY <1>2
  <2>2. QED BY <2>1 DEF AskedAgain, Invalidate
<1>8. loader'.version # version'
  BY <1>1, <1>4
<1>9. LoaderStages' /\ ClaimsMatch' /\ LastBatchCounts' /\ HeldArrive' /\ OthersGo'
  BY <1>7, <1>8 DEF SyncInv, SetConfig, loaderVars, LoaderStages, ClaimsMatch, LastBatchCounts,
     LastBatchAt, HeldArrive, OthersGo, OnTheWay, Held, Claimed
<1>10. QED BY <1>3, <1>6, <1>9 DEF SyncInv

\* Asking for a file to be read again changes nothing else.
LEMMA AskKeepsOrder ==
  ASSUME SyncInv, NEW f \in DiskFiles, inbox' = Append(inbox, Invalidate(f)),
         version' = version, loader' = loader
  PROVE  /\ ConfigsInOrder' /\ inbox' \in Seq(InboxMessage)
         /\ AskedAgain(f)' /\ \A g : AskedAgain(g) => AskedAgain(g)'
<1> DEFINE m == Invalidate(f)
<1>1. inbox \in Seq(InboxMessage) /\ m \in InboxMessage
  BY SyncAssumption DEF SyncInv, SyncTypeOK, InboxMessage, Invalidate
<1>2. m.kind = "invalidate" /\ m.version = 0
  BY DEF Invalidate
<1> HIDE DEF m
<1>3. /\ inbox' \in Seq(InboxMessage) /\ Len(inbox) \in Nat
      /\ DOMAIN inbox = 1 .. Len(inbox) /\ DOMAIN inbox' = 1 .. Len(inbox) + 1
      /\ \A i \in DOMAIN inbox : inbox'[i] = inbox[i]
      /\ inbox'[Len(inbox) + 1] = m
  BY <1>1, QueueAppend DEF m
<1>4. version \in Nat
  BY DEF SyncInv, SyncTypeOK
<1>5. ConfigsInOrder'
  <2>1. ConfigAwaits => ConfigAwaits'
    BY <1>3 DEF ConfigAwaits
  <2>2. \A i \in DOMAIN inbox' : inbox'[i].version <= version
    BY <1>2, <1>3, <1>4 DEF ConfigsInOrder, SyncInv
  <2>3. ASSUME NEW i \in DOMAIN inbox', LastConfigAt(i)' PROVE i \in DOMAIN inbox /\ LastConfigAt(i)
    BY <1>2, <1>3, <2>3 DEF LastConfigAt
  <2>4. QED BY <1>3, <2>1, <2>2, <2>3 DEF ConfigsInOrder, SyncInv
<1>6. AskedAgain(f)'
  <2>1. Len(inbox) + 1 \in DOMAIN inbox' /\ inbox'[Len(inbox) + 1] = Invalidate(f)
    BY <1>3 DEF m
  <2>2. QED BY <2>1 DEF AskedAgain, Invalidate
<1>7. ASSUME NEW g, AskedAgain(g) PROVE AskedAgain(g)'
  <2>1. PICK i \in DOMAIN inbox : inbox[i] = Invalidate(g)
    BY <1>7 DEF AskedAgain
  <2>2. i \in DOMAIN inbox' /\ inbox'[i] = Invalidate(g)
    BY <1>3, <2>1
  <2>3. QED BY <2>2 DEF AskedAgain, Invalidate
<1>8. QED BY <1>3, <1>5, <1>6, <1>7

\* A document that is closed is read again.
LEMMA CloseFileKeeps ==
  ASSUME SyncInv, NEW f \in DiskFiles, CloseFile(f)
  PROVE  SyncInv'
<1>1. /\ ConfigsInOrder' /\ inbox' \in Seq(InboxMessage)
      /\ AskedAgain(f)' /\ \A g : AskedAgain(g) => AskedAgain(g)'
  BY AskKeepsOrder DEF CloseFile, loaderVars
<1>2. SyncTypeOK'
  BY <1>1 DEF SyncInv, SyncTypeOK, CloseFile, loaderVars, InboxMessage
<1>3. LoaderStages' /\ ClaimsMatch' /\ LastBatchCounts' /\ HeldArrive' /\ OthersGo'
  BY <1>1 DEF SyncInv, CloseFile, loaderVars, LoaderStages, ClaimsMatch, LastBatchCounts,
     LastBatchAt, HeldArrive, OthersGo, OnTheWay, Held, Claimed
<1>4. QED BY <1>1, <1>2, <1>3 DEF SyncInv

\* The client's watcher has a file read again.
LEMMA DidChangeWatchedFileKeeps ==
  ASSUME SyncInv, NEW f \in DiskFiles, DidChangeWatchedFile(f)
  PROVE  SyncInv'
<1>1. /\ ConfigsInOrder' /\ inbox' \in Seq(InboxMessage)
      /\ \A g : AskedAgain(g) => AskedAgain(g)'
  BY AskKeepsOrder DEF DidChangeWatchedFile, mainVars, loaderVars
<1>2. events' \in 0 .. MaxEvents
  BY SyncAssumption DEF SyncInv, SyncTypeOK, DidChangeWatchedFile, AnEvent
<1>3. SyncTypeOK'
  BY <1>1, <1>2 DEF SyncInv, SyncTypeOK, DidChangeWatchedFile, mainVars, loaderVars, InboxMessage
<1>4. LoaderStages' /\ ClaimsMatch' /\ LastBatchCounts' /\ HeldArrive' /\ OthersGo'
  BY <1>1 DEF SyncInv, DidChangeWatchedFile, mainVars, loaderVars, LoaderStages, ClaimsMatch,
     LastBatchCounts, LastBatchAt, HeldArrive, OthersGo, OnTheWay, Held, Claimed
<1>5. QED BY <1>1, <1>3, <1>4 DEF SyncInv

\* An open document is the editor's.
LEMMA OpenFileKeeps ==
  ASSUME SyncInv, NEW f \in DiskFiles, OpenFile(f)
  PROVE  SyncInv'
<1>1. events' \in 0 .. MaxEvents
  BY SyncAssumption DEF SyncInv, SyncTypeOK, OpenFile, AnEvent
<1>2. SyncTypeOK'
  BY <1>1 DEF SyncInv, SyncTypeOK, OpenFile, loaderVars
<1>3. ConfigsInOrder'
  BY SameInbox DEF OpenFile, loaderVars
<1>4. vfsText' = [vfsText EXCEPT ![f] = Typed] /\ vfsText \in [DiskFiles -> Contents \cup {Typed}]
  BY DEF OpenFile, SyncInv, SyncTypeOK
<1>5. /\ Held' = Held /\ Claimed' = Claimed /\ lastSent' = lastSent /\ loader' = loader
      /\ openFiles' = openFiles \cup {f} /\ version' = version /\ lost' = lost
      /\ \A g : AskedAgain(g) => AskedAgain(g)'
      /\ \A g : OnTheWay(g) => OnTheWay(g)'
      /\ \A g \in DiskFiles : g # f => vfsText'[g] = vfsText[g]
      /\ Held \subseteq DiskFiles
  BY <1>4 DEF SyncInv, SyncTypeOK, OpenFile, loaderVars, AskedAgain, Invalidate, OnTheWay,
     Held, Claimed
<1>6. HeldArrive'
  BY <1>5 DEF SyncInv, HeldArrive
<1>7. OthersGo'
  BY <1>5 DEF SyncInv, OthersGo
<1>8. LoaderStages' /\ ClaimsMatch' /\ LastBatchCounts'
  BY DEF SyncInv, OpenFile, loaderVars, LoaderStages, ClaimsMatch, LastBatchCounts, LastBatchAt,
     Held, Claimed
<1>9. QED BY <1>2, <1>3, <1>6, <1>7, <1>8 DEF SyncInv

\* A batch arrives.  If it is the last on the way that names a file, it has the
\* contents sent last; a batch that is not accepted carries another configuration
\* than the loader has, or the main loop has set one the loader does not have.
LEMMA ReceiveLoadedKeeps == SyncInv /\ ReceiveLoaded => SyncInv'
<1> SUFFICES ASSUME SyncInv, ReceiveLoaded PROVE SyncInv'
  OBVIOUS
<1> DEFINE m == channel[1]
<1>1. channel \in Seq(Batch) /\ channel # <<>> /\ channel' = Tail(channel)
  BY DEF SyncInv, SyncTypeOK, Batch, ReceiveLoaded
<1>2. /\ channel' \in Seq(Batch) /\ Len(channel) \in Nat \ {0}
      /\ m \in Batch /\ Head(channel) = m /\ 1 \in DOMAIN channel
      /\ DOMAIN channel = 1 .. Len(channel) /\ DOMAIN channel' = 1 .. Len(channel) - 1
      /\ \A i \in DOMAIN channel' : channel'[i] = channel[i + 1]
  BY <1>1, QueueTail
<1>3. m.batch \in LoadedBatch
  BY <1>2 DEF Batch
<1>4. IF m.version = version
      THEN vfsText' = Apply(m.batch) /\ lost' = lost \ DOMAIN m.batch
      ELSE lost' = lost \cup (DOMAIN m.batch \ LoadedIn(m.batch)) /\ vfsText' = vfsText
  BY <1>2 DEF ReceiveLoaded, Accepts
<1>5. /\ DOMAIN m.batch \subseteq DiskFiles /\ \A f \in DOMAIN m.batch : m.batch[f] \in Contents
      /\ \A f \in DOMAIN m.batch : f \in LoadedIn(m.batch) <=> m.batch[f] # Absent
  BY <1>3, BatchType
<1> HIDE DEF m
<1>6. SyncTypeOK'
  <2>1. vfsText' \in [DiskFiles -> Contents \cup {Typed}] /\ lost' \subseteq DiskFiles
    BY <1>4, <1>5 DEF SyncInv, SyncTypeOK, Apply
  <2>2. QED BY <1>2, <2>1 DEF SyncInv, SyncTypeOK, ReceiveLoaded, loaderVars, Batch
<1>7. ConfigsInOrder'
  BY SameInbox DEF ReceiveLoaded, loaderVars
<1>8. \A j \in DOMAIN channel : j # 1 => j - 1 \in DOMAIN channel' /\ channel'[j - 1] = channel[j]
  BY <1>2
<1>9. ASSUME NEW f \in DiskFiles, NEW i \in DOMAIN channel', LastBatchAt(i, f)'
      PROVE  i + 1 \in DOMAIN channel /\ LastBatchAt(i + 1, f)
  <2>1. i + 1 \in DOMAIN channel /\ f \in DOMAIN channel[i + 1].batch
    BY <1>2, <1>9 DEF LastBatchAt
  <2>2. ASSUME NEW j \in DOMAIN channel, j > i + 1 PROVE f \notin DOMAIN channel[j].batch
    <3>1. j - 1 \in DOMAIN channel' /\ channel'[j - 1] = channel[j] /\ j - 1 > i
      BY <2>2, <1>2, <1>8
    <3>2. QED BY <3>1, <1>9 DEF LastBatchAt
  <2>3. QED BY <2>1, <2>2 DEF LastBatchAt
<1>10. ASSUME NEW f \in DiskFiles, OnTheWay(f), ~OnTheWay(f)'
       PROVE  f \in DOMAIN m.batch /\ LastBatchAt(1, f)
  <2>1. ASSUME NEW j \in DOMAIN channel, j # 1 PROVE f \notin DOMAIN channel[j].batch
    BY <1>8, <1>10, <2>1 DEF OnTheWay
  <2>2. QED BY <1>2, <1>10, <2>1 DEF OnTheWay, LastBatchAt, m
<1>11. ASSUME NEW f \in DiskFiles, ~OnTheWay(f) PROVE ~OnTheWay(f)' /\ f \notin DOMAIN m.batch
  BY <1>2, <1>11 DEF OnTheWay, m
<1>12. ASSUME NEW f \in DiskFiles, LastBatchAt(1, f)
       PROVE  m.batch[f] = lastSent[f] /\ (f \in Held => m.version = loader.version)
  BY <1>2, <1>12 DEF SyncInv, LastBatchCounts, m
<1>13. /\ Held' = Held /\ Claimed' = Claimed /\ lastSent' = lastSent /\ loader' = loader
       /\ openFiles' = openFiles /\ version' = version
       /\ \A f : AskedAgain(f)' <=> AskedAgain(f)
  BY DEF ReceiveLoaded, loaderVars, Held, Claimed, AskedAgain, Invalidate
<1>14. LastBatchCounts'
  BY <1>2, <1>9, <1>13 DEF SyncInv, LastBatchCounts
<1>15. vfsText \in [DiskFiles -> Contents \cup {Typed}] /\ Held \subseteq DiskFiles
  BY DEF SyncInv, SyncTypeOK, Held
<1>16. ASSUME NEW f \in DiskFiles, f \notin openFiles
       PROVE  vfsText'[f] = IF m.version = version /\ f \in DOMAIN m.batch
                            THEN m.batch[f] ELSE vfsText[f]
  BY <1>4, <1>15, <1>16 DEF Apply
<1>17. HeldArrive'
  <2> SUFFICES ASSUME NEW f \in Held, loader.version = version, f \notin openFiles,
                      ~AskedAgain(f), ~OnTheWay(f)'
               PROVE  vfsText'[f] = lastSent[f]
    BY <1>13 DEF HeldArrive
  <2>1. f \in DiskFiles
    BY <1>15
  <2>2. CASE OnTheWay(f)
    BY <2>1, <2>2, <1>10, <1>12, <1>16
  <2>3. CASE ~OnTheWay(f)
    BY <2>1, <2>3, <1>11, <1>16 DEF SyncInv, HeldArrive
  <2>4. QED BY <2>2, <2>3
<1>18. OthersGo'
  <2> SUFFICES ASSUME NEW f \in DiskFiles \ Claimed, f \notin openFiles,
                      ~AskedAgain(f), ~OnTheWay(f)'
               PROVE  vfsText'[f] = Absent \/ f \in lost'
    BY <1>13 DEF OthersGo
  <2>1. lastSent[f] = Absent
    BY DEF SyncInv, ClaimsMatch
  <2>2. CASE OnTheWay(f)
    <3>1. f \in DOMAIN m.batch /\ m.batch[f] = Absent
      BY <2>1, <2>2, <1>10, <1>12
    <3>2. QED BY <3>1, <1>4, <1>5, <1>16
  <2>3. CASE ~OnTheWay(f)
    BY <2>3, <1>4, <1>11, <1>16 DEF SyncInv, OthersGo
  <2>4. QED BY <2>2, <2>3
<1>19. LoaderStages' /\ ClaimsMatch'
  BY <1>13 DEF SyncInv, ReceiveLoaded, loaderVars, LoaderStages, ClaimsMatch
<1>20. QED BY <1>6, <1>7, <1>14, <1>17, <1>18, <1>19 DEF SyncInv

-----------------------------------------------------------------------------
(* What the loader delivers *)

\* At the start nothing is known of any file.
LEMMA InitSync == SyncInit => SyncInv
<1> SUFFICES ASSUME SyncInit PROVE SyncInv
  OBVIOUS
<1>1. SyncTypeOK
  BY SyncAssumption, EmptySeq DEF SyncInit, SyncTypeOK, Contents, IdleLoader
<1>2. Held = {} /\ Claimed = {} /\ DOMAIN inbox = {} /\ DOMAIN channel = {}
  BY DEF SyncInit, Held, Claimed, IdleLoader
<1>3. LoaderStages /\ ConfigsInOrder
  BY <1>2 DEF SyncInit, LoaderStages, ConfigsInOrder, IdleLoader
<1>4. ClaimsMatch /\ LastBatchCounts /\ HeldArrive /\ OthersGo
  BY <1>2 DEF SyncInit, ClaimsMatch, LastBatchCounts, HeldArrive, OthersGo
<1>5. QED BY <1>1, <1>3, <1>4 DEF SyncInv

\* Every step of the two threads keeps the invariant.
LEMMA SyncStep == SyncInv /\ [SyncNext]_syncVars => SyncInv'
<1> SUFFICES ASSUME SyncInv, [SyncNext]_syncVars PROVE SyncInv'
  OBVIOUS
<1>1. CASE TakeConfig     BY <1>1, TakeConfigKeeps
<1>2. CASE \E f \in DiskFiles : LoadEntry(f)
  BY <1>2, LoadEntryKeeps
<1>3. CASE FinishConfig   BY <1>3, FinishConfigKeeps
<1>4. CASE TakeInvalidate BY <1>4, TakeInvalidateKeeps
<1>5. CASE TakeWatcherEvent BY <1>5, TakeWatcherEventKeeps
<1>6. CASE \E files \in SUBSET DiskFiles : SetConfig(files)
  BY <1>6, SetConfigKeeps
<1>7. CASE ReceiveLoaded  BY <1>7, ReceiveLoadedKeeps
<1>8. CASE \E f \in DiskFiles : OpenFile(f)
  BY <1>8, OpenFileKeeps
<1>9. CASE \E f \in DiskFiles : CloseFile(f)
  BY <1>9, CloseFileKeeps
<1>10. CASE \E f \in DiskFiles : DidChangeWatchedFile(f)
  BY <1>10, DidChangeWatchedFileKeeps
<1>11. CASE UNCHANGED syncVars
  <2>1. /\ UNCHANGED <<version, openFiles, vfsText, lost>>
        /\ UNCHANGED <<loader, loadedPaths, lastSent, inbox, channel, events>>
    BY <1>11 DEF syncVars, mainVars, loaderVars
  <2>2. SyncTypeOK' /\ LoaderStages' /\ ClaimsMatch' /\ LastBatchCounts'
    BY <2>1 DEF SyncInv, SyncTypeOK, LoaderStages, ClaimsMatch, LastBatchCounts, LastBatchAt, Held, Claimed
  <2>3. ConfigsInOrder'
    BY <2>1, SameInbox
  <2>4. HeldArrive' /\ OthersGo'
    BY <2>1 DEF SyncInv, HeldArrive, OthersGo, AskedAgain, Invalidate, OnTheWay, Held, Claimed
  <2>5. QED BY <2>2, <2>3, <2>4 DEF SyncInv
<1>12. QED
  BY <1>1, <1>2, <1>3, <1>4, <1>5, <1>6, <1>7, <1>8, <1>9, <1>10, <1>11 DEF SyncNext

\* The inductive invariant: what the last batch on the way says, who answers for a
\* file, and which configuration the loader has or will get.
THEOREM SyncInvariant == SyncSpec => []SyncInv
BY InitSync, SyncStep, PTL DEF SyncSpec

\* The state of the loader, of the main loop and of the messages between them keeps
\* its type.
THEOREM SyncTypeCorrect == SyncSpec => []SyncTypeOK
<1>1. SyncInv => SyncTypeOK BY DEF SyncInv
<1>2. QED BY <1>1, SyncInvariant, PTL

\* When all is settled, what the loader counts as loaded is in the VFS with the
\* contents read last (the drop of stale batches in main_loop.rs loses none of it).
THEOREM LoadedDelivered == SyncSpec => []Delivered
<1>1. SyncInv => Delivered
  <2> SUFFICES ASSUME SyncInv, Settled, NEW f \in loadedPaths \ openFiles
               PROVE  vfsText[f] = lastSent[f] /\ lastSent[f] # Absent
    BY DEF Delivered
  <2>1. DOMAIN inbox = {} /\ DOMAIN channel = {}
    BY DEF Settled
  <2>2. ~ConfigAwaits /\ ~AskedAgain(f) /\ ~OnTheWay(f)
    BY <2>1 DEF ConfigAwaits, AskedAgain, OnTheWay
  <2>3. f \in Held /\ f \in Claimed /\ f \in DiskFiles
    BY DEF Held, Claimed, SyncInv, SyncTypeOK
  <2>4. QED BY <2>2, <2>3 DEF SyncInv, ConfigsInOrder, HeldArrive, ClaimsMatch
<1>2. QED BY <1>1, SyncInvariant, PTL

\* When all is settled, a file that is left in the VFS, not open and not loaded, is
\* one whose unloading was dropped as stale.
THEOREM GhostsAreLost == SyncSpec => []GhostsExplained
<1>1. SyncInv => GhostsExplained
  <2> SUFFICES ASSUME SyncInv, Settled, NEW f \in DiskFiles \ (openFiles \cup loadedPaths)
               PROVE  vfsText[f] = Absent \/ f \in lost
    BY DEF GhostsExplained
  <2>1. DOMAIN inbox = {} /\ DOMAIN channel = {}
    BY DEF Settled
  <2>2. ~AskedAgain(f) /\ ~OnTheWay(f)
    BY <2>1 DEF AskedAgain, OnTheWay
  <2>3. f \notin Claimed
    BY DEF Settled, Claimed, Held, SyncInv, LoaderStages, IdleLoader
  <2>4. QED BY <2>2, <2>3 DEF SyncInv, OthersGo
<1>2. QED BY <1>1, SyncInvariant, PTL

-----------------------------------------------------------------------------
(* From the log to the database: coalescing *)

NetChange(log) == Coalescing(log)[Len(log)]

FlipsIn(log, f) == Cardinality({i \in DOMAIN log : log[i].file = f /\ log[i].kind # "modify"})

Blank == [f \in FileIds |-> NoEntry]

Below == {p \in Nat \X Nat : p[1] < p[2]}

\* A set of numbers has a least one.
LEMMA LeastOf ==
  ASSUME NEW S, S \subseteq Nat, S # {}
  PROVE  \E m \in S : \A n \in S : m <= n
<1>1. IsWellFoundedOn(Below, Nat)
  BY NatLessThanWellFounded DEF OpToRel, Below
<1>2. PICK m \in S : \A n \in S : <<n, m>> \notin Below
  BY <1>1, WFMin
<1>3. ASSUME NEW n \in S PROVE m <= n
  <2>1. <<n, m>> \in Nat \X Nat OBVIOUS
  <2>2. ~(<<n, m>>[1] < <<n, m>>[2]) BY <1>2, <2>1 DEF Below
  <2>3. QED BY <2>2
<1>4. QED BY <1>3

\* The entries can be computed up to any change of the log.
LEMMA PrefixCoalesces ==
  ASSUME NEW log, NEW n \in Nat
  PROVE  \E g : g = [i \in 0 .. n |-> IF i = 0 THEN Blank ELSE AddChange(g[i - 1], log[i])]
<1> DEFINE Step(g, i) == IF i = 0 THEN Blank ELSE AddChange(g[i - 1], log[i])
           Run(g, m)  == g = [i \in 0 .. m |-> Step(g, i)]
           S          == {m \in Nat : ~\E g : Run(g, m)}
<1>1. SUFFICES ASSUME S # {} PROVE FALSE
  BY <1>1
<1>2. PICK m \in S : \A k \in S : m <= k
  BY <1>1, LeastOf
<1>3. CASE m = 0
  <2> DEFINE h == [i \in 0 .. 0 |-> Blank]
  <2>1. Run(h, 0)
    OBVIOUS
  <2>2. QED BY <1>2, <1>3, <2>1
<1>4. CASE m # 0
  <2>1. m - 1 \in Nat /\ m - 1 \notin S
    <3>1. S \subseteq Nat
      OBVIOUS
    <3> HIDE DEF S
    <3>2. m \in Nat
      BY <1>2, <3>1
    <3>3. m - 1 \in Nat /\ ~(m <= m - 1)
      BY <1>4, <3>2
    <3>4. QED BY <1>2, <3>3
  <2>2. PICK g : Run(g, m - 1)
    BY <2>1
  <2> DEFINE h == [i \in 0 .. m |-> IF i = m THEN AddChange(g[m - 1], log[m]) ELSE g[i]]
  <2>3. ASSUME NEW i \in 0 .. m PROVE h[i] = Step(h, i)
    <3>1. CASE i = 0
      BY <1>4, <2>2, <3>1
    <3>2. CASE i # 0 /\ i = m
      BY <2>1, <3>2
    <3>3. CASE i # 0 /\ i # m
      <4>1. i \in 0 .. (m - 1) /\ i - 1 \in 0 .. m /\ i - 1 # m
        BY <2>1, <3>3
      <4>2. h[i] = g[i] /\ h[i - 1] = g[i - 1]
        BY <4>1
      <4>3. g[i] = Step(g, i)
        BY <2>2, <4>1
      <4>4. QED BY <3>3, <4>2, <4>3
    <3>4. QED BY <3>1, <3>2, <3>3
  <2>4. h = [i \in 0 .. m |-> h[i]]
    OBVIOUS
  <2> HIDE DEF h
  <2>5. Run(h, m)
    BY <2>3, <2>4
  <2>6. QED BY <1>2, <2>5
<1>5. QED BY <1>3, <1>4

\* What the loop over the log computes.
LEMMA CoalescingSteps ==
  ASSUME NEW log, Len(log) \in Nat
  PROVE  /\ Coalescing(log)[0] = Blank
         /\ \A i \in 1 .. Len(log) : Coalescing(log)[i] = AddChange(Coalescing(log)[i - 1], log[i])
<1> DEFINE Run(g) == g = [i \in 0 .. Len(log) |->
                            IF i = 0 THEN Blank ELSE AddChange(g[i - 1], log[i])]
           c == Coalescing(log)
<1>1. \E g : Run(g)
  BY PrefixCoalesces
<1>2. c = CHOOSE g : Run(g)
  BY DEF Coalescing, Blank
<1> HIDE DEF c
<1>3. Run(c)
  BY <1>1, <1>2, Zenon
<1>4. QED BY <1>3 DEF c

\* Nothing is coalesced from an empty log.
LEMMA NetOfNothing == NetChange(<<>>) = Blank
<1>1. Len(<<>>) = 0
  OBVIOUS
<1>2. QED BY <1>1, CoalescingSteps DEF NetChange

\* One more change of the log is coalesced with what is there.
LEMMA NetOfAppend ==
  ASSUME NEW T, NEW log \in Seq(T), NEW c \in T
  PROVE  NetChange(Append(log, c)) = AddChange(NetChange(log), c)
<1> DEFINE more == Append(log, c)
           a == Coalescing(log)
           b == Coalescing(more)
           S == {i \in Nat : i <= Len(log) /\ a[i] # b[i]}
<1>1. /\ more \in Seq(T) /\ Len(log) \in Nat /\ Len(more) = Len(log) + 1
      /\ more[Len(log) + 1] = c /\ \A i \in 1 .. Len(log) : more[i] = log[i]
  OBVIOUS
<1> HIDE DEF more
<1>2. /\ a[0] = Blank /\ \A i \in 1 .. Len(log) : a[i] = AddChange(a[i - 1], log[i])
      /\ b[0] = Blank /\ \A i \in 1 .. Len(more) : b[i] = AddChange(b[i - 1], more[i])
  <2>1. a[0] = Blank /\ \A i \in 1 .. Len(log) : a[i] = AddChange(a[i - 1], log[i])
    BY <1>1, CoalescingSteps
  <2>2. b[0] = Blank /\ \A i \in 1 .. Len(more) : b[i] = AddChange(b[i - 1], more[i])
    <3>1. Len(more) \in Nat
      BY <1>1
    <3>2. QED BY <3>1, CoalescingSteps
  <2>3. QED BY <2>1, <2>2
<1> HIDE DEF a, b
<1>3. S = {}
  <2> SUFFICES ASSUME S # {} PROVE FALSE
    OBVIOUS
  <2>1. PICK i \in S : \A k \in S : i <= k
    BY LeastOf
  <2>2. i # 0 /\ i \in 1 .. Len(log) /\ i \in 1 .. Len(more) /\ i - 1 \in Nat /\ i - 1 <= Len(log)
    BY <1>1, <1>2, <2>1
  <2>3. i - 1 \notin S
    BY <2>1, <2>2
  <2>4. a[i - 1] = b[i - 1] /\ more[i] = log[i]
    BY <1>1, <2>2, <2>3
  <2>5. a[i] = b[i]
    BY <1>2, <2>2, <2>4
  <2>6. QED BY <2>1, <2>5
<1>4. a[Len(log)] = b[Len(log)]
  BY <1>1, <1>3
<1>5. b[Len(more)] = AddChange(b[Len(log)], c)
  <2>1. Len(more) \in 1 .. Len(more) /\ Len(more) - 1 = Len(log)
    BY <1>1
  <2>2. QED BY <1>1, <1>2, <2>1
<1>6. QED BY <1>4, <1>5 DEF NetChange, a, b, more

\* The flips that one more change adds.
LEMMA FlipsOfAppend ==
  ASSUME NEW log \in Seq(Change), NEW c \in Change, NEW f \in FileIds
  PROVE  /\ FlipsIn(log, f) \in Nat
         /\ FlipsIn(Append(log, c), f) =
              IF c.file = f /\ c.kind # "modify" THEN FlipsIn(log, f) + 1 ELSE FlipsIn(log, f)
<1> DEFINE F(l) == {i \in DOMAIN l : l[i].file = f /\ l[i].kind # "modify"}
           more == Append(log, c)
           last == Len(log) + 1
<1>1. IsFiniteSet(F(log)) /\ Cardinality(F(log)) \in Nat /\ last \notin F(log)
  <2>1. IsFiniteSet(1 .. Len(log))
    BY FS_Interval
  <2>2. F(log) \subseteq 1 .. Len(log)
    OBVIOUS
  <2>3. last \notin 1 .. Len(log)
    OBVIOUS
  <2>4. QED BY <2>1, <2>2, <2>3, FS_Subset, FS_CardinalityType
<1>2. /\ DOMAIN more = DOMAIN log \cup {last} /\ more[last] = c
      /\ \A i \in DOMAIN log : more[i] = log[i]
  OBVIOUS
<1> HIDE DEF more, last
<1>3. F(more) = IF c.file = f /\ c.kind # "modify" THEN F(log) \cup {last} ELSE F(log)
  BY <1>2
<1>4. Cardinality(F(log) \cup {last}) = Cardinality(F(log)) + 1
  BY <1>1, FS_AddElement
<1> HIDE DEF F
<1>5. QED BY <1>1, <1>3, <1>4 DEF FlipsIn, F, more

\* There is no flip in an empty log.
LEMMA FlipsOfNothing == ASSUME NEW f PROVE FlipsIn(<<>>, f) = 0
<1>1. {i \in DOMAIN <<>> : <<>>[i].file = f /\ <<>>[i].kind # "modify"} = {}
  OBVIOUS
<1>2. QED BY <1>1, FS_EmptySet DEF FlipsIn

-----------------------------------------------------------------------------
(* From the log to the database: the turns *)

Entry(kind, text, just) == [kind |-> kind, text |-> text, justCreated |-> just]

\* What the entry e and the flips k say of a file that has the text s in the VFS and had
\* the text was when the turn began, as long as there are no more than two flips.
Stands(e, k, s, was) ==
  \/ e = NoEntry /\ k = 0 /\ s = was
  \/ was = Deleted /\ s # Deleted /\ k = 1 /\ e = Entry("create", s, TRUE)
  \/ was = Deleted /\ s = Deleted /\ k = 2 /\ e = Entry("delete", s, TRUE)
  \/ was # Deleted /\ s # Deleted /\ k = 0 /\ e = Entry("modify", s, FALSE)
  \/ was # Deleted /\ s = Deleted /\ k = 1 /\ e = Entry("delete", s, FALSE)
  \/ was # Deleted /\ s # Deleted /\ k = 2 /\ e = Entry("modify", s, TRUE)

\* The log and the VFS after one more write.
Grown(log, state, f, new) == Append(log, Write(f, state[f], new))
Put(state, f, new)        == [state EXCEPT ![f] = new]

\* The entry of a file after one more change, and the flips.
Taken(e, c)     == IF e = NoEntry THEN FirstEntry(c) ELSE Coalesce(e, c)
FlippedBy(k, c) == IF c.kind # "modify" THEN k + 1 ELSE k

LogStands(log, state, db) ==
  /\ NetChange(log) = [f \in FileIds |-> NetChange(log)[f]]
  /\ \A f \in FileIds : Stands(NetChange(log)[f], FlipsIn(log, f), state[f], db[f])

FilesInv ==
  /\ FilesTypeOK
  /\ ~panicked
  /\ LogStands(changes, fileState, dbText)
  /\ \A f \in FileIds : ~OwnsPath(f) => fileState[f] = Deleted
  /\ roots = {f \in FileIds : dbText[f] # Deleted}
  /\ roots \subseteq placed

\* A written change is one.
LEMMA WriteType ==
  ASSUME NEW f \in FileIds, NEW old \in FileTexts \cup {Deleted},
         NEW new \in FileTexts \cup {Deleted}
  PROVE  /\ Write(f, old, new) \in Change
         /\ Write(f, old, new).file = f /\ Write(f, old, new).text = new
         /\ Write(f, old, new).kind = IF new = Deleted THEN "delete"
                                      ELSE IF old = Deleted THEN "create" ELSE "modify"
BY DEF Write, Change, Kind

\* How an entry takes one more change.
LEMMA EntryStands ==
  ASSUME NEW e, NEW k \in Nat, NEW s, NEW was, NEW new, NEW f,
         Stands(e, k, s, was), new # s, Deleted \in {new, s} => k < 2
  PROVE  Stands(Taken(e, Write(f, s, new)), FlippedBy(k, Write(f, s, new)), new, was)
<1> DEFINE c == Write(f, s, new)
           n == Taken(e, c)
           m == FlippedBy(k, c)
<1>0. /\ c = Write(f, s, new)
      /\ n = IF e = NoEntry THEN FirstEntry(c) ELSE Coalesce(e, c)
      /\ m = IF c.kind # "modify" THEN k + 1 ELSE k
  BY DEF Taken, FlippedBy
<1> HIDE DEF c, n, m
<1> SUFFICES Stands(n, m, new, was)
  BY DEF n, m, c
<1>1. /\ c.text = new
      /\ new = Deleted => c.kind = "delete" /\ m = k + 1
      /\ new # Deleted /\ s = Deleted => c.kind = "create" /\ m = k + 1
      /\ new # Deleted /\ s # Deleted => c.kind = "modify" /\ m = k
  BY <1>0 DEF Write
<1>2. \A kind, text, just : Entry(kind, text, just) # NoEntry
  BY DEF Entry, NoEntry
<1>3. CASE e = NoEntry
  <2>1. /\ c.kind = "create" => n = Entry("create", new, TRUE)
        /\ c.kind = "modify" => n = Entry("modify", new, FALSE)
        /\ c.kind = "delete" => n = Entry("delete", new, FALSE)
    BY <1>0, <1>1, <1>3 DEF FirstEntry, Entry
  <2>e. s = was /\ k = 0
    BY <1>2, <1>3 DEF Stands
  <2>2. CASE new = Deleted
    <3>1. m = 1
      BY <1>1, <2>2, <2>e
    <3>2. QED BY <1>1, <2>1, <2>2, <2>e, <3>1 DEF Stands
  <2>3. CASE new # Deleted /\ s = Deleted
    <3>1. m = 1
      BY <1>1, <2>3, <2>e
    <3>2. QED BY <1>1, <2>1, <2>3, <2>e, <3>1 DEF Stands
  <2>4. CASE new # Deleted /\ s # Deleted
    BY <1>1, <2>1, <2>4, <2>e DEF Stands
  <2>5. QED BY <2>2, <2>3, <2>4
<1>4. CASE e # NoEntry
  <2>1. n = Coalesce(e, c)
    BY <1>0, <1>4
  <2>2. CASE was = Deleted /\ s # Deleted /\ k = 1 /\ e = Entry("create", s, TRUE)
    <3>1. new = Deleted => n = Entry("delete", new, TRUE)
      BY <1>1, <2>1, <2>2 DEF Coalesce, Entry
    <3>2. new # Deleted => n = Entry("create", new, TRUE)
      BY <1>1, <2>1, <2>2 DEF Coalesce, Entry
    <3>3. m = IF new = Deleted THEN 2 ELSE 1
      BY <1>1, <2>2
    <3>4. QED BY <2>2, <3>1, <3>2, <3>3 DEF Stands
  <2>3. CASE was # Deleted /\ s # Deleted /\ k = 0 /\ e = Entry("modify", s, FALSE)
    <3>1. new = Deleted => n = Entry("delete", new, FALSE)
      BY <1>1, <2>1, <2>3 DEF Coalesce, Entry
    <3>2. new # Deleted => n = Entry("modify", new, FALSE)
      BY <1>1, <2>1, <2>3 DEF Coalesce, Entry
    <3>3. m = IF new = Deleted THEN 1 ELSE 0
      BY <1>1, <2>3
    <3>4. QED BY <2>3, <3>1, <3>2, <3>3 DEF Stands
  <2>4. CASE was # Deleted /\ s = Deleted /\ k = 1 /\ e = Entry("delete", s, FALSE)
    <3>1. new # Deleted
      BY <2>4
    <3>2. n = Entry("modify", new, TRUE)
      BY <1>1, <2>1, <2>4, <3>1 DEF Coalesce, Entry
    <3>3. m = 2
      BY <1>1, <2>4
    <3>4. QED BY <2>4, <3>1, <3>2, <3>3 DEF Stands
  <2>5. CASE was # Deleted /\ s # Deleted /\ k = 2 /\ e = Entry("modify", s, TRUE)
    <3>1. new # Deleted
      BY <2>5
    <3>2. n = Entry("modify", new, TRUE)
      BY <1>1, <2>1, <2>5, <3>1 DEF Coalesce, Entry
    <3>3. QED BY <1>1, <2>5, <3>1, <3>2 DEF Stands
  <2>6. CASE was = Deleted /\ s = Deleted /\ k = 2 /\ e = Entry("delete", s, TRUE)
    BY <2>6
  <2>7. QED BY <1>4, <2>2, <2>3, <2>4, <2>5, <2>6 DEF Stands
<1>5. QED BY <1>3, <1>4

\* One more write.
LEMMA WriteStands ==
  ASSUME NEW log \in Seq(Change), NEW state \in [FileIds -> FileTexts \cup {Deleted}], NEW db,
         LogStands(log, state, db), NEW f \in FileIds, NEW new \in FileTexts \cup {Deleted},
         new # state[f], Deleted \in {new, state[f]} => FlipsIn(log, f) < 2
  PROVE  /\ Grown(log, state, f, new) \in Seq(Change)
         /\ Put(state, f, new) \in [FileIds -> FileTexts \cup {Deleted}]
         /\ LogStands(Grown(log, state, f, new), Put(state, f, new), db)
         /\ \A g \in FileIds : g # f => FlipsIn(Grown(log, state, f, new), g) = FlipsIn(log, g)
<1> DEFINE c == Write(f, state[f], new)
           more == Append(log, c)
           net  == NetChange(log)
           next == [state EXCEPT ![f] = new]
<1>1. c \in Change /\ c.file = f /\ more \in Seq(Change)
  <2>1. state[f] \in FileTexts \cup {Deleted}
    OBVIOUS
  <2>2. c \in Change /\ c.file = f
    BY <2>1, WriteType
  <2> HIDE DEF c
  <2>3. QED BY <2>2
<1>c. c = Write(f, state[f], new)
  OBVIOUS
<1> HIDE DEF c
<1>2. NetChange(more) = [net EXCEPT ![f] = IF net[f] = NoEntry THEN FirstEntry(c)
                                           ELSE Coalesce(net[f], c)]
  BY <1>1, NetOfAppend DEF AddChange
<1>3. \A g \in FileIds : FlipsIn(log, g) \in Nat
                      /\ FlipsIn(more, g) = IF f = g /\ c.kind # "modify" THEN FlipsIn(log, g) + 1
                                            ELSE FlipsIn(log, g)
  BY <1>1, FlipsOfAppend
<1> HIDE DEF net, more
<1>4. /\ net = [g \in FileIds |-> net[g]]
      /\ \A g \in FileIds : Stands(net[g], FlipsIn(log, g), state[g], db[g])
  BY DEF LogStands, net
<1>5. /\ NetChange(more) = [g \in FileIds |-> NetChange(more)[g]]
      /\ NetChange(more)[f] = IF net[f] = NoEntry THEN FirstEntry(c) ELSE Coalesce(net[f], c)
      /\ \A g \in FileIds : g # f => NetChange(more)[g] = net[g]
  BY <1>2, <1>4
<1>6. next[f] = new /\ \A g \in FileIds : g # f => next[g] = state[g]
  OBVIOUS
<1> HIDE DEF next
<1>7. ASSUME NEW g \in FileIds
      PROVE  Stands(NetChange(more)[g], FlipsIn(more, g), next[g], db[g])
  <2>1. CASE g = f
    <3>1. FlipsIn(log, f) \in Nat /\ Stands(net[f], FlipsIn(log, f), state[f], db[f])
      BY <1>3, <1>4
    <3>2. FlipsIn(more, f) = IF c.kind # "modify" THEN FlipsIn(log, f) + 1 ELSE FlipsIn(log, f)
      BY <1>3
    <3>3. Stands(Taken(net[f], c), FlippedBy(FlipsIn(log, f), c), new, db[f])
      BY <1>c, <3>1, EntryStands
    <3>4. NetChange(more)[f] = Taken(net[f], c) /\ FlipsIn(more, f) = FlippedBy(FlipsIn(log, f), c)
      BY <1>5, <3>2 DEF Taken, FlippedBy
    <3>5. QED BY <1>6, <2>1, <3>3, <3>4
  <2>2. CASE g # f
    BY <1>3, <1>4, <1>5, <1>6, <2>2
  <2>3. QED BY <2>1, <2>2
<1>8. LogStands(more, next, db)
  BY <1>5, <1>7 DEF LogStands
<1>9. QED BY <1>1, <1>3, <1>8 DEF more, next, c, Grown, Put

\* No change has been coalesced at the start of a turn.
LEMMA EmptyStands ==
  ASSUME NEW state, NEW db, \A f \in FileIds : state[f] = db[f]
  PROVE  LogStands(<<>>, state, db)
<1>1. NetChange(<<>>) = [f \in FileIds |-> NoEntry]
  BY NetOfNothing DEF Blank
<1>2. QED BY <1>1, FlipsOfNothing DEF LogStands, Stands

\* Appending one element, and appending two or none.
LEMMA LogGrows ==
  ASSUME NEW T, NEW log \in Seq(T), NEW c \in T, NEW d \in T
  PROVE  /\ log \o <<>> \o <<d>> = Append(log, d)
         /\ log \o <<c>> \o <<d>> = Append(Append(log, c), d)
OBVIOUS

\* What a turn makes of a file.
LEMMA TurnStands ==
  ASSUME FilesInv, NEW f \in FileIds, NEW e, e = Coalesced(f)
  PROVE  /\ f \in Touched <=> e # NoEntry
         /\ f \in NetChanges <=> e # NoEntry /\ ~(e.justCreated /\ e.kind = "delete")
         /\ (IF f \in NetChanges THEN AppliedText(f) ELSE dbText[f]) = fileState[f]
         /\ f \in NetChanges => f \in roots \/ (e.kind # "modify" /\ f \in Existing)
         /\ (f \in NetChanges => e.kind = "modify") => (f \in roots <=> f \in Existing)
<1>1. /\ Stands(e, FlipsIn(changes, f), fileState[f], dbText[f])
      /\ roots = {g \in FileIds : dbText[g] # Deleted}
  BY DEF FilesInv, LogStands, Coalesced, NetChange
<1>2. /\ f \in Touched <=> e # NoEntry
      /\ f \in NetChanges <=> e # NoEntry /\ ~(e.justCreated /\ e.kind = "delete")
  BY DEF Touched, NetChanges
<1>3. \A kind, text, just : Entry(kind, text, just) # NoEntry
  BY DEF Entry, NoEntry
<1>4. AppliedText(f) = IF e.kind = "modify" /\ dbText[f] = Deleted THEN Deleted ELSE e.text
  BY DEF AppliedText
<1>5. f \in Existing <=> fileState[f] # Deleted
  BY DEF Existing
<1>6. CASE e = NoEntry /\ fileState[f] = dbText[f]
  BY <1>1, <1>2, <1>5, <1>6
<1>7. CASE dbText[f] = Deleted /\ fileState[f] # Deleted /\ e = Entry("create", fileState[f], TRUE)
  BY <1>1, <1>2, <1>3, <1>4, <1>5, <1>7 DEF Entry
<1>8. CASE dbText[f] = Deleted /\ fileState[f] = Deleted /\ e = Entry("delete", fileState[f], TRUE)
  BY <1>1, <1>2, <1>3, <1>4, <1>5, <1>8 DEF Entry
<1>9. CASE dbText[f] # Deleted /\ fileState[f] # Deleted /\ e = Entry("modify", fileState[f], FALSE)
  BY <1>1, <1>2, <1>3, <1>4, <1>5, <1>9 DEF Entry
<1>10. CASE dbText[f] # Deleted /\ fileState[f] = Deleted /\ e = Entry("delete", fileState[f], FALSE)
  BY <1>1, <1>2, <1>3, <1>4, <1>5, <1>10 DEF Entry
<1>11. CASE dbText[f] # Deleted /\ fileState[f] # Deleted /\ e = Entry("modify", fileState[f], TRUE)
  BY <1>1, <1>2, <1>3, <1>4, <1>5, <1>11 DEF Entry
<1>12. QED BY <1>1, <1>6, <1>7, <1>8, <1>9, <1>10, <1>11 DEF Stands

\* After a step.
LEMMA StandsAfter ==
  ASSUME LogStands(changes', fileState', dbText')
  PROVE  LogStands(changes, fileState, dbText)'
BY DEF LogStands, Stands, NetChange, FlipsIn, Coalescing, AddChange

\* The turn: the database has what the VFS has, and the log is empty.
LEMMA ApplyKeeps == FilesInv /\ ApplyChanges => FilesInv'
<1> SUFFICES ASSUME FilesInv, ApplyChanges PROVE FilesInv'
  OBVIOUS
<1>1. /\ FilesTypeOK /\ roots = {f \in FileIds : dbText[f] # Deleted} /\ roots \subseteq placed
      /\ \A f \in FileIds : ~OwnsPath(f) => fileState[f] = Deleted
  BY DEF FilesInv
<1>2. /\ changes' = <<>> /\ fileState' = fileState /\ redirects' = redirects
      /\ roots' = IF HasStructureChanges THEN Existing ELSE roots
      /\ placed' = placed \cup roots'
      /\ panicked' = ~(NetChanges \subseteq placed')
      /\ dbText' = IF panicked' THEN dbText
                   ELSE [f \in FileIds |-> IF f \in NetChanges THEN AppliedText(f) ELSE dbText[f]]
  BY DEF ApplyChanges
<1>3. \A f \in NetChanges : f \in placed'
  <2> SUFFICES ASSUME NEW f \in NetChanges PROVE f \in placed'
    OBVIOUS
  <2>1. f \in FileIds
    BY DEF NetChanges, Touched
  <2>2. f \in roots \/ (Coalesced(f).kind # "modify" /\ f \in Existing)
    BY <2>1, TurnStands
  <2>3. QED BY <1>1, <1>2, <2>2 DEF HasStructureChanges
<1>4. ~panicked'
  BY <1>2, <1>3
<1>5. dbText' = fileState
  <2>1. \A f \in FileIds : (IF f \in NetChanges THEN AppliedText(f) ELSE dbText[f]) = fileState[f]
    BY TurnStands
  <2>2. fileState \in [FileIds -> FileTexts \cup {Deleted}]
    BY <1>1 DEF FilesTypeOK
  <2>3. QED BY <1>2, <1>4, <2>1, <2>2
<1>6. roots' = Existing
  <2>1. CASE HasStructureChanges
    BY <1>2, <2>1
  <2>2. CASE ~HasStructureChanges
    <3>1. \A f \in FileIds : f \in roots <=> f \in Existing
      BY <2>2, TurnStands DEF HasStructureChanges
    <3>2. QED BY <1>1, <1>2, <2>2, <3>1 DEF Existing
  <2>3. QED BY <2>1, <2>2
<1>7. FilesTypeOK'
  <2>1. Existing \subseteq FileIds /\ <<>> \in Seq(Change)
    BY DEF Existing
  <2>2. panicked' \in BOOLEAN
    BY <1>2
  <2>3. QED BY <1>1, <1>2, <1>5, <1>6, <2>1, <2>2 DEF FilesTypeOK
<1>8. LogStands(changes', fileState', dbText')
  BY <1>2, <1>5, EmptyStands
<1>9. roots' = {f \in FileIds : dbText'[f] # Deleted}
  BY <1>5, <1>6 DEF Existing
<1>10. \A f \in FileIds : ~OwnsPath(f)' => fileState'[f] = Deleted
  BY <1>1, <1>2 DEF OwnsPath
<1>11. LogStands(changes, fileState, dbText)'
  BY <1>8, StandsAfter
<1>12. QED
  BY <1>2, <1>4, <1>7, <1>9, <1>10, <1>11 DEF FilesInv

\* A write to the VFS is logged.
LEMMA WriteFileKeeps ==
  ASSUME MaxFlips <= 2, FilesInv, NEW f \in FileIds, NEW new \in FileTexts \cup {Deleted},
         WriteFile(f, new)
  PROVE  FilesInv'
<1> DEFINE c == Write(f, fileState[f], new)
<1>1. /\ FilesTypeOK /\ ~panicked /\ LogStands(changes, fileState, dbText)
      /\ roots = {g \in FileIds : dbText[g] # Deleted} /\ roots \subseteq placed
      /\ \A g \in FileIds : ~OwnsPath(g) => fileState[g] = Deleted
  BY DEF FilesInv
<1>2. changes \in Seq(Change) /\ fileState \in [FileIds -> FileTexts \cup {Deleted}]
  BY <1>1 DEF FilesTypeOK
<1>3. /\ OwnsPath(f) /\ new # fileState[f]
      /\ Deleted \in {new, fileState[f]} => Flips(f) < MaxFlips
      /\ fileState' = [fileState EXCEPT ![f] = new]
      /\ changes' = Append(changes, c)
      /\ UNCHANGED <<redirects, dbText, roots, placed, panicked>>
  BY DEF WriteFile
<1>4. c \in Change
  <2>1. fileState[f] \in FileTexts \cup {Deleted}
    BY <1>2
  <2>2. QED BY <2>1, WriteType
<1>5. Deleted \in {new, fileState[f]} => FlipsIn(changes, f) < 2
  <2>1. Flips(f) = FlipsIn(changes, f) /\ FlipsIn(changes, f) \in Nat
    BY <1>2, <1>4, FlipsOfAppend DEF Flips, FlipsIn
  <2>2. QED BY <1>3, <2>1, LogAssumption
<1>6. changes' = Grown(changes, fileState, f, new) /\ fileState' = Put(fileState, f, new)
  BY <1>3 DEF Grown, Put
<1> HIDE DEF c
<1>7. changes' \in Seq(Change) /\ LogStands(changes', fileState', dbText)
  <2>1. new # fileState[f] /\ (Deleted \in {new, fileState[f]} => FlipsIn(changes, f) < 2)
    BY <1>3, <1>5
  <2>2. /\ Grown(changes, fileState, f, new) \in Seq(Change)
        /\ LogStands(Grown(changes, fileState, f, new), Put(fileState, f, new), dbText)
    BY <1>1, <1>2, <2>1, WriteStands
  <2>3. QED BY <1>6, <2>2
<1>8. LogStands(changes, fileState, dbText)'
  BY <1>3, <1>7, StandsAfter
<1>9. FilesTypeOK'
  BY <1>1, <1>2, <1>3, <1>7 DEF FilesTypeOK
<1>10. \A g \in FileIds : ~OwnsPath(g)' => fileState'[g] = Deleted
  BY <1>1, <1>2, <1>3 DEF OwnsPath
<1>11. QED BY <1>1, <1>3, <1>8, <1>9, <1>10 DEF FilesInv

\* A merge: at most a flip of either file, and the later one is gone.
LEMMA MergeFilesKeeps ==
  ASSUME MaxFlips <= 2, FilesInv, NEW owner \in FileIds, NEW duplicate \in FileIds,
         MergeFileIds(owner, duplicate)
  PROVE  FilesInv'
<1> DEFINE text    == fileState[duplicate]
           adopted == IF text # Deleted /\ owner \notin Existing
                      THEN <<Write(owner, Deleted, text)>> ELSE <<>>
           dropped == IF text # Deleted
                      THEN <<Write(duplicate, text, Deleted)>> ELSE <<>>
<1>1. /\ FilesTypeOK /\ ~panicked /\ LogStands(changes, fileState, dbText)
      /\ roots = {g \in FileIds : dbText[g] # Deleted} /\ roots \subseteq placed
      /\ \A g \in FileIds : ~OwnsPath(g) => fileState[g] = Deleted
  BY DEF FilesInv
<1>2. /\ changes \in Seq(Change) /\ fileState \in [FileIds -> FileTexts \cup {Deleted}]
      /\ redirects \in [FileIds -> FileIds] /\ text \in FileTexts \cup {Deleted}
  BY <1>1 DEF FilesTypeOK
<1>3. /\ owner < duplicate /\ OwnsPath(owner)
      /\ Flips(owner) < MaxFlips /\ Flips(duplicate) < MaxFlips
      /\ redirects' = [redirects EXCEPT ![duplicate] = owner]
      /\ fileState' = [fileState EXCEPT ![owner] = IF adopted # <<>> THEN text ELSE @,
                                        ![duplicate] = Deleted]
      /\ changes' = changes \o adopted \o dropped
      /\ UNCHANGED <<dbText, roots, placed, panicked>>
  BY DEF MergeFileIds
<1>t. /\ text = fileState[duplicate]
      /\ adopted = IF text # Deleted /\ owner \notin Existing
                   THEN <<Write(owner, Deleted, text)>> ELSE <<>>
      /\ dropped = IF text # Deleted THEN <<Write(duplicate, text, Deleted)>> ELSE <<>>
  OBVIOUS
<1> HIDE DEF text, adopted, dropped
<1>4. owner # duplicate
  BY <1>3 DEF FileIds
<1>5. FlipsIn(changes, owner) < 2 /\ FlipsIn(changes, duplicate) < 2
  <2>1. Write(owner, text, text) \in Change
    BY <1>2, WriteType
  <2>2. /\ Flips(owner) = FlipsIn(changes, owner) /\ FlipsIn(changes, owner) \in Nat
        /\ Flips(duplicate) = FlipsIn(changes, duplicate) /\ FlipsIn(changes, duplicate) \in Nat
    BY <1>2, <2>1, FlipsOfAppend DEF Flips, FlipsIn
  <2>3. QED BY <1>3, <2>2, LogAssumption
<1>6. changes' \in Seq(Change) /\ LogStands(changes', fileState', dbText)
  <2>1. \A f \in FileIds, old, new \in FileTexts \cup {Deleted} : Write(f, old, new) \in Change
    BY WriteType
  <2>2. CASE text = Deleted
    <3>1. adopted = <<>> /\ dropped = <<>>
      BY <1>t, <2>2
    <3>2. changes' = changes
      BY <1>2, <1>3, <3>1
    <3>3. fileState' = fileState
      BY <1>2, <1>3, <1>t, <2>2, <3>1
    <3>4. QED BY <1>1, <1>2, <3>2, <3>3
  <2>3. CASE text # Deleted /\ owner \in Existing
    <3> DEFINE d == Write(duplicate, text, Deleted)
    <3>1. adopted = <<>> /\ dropped = <<d>> /\ d \in Change
      BY <1>2, <1>t, <2>1, <2>3
    <3> HIDE DEF d
    <3>2. changes' = Append(changes, d)
      BY <1>2, <1>3, <3>1, LogGrows
    <3>3. changes' = Grown(changes, fileState, duplicate, Deleted)
      BY <1>t, <3>2 DEF Grown, d
    <3>4. fileState' = Put(fileState, duplicate, Deleted)
      BY <1>2, <1>3, <3>1 DEF Put
    <3>5. Deleted # fileState[duplicate] /\ Deleted \in FileTexts \cup {Deleted}
      BY <1>t, <2>3
    <3>6. QED BY <1>1, <1>2, <1>5, <3>3, <3>4, <3>5, WriteStands
  <2>4. CASE text # Deleted /\ owner \notin Existing
    <3> DEFINE c     == Write(owner, Deleted, text)
               d     == Write(duplicate, text, Deleted)
               log   == Grown(changes, fileState, owner, text)
               state == Put(fileState, owner, text)
    <3>1. fileState[owner] = Deleted
      BY <2>4 DEF Existing
    <3>2. adopted = <<c>> /\ dropped = <<d>> /\ c \in Change /\ d \in Change /\ <<c>> # <<>>
      BY <1>2, <1>t, <2>1, <2>4
    <3>3. log = Append(changes, c)
      BY <3>1 DEF Grown
    <3>4. /\ log \in Seq(Change) /\ state \in [FileIds -> FileTexts \cup {Deleted}]
          /\ LogStands(log, state, dbText)
          /\ FlipsIn(log, duplicate) = FlipsIn(changes, duplicate)
      BY <1>1, <1>2, <1>4, <1>5, <2>4, <3>1, WriteStands
    <3>5. state[duplicate] = text /\ Deleted # state[duplicate]
      BY <1>2, <1>4, <1>t, <2>4 DEF Put
    <3>6. fileState' = Put(state, duplicate, Deleted)
      BY <1>2, <1>3, <3>2 DEF Put
    <3>7. changes' = Append(log, d)
      <4> HIDE DEF c, d, log
      <4>1. changes' = changes \o <<c>> \o <<d>>
        BY <1>3, <3>2
      <4>2. changes \o <<c>> \o <<d>> = Append(Append(changes, c), d)
        BY <1>2, <3>2, LogGrows
      <4>3. QED BY <3>3, <4>1, <4>2
    <3>8. changes' = Grown(log, state, duplicate, Deleted)
      BY <3>5, <3>7 DEF Grown
    <3> HIDE DEF c, d, log, state
    <3>9. FlipsIn(log, duplicate) < 2 /\ Deleted \in FileTexts \cup {Deleted}
      BY <1>5, <3>4
    <3>10. QED BY <3>4, <3>5, <3>6, <3>8, <3>9, WriteStands
  <2>5. QED BY <2>2, <2>3, <2>4
<1>7. LogStands(changes, fileState, dbText)'
  BY <1>3, <1>6, StandsAfter
<1>8. FilesTypeOK'
  <2>1. fileState' \in [FileIds -> FileTexts \cup {Deleted}]
    BY <1>2, <1>3
  <2>2. redirects' \in [FileIds -> FileIds]
    BY <1>2, <1>3
  <2>3. QED BY <1>1, <1>3, <1>6, <2>1, <2>2 DEF FilesTypeOK
<1>9. ASSUME NEW g \in FileIds, ~OwnsPath(g)' PROVE fileState'[g] = Deleted
  <2>1. CASE g = duplicate
    BY <1>2, <1>3, <2>1
  <2>2. CASE g # duplicate
    <3>1. redirects'[g] = redirects[g]
      BY <1>2, <1>3, <2>2
    <3>2. ~OwnsPath(g) /\ g # owner
      BY <1>3, <1>9, <3>1 DEF OwnsPath
    <3>3. fileState'[g] = fileState[g]
      BY <1>2, <1>3, <2>2, <3>2
    <3>4. QED BY <1>1, <3>2, <3>3
  <2>3. QED BY <2>1, <2>2
<1>10. QED BY <1>1, <1>3, <1>7, <1>8, <1>9 DEF FilesInv

\* A new partition finds the roots as they are.
LEMMA RepartitionKeeps == FilesInv /\ Repartition => FilesInv'
<1> SUFFICES ASSUME FilesInv, Repartition PROVE FilesInv'
  OBVIOUS
<1>1. /\ FilesTypeOK /\ ~panicked /\ LogStands(changes, fileState, dbText)
      /\ roots = {g \in FileIds : dbText[g] # Deleted} /\ roots \subseteq placed
      /\ \A g \in FileIds : ~OwnsPath(g) => fileState[g] = Deleted
  BY DEF FilesInv
<1>2. changes = <<>> /\ roots' = Existing /\ placed' = placed \cup Existing
      /\ UNCHANGED <<fileState, redirects, changes, dbText, panicked>>
  BY DEF Repartition
<1>3. NetChange(changes) = [f \in FileIds |-> NoEntry]
  BY <1>2, NetOfNothing DEF Blank
<1>4. \A kind, text, just : Entry(kind, text, just) # NoEntry
  BY DEF Entry, NoEntry
<1>5. \A f \in FileIds : fileState[f] = dbText[f]
  <2> SUFFICES ASSUME NEW f \in FileIds PROVE fileState[f] = dbText[f]
    OBVIOUS
  <2>1. NetChange(changes)[f] = NoEntry
    BY <1>3
  <2>2. Stands(NetChange(changes)[f], FlipsIn(changes, f), fileState[f], dbText[f])
    BY <1>1 DEF LogStands
  <2>3. QED BY <1>4, <2>1, <2>2 DEF Stands
<1>6. Existing = roots
  BY <1>1, <1>5 DEF Existing
<1>7. FilesTypeOK'
  BY <1>1, <1>2, <1>6 DEF FilesTypeOK
<1>8. LogStands(changes, fileState, dbText)'
  BY <1>1, <1>2, StandsAfter
<1>9. QED BY <1>1, <1>2, <1>6, <1>7, <1>8 DEF FilesInv, OwnsPath

\* At the start there is nothing.
LEMMA InitFiles == FilesInit => FilesInv
<1> SUFFICES ASSUME FilesInit PROVE FilesInv
  OBVIOUS
<1>1. FilesTypeOK
  <2>1. <<>> \in Seq(Change)
    OBVIOUS
  <2>2. QED BY <2>1 DEF FilesInit, FilesTypeOK
<1>2. LogStands(changes, fileState, dbText)
  BY EmptyStands DEF FilesInit
<1>3. QED BY <1>1, <1>2 DEF FilesInit, FilesInv

\* Every step keeps the invariant.
LEMMA StepFiles ==
  ASSUME MaxFlips <= 2
  PROVE  FilesInv /\ [FilesNext]_fileVars => FilesInv'
<1> SUFFICES ASSUME FilesInv, [FilesNext]_fileVars PROVE FilesInv'
  OBVIOUS
<1>1. CASE \E f \in FileIds, new \in FileTexts \cup {Deleted} : WriteFile(f, new)
  BY <1>1, WriteFileKeeps
<1>2. CASE \E owner, duplicate \in FileIds : MergeFileIds(owner, duplicate)
  BY <1>2, MergeFilesKeeps
<1>3. CASE ApplyChanges
  BY <1>3, ApplyKeeps
<1>4. CASE Repartition
  BY <1>4, RepartitionKeeps
<1>5. CASE UNCHANGED fileVars
  <2>1. LogStands(changes, fileState, dbText)'
    BY <1>5, StandsAfter DEF fileVars, FilesInv
  <2>2. QED BY <1>5, <2>1 DEF fileVars, FilesInv, FilesTypeOK, OwnsPath
<1>6. QED BY <1>1, <1>2, <1>3, <1>4, <1>5 DEF FilesNext

\* Where a turn's log is empty, the VFS and the database agree.
LEMMA AtRest ==
  ASSUME FilesInv, changes = <<>>
  PROVE  dbText = fileState /\ roots = Existing
<1>1. FilesTypeOK /\ LogStands(changes, fileState, dbText)
      /\ roots = {g \in FileIds : dbText[g] # Deleted}
  BY DEF FilesInv
<1>2. NetChange(changes) = [f \in FileIds |-> NoEntry]
  BY NetOfNothing DEF Blank
<1>3. \A kind, text, just : Entry(kind, text, just) # NoEntry
  BY DEF Entry, NoEntry
<1>4. \A f \in FileIds : fileState[f] = dbText[f]
  <2> SUFFICES ASSUME NEW f \in FileIds PROVE fileState[f] = dbText[f]
    OBVIOUS
  <2>1. NetChange(changes)[f] = NoEntry
    BY <1>2
  <2>2. Stands(NetChange(changes)[f], FlipsIn(changes, f), fileState[f], dbText[f])
    BY <1>1 DEF LogStands
  <2>3. QED BY <1>3, <2>1, <2>2 DEF Stands
<1>5. QED BY <1>1, <1>4 DEF FilesTypeOK, Existing

\* The values of the variables are those the code's types allow, and the main loop does
\* not panic over a file without a source root, as long as a file appears or vanishes at
\* most twice in a turn.
THEOREM FilesTypeCorrect ==
  ASSUME MaxFlips <= 2
  PROVE  FilesSpec => [](FilesTypeOK /\ ~panicked)
<1>1. FilesInv => FilesTypeOK /\ ~panicked
  BY DEF FilesInv
<1>2. QED BY <1>1, InitFiles, StepFiles, PTL DEF FilesSpec

\* After a turn the database mirrors the VFS (GlobalState::colease_modifications and
\* Change::apply), for any files, texts and lengths of the log, as long as a file appears
\* or vanishes at most twice in a turn.
THEOREM DatabaseFollows ==
  ASSUME MaxFlips <= 2
  PROVE  FilesSpec => []DatabaseMirrors
<1>1. FilesInv => DatabaseMirrors
  BY AtRest DEF DatabaseMirrors
<1>2. QED BY <1>1, InitFiles, StepFiles, PTL DEF FilesSpec

\* After a turn the source roots hold the files of the VFS (process_changes), under the
\* same bound.
THEOREM RootsFollow ==
  ASSUME MaxFlips <= 2
  PROVE  FilesSpec => []RootsCurrent
<1>1. FilesInv => RootsCurrent
  BY AtRest DEF RootsCurrent
<1>2. QED BY <1>1, InitFiles, StepFiles, PTL DEF FilesSpec

\* What was merged into another file is gone and stays so (Vfs::merge_file_state), under
\* the same bound.
THEOREM DuplicatesStayGone ==
  ASSUME MaxFlips <= 2
  PROVE  FilesSpec => []DuplicatesGone
<1>1. FilesInv => DuplicatesGone
  BY AtRest DEF FilesInv, DuplicatesGone, Existing
<1>2. QED BY <1>1, InitFiles, StepFiles, PTL DEF FilesSpec

-----------------------------------------------------------------------------
(* Cancellation tokens *)

Making     == {"check", "link", "recheck"}
Cancelling == {"cancel", "collect"}

\* What each thread works on fits where it is.
Busy(th) ==
  /\ at[th] = "out" => of[th] = NoToken /\ made[th] = NoToken /\ todo[th] = {}
  /\ at[th] \in Making => of[th] \in Tokens /\ made[th] \in Tokens /\ todo[th] = {}
  /\ at[th] \in Making => parent[made[th]] = of[th]
  /\ at[th] = "recheck" => made[th] \in children[of[th]]
  /\ at[th] = "collect" => of[th] \in Tokens
  /\ made[th] \notin held
  /\ made[th] # NoToken => parent[made[th]] # NoToken
  \* a child that is returned after a cancellation is cancelled
  /\ at[th] \in Cancelling /\ made[th] # NoToken => cancelled[made[th]] \/ made[th] \in todo[th]

\* Every token but the root was made a child of another.
Known == \A c \in held : c = Root \/ parent[c] # NoToken

\* No two threads make the same token.
Distinct ==
  \A u, v \in Threads : u # v /\ made[u] = made[v] => made[u] = NoToken

\* A token in somebody's hands is linked to its parent unless it is cancelled.
Linked ==
  \A c \in held :
    parent[c] # NoToken /\ ~cancelled[c] => c \in children[parent[c]]

\* Thread th will cancel c, or will find out that it has to.
Responsible(th, c) ==
  \/ at[th] \in Making /\ made[th] = c
  \/ at[th] \in Cancelling /\ c \in todo[th]
  \/ at[th] = "collect" /\ of[th] = parent[c] /\ c \in children[of[th]]

\* A token in somebody's hands with a cancelled parent is cancelled or some
\* thread's task.
Covered ==
  \A c \in held :
    parent[c] # NoToken /\ cancelled[parent[c]] /\ ~cancelled[c]
      => \E th \in Threads : Responsible(th, c)

TokensInv ==
  /\ TokensTypeOK
  /\ \A th \in Threads : Busy(th)
  /\ Known
  /\ Distinct
  /\ Linked
  /\ Covered

\* At the start nobody does anything and the root has no parent.
LEMMA InitTokens == TokensInit => TokensInv
<1> SUFFICES ASSUME TokensInit PROVE TokensInv
  OBVIOUS
<1>1. TokensTypeOK
  BY TokensAssumption DEF TokensInit, TokensTypeOK, Stages
<1>2. \A th \in Threads : Busy(th)
  BY TokensAssumption DEF TokensInit, Busy, Making, Cancelling
<1>3. Known /\ Distinct /\ Linked /\ Covered
  BY TokensAssumption DEF TokensInit, Known, Distinct, Linked, Covered
<1>4. QED BY <1>1, <1>2, <1>3 DEF TokensInv

\* Locking the children of a token loses no token that somebody has or makes.
LEMMA RetainedChildren ==
  ASSUME NEW p, NEW c, c \in children[p], c \in held \/ \E th \in Threads : c = made[th]
  PROVE  c \in {d \in children[p] : Alive(d)}
BY DEF Alive

\* child_token begins.
LEMMA NewChildKeeps ==
  ASSUME TokensInv, NEW th \in Threads, NEW p \in Tokens, NEW c \in Tokens,
         NewChild(th, p, c)
  PROVE  TokensInv'
<1> USE TokensAssumption
<1>1. TokensTypeOK'
  BY DEF TokensInv, TokensTypeOK, Stages, NewChild, GoTo
<1>2. c \notin held
  BY DEF TokensInv, Known, Distinct, NewChild
<1>3. ASSUME NEW u \in Threads PROVE Busy(u)'
  <2>1. CASE u = th
    BY <1>2, <2>1 DEF TokensInv, TokensTypeOK, Busy, Making, Cancelling, NewChild, GoTo
  <2>2. CASE u # th
    <3>1. at'[u] = at[u] /\ of'[u] = of[u] /\ made'[u] = made[u] /\ todo'[u] = todo[u]
      BY <2>2 DEF TokensInv, TokensTypeOK, NewChild, GoTo
    <3>2. made[u] # NoToken => parent'[made[u]] = parent[made[u]]
      BY DEF TokensInv, TokensTypeOK, Busy, NewChild
    <3>3. QED BY <3>1, <3>2 DEF TokensInv, TokensTypeOK, Busy, Making, NewChild
  <2>3. QED BY <2>1, <2>2
<1>4. \A d \in held : parent'[d] = parent[d]
  BY <1>2 DEF TokensInv, TokensTypeOK, NewChild
<1>5. Known' /\ Linked'
  BY <1>4 DEF TokensInv, Known, Linked, NewChild
<1>6. Distinct'
  BY DEF TokensInv, TokensTypeOK, Busy, Distinct, NewChild
<1>7. Covered'
  <2>1. ASSUME NEW d \in held, NEW u \in Threads, Responsible(u, d)
        PROVE  Responsible(u, d)'
    BY <1>4, <2>1 DEF TokensInv, TokensTypeOK, Responsible, Making, Cancelling, NewChild, GoTo
  <2>2. QED BY <1>4, <2>1 DEF TokensInv, Covered, NewChild
<1>8. QED BY <1>1, <1>3, <1>5, <1>6, <1>7 DEF TokensInv

\* A thread begins to cancel the child it makes, as CheckParent and Recheck do.
LEMMA CancelMadeKeeps ==
  ASSUME TokensInv, NEW th \in Threads, at[th] \in Making, CancelNext(th, {made[th]}),
         UNCHANGED <<cancelled, children, held, parent, of, made>>
  PROVE  TokensInv'
<1>1. TokensTypeOK'
  BY DEF TokensInv, TokensTypeOK, Busy, Stages, CancelNext, GoTo
<1>2. ASSUME NEW u \in Threads PROVE Busy(u)'
  BY DEF TokensInv, TokensTypeOK, Busy, Making, Cancelling, CancelNext, GoTo
<1>3. Known' /\ Distinct' /\ Linked'
  BY DEF TokensInv, Known, Distinct, Linked
<1>4. ASSUME NEW d \in held, NEW u \in Threads, Responsible(u, d)
      PROVE  Responsible(u, d)'
  BY <1>4 DEF TokensInv, TokensTypeOK, Responsible, Making, Cancelling, CancelNext, GoTo
<1>5. Covered'
  BY <1>4 DEF TokensInv, Covered
<1>6. QED BY <1>1, <1>2, <1>3, <1>5 DEF TokensInv

\* The parent is found not cancelled.
LEMMA CheckParentKeeps ==
  ASSUME TokensInv, NEW th \in Threads, CheckParent(th)
  PROVE  TokensInv'
<1>1. CASE cancelled[of[th]]
  BY <1>1, CancelMadeKeeps DEF CheckParent, Making
<1>2. CASE ~cancelled[of[th]]
  <2>1. TokensTypeOK'
    BY <1>2 DEF TokensInv, TokensTypeOK, Stages, CheckParent, GoTo
  <2>2. ASSUME NEW u \in Threads PROVE Busy(u)'
    BY <1>2 DEF TokensInv, TokensTypeOK, Busy, Making, Cancelling, CheckParent, GoTo
  <2>3. Known' /\ Distinct' /\ Linked'
    BY DEF TokensInv, Known, Distinct, Linked, CheckParent
  <2>4. ASSUME NEW d \in held, NEW u \in Threads, Responsible(u, d)
        PROVE  Responsible(u, d)'
    BY <1>2, <2>4 DEF TokensInv, TokensTypeOK, Responsible, Making, Cancelling, CheckParent, GoTo
  <2>5. Covered'
    BY <2>4 DEF TokensInv, Covered, CheckParent
  <2>6. QED BY <2>1, <2>2, <2>3, <2>5 DEF TokensInv
<1>3. QED BY <1>1, <1>2

\* The child is pushed; children that are alive stay.
LEMMA LinkKeeps ==
  ASSUME TokensInv, NEW th \in Threads, Link(th)
  PROVE  TokensInv'
<1>1. TokensTypeOK'
  BY DEF TokensInv, TokensTypeOK, Busy, Making, Stages, Link, GoTo
<1>2. ASSUME NEW p, NEW c, c \in children[p], p \in Tokens,
             c \in held \/ \E u \in Threads : c = made[u]
      PROVE  c \in children'[p]
  BY <1>2, RetainedChildren DEF TokensInv, TokensTypeOK, Link
<1>3. made[th] \in children'[of[th]]
  BY DEF TokensInv, TokensTypeOK, Busy, Making, Link
<1>4. ASSUME NEW u \in Threads PROVE Busy(u)'
  <2>1. at[u] = "recheck" => made[u] \in children'[of[u]]
    BY <1>2 DEF TokensInv, Busy, Making
  <2>2. QED
    BY <1>3, <2>1 DEF TokensInv, TokensTypeOK, Busy, Making, Cancelling, Link, GoTo
<1>5. Known' /\ Distinct'
  BY DEF TokensInv, Known, Distinct, Link
<1>6. Linked'
  <2>1. \A c \in held : parent[c] # NoToken => parent[c] \in Tokens
    BY DEF TokensInv, TokensTypeOK
  <2>2. QED BY <1>2, <2>1 DEF TokensInv, Linked, Link
<1>7. ASSUME NEW d \in held, NEW u \in Threads, Responsible(u, d)
      PROVE  Responsible(u, d)'
  <2>1. at[u] = "collect" /\ d \in children[of[u]] => d \in children'[of[u]]
    BY <1>2 DEF TokensInv, Busy
  <2>2. QED
    BY <1>7, <2>1 DEF TokensInv, TokensTypeOK, Responsible, Making, Cancelling, Link, GoTo
<1>8. Covered'
  BY <1>7 DEF TokensInv, Covered, Link
<1>9. QED BY <1>1, <1>4, <1>5, <1>6, <1>8 DEF TokensInv

\* A call returns with a child that is linked and whose parent is not cancelled, or
\* that is cancelled itself.
LEMMA ReturnKeeps ==
  ASSUME TokensInv, NEW th \in Threads, Return(th),
         UNCHANGED <<cancelled, children, parent, todo>>,
         todo[th] = {}, at[th] # "collect",
         made[th] # NoToken =>
           \/ cancelled[made[th]]
           \/ made[th] \in children[parent[made[th]]] /\ ~cancelled[parent[made[th]]]
  PROVE  TokensInv'
<1> USE TokensAssumption
<1>1. TokensTypeOK'
  BY DEF TokensInv, TokensTypeOK, Stages, Return, GoTo
<1>2. ASSUME NEW u \in Threads PROVE Busy(u)'
  <2>1. CASE u = th
    BY <2>1 DEF TokensInv, TokensTypeOK, Busy, Making, Cancelling, Return, GoTo
  <2>2. CASE u # th
    <3>1. at'[u] = at[u] /\ of'[u] = of[u] /\ made'[u] = made[u]
      BY <2>2 DEF TokensInv, TokensTypeOK, Return, GoTo
    <3>2. made[u] \notin held'
      BY <2>2 DEF TokensInv, Busy, Distinct, Return
    <3>3. QED BY <3>1, <3>2 DEF TokensInv, Busy
  <2>3. QED BY <2>1, <2>2
<1>3. Known' /\ Distinct' /\ Linked'
  BY DEF TokensInv, Busy, Known, Distinct, Linked, Return
<1>4. ASSUME NEW d \in held, d # made[th], NEW u \in Threads, Responsible(u, d)
      PROVE  Responsible(u, d)'
  BY <1>4 DEF TokensInv, TokensTypeOK, Responsible, Making, Cancelling, Return, GoTo
<1>5. Covered'
  <2> SUFFICES ASSUME NEW d \in held', parent[d] # NoToken,
                      cancelled[parent[d]], ~cancelled[d]
               PROVE  \E u \in Threads : Responsible(u, d)'
    BY DEF Covered
  <2>1. d \in held /\ d # made[th]
    BY DEF TokensInv, Busy, Return
  <2>2. QED BY <1>4, <2>1 DEF TokensInv, Covered
<1>6. QED BY <1>1, <1>2, <1>3, <1>5 DEF TokensInv

\* The parent is looked at again.
LEMMA RecheckKeeps ==
  ASSUME TokensInv, NEW th \in Threads, Recheck(th)
  PROVE  TokensInv'
<1>1. CASE cancelled[of[th]]
  BY <1>1, CancelMadeKeeps DEF Recheck, Making
<1>2. CASE ~cancelled[of[th]]
  <2>1. made[th] \in children[parent[made[th]]] /\ ~cancelled[parent[made[th]]]
    BY <1>2 DEF TokensInv, Busy, Making, Recheck
  <2>2. todo[th] = {}
    BY DEF TokensInv, Busy, Recheck, Making
  <2>3. QED BY <1>2, <2>1, <2>2, ReturnKeeps DEF Recheck
<1>3. QED BY <1>1, <1>2

\* A thread that does nothing is responsible for nothing.
LEMMA CancelKeeps ==
  ASSUME TokensInv, NEW th \in Threads, NEW t \in Tokens, Cancel(th, t)
  PROVE  TokensInv'
<1>1. TokensTypeOK'
  BY DEF TokensInv, TokensTypeOK, Stages, Cancel, CancelNext, GoTo
<1>2. ASSUME NEW u \in Threads PROVE Busy(u)'
  BY DEF TokensInv, TokensTypeOK, Busy, Making, Cancelling, Cancel, CancelNext, GoTo
<1>3. Known' /\ Distinct' /\ Linked'
  BY DEF TokensInv, Known, Distinct, Linked, Cancel
<1>4. ASSUME NEW d \in held, NEW u \in Threads, Responsible(u, d)
      PROVE  Responsible(u, d)'
  BY <1>4 DEF TokensInv, TokensTypeOK, Responsible, Making, Cancelling, Cancel, CancelNext, GoTo
<1>5. Covered'
  BY <1>4 DEF TokensInv, Covered, Cancel
<1>6. QED BY <1>1, <1>2, <1>3, <1>5 DEF TokensInv

\* Whoever sets a flag answers for the children the token has then.
LEMMA SetFlagKeeps ==
  ASSUME TokensInv, NEW th \in Threads, NEW t \in Tokens, SetFlag(th, t)
  PROVE  TokensInv'
<1>1. TokensTypeOK'
  BY DEF TokensInv, TokensTypeOK, Stages, SetFlag, GoTo
<1>2. ASSUME NEW u \in Threads PROVE Busy(u)'
  BY TokensAssumption DEF TokensInv, TokensTypeOK, Busy, Making, Cancelling, SetFlag, GoTo
<1>3. Known' /\ Distinct' /\ Linked'
  BY DEF TokensInv, TokensTypeOK, Known, Distinct, Linked, SetFlag
<1>4. ASSUME NEW d \in held, d # t, NEW u \in Threads, Responsible(u, d)
      PROVE  Responsible(u, d)'
  BY <1>4 DEF TokensInv, TokensTypeOK, Responsible, Making, Cancelling, SetFlag, GoTo
<1>5. ASSUME NEW d \in held, parent[d] = t, ~cancelled[t], ~cancelled[d]
      PROVE  Responsible(th, d)'
  <2>1. d \in children[t]
    BY <1>5, TokensAssumption DEF TokensInv, Linked
  <2>2. QED
    BY <1>5, <2>1 DEF TokensInv, TokensTypeOK, Responsible, SetFlag, GoTo
<1>6. Covered'
  <2> SUFFICES ASSUME NEW d \in held, parent[d] # NoToken,
                      cancelled'[parent[d]], ~cancelled'[d]
               PROVE  \E u \in Threads : Responsible(u, d)'
    BY DEF Covered, SetFlag
  <2>1. d # t /\ ~cancelled[d]
    BY DEF TokensInv, TokensTypeOK, SetFlag
  <2>2. CASE cancelled[parent[d]]
    BY <1>4, <2>1, <2>2 DEF TokensInv, Covered
  <2>3. CASE ~cancelled[parent[d]]
    <3>1. parent[d] = t
      BY <2>3 DEF TokensInv, TokensTypeOK, SetFlag
    <3>2. QED BY <1>5, <2>1, <2>3, <3>1
  <2>4. QED BY <2>2, <2>3
<1>7. QED BY <1>1, <1>2, <1>3, <1>6 DEF TokensInv

\* The children collected become the thread's task.
LEMMA CollectKeeps ==
  ASSUME TokensInv, NEW th \in Threads, Collect(th)
  PROVE  TokensInv'
<1>1. TokensTypeOK'
  BY DEF TokensInv, TokensTypeOK, Busy, Stages, Collect, CancelNext, GoTo
<1>2. ASSUME NEW p \in Tokens, NEW c, c \in children[p],
             c \in held \/ \E u \in Threads : c = made[u]
      PROVE  c \in children'[p]
  BY <1>2, RetainedChildren DEF TokensInv, TokensTypeOK, Collect
<1>3. ASSUME NEW u \in Threads PROVE Busy(u)'
  <2>1. at[u] = "recheck" => made[u] \in children'[of[u]]
    BY <1>2 DEF TokensInv, Busy, Making
  <2>2. QED
    BY <2>1 DEF TokensInv, TokensTypeOK, Busy, Making, Cancelling, Collect, CancelNext, GoTo
<1>4. Known' /\ Distinct'
  BY DEF TokensInv, Known, Distinct, Collect
<1>5. Linked'
  <2>1. \A c \in held : parent[c] # NoToken => parent[c] \in Tokens
    BY DEF TokensInv, TokensTypeOK
  <2>2. QED BY <1>2, <2>1 DEF TokensInv, Linked, Collect
<1>6. ASSUME NEW d \in held, NEW u \in Threads, Responsible(u, d)
      PROVE  Responsible(u, d)'
  <2>1. at[u] = "collect" /\ d \in children[of[u]] => d \in children'[of[u]]
    BY <1>2 DEF TokensInv, Busy
  <2>2. CASE u = th
    <3>1. d \in children[of[th]] => d \in todo'[th]
      BY RetainedChildren DEF TokensInv, TokensTypeOK, Collect, CancelNext
    <3>2. QED
      BY <1>6, <2>2, <3>1
      DEF TokensInv, TokensTypeOK, Responsible, Making, Cancelling, Collect, CancelNext, GoTo
  <2>3. CASE u # th
    BY <1>6, <2>1, <2>3
    DEF TokensInv, TokensTypeOK, Responsible, Collect, CancelNext, GoTo
  <2>4. QED BY <2>2, <2>3
<1>7. Covered'
  BY <1>6 DEF TokensInv, Covered, Collect
<1>8. QED BY <1>1, <1>3, <1>4, <1>5, <1>7 DEF TokensInv

\* A handle that goes leaves fewer tokens to answer for.
LEMMA DropKeeps ==
  ASSUME TokensInv, NEW t \in Tokens, DropToken(t)
  PROVE  TokensInv'
<1>1. TokensTypeOK'
  BY DEF TokensInv, TokensTypeOK, DropToken
<1>2. ASSUME NEW u \in Threads PROVE Busy(u)'
  BY DEF TokensInv, Busy, DropToken
<1>3. Known' /\ Distinct' /\ Linked'
  BY DEF TokensInv, Known, Distinct, Linked, DropToken
<1>4. Covered'
  BY DEF TokensInv, Covered, Responsible, DropToken
<1>5. QED BY <1>1, <1>2, <1>3, <1>4 DEF TokensInv

\* A step that changes nothing.
LEMMA StutterTokens ==
  ASSUME TokensInv, UNCHANGED tokenVars
  PROVE  TokensInv'
<1>1. TokensTypeOK' /\ Known' /\ Distinct' /\ Linked'
  BY DEF tokenVars, TokensInv, TokensTypeOK, Known, Distinct, Linked
<1>2. \A u \in Threads : Busy(u)'
  BY DEF tokenVars, TokensInv, Busy
<1>3. Covered'
  BY DEF tokenVars, TokensInv, Covered, Responsible
<1>4. QED BY <1>1, <1>2, <1>3 DEF TokensInv

\* Every step keeps the invariant.
LEMMA StepTokens == TokensInv /\ [TokensNext]_tokenVars => TokensInv'
<1> SUFFICES ASSUME TokensInv, [TokensNext]_tokenVars PROVE TokensInv'
  OBVIOUS
<1>1. ASSUME NEW th \in Threads, Cancelled(th) PROVE TokensInv'
  <2>1. made[th] # NoToken => cancelled[made[th]]
    BY <1>1 DEF TokensInv, Busy, Cancelling, Cancelled
  <2>2. QED BY <1>1, <2>1, ReturnKeeps DEF Cancelled
<1>2. QED
  BY <1>1, NewChildKeeps, CheckParentKeeps, LinkKeeps, RecheckKeeps, CancelKeeps,
     SetFlagKeeps, CollectKeeps, DropKeeps, StutterTokens
  DEF TokensNext

\* No child of a cancelled token stays uncancelled once nobody is cancelling
\* (child_token and cancel), for any tree of tokens and any threads.
THEOREM ChildrenCancelled == TokensSpec => []CancelReachesChildren
<1>1. TokensInv => CancelReachesChildren
  <2> SUFFICES ASSUME TokensInv, \A th \in Threads : at[th] \notin Cancelling,
                      NEW c \in held, parent[c] # NoToken, cancelled[parent[c]]
               PROVE  cancelled[c]
    BY DEF CancelReachesChildren, Cancelling
  <2>1. SUFFICES ASSUME ~cancelled[c] PROVE FALSE
    OBVIOUS
  <2>2. PICK th \in Threads : Responsible(th, c)
    BY <2>1 DEF TokensInv, Covered
  <2>3. at[th] \in Making /\ made[th] = c
    BY <2>2 DEF Responsible, Cancelling
  <2>4. QED BY <2>3 DEF TokensInv, Busy
<1>2. TokensSpec => []TokensInv
  BY InitTokens, StepTokens, PTL DEF TokensSpec
<1>3. QED BY <1>1, <1>2, PTL

\* The state of the tokens and of the threads that handle them keeps its type.
THEOREM TokensTypeCorrect == TokensSpec => []TokensTypeOK
<1>1. TokensInv => TokensTypeOK BY DEF TokensInv
<1>2. TokensSpec => []TokensInv
  BY InitTokens, StepTokens, PTL DEF TokensSpec
<1>3. QED BY <1>1, <1>2, PTL

-----------------------------------------------------------------------------
(* The worker pool *)

\* A thread that looks at the latency-sensitive jobs again, having found no worker
\* job, has passed none.
Counting(t) ==
  /\ passed[t] <= LatencyBurst
  /\ workers = 0 => passed[t] = 0
  /\ step[t] \in {"latency", "select", "onlyWorker", "onlyLatency"} => passed[t] = 0
  /\ step[t] \in {"budget", "worker", "run"} /\ workers > 0
       => passed[t] + budget[t] <= LatencyBurst

\* What a thread has concluded about the queues stays true.
Concluded(t) ==
  /\ step[t] = "onlyWorker" => Finished("latency", latencies)
  /\ step[t] = "onlyLatency" => Finished("worker", workers)
  /\ step[t] = "exit" => Finished("worker", workers) /\ Finished("latency", latencies)

\* The senders are dropped in their order.
InOrder == "worker" \in senders => "latency" \in senders

PoolInv ==
  /\ PoolTypeOK
  /\ InOrder
  /\ \A t \in PoolThreads : Counting(t) /\ Concluded(t)

\* At the start nothing is queued and no thread has passed a job.
LEMMA InitPool == PoolInit => PoolInv
BY PoolAssumption DEF PoolInit, PoolInv, PoolTypeOK, Steps, InOrder, Counting, Concluded

\* Taking a worker job makes another one the first of the queue, if there is one.
LEMMA TakeWorkerKeeps ==
  ASSUME PoolInv, NEW t \in PoolThreads, TakeWorker(t)
  PROVE  PoolInv'
BY PoolAssumption DEF PoolInv, PoolTypeOK, Steps, InOrder, Counting, Concluded, Finished,
   TakeWorker, ForgetPassed, Goes

\* Taking a latency-sensitive job within the budget, or when none was passed.
LEMMA TakeLatencyKeeps ==
  ASSUME PoolInv, NEW t \in PoolThreads, NEW left \in 0 .. LatencyBurst,
         TakeLatency(t, left),
         workers > 0 => passed[t] + 1 + left <= LatencyBurst
  PROVE  PoolInv'
<1>1. PoolTypeOK'
  BY PoolAssumption DEF PoolInv, PoolTypeOK, Steps, TakeLatency, Goes
<1>2. InOrder'
  BY DEF PoolInv, InOrder, TakeLatency
<1>3. ASSUME NEW u \in PoolThreads PROVE Counting(u)' /\ Concluded(u)'
  <2>1. CASE u = t
    BY <2>1, PoolAssumption DEF PoolInv, PoolTypeOK, Counting, Concluded, Finished, TakeLatency, Goes
  <2>2. CASE u # t
    <3>1. step'[u] = step[u] /\ budget'[u] = budget[u] /\ passed'[u] = passed[u]
      BY <2>2 DEF PoolInv, PoolTypeOK, TakeLatency, Goes
    <3>2. Counting(u)'
      BY <3>1 DEF PoolInv, Counting, TakeLatency
    <3>3. Concluded(u)'
      BY <3>1 DEF PoolInv, PoolTypeOK, Concluded, Finished, TakeLatency
    <3>4. QED BY <3>2, <3>3
  <2>3. QED BY <2>1, <2>2
<1>4. QED BY <1>1, <1>2, <1>3 DEF PoolInv

\* Going on without a job, when what the thread concludes from it holds.
LEMMA PassKeeps ==
  ASSUME PoolInv, NEW t \in PoolThreads, NEW s \in Steps, Pass(t, s),
         s \in {"latency", "select", "onlyWorker", "onlyLatency"} => passed[t] = 0,
         s \in {"budget", "worker", "run"} => step[t] \in {"budget", "worker", "run"},
         s = "onlyWorker" => Finished("latency", latencies),
         s = "onlyLatency" => Finished("worker", workers),
         s = "exit" => Finished("worker", workers) /\ Finished("latency", latencies)
  PROVE  PoolInv'
BY DEF PoolInv, PoolTypeOK, InOrder, Counting, Concluded, Finished, Pass, Goes

\* Every step keeps the invariant.
LEMMA StepPool == PoolInv /\ [PoolNext]_poolVars => PoolInv'
<1> SUFFICES ASSUME PoolInv, [PoolNext]_poolVars PROVE PoolInv'
  OBVIOUS
<1> USE PoolAssumption
<1>1. ASSUME NEW t \in PoolThreads, Budgeted(t) PROVE PoolInv'
  <2>1. CASE budget[t] > 0 /\ latencies > 0
    <3>1. budget[t] - 1 \in 0 .. LatencyBurst
      BY <2>1 DEF PoolInv, PoolTypeOK
    <3>2. workers > 0 => passed[t] + 1 + (budget[t] - 1) <= LatencyBurst
      BY <1>1 DEF PoolInv, PoolTypeOK, Counting, Budgeted
    <3>3. QED BY <1>1, <2>1, <3>1, <3>2, TakeLatencyKeeps DEF Budgeted
  <2>2. CASE ~(budget[t] > 0 /\ latencies > 0)
    BY <1>1, <2>2, PassKeeps DEF Budgeted, Steps
  <2>3. QED BY <2>1, <2>2
<1>2. ASSUME NEW t \in PoolThreads, TryWorker(t) PROVE PoolInv'
  <2>1. CASE workers > 0
    BY <1>2, <2>1, TakeWorkerKeeps DEF TryWorker
  <2>2. CASE ~(workers > 0)
    <3>1. passed[t] = 0
      BY <2>2 DEF PoolInv, PoolTypeOK, Counting
    <3>2. QED BY <1>2, <2>2, <3>1, PassKeeps DEF TryWorker, Steps
  <2>3. QED BY <2>1, <2>2
<1>3. ASSUME NEW t \in PoolThreads, TryLatency(t) PROVE PoolInv'
  <2>1. passed[t] = 0
    BY <1>3 DEF PoolInv, Counting, TryLatency
  <2>2. CASE latencies > 0
    BY <1>3, <2>1, <2>2, TakeLatencyKeeps DEF TryLatency
  <2>3. CASE ~(latencies > 0)
    BY <1>3, <2>1, <2>3, PassKeeps DEF TryLatency, Steps
  <2>4. QED BY <2>2, <2>3
<1>4. ASSUME NEW t \in PoolThreads, Select(t) PROVE PoolInv'
  <2>1. passed[t] = 0
    BY <1>4 DEF PoolInv, Counting, Select
  <2>2. CASE TakeLatency(t, LatencyBurst - 1)
    BY <2>1, <2>2, TakeLatencyKeeps
  <2>3. CASE TakeWorker(t)
    BY <2>3, TakeWorkerKeeps
  <2>4. CASE Finished("latency", latencies) /\ Pass(t, "onlyWorker")
    BY <2>1, <2>4, PassKeeps DEF Steps
  <2>5. CASE Finished("worker", workers) /\ Pass(t, "onlyLatency")
    BY <2>1, <2>5, PassKeeps DEF Steps
  <2>6. QED BY <1>4, <2>2, <2>3, <2>4, <2>5 DEF Select
<1>5. ASSUME NEW t \in PoolThreads, OnlyWorker(t) PROVE PoolInv'
  <2>1. Finished("latency", latencies)
    BY <1>5 DEF PoolInv, Concluded, OnlyWorker
  <2>2. QED BY <1>5, <2>1, TakeWorkerKeeps, PassKeeps DEF OnlyWorker, Steps
<1>6. ASSUME NEW t \in PoolThreads, OnlyLatency(t) PROVE PoolInv'
  <2>1. passed[t] = 0 /\ Finished("worker", workers)
    BY <1>6 DEF PoolInv, Counting, Concluded, OnlyLatency
  <2>2. QED BY <1>6, <2>1, TakeLatencyKeeps, PassKeeps DEF OnlyLatency, Steps
<1>7. ASSUME NEW t \in PoolThreads, Done(t) PROVE PoolInv'
  BY <1>7, PassKeeps DEF Done, Steps
<1>8. CASE SpawnWorker
  <2>1. \A t \in PoolThreads : Counting(t)'
    BY <1>8 DEF SpawnWorker, PoolInv, PoolTypeOK, Steps, Counting
  <2>2. \A t \in PoolThreads : Concluded(t)'
    BY <1>8 DEF SpawnWorker, PoolInv, PoolTypeOK, Concluded, Finished
  <2>3. QED BY <1>8, <2>1, <2>2 DEF SpawnWorker, PoolInv, PoolTypeOK, InOrder
<1>9. CASE SpawnLatency
  BY <1>9 DEF SpawnLatency, PoolInv, PoolTypeOK, Counting, Concluded, Finished, InOrder
<1>10. CASE CloseWorker \/ CloseLatency
  BY <1>10 DEF CloseWorker, CloseLatency, PoolInv, PoolTypeOK, Counting, Concluded,
     Finished, InOrder
<1>11. CASE UNCHANGED poolVars
  BY <1>11 DEF poolVars, PoolInv, PoolTypeOK, Counting, Concluded, Finished, InOrder
<1>12. QED
  BY <1>1, <1>2, <1>3, <1>4, <1>5, <1>6, <1>7, <1>8, <1>9, <1>10, <1>11 DEF PoolNext

\* The invariant holds in every behaviour.
LEMMA InvariantOfPool == PoolSpec => []PoolInv
BY InitPool, StepPool, PTL DEF PoolSpec

\* No thread takes more than a burst of latency-sensitive jobs while a worker job
\* waits at the head of its queue (JobReceivers::recv), for any burst, any number of
\* threads and any jobs.
THEOREM WorkersNotStarved == PoolSpec => []NotStarved
<1>1. PoolInv => NotStarved
  BY DEF PoolInv, NotStarved, Counting
<1>2. QED BY <1>1, InvariantOfPool, PTL

\* A thread of a dropped pool exits only when both queues have been run empty.
THEOREM PoolRunsEverything == PoolSpec => []EverythingRun
<1>1. PoolInv => EverythingRun
  BY DEF PoolInv, PoolTypeOK, EverythingRun, Concluded, Finished
<1>2. QED BY <1>1, InvariantOfPool, PTL

\* The state of queues and threads keeps its type.
THEOREM PoolTypeCorrect == PoolSpec => []PoolTypeOK
<1>1. PoolInv => PoolTypeOK BY DEF PoolInv
<1>2. QED BY <1>1, InvariantOfPool, PTL

-----------------------------------------------------------------------------
(* The browser's worker *)

\* Requests are taken between the announcement and the stop, and only then is there
\* anything to poll for; a boot under way has announced nothing.
Open ==
  /\ engine # "none" => port # "new"
  /\ announced => engine # "loading" /\ port # "new"
  /\ sent # {} => announced
  /\ pump \/ waiting # {} => port = "open" /\ announced

RuntimeInv == RuntimeTypeOK /\ Open /\ NoRequestForgotten

\* An error is counted for each of the requests that were pending.
LEMMA PostCounts ==
  ASSUME NEW counts \in [RequestIds -> Nat], NEW requests \in SUBSET RequestIds
  PROVE  /\ Post(counts, requests) \in [RequestIds -> Nat]
         /\ \A r \in RequestIds : Post(counts, requests)[r] >= counts[r]
         /\ port = "open" => \A r \in requests : Post(counts, requests)[r] > 0
<1>1. CASE port = "open"
  <2>1. Post(counts, requests) = [r \in RequestIds |-> counts[r] + IF r \in requests THEN 1 ELSE 0]
    BY <1>1 DEF Post, Counted
  <2>2. ASSUME NEW r \in RequestIds
        PROVE  /\ Post(counts, requests)[r] \in Nat /\ Post(counts, requests)[r] >= counts[r]
               /\ r \in requests => Post(counts, requests)[r] > 0
    BY <2>1
  <2>3. QED BY <2>1, <2>2
<1>2. CASE port # "open"
  BY <1>2 DEF Post
<1>3. QED BY <1>1, <1>2

\* At the start nothing is asked for.
LEMMA InitRuntime == RuntimeInit => RuntimeInv
<1> SUFFICES ASSUME RuntimeInit PROVE RuntimeInv
  OBVIOUS
<1>1. RuntimeTypeOK
  BY DEF RuntimeInit, RuntimeTypeOK
<1>2. Open /\ NoRequestForgotten
  BY DEF RuntimeInit, Open, NoRequestForgotten
<1>3. QED BY <1>1, <1>2 DEF RuntimeInv

\* What the server emits is answered; what is still pending is polled for.
LEMMA EmitKeeps ==
  ASSUME RuntimeInv, port = "open", NEW pending \in SUBSET sent', NEW taken \in SUBSET sent',
         NEW answered \in SUBSET taken, Emit(pending, taken, answered),
         announced, sent \subseteq sent', sent' \subseteq RequestIds,
         waiting \subseteq pending, sent' \ sent \subseteq pending,
         UNCHANGED <<engine, port, announced, excused>>
  PROVE  RuntimeInv'
<1>1. RuntimeTypeOK /\ Open /\ NoRequestForgotten
  BY DEF RuntimeInv
<1>2. answered \in SUBSET RequestIds /\ served' = Post(served, answered)
  BY DEF Emit
<1>3. /\ served' \in [RequestIds -> Nat]
      /\ \A r \in RequestIds : served'[r] >= served[r]
      /\ \A r \in answered : served'[r] > 0
  BY <1>1, <1>2, PostCounts DEF RuntimeTypeOK
<1>4. RuntimeTypeOK'
  BY <1>1, <1>3 DEF RuntimeTypeOK, Emit
<1>5. Open'
  BY <1>1 DEF Open, Emit
<1>6. NoRequestForgotten'
  <2> SUFFICES ASSUME NEW r \in sent', served'[r] + excused'[r] = 0
               PROVE  r \in waiting' /\ pump'
    BY DEF NoRequestForgotten
  <2>1. r \in RequestIds /\ served[r] \in Nat /\ excused[r] \in Nat /\ excused'[r] = excused[r]
    BY <1>1 DEF RuntimeTypeOK
  <2>2. r \notin answered /\ served[r] + excused[r] = 0
    BY <1>3, <2>1
  <2>3. r \in pending
    BY <1>1, <2>2 DEF NoRequestForgotten
  <2>4. QED BY <2>2, <2>3 DEF Emit
<1>7. QED BY <1>4, <1>5, <1>6 DEF RuntimeInv

\* A step that answers, with an error, the requests that are pending no more.
LEMMA ExcuseKeeps ==
  ASSUME RuntimeInv, NEW failed \in SUBSET RequestIds, port = "open",
         excused' = Post(excused, failed), RuntimeTypeOK', Open', served' = served,
         \A r \in sent' : r \notin failed => r \in sent /\ (r \in waiting /\ pump => r \in waiting' /\ pump')
  PROVE  RuntimeInv'
<1>1. RuntimeTypeOK /\ NoRequestForgotten
  BY DEF RuntimeInv
<1>2. /\ \A r \in RequestIds : excused'[r] >= excused[r]
      /\ \A r \in failed : excused'[r] > 0
  BY <1>1, PostCounts DEF RuntimeTypeOK
<1>3. NoRequestForgotten'
  <2> SUFFICES ASSUME NEW r \in sent', served'[r] + excused'[r] = 0
               PROVE  r \in waiting' /\ pump'
    BY DEF NoRequestForgotten
  <2>1. /\ r \in RequestIds /\ served[r] \in Nat /\ excused[r] \in Nat
        /\ served'[r] = served[r] /\ excused'[r] \in Nat
    BY <1>1 DEF RuntimeTypeOK
  <2>2. r \notin failed /\ served[r] + excused[r] = 0
    BY <1>2, <2>1
  <2>3. QED BY <1>1, <2>2 DEF NoRequestForgotten
<1>4. QED BY <1>3 DEF RuntimeInv

\* A boot, the end of one, and its failure: there is no request yet.
LEMMA BootKeeps == RuntimeInv /\ (Boot \/ Loaded \/ LoadFails) => RuntimeInv'
<1> SUFFICES ASSUME RuntimeInv, Boot \/ Loaded \/ LoadFails PROVE RuntimeInv'
  OBVIOUS
<1> USE DEF RuntimeInv, RuntimeTypeOK, Open, NoRequestForgotten
<1>1. CASE Boot      BY <1>1 DEF Boot
<1>2. CASE Loaded    BY <1>2 DEF Loaded
<1>3. CASE LoadFails BY <1>3 DEF LoadFails
<1>4. QED BY <1>1, <1>2, <1>3

\* A stop answers everything that is pending.
LEMMA StopKeeps == RuntimeInv /\ Stop => RuntimeInv'
<1> SUFFICES ASSUME RuntimeInv, Stop PROVE RuntimeInv'
  OBVIOUS
<1>1. RuntimeTypeOK /\ Open /\ NoRequestForgotten
  BY DEF RuntimeInv
<1>2. waiting \in SUBSET RequestIds /\ excused' = Post(excused, waiting) /\ port = "open"
  BY <1>1 DEF RuntimeTypeOK, Stop, FailWaiting
<1>3. /\ excused' \in [RequestIds -> Nat]
      /\ served' = served
      /\ \A r \in RequestIds : excused'[r] >= excused[r]
      /\ \A r \in waiting : excused'[r] > 0
  BY <1>1, <1>2, PostCounts DEF RuntimeTypeOK, Stop
<1>4. RuntimeTypeOK'
  BY <1>1, <1>3 DEF RuntimeTypeOK, Stop, FailWaiting
<1>5. Open'
  BY <1>1 DEF Open, RuntimeTypeOK, Stop, FailWaiting
<1>6. \A r \in sent' : served'[r] + excused'[r] # 0
  BY <1>1, <1>3 DEF NoRequestForgotten, RuntimeTypeOK, Stop
<1>7. QED BY <1>4, <1>5, <1>6 DEF RuntimeInv, NoRequestForgotten

\* Every step of the worker keeps the invariant.
LEMMA StepRuntime == RuntimeInv /\ [RuntimeNext]_runtimeVars => RuntimeInv'
<1> SUFFICES ASSUME RuntimeInv, [RuntimeNext]_runtimeVars PROVE RuntimeInv'
  OBVIOUS
<1>1. RuntimeTypeOK /\ Open /\ NoRequestForgotten
  BY DEF RuntimeInv
<1>2. CASE Boot \/ Loaded \/ LoadFails
  BY <1>2, BootKeeps
<1>3. CASE Stop
  BY <1>3, StopKeeps
<1>4. ASSUME NEW r \in RequestIds, Request(r) PROVE RuntimeInv'
  <2>1. PICK answered \in SUBSET (atServer \cup {r}) :
          Emit(waiting \cup {r}, atServer \cup {r}, answered)
    BY <1>4 DEF Request
  <2>2. waiting \cup {r} \in SUBSET sent' /\ atServer \cup {r} \in SUBSET sent'
    BY <1>1, <1>4 DEF Request, RuntimeTypeOK
  <2>3. QED BY <1>1, <1>4, <2>1, <2>2, EmitKeeps DEF Request, RuntimeTypeOK
<1>5. ASSUME NEW r \in RequestIds, RequestThrows(r) PROVE RuntimeInv'
  <2>1. {r} \in SUBSET RequestIds /\ excused' = Post(excused, {r}) /\ port = "open"
    BY <1>5 DEF RequestThrows
  <2>2. excused' \in [RequestIds -> Nat]
    BY <1>1, <2>1, PostCounts DEF RuntimeTypeOK
  <2>3. RuntimeTypeOK'
    BY <1>1, <1>5, <2>2 DEF RuntimeTypeOK, RequestThrows
  <2>4. Open'
    BY <1>1, <1>5 DEF Open, RequestThrows
  <2>5. QED BY <1>5, <2>1, <2>3, <2>4, ExcuseKeeps DEF RequestThrows
<1>6. ASSUME NEW r \in RequestIds, Timeout(r) PROVE RuntimeInv'
  <2>1. {r} \in SUBSET RequestIds /\ excused' = Post(excused, {r}) /\ port = "open"
    BY <1>1, <1>6 DEF Timeout, Open
  <2>2. excused' \in [RequestIds -> Nat]
    BY <1>1, <2>1, PostCounts DEF RuntimeTypeOK
  <2>3. RuntimeTypeOK'
    BY <1>1, <1>6, <2>2 DEF RuntimeTypeOK, Timeout
  <2>4. Open'
    BY <1>1, <1>6 DEF Open, Timeout
  <2>5. QED BY <1>6, <2>1, <2>3, <2>4, ExcuseKeeps DEF Timeout
<1>7. CASE Notify
  <2>1. PICK answered \in SUBSET atServer : Emit(waiting, atServer, answered)
    BY <1>7 DEF Notify
  <2>2. QED BY <1>1, <1>7, <2>1, EmitKeeps DEF Notify, RuntimeTypeOK
<1>8. CASE NotifyThrows
  BY <1>1, <1>8 DEF RuntimeInv, RuntimeTypeOK, Open, NoRequestForgotten, NotifyThrows
<1>9. CASE Poll
  <2>1. PICK answered \in SUBSET atServer :
          /\ atServer' = atServer \ answered
          /\ waiting' = waiting \ answered
          /\ served' = Post(served, answered)
          /\ pump' = (waiting \ answered # {})
    BY <1>9 DEF Poll
  <2>2. port = "open" /\ pump /\ UNCHANGED <<engine, port, announced, sent, excused>>
    BY <1>1, <1>9 DEF Poll, Open
  <2>3. answered \in SUBSET RequestIds
    BY <1>1 DEF RuntimeTypeOK
  <2>4. /\ served' \in [RequestIds -> Nat]
        /\ \A r \in RequestIds : served'[r] >= served[r]
        /\ \A r \in answered : served'[r] > 0
    BY <1>1, <2>1, <2>2, <2>3, PostCounts DEF RuntimeTypeOK
  <2>5. RuntimeTypeOK' /\ Open'
    BY <1>1, <2>1, <2>2, <2>4 DEF RuntimeTypeOK, Open
  <2>6. ASSUME NEW r \in sent', served'[r] + excused'[r] = 0 PROVE r \in waiting' /\ pump'
    <3>1. r \in sent /\ r \in RequestIds /\ served[r] \in Nat /\ excused[r] \in Nat /\ excused'[r] = excused[r]
      BY <1>1, <2>2 DEF RuntimeTypeOK
    <3>2. r \notin answered /\ served[r] + excused[r] = 0
      BY <2>4, <2>6, <3>1
    <3>3. QED BY <1>1, <2>1, <3>1, <3>2 DEF NoRequestForgotten
  <2>7. QED BY <2>5, <2>6 DEF RuntimeInv, NoRequestForgotten
<1>10. CASE PollThrows
  <2>1. waiting \in SUBSET RequestIds /\ excused' = Post(excused, waiting) /\ port = "open"
    BY <1>1, <1>10 DEF RuntimeTypeOK, PollThrows, FailWaiting, Open
  <2>2. excused' \in [RequestIds -> Nat]
    BY <1>1, <2>1, PostCounts DEF RuntimeTypeOK
  <2>3. RuntimeTypeOK' /\ Open'
    BY <1>1, <1>10, <2>2 DEF RuntimeTypeOK, Open, PollThrows, FailWaiting
  <2>4. QED BY <1>10, <2>1, <2>3, ExcuseKeeps DEF PollThrows
<1>11. CASE UNCHANGED runtimeVars
  BY <1>11 DEF runtimeVars, RuntimeInv, RuntimeTypeOK, Open, NoRequestForgotten
<1>12. QED
  BY <1>2, <1>3, <1>4, <1>5, <1>6, <1>7, <1>8, <1>9, <1>10, <1>11 DEF RuntimeNext

\* The invariant holds in every behaviour.
LEMMA InvariantOfRuntime == RuntimeSpec => []RuntimeInv
BY InitRuntime, StepRuntime, PTL DEF RuntimeSpec

\* The state of the browser's worker keeps its type.
THEOREM RuntimeTypeCorrect == RuntimeSpec => []RuntimeTypeOK
<1>1. RuntimeInv => RuntimeTypeOK BY DEF RuntimeInv
<1>2. QED BY <1>1, InvariantOfRuntime, PTL

\* A request without an answer has its timer running and is polled for, whatever the
\* server throws or loses, and when the worker is stopped (worker-runtime.ts).
THEOREM RequestsRemembered == RuntimeSpec => []NoRequestForgotten
<1>1. RuntimeInv => NoRequestForgotten BY DEF RuntimeInv
<1>2. QED BY <1>1, InvariantOfRuntime, PTL
=============================================================================
