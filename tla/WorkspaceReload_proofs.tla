------------------------ MODULE WorkspaceReload_proofs ------------------------
(***************************************************************************)
(* Proofs about WorkspaceReload, for any number of diagnostic requests,    *)
(* reloads and load entries.                                               *)
(*                                                                         *)
(* Types come first (TypeCorrect).  The fetch machinery is then pinned     *)
(* down by FetchInv, which lists the stages a fetch goes through; the      *)
(* loader by LoaderInv, which says what a final progress report implies.   *)
(***************************************************************************)
EXTENDS WorkspaceReload, SequenceTheorems, TLAPS

-----------------------------------------------------------------------------
(* The operators of Readiness stay within their types *)

LEMMA InitialReadinessType == InitialReadiness \in ReadinessType
BY DEF InitialReadiness, ReadinessType, VfsProgress, Option

LEMMA RequestReloadType ==
  ASSUME NEW r \in ReadinessType
  PROVE  RequestReload(r) \in ReadinessType
<1>1. r.requested + 1 \in Nat /\ r.revision + 1 \in Nat
  BY DEF ReadinessType
<1>2. [r EXCEPT !.requested = r.requested + 1, !.revision = r.revision + 1] \in ReadinessType
  BY <1>1, Zenon DEF ReadinessType
<1> QED
  BY <1>2 DEF RequestReload

LEMMA StartFetchType ==
  ASSUME NEW r \in ReadinessType, NEW g \in Option(Nat)
  PROVE  StartFetch(r, g) \in ReadinessType
BY DEF StartFetch, ReadinessType, VfsProgress, Option

LEMMA AcceptBeginType ==
  ASSUME NEW r \in ReadinessType, NEW g \in Nat
  PROVE  AcceptBegin(r, g) \in ReadinessType
BY DEF AcceptBegin, ReadinessType, VfsProgress, Option

LEMMA FinishFetchType ==
  ASSUME NEW r \in ReadinessType, NEW g \in Nat, NEW errors \in BOOLEAN
  PROVE  FinishFetch(r, g, errors) \in ReadinessType
BY DEF FinishFetch, Completion, ReadinessType, VfsProgress, Option

LEMMA BeginVfsLoadType ==
  ASSUME NEW r \in ReadinessType, NEW entries \in Nat
  PROVE  BeginVfsLoad(r, entries) \in ReadinessType
<1> DEFINE begun == [version |-> r.version + 1, done |-> 0, total |-> entries]
<1>1. r.version + 1 \in Nat
  BY DEF ReadinessType
<1>2. begun \in VfsProgress
  BY <1>1 DEF VfsProgress
<1> HIDE DEF begun
<1>3. [r EXCEPT !.version = r.version + 1, !.progress = begun, !.vfsReady = FALSE]
        \in ReadinessType
  BY <1>1, <1>2 DEF ReadinessType
<1> QED
  BY <1>3 DEF BeginVfsLoad, begun

LEMMA AcceptProgressType ==
  ASSUME NEW r \in ReadinessType, NEW version \in Nat, NEW done \in Nat, NEW total \in Nat
  PROVE  AcceptProgress(r, version, done, total) \in ReadinessType
<1> DEFINE seen == [version |-> version, done |-> done, total |-> total]
<1>1. seen \in VfsProgress
  BY DEF VfsProgress
<1> HIDE DEF seen
<1>2. (done >= total) \in BOOLEAN
  OBVIOUS
<1>3. \A ready \in BOOLEAN :
        [r EXCEPT !.progress = seen, !.vfsReady = ready] \in ReadinessType
  BY <1>1 DEF ReadinessType
<1> QED
  BY <1>2, <1>3 DEF AcceptProgress, seen

LEMMA DeferType ==
  ASSUME NEW r \in ReadinessType
  PROVE  Defer(r) \in ReadinessType /\ TakeDeferred(r) \in ReadinessType
BY DEF Defer, TakeDeferred, ReadinessType, VfsProgress, Option

-----------------------------------------------------------------------------
(* The channels *)

LEMMA Dequeue ==
  ASSUME NEW S, NEW s \in Seq(S), s # <<>>
  PROVE  /\ Head(s) \in S
         /\ Head(s) = s[1]
         /\ 1 \in DOMAIN s
         /\ Tail(s) \in Seq(S)
         /\ Len(Tail(s)) = Len(s) - 1
         /\ \A i \in DOMAIN Tail(s) : i + 1 \in DOMAIN s /\ Tail(s)[i] = s[i + 1]
BY HeadTailProperties

LEMMA Enqueue ==
  ASSUME NEW S, NEW s \in Seq(S), NEW e \in S
  PROVE  /\ Append(s, e) \in Seq(S)
         /\ Len(Append(s, e)) = Len(s) + 1
         /\ DOMAIN Append(s, e) = DOMAIN s \cup {Len(s) + 1}
         /\ Append(s, e)[Len(s) + 1] = e
         /\ \A i \in DOMAIN s : i <= Len(s) /\ Append(s, e)[i] = s[i]
BY AppendProperties

LEMMA FetchMessageType ==
  ASSUME NEW g \in Nat, NEW errors \in BOOLEAN
  PROVE  Begin(g) \in FetchMessage /\ End(g, errors) \in FetchMessage
BY DEF Begin, End, FetchMessage

LEMMA LoaderMessageType ==
  ASSUME NEW version \in Nat, NEW done \in Nat, NEW total \in Nat
  PROVE  Progress(version, done, total) \in LoaderMessage /\ Loaded(version) \in LoaderMessage
BY DEF Progress, Loaded, LoaderMessage

LEMMA LoaderTotalType ==
  ASSUME NEW l \in LoaderType
  PROVE  LoaderTotal(l) \in Nat
BY DEF LoaderTotal, LoaderType

-----------------------------------------------------------------------------
(* Type correctness *)

LEMMA TypeInit == Init => TypeOK
<1> SUFFICES ASSUME Init PROVE TypeOK
  OBVIOUS
<1>1. RequestReload(InitialReadiness) \in ReadinessType
  BY InitialReadinessType, RequestReloadType
<1>2. readiness \in ReadinessType
  BY <1>1, StartFetchType DEF Init, Option
<1>3. reloadTask \in TaskType
  BY DEF Init, TakeRequest, RequestTask, IdleTask, TaskType, Option
<1>4. loader \in LoaderType
  BY DEF Init, LoaderType
<1>5. fetchers \subseteq [gen : Nat, phase : {"spawned", "loading"}]
  BY DEF Init
<1>6. pending \in Pending
  BY DEF Init, Pending, NothingPending
<1>7. /\ tasks \in Seq(FetchMessage)
      /\ inbox \in Seq([version : Nat, entries : Nat])
      /\ vfsMsgs \in Seq(LoaderMessage)
  BY EmptySeq DEF Init
<1>8. /\ turn \in {"idle", "client", "task", "vfs"}
      /\ parked \subseteq PullRequests
      /\ answered \subseteq PullRequests
      /\ fetchBar \in Int
      /\ refreshedFor \in Nat
  BY DEF Init
<1>9. wasReady \in BOOLEAN
  BY Zenon DEF Init
<1> QED
  BY <1>2, <1>3, <1>4, <1>5, <1>6, <1>7, <1>8, <1>9 DEF TypeOK

LEMMA TypeFetcher ==
  ASSUME TypeOK, Fetcher
  PROVE  TypeOK'
<1>1. PICK f \in fetchers : FetcherBegin(f) \/ FetcherEnd(f)
  BY DEF Fetcher
<1>2. f \in [gen : Nat, phase : {"spawned", "loading"}]
  BY DEF TypeOK
<1>3. UNCHANGED <<loopVars, loaderVars>>
  BY <1>1 DEF FetcherBegin, FetcherEnd
<1>4. fetchers' \subseteq [gen : Nat, phase : {"spawned", "loading"}]
  BY <1>1, <1>2 DEF TypeOK, FetcherBegin, FetcherEnd
<1>5. tasks' \in Seq(FetchMessage)
  <2>1. f.gen \in Nat
    BY <1>2
  <2>2. \E e \in FetchMessage : tasks' = Append(tasks, e)
    BY <1>1, <2>1, FetchMessageType DEF FetcherBegin, FetcherEnd
  <2> QED
    BY <2>2, Enqueue DEF TypeOK
<1> QED
  BY <1>3, <1>4, <1>5 DEF TypeOK, loopVars, loaderVars

LEMMA TypeLoader ==
  ASSUME TypeOK, Loader
  PROVE  TypeOK'
<1>1. UNCHANGED <<loopVars, fetchVars>>
  BY DEF Loader, LoaderTakeConfig, LoaderReadEntry, LoaderCountEntry, LoaderReport,
         LoaderUnload, LoaderFinish
<1>2. /\ inbox \in Seq([version : Nat, entries : Nat])
      /\ loader \in LoaderType
      /\ vfsMsgs \in Seq(LoaderMessage)
      /\ LoaderTotal(loader) \in Nat
      /\ loader.version \in Nat
  BY LoaderTotalType DEF TypeOK, LoaderType
<1>3. CASE LoaderTakeConfig
  <2>1. PICK reconcile \in BOOLEAN :
          LET config == Head(inbox)
              next   == [phase |-> "loading", version |-> config.version,
                         reconcile |-> reconcile, unread |-> config.entries,
                         read |-> 0, counted |-> 0, owed |-> {}]
          IN  /\ loader' = next
              /\ vfsMsgs' = IF LoaderTotal(next) > 0
                            THEN Append(vfsMsgs, Progress(next.version, 0, LoaderTotal(next)))
                            ELSE vfsMsgs
    BY <1>3 DEF LoaderTakeConfig
  <2>2. Head(inbox) \in [version : Nat, entries : Nat] /\ inbox' \in Seq([version : Nat, entries : Nat])
    BY <1>2, <1>3, Dequeue DEF LoaderTakeConfig
  <2>3. loader' \in LoaderType
    BY <2>1, <2>2 DEF LoaderType
  <2>4. LoaderTotal(loader') \in Nat
    BY <2>3, LoaderTotalType
  <2>5. Progress(loader'.version, 0, LoaderTotal(loader')) \in LoaderMessage
    BY <2>3, <2>4, LoaderMessageType DEF LoaderType
  <2>6. vfsMsgs' \in Seq(LoaderMessage)
    BY <1>2, <2>1, <2>5, Enqueue
  <2> QED
    BY <1>1, <2>2, <2>3, <2>6 DEF TypeOK, loopVars, fetchVars
<1>4. CASE LoaderReadEntry
  <2>1. loader' \in LoaderType
    <3>1. loader.unread - 1 \in Nat /\ loader.read + 1 \in Nat
      BY <1>2, <1>4 DEF LoaderReadEntry, LoaderType
    <3>2. \A a, b \in Nat : [loader EXCEPT !.unread = a, !.read = b] \in LoaderType
      BY <1>2 DEF LoaderType
    <3> QED
      BY <1>4, <3>1, <3>2 DEF LoaderReadEntry
  <2>2. vfsMsgs' \in Seq(LoaderMessage)
    BY <1>2, <1>4, LoaderMessageType, Enqueue DEF LoaderReadEntry
  <2> QED
    BY <1>1, <1>4, <2>1, <2>2 DEF TypeOK, loopVars, fetchVars, LoaderReadEntry
<1>5. CASE LoaderCountEntry
  <2>1. loader' \in LoaderType
    <3>1. /\ loader.read - 1 \in Nat
          /\ loader.counted + 1 \in Nat
          /\ loader.owed \cup {loader.counted + 1} \in SUBSET Nat
      BY <1>2, <1>5 DEF LoaderCountEntry, LoaderType
    <3>2. \A a, b \in Nat, o \in SUBSET Nat :
            [loader EXCEPT !.read = a, !.counted = b, !.owed = o] \in LoaderType
      BY <1>2 DEF LoaderType
    <3> QED
      BY <1>5, <3>1, <3>2 DEF LoaderCountEntry
  <2> QED
    BY <1>1, <1>5, <2>1 DEF TypeOK, loopVars, fetchVars, LoaderCountEntry
<1>6. CASE LoaderReport
  <2>1. PICK n \in loader.owed :
          /\ loader' = [loader EXCEPT !.owed = @ \ {n}]
          /\ vfsMsgs' = Append(vfsMsgs, Progress(loader.version, n, LoaderTotal(loader)))
    BY <1>6 DEF LoaderReport
  <2>2. n \in Nat /\ loader' \in LoaderType
    BY <1>2, <2>1 DEF LoaderType
  <2>3. vfsMsgs' \in Seq(LoaderMessage)
    BY <1>2, <2>1, <2>2, LoaderMessageType, Enqueue
  <2> QED
    BY <1>1, <1>6, <2>2, <2>3 DEF TypeOK, loopVars, fetchVars, LoaderReport
<1>7. CASE LoaderUnload
  <2>1. loader' \in LoaderType
    BY <1>2, <1>7 DEF LoaderUnload, LoaderType
  <2>2. vfsMsgs' \in Seq(LoaderMessage)
    BY <1>2, <1>7, LoaderMessageType, Enqueue DEF LoaderUnload
  <2> QED
    BY <1>1, <1>7, <2>1, <2>2 DEF TypeOK, loopVars, fetchVars, LoaderUnload
<1>8. CASE LoaderFinish
  <2>1. loader' \in LoaderType
    BY <1>2, <1>8 DEF LoaderFinish, LoaderType
  <2>2. vfsMsgs' \in Seq(LoaderMessage)
    BY <1>2, <1>8, LoaderMessageType, Enqueue DEF LoaderFinish
  <2> QED
    BY <1>1, <1>8, <2>1, <2>2 DEF TypeOK, loopVars, fetchVars, LoaderFinish
<1> QED
  BY <1>3, <1>4, <1>5, <1>6, <1>7, <1>8 DEF Loader

LEMMA TypeClientTurn ==
  ASSUME TypeOK, ClientTurn
  PROVE  TypeOK'
<1>1. UNCHANGED <<fetchVars, loaderVars, refreshedFor, fetchBar>> /\ StartTurn("client")
  BY DEF ClientTurn, ReloadTurn, PullTurn, EditTurn
<1>2. wasReady' \in BOOLEAN /\ turn' = "client"
  BY <1>1 DEF StartTurn, IsReady
<1>3. CASE ReloadTurn
  <2>1. readiness' \in ReadinessType
    BY <1>3, RequestReloadType, DeferType DEF TypeOK, ReloadTurn
  <2>2. reloadTask' \in TaskType
    BY <1>3, <2>1 DEF TypeOK, ReloadTurn, RequestTask, TaskType, ReadinessType, Option
  <2> QED
    BY <1>1, <1>2, <1>3, <2>1, <2>2 DEF TypeOK, ReloadTurn, fetchVars, loaderVars
<1>4. CASE \E p \in PullRequests : PullTurn(p)
  <2>1. PICK p \in PullRequests : PullTurn(p)
    BY <1>4
  <2>2. readiness' \in ReadinessType
    BY <2>1, DeferType DEF TypeOK, PullTurn
  <2>3. parked' \subseteq PullRequests /\ answered' \subseteq PullRequests
    BY <2>1 DEF TypeOK, PullTurn
  <2> QED
    BY <1>1, <1>2, <2>1, <2>2, <2>3 DEF TypeOK, PullTurn, fetchVars, loaderVars
<1>5. CASE EditTurn
  BY <1>1, <1>2, <1>5 DEF TypeOK, EditTurn, fetchVars, loaderVars
<1> QED
  BY <1>3, <1>4, <1>5 DEF ClientTurn

LEMMA TypeTaskTurn ==
  ASSUME TypeOK, TaskTurn
  PROVE  TypeOK'
<1> DEFINE m == Head(tasks)
<1>1. /\ TakeTask
      /\ UNCHANGED <<fetchers, pending, parked, answered, refreshedFor>>
  BY DEF TaskTurn, HandleBegin, HandleStaleEnd, HandleFailure, HandleSuccess, HandleEnd
<1>2. m \in FetchMessage /\ tasks' \in Seq(FetchMessage)
  BY <1>1, Dequeue DEF TypeOK, TakeTask
<1>3. m.gen \in Nat /\ m.errors \in BOOLEAN
  BY <1>2 DEF FetchMessage
<1>4. turn' = "task" /\ wasReady' \in BOOLEAN
  BY <1>1 DEF TypeOK, TakeTask, IsReady
<1> HIDE DEF m
<1>5. CASE HandleBegin
  <2>1. readiness' \in ReadinessType
    BY <1>3, <1>5, AcceptBeginType DEF TypeOK, HandleBegin, m
  <2>2. fetchBar' \in Int
    BY <1>5 DEF TypeOK, HandleBegin
  <2> QED
    BY <1>1, <1>2, <1>4, <1>5, <2>1, <2>2 DEF TypeOK, HandleBegin, loaderVars
<1>6. Finished \in ReadinessType
  BY <1>3, FinishFetchType DEF TypeOK, Finished, m
<1>7. CompleteTask(reloadTask) \in TaskType
  BY DEF TypeOK, CompleteTask, TaskType
<1>8. CASE HandleStaleEnd
  <2>1. fetchBar' \in Int
    BY <1>8 DEF TypeOK, HandleStaleEnd
  <2> QED
    BY <1>1, <1>2, <1>4, <1>6, <1>7, <1>8, <2>1
    DEF TypeOK, HandleStaleEnd, HandleEnd, loaderVars
<1>9. CASE HandleFailure
  <2>1. fetchBar' \in Int
    BY <1>9 DEF TypeOK, HandleFailure
  <2> QED
    BY <1>1, <1>2, <1>4, <1>6, <1>7, <1>9, <2>1
    DEF TypeOK, HandleFailure, HandleEnd, loaderVars
<1>10. CASE HandleSuccess
  <2>1. PICK entries \in 0 .. MaxEntries :
          /\ readiness' = Defer(BeginVfsLoad(Finished, entries))
          /\ inbox' = Append(inbox, [version |-> readiness'.version, entries |-> entries])
    BY <1>10 DEF HandleSuccess
  <2>2. readiness' \in ReadinessType
    BY <1>6, <2>1, BoundsAssumption, BeginVfsLoadType, DeferType
  <2>3. inbox' \in Seq([version : Nat, entries : Nat])
    <3>1. readiness'.version \in Nat /\ entries \in Nat
      BY <2>2, BoundsAssumption DEF ReadinessType
    <3>2. [version |-> readiness'.version, entries |-> entries] \in [version : Nat, entries : Nat]
      BY <3>1
    <3> QED
      BY <2>1, <3>2, Enqueue DEF TypeOK
  <2>4. fetchBar' \in Int
    BY <1>10 DEF TypeOK, HandleSuccess
  <2> QED
    BY <1>1, <1>2, <1>4, <1>7, <1>10, <2>2, <2>3, <2>4
    DEF TypeOK, HandleSuccess, HandleEnd
<1> QED
  BY <1>5, <1>8, <1>9, <1>10 DEF TaskTurn

LEMMA TypeVfsTurn ==
  ASSUME TypeOK, VfsTurn
  PROVE  TypeOK'
<1>1. /\ TakeVfsMsg
      /\ UNCHANGED <<reloadTask, parked, answered, fetchBar, refreshedFor,
                     inbox, loader, fetchVars>>
  BY DEF VfsTurn, HandleProgress, HandleLoaded
<1>2. Head(vfsMsgs) \in LoaderMessage /\ vfsMsgs' \in Seq(LoaderMessage)
  BY <1>1, Dequeue DEF TypeOK, TakeVfsMsg
<1>3. turn' = "vfs" /\ wasReady' \in BOOLEAN
  BY <1>1 DEF TypeOK, TakeVfsMsg, IsReady
<1>4. readiness' \in ReadinessType
  <2>1. \A m \in LoaderMessage : AcceptProgress(readiness, m.version, m.done, m.total)
                                   \in ReadinessType
    BY AcceptProgressType DEF TypeOK, LoaderMessage
  <2> QED
    BY <1>2, <2>1 DEF TypeOK, VfsTurn, HandleProgress, HandleLoaded
<1>5. pending' \in Pending
  BY DEF TypeOK, Pending, VfsTurn, HandleProgress, HandleLoaded
<1> QED
  BY <1>1, <1>2, <1>3, <1>4, <1>5 DEF TypeOK, fetchVars

LEMMA TypeFinishTurn ==
  ASSUME TypeOK, FinishTurn
  PROVE  TypeOK'
<1>1. PICK reload \in BOOLEAN :
        LET r == AfterChanges(reload)
            t == IF reload THEN RequestTask(reloadTask, r.requested) ELSE reloadTask
            starts == ShouldStart(t)
        IN  /\ IF DeferredDue(r)
               THEN parked' = {} /\ answered' = answered \cup parked
               ELSE UNCHANGED <<parked, answered>>
            /\ refreshedFor' = IF IsReady(r) /\ (~wasReady \/ pending.changed)
                               THEN r.version ELSE refreshedFor
            /\ readiness' = IF starts THEN StartFetch(TakeDeferred(r), t.requested)
                            ELSE TakeDeferred(r)
            /\ reloadTask' = IF starts THEN TakeRequest(t) ELSE t
            /\ fetchers' = IF starts
                           THEN fetchers \cup {[gen |-> t.requested, phase |-> "spawned"]}
                           ELSE fetchers
  BY DEF FinishTurn, TypeOK, Pending
<1> DEFINE r == AfterChanges(reload)
           t == IF reload THEN RequestTask(reloadTask, r.requested) ELSE reloadTask
<1>2. r \in ReadinessType
  BY DeferType, RequestReloadType DEF TypeOK, AfterChanges
<1>3. t \in TaskType
  BY <1>2 DEF TypeOK, TaskType, RequestTask, ReadinessType, Option
<1>4. ShouldStart(t) => t.requested \in Nat
  BY <1>3 DEF ShouldStart, TaskType, Option
<1>5. TakeDeferred(r) \in ReadinessType
  BY <1>2, DeferType
<1> HIDE DEF r, t
<1>6. readiness' \in ReadinessType
  BY <1>1, <1>4, <1>5, StartFetchType DEF Option, r, t
<1>7. reloadTask' \in TaskType
  BY <1>1, <1>3 DEF TakeRequest, TaskType, Option, r, t
<1>8. fetchers' \subseteq [gen : Nat, phase : {"spawned", "loading"}]
  BY <1>1, <1>4 DEF TypeOK, r, t
<1>9. refreshedFor' \in Nat
  BY <1>1, <1>2 DEF TypeOK, ReadinessType, r
<1>10. parked' \subseteq PullRequests /\ answered' \subseteq PullRequests
  BY <1>1 DEF TypeOK, r
<1> QED
  BY <1>6, <1>7, <1>8, <1>9, <1>10
  DEF FinishTurn, TypeOK, NothingPending, Pending, loaderVars

LEMMA TypeNext ==
  ASSUME TypeOK, [Next]_vars
  PROVE  TypeOK'
<1>1. CASE UNCHANGED vars
  BY <1>1 DEF TypeOK, vars, loopVars, loaderVars, fetchVars
<1> QED
  BY <1>1, TypeFetcher, TypeLoader, TypeClientTurn, TypeTaskTurn, TypeVfsTurn,
     TypeFinishTurn DEF Next

\* Every record and channel of the reload machinery keeps its type, whatever the
\* interleaving of main loop, fetch worker and loader.
THEOREM TypeCorrect == Spec => []TypeOK
<1>1. TypeOK /\ [Next]_vars => TypeOK'
  BY TypeNext
<1> QED
  BY TypeInit, <1>1, PTL DEF Spec

-----------------------------------------------------------------------------
(* The stages of a fetch *)

LEMMA ShortQueues ==
  ASSUME NEW a, NEW b
  PROVE  /\ Append(<<>>, a) = <<a>>
         /\ Append(<<a>>, b) = <<a, b>>
         /\ Head(<<a>>) = a /\ Tail(<<a>>) = <<>> /\ <<a>> # <<>>
         /\ Head(<<a, b>>) = a /\ Tail(<<a, b>>) = <<b>>
<1>1. /\ <<a>> \in Seq({a, b}) /\ Len(<<a>>) = 1
      /\ <<a, b>> \in Seq({a, b}) /\ Len(<<a, b>>) = 2
  OBVIOUS
<1>2. Append(<<a>>, b) \in Seq({a, b}) /\ Len(Append(<<a>>, b)) = 2
  BY <1>1, AppendProperties
<1>3. \A i \in 1 .. 2 : Append(<<a>>, b)[i] = <<a, b>>[i]
  BY <1>1, AppendProperties
<1>4. Append(<<a>>, b) = <<a, b>>
  BY <1>1, <1>2, <1>3, SeqEqual
<1> QED
  BY <1>4

\* What FetchInv reads of the readiness record.
FetchFields(r) == <<r.requested, r.active, r.fetchProgress, r.committed>>

LEMMA FetchFieldsKept ==
  ASSUME NEW r \in ReadinessType, NEW version \in Nat, NEW done \in Nat, NEW total \in Nat
  PROVE  /\ FetchFields(AcceptProgress(r, version, done, total)) = FetchFields(r)
         /\ FetchFields(BeginVfsLoad(r, total)) = FetchFields(r)
BY DEF FetchFields, AcceptProgress, BeginVfsLoad, ReadinessType

LEMMA DeferKeepsFetch ==
  ASSUME NEW r \in ReadinessType
  PROVE  /\ FetchFields(Defer(r)) = FetchFields(r)
         /\ FetchFields(TakeDeferred(r)) = FetchFields(r)
BY DEF FetchFields, Defer, TakeDeferred, ReadinessType

LEMMA FetchInit == Init => FetchInv
<1> SUFFICES ASSUME Init PROVE FetchInv
  OBVIOUS
<1>1. /\ readiness.requested = 1 /\ readiness.active = 1 /\ readiness.committed = 0
      /\ readiness.fetchProgress = None
  BY DEF Init, StartFetch, RequestReload, InitialReadiness
<1>2. reloadTask = [requested |-> None, inProcess |-> TRUE]
  BY DEF Init, TakeRequest, RequestTask, IdleTask
<1>3. 1 # None
  BY NoneAssumption
<1>4. Fetching(readiness.active)
  BY <1>1, <1>2 DEF Fetching, Init
<1>5. fetchBar = 0
  BY DEF Init
<1> QED
  BY <1>1, <1>2, <1>3, <1>4, <1>5 DEF FetchInv, Generations, RequestWaits

\* Steps that touch neither the fetch nor what is asked for.
LEMMA FetchStutter ==
  ASSUME FetchInv, FetchFields(readiness') = FetchFields(readiness),
         UNCHANGED <<reloadTask, fetchers, tasks, fetchBar>>,
         turn' = "idle" => turn = "idle"
  PROVE  FetchInv'
<1>1. /\ readiness'.requested = readiness.requested
      /\ readiness'.active = readiness.active
      /\ readiness'.fetchProgress = readiness.fetchProgress
      /\ readiness'.committed = readiness.committed
  BY DEF FetchFields
<1>2. NoFetch => NoFetch'
  BY <1>1 DEF NoFetch
<1>3. BeginTaken => BeginTaken'
  BY <1>1 DEF BeginTaken
<1>4. readiness.active # None /\ Fetching(readiness.active)
        => readiness'.active # None /\ Fetching(readiness.active)'
  BY <1>1, <1>3 DEF Fetching
<1>5. Generations' /\ RequestWaits'
  BY <1>1 DEF FetchInv, Generations, RequestWaits
<1> QED
  BY <1>1, <1>2, <1>4, <1>5 DEF FetchInv

LEMMA FetchFetcher ==
  ASSUME TypeOK, FetchInv, Fetcher
  PROVE  FetchInv'
<1>1. PICK f \in fetchers : FetcherBegin(f) \/ FetcherEnd(f)
  BY DEF Fetcher
<1> DEFINE g == readiness.active
<1>2. UNCHANGED <<readiness, reloadTask, turn, fetchBar>>
  BY <1>1 DEF FetcherBegin, FetcherEnd, loopVars
<1>3. g # None /\ Fetching(g)
  BY <1>1 DEF FetchInv, NoFetch
<1>4. CASE FetcherBegin(f)
  <2>1. f = [gen |-> g, phase |-> "spawned"] /\ fetchers = {f} /\ tasks = <<>>
        /\ readiness.fetchProgress = None
    BY <1>1, <1>3, <1>4 DEF Fetching, FetcherBegin
  <2>2. fetchers' = {[gen |-> g, phase |-> "loading"]} /\ tasks' = <<Begin(g)>>
    BY <1>4, <2>1, ShortQueues DEF FetcherBegin
  <2> QED
    BY <1>2, <1>3, <2>1, <2>2
    DEF FetchInv, Fetching, Generations, RequestWaits, BeginTaken
<1>5. CASE FetcherEnd(f)
  <2>1. f = [gen |-> g, phase |-> "loading"] /\ fetchers = {f}
        /\ \/ tasks = <<Begin(g)>> /\ readiness.fetchProgress = None
           \/ tasks = <<>> /\ BeginTaken
    BY <1>1, <1>3, <1>5 DEF Fetching, FetcherEnd
  <2>2. PICK errors \in BOOLEAN : tasks' = Append(tasks, End(g, errors))
    BY <1>5, <2>1 DEF FetcherEnd
  <2>3. fetchers' = {}
    BY <1>5, <2>1 DEF FetcherEnd
  <2>4. \/ tasks' = <<Begin(g), End(g, errors)>> /\ readiness.fetchProgress = None
        \/ tasks' = <<End(g, errors)>> /\ BeginTaken
    BY <2>1, <2>2, ShortQueues
  <2>5. Fetching(g)'
    BY <1>2, <1>3, <2>3, <2>4 DEF Fetching, BeginTaken
  <2> QED
    BY <1>2, <1>3, <2>5 DEF FetchInv, Generations, RequestWaits
<1> QED
  BY <1>1, <1>4, <1>5

LEMMA FetchLoader ==
  ASSUME FetchInv, Loader
  PROVE  FetchInv'
<1>1. UNCHANGED <<loopVars, fetchVars>>
  BY DEF Loader, LoaderTakeConfig, LoaderReadEntry, LoaderCountEntry, LoaderReport,
         LoaderUnload, LoaderFinish
<1> QED
  BY <1>1, FetchStutter DEF loopVars, fetchVars

LEMMA FetchVfsTurn ==
  ASSUME TypeOK, FetchInv, VfsTurn
  PROVE  FetchInv'
<1>1. /\ TakeVfsMsg
      /\ UNCHANGED <<reloadTask, fetchBar, fetchVars>>
  BY DEF VfsTurn, HandleProgress, HandleLoaded
<1>2. Head(vfsMsgs) \in LoaderMessage
  BY <1>1, Dequeue DEF TypeOK, TakeVfsMsg
<1>3. FetchFields(readiness') = FetchFields(readiness)
  <2> DEFINE m == Head(vfsMsgs)
  <2>1. FetchFields(AcceptProgress(readiness, m.version, m.done, m.total))
          = FetchFields(readiness)
    BY <1>2, FetchFieldsKept DEF TypeOK, LoaderMessage
  <2>2. readiness' \in {readiness, AcceptProgress(readiness, m.version, m.done, m.total)}
    BY DEF VfsTurn, HandleProgress, HandleLoaded
  <2> QED
    BY <2>1, <2>2
<1> QED
  BY <1>1, <1>3, FetchStutter DEF fetchVars, TakeVfsMsg

LEMMA FetchClientTurn ==
  ASSUME TypeOK, FetchInv, ClientTurn
  PROVE  FetchInv'
<1>1. UNCHANGED <<fetchVars, fetchBar>> /\ turn' = "client"
  BY DEF ClientTurn, ReloadTurn, PullTurn, EditTurn, StartTurn
<1>2. CASE ReloadTurn
  <2>1. PICK r \in {readiness, Defer(readiness)} :
          readiness' = RequestReload(r) /\ reloadTask' = RequestTask(reloadTask, readiness'.requested)
    BY <1>2 DEF ReloadTurn
  <2>2. r \in ReadinessType /\ FetchFields(r) = FetchFields(readiness)
    BY <2>1, DeferType, DeferKeepsFetch DEF TypeOK
  <2>3. /\ readiness'.requested = readiness.requested + 1
        /\ readiness'.active = readiness.active
        /\ readiness'.fetchProgress = readiness.fetchProgress
        /\ readiness'.committed = readiness.committed
    BY <2>1, <2>2 DEF FetchFields, RequestReload, ReadinessType
  <2>4. /\ reloadTask'.requested = readiness.requested + 1
        /\ reloadTask'.inProcess = reloadTask.inProcess
    BY <2>1, <2>3 DEF RequestTask, TypeOK, TaskType
  <2>5. /\ readiness.requested \in Nat /\ readiness.committed \in Nat
        /\ readiness.active \in Nat \cup {None}
    BY DEF TypeOK, ReadinessType, Option
  <2>6. Generations' /\ RequestWaits'
    BY <1>1, <2>3, <2>4, <2>5, NoneAssumption DEF FetchInv, Generations, RequestWaits
  <2>7. NoFetch => NoFetch'
    BY <1>1, <2>3, <2>4 DEF NoFetch, fetchVars
  <2>8. readiness.active # None => readiness'.active # readiness'.requested
    BY <2>3, <2>5 DEF FetchInv, Generations
  <2>9. readiness.active # None /\ Fetching(readiness.active) => Fetching(readiness.active)'
    BY <1>1, <2>3, <2>4, <2>8 DEF Fetching, BeginTaken, fetchVars
  <2> QED
    BY <1>1, <2>3, <2>6, <2>7, <2>9 DEF FetchInv
<1>3. CASE \E p \in PullRequests : PullTurn(p)
  <2>1. readiness' \in {readiness, Defer(readiness)} /\ UNCHANGED reloadTask
    BY <1>3 DEF PullTurn
  <2>2. readiness \in ReadinessType
    BY DEF TypeOK
  <2>3. FetchFields(readiness') = FetchFields(readiness)
    <3>1. CASE readiness' = readiness
      BY <3>1
    <3>2. CASE readiness' = Defer(readiness)
      BY <2>2, <3>2, DeferKeepsFetch
    <3> QED
      BY <2>1, <3>1, <3>2
  <2> QED
    BY <1>1, <2>1, <2>3, FetchStutter DEF fetchVars
<1>4. CASE EditTurn
  BY <1>1, <1>4, FetchStutter DEF fetchVars, EditTurn
<1> QED
  BY <1>2, <1>3, <1>4 DEF ClientTurn

LEMMA FetchBegin ==
  ASSUME TypeOK, FetchInv, HandleBegin
  PROVE  FetchInv'
<1> DEFINE g == readiness.active
<1>1. /\ tasks # <<>> /\ tasks' = Tail(tasks) /\ turn' = "task"
      /\ Head(tasks).kind = "begin"
      /\ UNCHANGED <<reloadTask, fetchers>>
  BY DEF HandleBegin, TakeTask
<1>2. g # None /\ Fetching(g)
  BY <1>1 DEF FetchInv, NoFetch
<1>3. /\ readiness.fetchProgress = None
      /\ Head(tasks).gen = g
      /\ \/ fetchers = {[gen |-> g, phase |-> "loading"]} /\ tasks' = <<>>
         \/ fetchers = {} /\ \E errors \in BOOLEAN : tasks' = <<End(g, errors)>>
  <2>1. CASE \E errors \in BOOLEAN : tasks = <<End(g, errors)>>
    <3>1. \A errors : Head(<<End(g, errors)>>).kind = "end"
      BY DEF End
    <3> QED
      BY <1>1, <2>1, <3>1
  <2>2. CASE fetchers = {[gen |-> g, phase |-> "loading"]} /\ tasks = <<Begin(g)>>
             /\ readiness.fetchProgress = None
    <3>1. Head(tasks) = Begin(g) /\ tasks' = <<>>
      BY <1>1, <2>2, ShortQueues
    <3> QED
      BY <1>1, <2>2, <3>1 DEF Begin
  <2>3. CASE fetchers = {} /\ readiness.fetchProgress = None
             /\ \E errors \in BOOLEAN : tasks = <<Begin(g), End(g, errors)>>
    <3>1. PICK errors \in BOOLEAN : tasks = <<Begin(g), End(g, errors)>>
      BY <2>3
    <3>2. Head(tasks) = Begin(g) /\ tasks' = <<End(g, errors)>>
      BY <1>1, <3>1, ShortQueues
    <3> QED
      BY <1>1, <2>3, <3>2 DEF Begin
  <2> QED
    BY <1>1, <1>2, <2>1, <2>2, <2>3 DEF Fetching
<1>4. CASE AcceptsBegin(readiness, g)
  <2>1. readiness' = AcceptBegin(readiness, g) /\ fetchBar' = fetchBar + 1
    BY <1>3, <1>4 DEF HandleBegin
  <2>2. /\ readiness'.requested = readiness.requested
        /\ readiness'.active = g
        /\ readiness'.fetchProgress = g
        /\ readiness'.committed = readiness.committed
    BY <2>1 DEF AcceptBegin, TypeOK, ReadinessType
  <2>3. BeginTaken'
    BY <1>2, <2>2 DEF BeginTaken
  <2>4. Fetching(g)'
    BY <1>1, <1>2, <1>3, <2>2, <2>3 DEF Fetching
  <2>5. Generations' /\ RequestWaits'
    BY <1>1, <2>2 DEF FetchInv, Generations, RequestWaits
  <2>6. fetchBar' = 1
    BY <1>3, <2>1 DEF FetchInv
  <2> QED
    BY <1>2, <2>2, <2>4, <2>5, <2>6 DEF FetchInv
<1>5. CASE ~AcceptsBegin(readiness, g)
  <2>1. UNCHANGED <<readiness, fetchBar>>
    BY <1>3, <1>5 DEF HandleBegin
  <2>2. BeginTaken'
    BY <1>3, <1>5, <2>1 DEF BeginTaken, AcceptsBegin
  <2>3. Fetching(g)'
    BY <1>1, <1>2, <1>3, <2>1, <2>2 DEF Fetching
  <2> QED
    BY <1>1, <1>2, <2>1, <2>3 DEF FetchInv, Generations, RequestWaits
<1> QED
  BY <1>4, <1>5

LEMMA FinishFetchFields ==
  ASSUME NEW r \in ReadinessType, NEW g \in Nat, NEW errors \in BOOLEAN, r.active = g,
         r.fetchProgress \in {None, g}
  PROVE  LET s == FinishFetch(r, g, errors)
             completion == Completion(r, g, errors)
         IN  /\ s.active = None
             /\ s.fetchProgress = None
             /\ s.requested = IF completion = "failure" THEN r.committed ELSE r.requested
             /\ s.committed = IF completion = "success" THEN g ELSE r.committed
             /\ completion = "stale" <=> r.requested # g
BY DEF FinishFetch, Completion, ReadinessType

\* What the three ways to take an End have in common: the fetch in flight is over.
LEMMA FetchEnd ==
  ASSUME TypeOK, FetchInv, NEW completion, HandleEnd(completion)
  PROVE  LET g == readiness.active
         IN  /\ g \in Nat
             /\ fetchers' = {} /\ tasks' = <<>> /\ turn' = "task"
             /\ reloadTask'.inProcess = FALSE
             /\ reloadTask'.requested = reloadTask.requested
             /\ Head(tasks).gen = g /\ Head(tasks).errors \in BOOLEAN
             /\ BeginTaken
             /\ FetchFields(Finished)
                  = << IF completion = "failure" THEN readiness.committed
                       ELSE readiness.requested,
                       None, None,
                       IF completion = "success" THEN g ELSE readiness.committed >>
             /\ completion = "stale" <=> readiness.requested # g
<1> DEFINE g == readiness.active
<1>1. /\ tasks # <<>> /\ tasks' = Tail(tasks) /\ turn' = "task"
      /\ Head(tasks).kind = "end"
      /\ reloadTask' = CompleteTask(reloadTask)
      /\ UNCHANGED fetchers
  BY DEF HandleEnd, TakeTask
<1>2. g # None /\ Fetching(g)
  BY <1>1 DEF FetchInv, NoFetch
<1>3. PICK errors \in BOOLEAN : tasks = <<End(g, errors)>> /\ BeginTaken /\ fetchers = {}
  <2>1. Begin(g).kind = "begin"
    BY DEF Begin
  <2> QED
    BY <1>1, <1>2, <2>1, ShortQueues DEF Fetching
<1>4. Head(tasks) = End(g, errors) /\ tasks' = <<>>
  BY <1>1, <1>3, ShortQueues
<1>5. g \in Nat
  BY <1>2 DEF TypeOK, ReadinessType, Option
<1>6. Head(tasks).gen = g /\ Head(tasks).errors = errors
  BY <1>4 DEF End
<1>7. readiness.fetchProgress \in {None, g}
  BY <1>3 DEF BeginTaken
<1>8. completion = Completion(readiness, g, errors)
  BY <1>6 DEF HandleEnd
<1>9. Finished = FinishFetch(readiness, g, errors)
  BY <1>6 DEF Finished
<1>10. readiness \in ReadinessType
  BY DEF TypeOK
<1>11. FetchFields(Finished)
         = << IF completion = "failure" THEN readiness.committed ELSE readiness.requested,
              None, None,
              IF completion = "success" THEN g ELSE readiness.committed >>
  BY <1>5, <1>7, <1>8, <1>9, <1>10, FinishFetchFields DEF FetchFields
<1>12. completion = "stale" <=> readiness.requested # g
  BY <1>8 DEF Completion
<1>13. reloadTask'.inProcess = FALSE /\ reloadTask'.requested = reloadTask.requested
  BY <1>1 DEF CompleteTask, TypeOK, TaskType
<1> QED
  BY <1>1, <1>3, <1>4, <1>5, <1>6, <1>11, <1>12, <1>13

LEMMA FetchTaskTurn ==
  ASSUME TypeOK, FetchInv, TaskTurn
  PROVE  FetchInv'
<1> DEFINE g == readiness.active
<1>1. /\ readiness.requested \in Nat /\ readiness.committed \in Nat
      /\ readiness.active \in Nat \cup {None}
  BY DEF TypeOK, ReadinessType, Option
<1>2. CASE HandleStaleEnd
  <2>1. HandleEnd("stale") /\ readiness' = Finished
        /\ fetchBar' = IF readiness.fetchProgress = Head(tasks).gen
                       THEN fetchBar - 1 ELSE fetchBar
    BY <1>2 DEF HandleStaleEnd
  <2>2. /\ readiness'.requested = readiness.requested /\ readiness.requested # g
        /\ readiness'.active = None /\ readiness'.fetchProgress = None
        /\ readiness'.committed = readiness.committed
    BY <2>1, FetchEnd DEF FetchFields
  <2>3. NoFetch' /\ turn' = "task" /\ reloadTask'.requested = reloadTask.requested
        /\ g \in Nat /\ Head(tasks).gen = g /\ BeginTaken
    BY <2>1, <2>2, FetchEnd DEF NoFetch
  <2>4. fetchBar' = 0
    BY <2>1, <2>3, NoneAssumption DEF FetchInv, BeginTaken
  <2>5. Generations' /\ RequestWaits'
    BY <1>1, <2>2, <2>3, NoneAssumption DEF FetchInv, Generations, RequestWaits
  <2> QED
    BY <2>2, <2>3, <2>4, <2>5 DEF FetchInv
<1>3. CASE HandleFailure
  <2>1. HandleEnd("failure") /\ readiness' = Finished /\ fetchBar' = fetchBar - 1
    BY <1>3 DEF HandleFailure
  <2>2. /\ readiness'.requested = readiness.committed /\ readiness.requested = g
        /\ readiness'.active = None /\ readiness'.fetchProgress = None
        /\ readiness'.committed = readiness.committed
    BY <2>1, FetchEnd DEF FetchFields
  <2>3. NoFetch' /\ turn' = "task" /\ reloadTask'.requested = reloadTask.requested
        /\ g \in Nat /\ BeginTaken
    BY <2>1, <2>2, FetchEnd DEF NoFetch
  <2>4. fetchBar' = 0
    BY <2>1, <2>2, <2>3 DEF FetchInv, BeginTaken
  <2>5. Generations' /\ RequestWaits'
    BY <1>1, <2>2, <2>3, NoneAssumption DEF FetchInv, Generations, RequestWaits
  <2> QED
    BY <2>2, <2>3, <2>4, <2>5 DEF FetchInv
<1>4. CASE HandleSuccess
  <2>1. HandleEnd("success") /\ fetchBar' = fetchBar - 1
    BY <1>4 DEF HandleSuccess
  <2>2. FetchFields(readiness') = FetchFields(Finished)
    <3>1. PICK entries \in 0 .. MaxEntries :
            readiness' = Defer(BeginVfsLoad(Finished, entries))
      BY <1>4 DEF HandleSuccess
    <3>2. Finished \in ReadinessType /\ entries \in Nat
      <4>1. Head(tasks).gen \in Nat /\ Head(tasks).errors \in BOOLEAN
        BY <2>1, FetchEnd
      <4>2. Finished \in ReadinessType
        BY <4>1, FinishFetchType DEF Finished, TypeOK
      <4> QED
        BY <4>2, BoundsAssumption
    <3>3. BeginVfsLoad(Finished, entries) \in ReadinessType
      BY <3>2, BeginVfsLoadType
    <3> QED
      BY <3>1, <3>2, <3>3, DeferKeepsFetch, FetchFieldsKept
  <2>3. /\ readiness'.requested = readiness.requested /\ readiness.requested = g
        /\ readiness'.active = None /\ readiness'.fetchProgress = None
        /\ readiness'.committed = g
    BY <2>1, <2>2, FetchEnd DEF FetchFields
  <2>4. NoFetch' /\ turn' = "task" /\ reloadTask'.requested = reloadTask.requested
        /\ g \in Nat /\ BeginTaken
    BY <2>1, <2>3, FetchEnd DEF NoFetch
  <2>5. fetchBar' = 0
    BY <2>1, <2>3, <2>4 DEF FetchInv, BeginTaken
  <2>6. Generations' /\ RequestWaits'
    BY <1>1, <2>3, <2>4, NoneAssumption DEF FetchInv, Generations, RequestWaits
  <2> QED
    BY <2>3, <2>4, <2>5, <2>6 DEF FetchInv
<1> QED
  BY <1>2, <1>3, <1>4, FetchBegin DEF TaskTurn

LEMMA AfterChangesFields ==
  ASSUME TypeOK, NEW reload \in BOOLEAN
  PROVE  LET r == AfterChanges(reload)
         IN  /\ r \in ReadinessType
             /\ r.requested = IF reload THEN readiness.requested + 1 ELSE readiness.requested
             /\ r.active = readiness.active
             /\ r.fetchProgress = readiness.fetchProgress
             /\ r.committed = readiness.committed
             /\ r.version = readiness.version
             /\ r.progress = readiness.progress
             /\ r.vfsReady = readiness.vfsReady
             /\ readiness.deferred => r.deferred
<1> DEFINE q == IF pending.diagnose /\ ~IsReady(readiness) THEN Defer(readiness) ELSE readiness
<1>1. readiness \in ReadinessType /\ Defer(readiness) \in ReadinessType
  BY DeferType DEF TypeOK
<1>2. /\ q \in ReadinessType
      /\ q.requested = readiness.requested
      /\ q.active = readiness.active
      /\ q.fetchProgress = readiness.fetchProgress
      /\ q.committed = readiness.committed
      /\ q.version = readiness.version
      /\ q.progress = readiness.progress
      /\ q.vfsReady = readiness.vfsReady
      /\ readiness.deferred => q.deferred
  BY <1>1 DEF Defer, ReadinessType
<1>3. AfterChanges(reload) = IF reload THEN RequestReload(q) ELSE q
  BY DEF AfterChanges
<1> HIDE DEF q
<1>4. CASE reload
  <2>1. /\ RequestReload(q) \in ReadinessType
        /\ RequestReload(q) = [q EXCEPT !.requested = q.requested + 1, !.revision = q.revision + 1]
    BY <1>2, RequestReloadType DEF RequestReload
  <2> QED
    BY <1>2, <1>3, <1>4, <2>1 DEF ReadinessType
<1>5. CASE ~reload
  BY <1>2, <1>3, <1>5
<1> QED
  BY <1>4, <1>5

\* The parts of a turn's tail that matter for the fetch.
LEMMA FinishTurnFetch ==
  ASSUME TypeOK, FinishTurn
  PROVE  \E reload \in BOOLEAN :
           LET r == AfterChanges(reload)
               t == IF reload THEN RequestTask(reloadTask, r.requested) ELSE reloadTask
           IN  /\ turn' = "idle" /\ UNCHANGED <<fetchBar, tasks>>
               /\ t.inProcess = reloadTask.inProcess
               /\ t.requested = IF reload THEN r.requested ELSE reloadTask.requested
               /\ readiness'.requested = r.requested
               /\ readiness'.committed = r.committed
               /\ readiness'.fetchProgress = r.fetchProgress
               /\ readiness'.active = IF ShouldStart(t) THEN t.requested ELSE r.active
               /\ reloadTask' = IF ShouldStart(t) THEN TakeRequest(t) ELSE t
               /\ fetchers' = IF ShouldStart(t)
                              THEN fetchers \cup {[gen |-> t.requested, phase |-> "spawned"]}
                              ELSE fetchers
<1>1. PICK reload \in BOOLEAN :
        LET r == AfterChanges(reload)
            t == IF reload THEN RequestTask(reloadTask, r.requested) ELSE reloadTask
            starts == ShouldStart(t)
        IN  /\ readiness' = IF starts THEN StartFetch(TakeDeferred(r), t.requested)
                            ELSE TakeDeferred(r)
            /\ reloadTask' = IF starts THEN TakeRequest(t) ELSE t
            /\ fetchers' = IF starts
                           THEN fetchers \cup {[gen |-> t.requested, phase |-> "spawned"]}
                           ELSE fetchers
  BY DEF FinishTurn, TypeOK, Pending
<1> DEFINE r == AfterChanges(reload)
           t == IF reload THEN RequestTask(reloadTask, r.requested) ELSE reloadTask
<1>2. r \in ReadinessType
  BY AfterChangesFields
<1>3. TakeDeferred(r) \in ReadinessType /\ FetchFields(TakeDeferred(r)) = FetchFields(r)
  BY <1>2, DeferType, DeferKeepsFetch
<1>4. /\ t.inProcess = reloadTask.inProcess
      /\ t.requested = IF reload THEN r.requested ELSE reloadTask.requested
  BY DEF RequestTask, TypeOK, TaskType
<1>5. /\ turn' = "idle" /\ UNCHANGED <<fetchBar, tasks>>
  BY DEF FinishTurn
<1> HIDE DEF r, t
<1>6. /\ readiness'.requested = r.requested
      /\ readiness'.committed = r.committed
      /\ readiness'.fetchProgress = r.fetchProgress
      /\ readiness'.active = IF ShouldStart(t) THEN t.requested ELSE r.active
  <2>1. readiness' = IF ShouldStart(t) THEN StartFetch(TakeDeferred(r), t.requested)
                     ELSE TakeDeferred(r)
    BY <1>1 DEF r, t
  <2> QED
    BY <1>3, <2>1 DEF StartFetch, FetchFields, ReadinessType
<1> QED
  BY <1>1, <1>4, <1>5, <1>6 DEF r, t

LEMMA FetchFinishTurn ==
  ASSUME TypeOK, FetchInv, FinishTurn
  PROVE  FetchInv'
<1>1. PICK reload \in BOOLEAN :
         LET r == AfterChanges(reload)
             t == IF reload THEN RequestTask(reloadTask, r.requested) ELSE reloadTask
         IN  /\ turn' = "idle" /\ UNCHANGED <<fetchBar, tasks>>
             /\ t.inProcess = reloadTask.inProcess
             /\ t.requested = IF reload THEN r.requested ELSE reloadTask.requested
             /\ readiness'.requested = r.requested
             /\ readiness'.committed = r.committed
             /\ readiness'.fetchProgress = r.fetchProgress
             /\ readiness'.active = IF ShouldStart(t) THEN t.requested ELSE r.active
             /\ reloadTask' = IF ShouldStart(t) THEN TakeRequest(t) ELSE t
             /\ fetchers' = IF ShouldStart(t)
                            THEN fetchers \cup {[gen |-> t.requested, phase |-> "spawned"]}
                            ELSE fetchers
  BY FinishTurnFetch
<1> DEFINE r == AfterChanges(reload)
           t == IF reload THEN RequestTask(reloadTask, r.requested) ELSE reloadTask
<1>2. /\ r.requested = IF reload THEN readiness.requested + 1 ELSE readiness.requested
      /\ r.active = readiness.active
      /\ r.fetchProgress = readiness.fetchProgress
      /\ r.committed = readiness.committed
  BY AfterChangesFields
<1>3. /\ readiness.requested \in Nat /\ readiness.committed \in Nat
      /\ readiness.active \in Nat \cup {None}
  BY DEF TypeOK, ReadinessType, Option
<1> HIDE DEF r, t
<1>4. /\ t.requested = IF r.requested \in {r.committed, r.active} THEN None ELSE r.requested
      /\ r.committed <= r.requested
      /\ r.active # None => r.committed < r.active /\ r.active <= r.requested
      /\ reload /\ r.active # None => r.active # r.requested
  BY <1>1, <1>2, <1>3, NoneAssumption DEF FetchInv, Generations, RequestWaits, r, t
<1>5. t.inProcess <=> r.active # None
  BY <1>1, <1>2 DEF FetchInv, NoFetch, Fetching, r, t
<1>6. CASE ShouldStart(t)
  <2>1. ~t.inProcess /\ t.requested # None
    BY <1>6 DEF ShouldStart
  <2>2. r.active = None /\ t.requested = r.requested /\ r.committed < r.requested
        /\ r.requested \in Nat /\ r.committed \in Nat
    BY <1>2, <1>3, <1>4, <1>5, <2>1
  <2> PICK gen \in Nat : gen = r.requested
    BY <2>2
  <2>3. NoFetch
    BY <1>2, <2>2 DEF FetchInv
  <2>4. /\ readiness'.active = gen /\ readiness'.requested = gen
        /\ readiness'.committed = r.committed /\ readiness'.fetchProgress = None
        /\ reloadTask' = [requested |-> None, inProcess |-> TRUE]
        /\ fetchers' = {[gen |-> gen, phase |-> "spawned"]}
        /\ tasks' = <<>> /\ fetchBar' = fetchBar /\ turn' = "idle"
    BY <1>1, <1>2, <1>6, <2>2, <2>3 DEF NoFetch, TakeRequest, r, t
  <2>5. gen # None
    BY NoneAssumption
  <2>6. Fetching(gen)'
    BY <2>4 DEF Fetching
  <2>7. Fetching(readiness.active)'
    BY <2>4, <2>6 DEF Fetching
  <2>8. fetchBar = 0
    BY <2>3 DEF FetchInv, NoFetch
  <2>9. Generations' /\ RequestWaits'
    BY <2>2, <2>4 DEF Generations, RequestWaits
  <2> QED
    BY <2>4, <2>5, <2>7, <2>8, <2>9 DEF FetchInv
<1>7. CASE ~ShouldStart(t)
  <2>1. /\ readiness'.active = readiness.active /\ readiness'.requested = r.requested
        /\ readiness'.committed = readiness.committed
        /\ readiness'.fetchProgress = readiness.fetchProgress
        /\ reloadTask' = t /\ UNCHANGED <<fetchers, tasks, fetchBar>> /\ turn' = "idle"
    BY <1>1, <1>2, <1>7 DEF r, t
  <2>2. t.inProcess = reloadTask.inProcess
    BY <1>1 DEF r, t
  <2>3. NoFetch => NoFetch'
    BY <2>1, <2>2 DEF NoFetch
  <2>4. readiness.active # None /\ Fetching(readiness.active) => Fetching(readiness.active)'
    <3>1. readiness.active # None /\ readiness'.active = readiness'.requested
            => readiness.active = readiness.requested
      BY <1>2, <1>4, <2>1
    <3> QED
      BY <2>1, <2>2, <3>1 DEF Fetching, BeginTaken
  <2>5. Generations' /\ RequestWaits'
    BY <1>2, <1>4, <1>5, <1>7, <2>1 DEF Generations, RequestWaits, ShouldStart
  <2> QED
    BY <2>1, <2>3, <2>4, <2>5 DEF FetchInv
<1> QED
  BY <1>6, <1>7

LEMMA FetchNext ==
  ASSUME TypeOK, FetchInv, [Next]_vars
  PROVE  FetchInv'
<1>1. CASE UNCHANGED vars
  BY <1>1, FetchStutter DEF vars, loopVars, fetchVars
<1> QED
  BY <1>1, FetchFetcher, FetchLoader, FetchClientTurn, FetchTaskTurn, FetchVfsTurn,
     FetchFinishTurn DEF Next

\* A fetch goes through its stages in order, one fetch at a time, and the
\* generations stay ordered.
THEOREM FetchStages == Spec => []FetchInv
<1>1. TypeOK /\ FetchInv /\ [Next]_vars => FetchInv'
  BY FetchNext
<1> QED
  BY TypeCorrect, FetchInit, <1>1, PTL DEF Spec

\* At most one fetch is in flight and both records mean it.
THEOREM OneFetch == Spec => []ExclusiveFetch
<1>1. TypeOK /\ FetchInv => ExclusiveFetch
  BY NoneAssumption DEF FetchInv, NoFetch, Fetching, ExclusiveFetch, FetchEnded, Begin, End
<1> QED
  BY TypeCorrect, FetchStages, <1>1, PTL

\* Between turns, a generation asked for and not installed has a fetch coming.
THEOREM ReloadRemembered == Spec => []NoReloadForgotten
<1>1. TypeOK /\ FetchInv => NoReloadForgotten
  <2> SUFFICES ASSUME TypeOK, FetchInv, turn = "idle",
                      readiness.requested # readiness.committed
               PROVE  /\ readiness.requested \in {readiness.active, reloadTask.requested}
                      /\ fetchers # {} \/ FetchEnded
    BY DEF NoReloadForgotten
  <2>1. readiness.requested \in Nat
    BY DEF TypeOK, ReadinessType
  <2>2. readiness.requested \in {readiness.active, reloadTask.requested}
    BY DEF FetchInv, RequestWaits
  <2>3. readiness.active # None /\ Fetching(readiness.active)
    <3>1. NoFetch => reloadTask.requested # None /\ ~reloadTask.inProcess
      BY <2>1, <2>2, NoneAssumption DEF NoFetch
    <3> QED
      BY <3>1 DEF FetchInv, RequestWaits
  <2>4. ASSUME NEW a, NEW e, tasks \in {<<End(readiness.active, e)>>,
                                      <<a, End(readiness.active, e)>>}
        PROVE  FetchEnded
    <3>1. \E i \in DOMAIN tasks : tasks[i] = End(readiness.active, e)
      <4>1. CASE tasks = <<End(readiness.active, e)>>
        <5>1. 1 \in DOMAIN tasks /\ tasks[1] = End(readiness.active, e)
          BY <4>1
        <5> QED
          BY <5>1
      <4>2. CASE tasks = <<a, End(readiness.active, e)>>
        <5>1. 2 \in DOMAIN tasks /\ tasks[2] = End(readiness.active, e)
          BY <4>2
        <5> QED
          BY <5>1
      <4> QED
        BY <2>4, <4>1, <4>2
    <3> QED
      BY <3>1 DEF FetchEnded, End
  <2>5. fetchers # {} \/ FetchEnded
    <3> SUFFICES ASSUME fetchers = {} PROVE FetchEnded
      OBVIOUS
    <3>1. \E e \in BOOLEAN : tasks \in {<<End(readiness.active, e)>>,
                                 <<Begin(readiness.active), End(readiness.active, e)>>}
      BY <2>3 DEF Fetching
    <3> QED
      BY <2>4, <3>1
  <2> QED
    BY <2>2, <2>5
<1> QED
  BY TypeCorrect, FetchStages, <1>1, PTL

\* The bar of a fetch is opened at most once and closed exactly when it is open.
THEOREM BarsPaired == Spec => []ProgressPaired
<1>1. TypeOK /\ FetchInv => ProgressPaired
  BY DEF FetchInv, NoFetch, Fetching, BeginTaken, ProgressPaired
<1> QED
  BY TypeCorrect, FetchStages, <1>1, PTL

-----------------------------------------------------------------------------
(* The latest request wins *)

Unmoved == readiness'.requested = readiness.requested
             /\ readiness'.committed = readiness.committed

LEMMA ReloadTaskTurn ==
  ASSUME TypeOK, FetchInv, TaskTurn
  PROVE  Unmoved \/ Reload!Settle
<1>1. /\ readiness.requested \in Nat /\ readiness.committed \in Nat
      /\ readiness.active # None => readiness.committed < readiness.active
  BY DEF TypeOK, ReadinessType, FetchInv, Generations
<1>2. CASE HandleBegin
  BY <1>2 DEF HandleBegin, AcceptBegin, TypeOK, ReadinessType, Unmoved
<1>3. CASE HandleStaleEnd
  BY <1>3, FetchEnd DEF HandleStaleEnd, FetchFields, Unmoved
<1>4. CASE HandleFailure
  <2>1. HandleEnd("failure") /\ readiness' = Finished
    BY <1>4 DEF HandleFailure
  <2>2. readiness'.requested = readiness.committed /\ readiness'.committed = readiness.committed
        /\ readiness.requested = readiness.active /\ readiness.active \in Nat
    BY <2>1, FetchEnd DEF FetchFields
  <2> QED
    BY <1>1, <2>2, NoneAssumption DEF Reload!Settle, Reload!GiveUp, Reload!Owed
<1>5. CASE HandleSuccess
  <2>1. HandleEnd("success")
    BY <1>5 DEF HandleSuccess
  <2>2. FetchFields(readiness') = FetchFields(Finished)
    <3>1. PICK entries \in 0 .. MaxEntries :
            readiness' = Defer(BeginVfsLoad(Finished, entries))
      BY <1>5 DEF HandleSuccess
    <3>2. Head(tasks).gen \in Nat /\ Head(tasks).errors \in BOOLEAN
      BY <2>1, FetchEnd
    <3>3. Finished \in ReadinessType
      BY <3>2, FinishFetchType DEF Finished, TypeOK
    <3>4. entries \in Nat /\ BeginVfsLoad(Finished, entries) \in ReadinessType
      BY <3>3, BoundsAssumption, BeginVfsLoadType
    <3> QED
      BY <3>1, <3>3, <3>4, DeferKeepsFetch, FetchFieldsKept
  <2>3. readiness'.requested = readiness.requested /\ readiness'.committed = readiness.active
        /\ readiness.requested = readiness.active /\ readiness.active \in Nat
    BY <2>1, <2>2, FetchEnd DEF FetchFields
  <2> QED
    BY <1>1, <2>3, NoneAssumption DEF Reload!Settle, Reload!Adopt, Reload!Owed
<1> QED
  BY <1>2, <1>3, <1>4, <1>5 DEF TaskTurn

LEMMA ReloadOtherSteps ==
  ASSUME TypeOK, ClientTurn \/ VfsTurn \/ FinishTurn \/ Fetcher \/ Loader
  PROVE  Unmoved \/ Reload!Ask
<1>1. readiness \in ReadinessType /\ readiness.requested \in Nat
  BY DEF TypeOK, ReadinessType
<1>2. Defer(readiness) \in ReadinessType
      /\ Defer(readiness).requested = readiness.requested
      /\ Defer(readiness).committed = readiness.committed
  BY <1>1, DeferType DEF Defer, ReadinessType
<1>3. ASSUME NEW r \in ReadinessType, readiness' = RequestReload(r),
             r.requested = readiness.requested, r.committed = readiness.committed
      PROVE  Reload!Ask
  BY <1>3 DEF RequestReload, ReadinessType, Reload!Ask
<1>4. CASE ClientTurn
  <2>1. CASE ReloadTurn
    BY <1>1, <1>2, <1>3, <2>1 DEF ReloadTurn
  <2>2. CASE ~ReloadTurn
    BY <1>2, <1>4, <2>2 DEF ClientTurn, PullTurn, EditTurn, Unmoved
  <2> QED
    BY <2>1, <2>2
<1>5. CASE VfsTurn
  <2>1. Head(vfsMsgs) \in LoaderMessage
    BY <1>5, Dequeue DEF VfsTurn, HandleProgress, HandleLoaded, TakeVfsMsg, TypeOK
  <2> DEFINE m == Head(vfsMsgs)
  <2>2. FetchFields(AcceptProgress(readiness, m.version, m.done, m.total))
          = FetchFields(readiness)
    BY <1>1, <2>1, FetchFieldsKept DEF LoaderMessage
  <2>3. readiness' \in {readiness, AcceptProgress(readiness, m.version, m.done, m.total)}
    BY <1>5 DEF VfsTurn, HandleProgress, HandleLoaded
  <2> QED
    BY <2>2, <2>3 DEF FetchFields, Unmoved
<1>6. CASE FinishTurn
  <2>1. PICK reload \in BOOLEAN :
          /\ readiness'.requested = AfterChanges(reload).requested
          /\ readiness'.committed = AfterChanges(reload).committed
    BY <1>6, FinishTurnFetch
  <2> QED
    BY <2>1, AfterChangesFields DEF Unmoved, Reload!Ask
<1>7. CASE Fetcher \/ Loader
  BY <1>7 DEF Fetcher, FetcherBegin, FetcherEnd, Loader, LoaderTakeConfig, LoaderReadEntry,
              LoaderCountEntry, LoaderReport, LoaderUnload, LoaderFinish, loopVars, Unmoved
<1> QED
  BY <1>4, <1>5, <1>6, <1>7

\* Only the newest generation asked for is ever installed, and a failed reload
\* falls back to the one in use: the safety part of the promise that the run
\* checks as LatestWins.
THEOREM LatestWinsSafety == Spec => Reload!Init /\ [][Reload!Next]_(Reload!vars)
<1>1. Init => Reload!Init
  BY DEF Init, StartFetch, RequestReload, InitialReadiness, Reload!Init
<1>2. ASSUME TypeOK, FetchInv, [Next]_vars
      PROVE  [Reload!Next]_(Reload!vars)
  <2>1. CASE UNCHANGED vars
    BY <2>1 DEF vars, loopVars, Reload!vars
  <2>2. CASE TaskTurn
    BY <1>2, <2>2, ReloadTaskTurn DEF Unmoved, Reload!Next, Reload!vars
  <2>3. CASE ClientTurn \/ VfsTurn \/ FinishTurn \/ Fetcher \/ Loader
    BY <1>2, <2>3, ReloadOtherSteps DEF Unmoved, Reload!Next, Reload!vars
  <2> QED
    BY <1>2, <2>1, <2>2, <2>3 DEF Next
<1> QED
  BY TypeCorrect, FetchStages, <1>1, <1>2, PTL DEF Spec

-----------------------------------------------------------------------------
(* Parked requests and refreshes *)

\* The parts of a turn's tail that matter for readiness.
LEMMA FinishTurnReady ==
  ASSUME TypeOK, FinishTurn
  PROVE  \E reload \in BOOLEAN :
           LET r == AfterChanges(reload)
           IN  /\ readiness'.version = r.version
               /\ readiness'.deferred = IF IsReady(r) THEN FALSE ELSE r.deferred
               /\ IsReady(readiness') => IsReady(r)
               /\ IF DeferredDue(r) THEN parked' = {} ELSE UNCHANGED parked
               /\ refreshedFor' = IF IsReady(r) /\ (~wasReady \/ pending.changed)
                                  THEN r.version ELSE refreshedFor
<1>1. PICK reload \in BOOLEAN :
        LET r == AfterChanges(reload)
            t == IF reload THEN RequestTask(reloadTask, r.requested) ELSE reloadTask
            starts == ShouldStart(t)
        IN  /\ IF DeferredDue(r)
               THEN parked' = {} /\ answered' = answered \cup parked
               ELSE UNCHANGED <<parked, answered>>
            /\ refreshedFor' = IF IsReady(r) /\ (~wasReady \/ pending.changed)
                               THEN r.version ELSE refreshedFor
            /\ readiness' = IF starts THEN StartFetch(TakeDeferred(r), t.requested)
                            ELSE TakeDeferred(r)
  BY DEF FinishTurn, TypeOK, Pending
<1> DEFINE r == AfterChanges(reload)
           t == IF reload THEN RequestTask(reloadTask, r.requested) ELSE reloadTask
           q == TakeDeferred(r)
<1>2. r \in ReadinessType
  BY AfterChangesFields
<1>3. readiness' = IF ShouldStart(t) THEN StartFetch(q, t.requested) ELSE q
  BY <1>1
<1> HIDE DEF r, t
<1>4. /\ q \in ReadinessType
      /\ q.version = r.version
      /\ q.deferred = IF IsReady(r) THEN FALSE ELSE r.deferred
      /\ IsReady(q) <=> IsReady(r)
  BY <1>2, DeferType DEF TakeDeferred, IsReady, ReadinessType
<1> HIDE DEF q
<1>5. CASE ShouldStart(t)
  <2>1. /\ readiness'.version = q.version
        /\ readiness'.deferred = q.deferred
        /\ readiness'.active = t.requested
    BY <1>3, <1>4, <1>5 DEF StartFetch, ReadinessType
  <2>2. ~IsReady(readiness')
    BY <1>5, <2>1 DEF ShouldStart, IsReady
  <2> QED
    BY <1>1, <1>4, <2>1, <2>2 DEF r
<1>6. CASE ~ShouldStart(t)
  BY <1>1, <1>3, <1>4, <1>6 DEF r
<1> QED
  BY <1>5, <1>6

\* Handling a message of either channel leaves the deferred flag up, and the
\* configuration alone unless a new workspace is installed.
LEMMA MessageKeeps ==
  ASSUME TypeOK, TaskTurn \/ VfsTurn
  PROVE  /\ readiness.deferred => readiness'.deferred
         /\ VfsTurn => readiness'.version = readiness.version
         /\ UNCHANGED <<parked, refreshedFor>>
         /\ turn' # "idle"
<1>1. readiness \in ReadinessType
  BY DEF TypeOK
<1>2. CASE HandleBegin
  BY <1>1, <1>2 DEF HandleBegin, TakeTask, AcceptBegin, ReadinessType, VfsTurn,
                    HandleProgress, HandleLoaded, TakeVfsMsg
<1>3. ASSUME HandleStaleEnd \/ HandleFailure \/ HandleSuccess
      PROVE  /\ readiness.deferred => readiness'.deferred
             /\ UNCHANGED <<parked, refreshedFor>>
             /\ turn' = "task"
  <2>1. \E completion : HandleEnd(completion)
    BY <1>3 DEF HandleStaleEnd, HandleFailure, HandleSuccess
  <2>2. Head(tasks) \in FetchMessage
    BY <2>1, Dequeue DEF HandleEnd, TakeTask, TypeOK
  <2>3. Finished \in ReadinessType /\ Finished.deferred = readiness.deferred
    <3>1. Head(tasks).gen \in Nat /\ Head(tasks).errors \in BOOLEAN
      BY <2>2 DEF FetchMessage
    <3>2. \A g : \A e : FinishFetch(readiness, g, e).deferred = readiness.deferred
      BY <1>1 DEF FinishFetch, ReadinessType
    <3> QED
      BY <1>1, <3>1, <3>2, FinishFetchType DEF Finished
  <2>4. HandleSuccess => readiness'.deferred
    <3>1. \A entries \in Nat : Defer(BeginVfsLoad(Finished, entries)).deferred
      BY <2>3, BeginVfsLoadType DEF Defer, ReadinessType
    <3> QED
      BY <3>1, BoundsAssumption DEF HandleSuccess
  <2> QED
    BY <1>3, <2>1, <2>3, <2>4 DEF HandleEnd, TakeTask, HandleStaleEnd, HandleFailure
<1>4. CASE VfsTurn
  <2>1. Head(vfsMsgs) \in LoaderMessage
    BY <1>4, Dequeue DEF VfsTurn, HandleProgress, HandleLoaded, TakeVfsMsg, TypeOK
  <2> DEFINE m == Head(vfsMsgs)
  <2>2. readiness' \in {readiness, AcceptProgress(readiness, m.version, m.done, m.total)}
    BY <1>4 DEF VfsTurn, HandleProgress, HandleLoaded
  <2>3. /\ AcceptProgress(readiness, m.version, m.done, m.total).deferred = readiness.deferred
        /\ AcceptProgress(readiness, m.version, m.done, m.total).version = readiness.version
    BY <1>1 DEF AcceptProgress, ReadinessType
  <2> QED
    BY <1>4, <2>2, <2>3 DEF VfsTurn, HandleProgress, HandleLoaded, TakeVfsMsg
<1>5. ASSUME TaskTurn PROVE ~VfsTurn
  BY <1>5 DEF TaskTurn, HandleBegin, HandleStaleEnd, HandleFailure, HandleSuccess, HandleEnd,
     TakeTask, VfsTurn, HandleProgress, HandleLoaded, TakeVfsMsg
<1> QED
  BY <1>2, <1>3, <1>4, <1>5 DEF TaskTurn

LEMMA ParkedNext ==
  ASSUME TypeOK, ParkedNotLost, [Next]_vars
  PROVE  ParkedNotLost'
<1>1. CASE UNCHANGED vars
  BY <1>1 DEF vars, loopVars, ParkedNotLost, IsReady
<1>2. CASE Fetcher \/ Loader
  BY <1>2 DEF Fetcher, FetcherBegin, FetcherEnd, Loader, LoaderTakeConfig, LoaderReadEntry,
              LoaderCountEntry, LoaderReport, LoaderUnload, LoaderFinish, loopVars,
              ParkedNotLost, IsReady
<1>3. CASE ClientTurn
  <2>1. turn' = "client"
    BY <1>3 DEF ClientTurn, ReloadTurn, PullTurn, EditTurn, StartTurn
  <2>2. readiness \in ReadinessType
    BY DEF TypeOK
  <2>3. Defer(readiness).deferred /\ Defer(readiness) \in ReadinessType
    BY <2>2, DeferType DEF Defer, ReadinessType
  <2>4. \A r \in ReadinessType : RequestReload(r).deferred = r.deferred
    BY DEF RequestReload, ReadinessType
  <2>5. parked' # {} => readiness'.deferred
    <3>1. CASE ReloadTurn
      BY <2>2, <2>3, <2>4, <3>1 DEF ReloadTurn, ParkedNotLost
    <3>2. CASE ~ReloadTurn
      BY <1>3, <2>3, <3>2 DEF ClientTurn, PullTurn, EditTurn, ParkedNotLost
    <3> QED
      BY <3>1, <3>2
  <2> QED
    BY <2>1, <2>5 DEF ParkedNotLost
<1>4. CASE TaskTurn \/ VfsTurn
  BY <1>4, MessageKeeps DEF ParkedNotLost
<1>5. CASE FinishTurn
  <2>1. PICK reload \in BOOLEAN :
          LET r == AfterChanges(reload)
          IN  /\ readiness'.deferred = IF IsReady(r) THEN FALSE ELSE r.deferred
              /\ IsReady(readiness') => IsReady(r)
              /\ IF DeferredDue(r) THEN parked' = {} ELSE UNCHANGED parked
    BY <1>5, FinishTurnReady
  <2>2. readiness.deferred => AfterChanges(reload).deferred
    BY AfterChangesFields
  <2> QED
    BY <2>1, <2>2 DEF ParkedNotLost, DeferredDue
<1> QED
  BY <1>1, <1>2, <1>3, <1>4, <1>5 DEF Next

\* A parked diagnostic request is always covered by the deferred flag, and no
\* turn that ends ready leaves the flag up.
THEOREM ParkedCovered == Spec => []ParkedNotLost
<1>1. Init => ParkedNotLost
  BY DEF Init, ParkedNotLost, StartFetch, RequestReload, InitialReadiness
<1>2. TypeOK /\ ParkedNotLost /\ [Next]_vars => ParkedNotLost'
  BY ParkedNext
<1> QED
  BY TypeCorrect, <1>1, <1>2, PTL DEF Spec

\* A turn that started ready has nothing to tell the client, and is not one that
\* takes the end of a fetch.
RefreshInv ==
  /\ ClientRefreshed
  /\ turn # "idle" /\ wasReady => turn # "task" /\ refreshedFor = readiness.version

LEMMA RefreshNext ==
  ASSUME TypeOK, FetchInv, RefreshInv, [Next]_vars
  PROVE  RefreshInv'
<1>1. CASE UNCHANGED vars
  BY <1>1 DEF vars, loopVars, RefreshInv, ClientRefreshed, IsReady
<1>2. CASE Fetcher \/ Loader
  <2>1. UNCHANGED loopVars
    BY <1>2 DEF Fetcher, FetcherBegin, FetcherEnd, Loader, LoaderTakeConfig, LoaderReadEntry,
                LoaderCountEntry, LoaderReport, LoaderUnload, LoaderFinish
  <2> QED
    BY <2>1 DEF loopVars, RefreshInv, ClientRefreshed, IsReady
<1>3. CASE ClientTurn
  <2>1. turn' = "client" /\ turn = "idle" /\ wasReady' = IsReady(readiness) /\ UNCHANGED refreshedFor
    BY <1>3 DEF ClientTurn, ReloadTurn, PullTurn, EditTurn, StartTurn
  <2>2. readiness'.version = readiness.version
    <3>1. readiness \in ReadinessType
      BY DEF TypeOK
    <3>2. Defer(readiness) \in ReadinessType /\ Defer(readiness).version = readiness.version
      BY <3>1, DeferType DEF Defer, ReadinessType
    <3>3. \A r \in ReadinessType : RequestReload(r).version = r.version
      BY DEF RequestReload, ReadinessType
    <3>4. CASE ReloadTurn
      BY <3>1, <3>2, <3>3, <3>4 DEF ReloadTurn
    <3>5. CASE ~ReloadTurn
      BY <1>3, <3>2, <3>5 DEF ClientTurn, PullTurn, EditTurn
    <3> QED
      BY <3>4, <3>5
  <2> QED
    BY <2>1, <2>2 DEF RefreshInv, ClientRefreshed
<1>4. CASE TaskTurn
  <2>1. TakeTask
    BY <1>4 DEF TaskTurn, HandleBegin, HandleStaleEnd, HandleFailure, HandleSuccess, HandleEnd
  <2>2. readiness.active # None
    BY <2>1 DEF TakeTask, FetchInv, NoFetch
  <2>3. ~wasReady' /\ turn' = "task"
    BY <2>1, <2>2 DEF TakeTask, IsReady, RefreshInv
  <2> QED
    BY <2>3 DEF RefreshInv, ClientRefreshed
<1>5. CASE VfsTurn
  <2>1. TakeVfsMsg
    BY <1>5 DEF VfsTurn, HandleProgress, HandleLoaded
  <2>2. readiness'.version = readiness.version /\ UNCHANGED refreshedFor
    BY <1>5, MessageKeeps
  <2> QED
    BY <2>1, <2>2 DEF TakeVfsMsg, RefreshInv, ClientRefreshed
<1>6. CASE FinishTurn
  <2>1. PICK reload \in BOOLEAN :
           LET r == AfterChanges(reload)
           IN  /\ readiness'.version = r.version
               /\ IsReady(readiness') => IsReady(r)
               /\ refreshedFor' = IF IsReady(r) /\ (~wasReady \/ pending.changed)
                                  THEN r.version ELSE refreshedFor
    BY <1>6, FinishTurnReady
  <2>2. AfterChanges(reload).version = readiness.version
    BY AfterChangesFields
  <2>3. turn # "idle" /\ turn' = "idle"
    BY <1>6 DEF FinishTurn, Drained
  <2> QED
    BY <2>1, <2>2, <2>3 DEF RefreshInv, ClientRefreshed
<1> QED
  BY <1>1, <1>2, <1>3, <1>4, <1>5, <1>6 DEF Next

\* Whenever the server is ready between turns, the client was told to refresh for
\* the configuration in use.
THEOREM RefreshReachesClient == Spec => []ClientRefreshed
<1>1. Init => RefreshInv
  BY NoneAssumption DEF Init, RefreshInv, ClientRefreshed, StartFetch, RequestReload,
                        InitialReadiness, IsReady
<1>2. TypeOK /\ FetchInv /\ RefreshInv /\ [Next]_vars => RefreshInv'
  BY RefreshNext
<1>3. RefreshInv => ClientRefreshed
  BY DEF RefreshInv
<1> QED
  BY TypeCorrect, FetchStages, <1>1, <1>2, <1>3, PTL DEF Spec

-----------------------------------------------------------------------------
(* The loader's side of the reload: the assertions of the code cannot fail, *)
(* and a server that calls itself ready has every file of the newest        *)
(* configuration.  LoaderInv carries both.  It says that versions flow in   *)
(* order through the loader's inbox and back, and that a final count of the *)
(* loader's own configuration leaves nothing to read, to unload or to       *)
(* deliver behind it, although entries are counted out of order. *)

\* At the start nothing is configured, owed or under way.
LEMMA LoaderInit == Init => LoaderInv
<1> SUFFICES ASSUME Init PROVE LoaderInv
  OBVIOUS
<1>1. readiness.version = 0 /\ readiness.progress.version = 0
  BY DEF Init, StartFetch, RequestReload, InitialReadiness
<1>2. loader.version = 0 /\ loader.owed = {} /\ inbox = <<>> /\ vfsMsgs = <<>>
  BY DEF Init
<1> QED
  BY <1>1, <1>2 DEF LoaderInv

\* What LoaderInv reads of the readiness record.
LoadFields(r) == <<r.version, r.progress.version, r.vfsReady>>

LEMMA LoaderStutter ==
  ASSUME LoaderInv, UNCHANGED loaderVars, LoadFields(readiness') = LoadFields(readiness)
  PROVE  LoaderInv'
BY DEF LoaderInv, loaderVars, LoadFields, LoadComplete, LoadedOf, Final

-----------------------------------------------------------------------------
(* Steps of the loader thread *)

LEMMA LoaderSends ==
  ASSUME TypeOK, LoaderInv, UNCHANGED <<readiness, inbox>>,
         loader'.version = loader.version,
         \A n \in loader'.owed : n <= loader'.counted,
         LoadComplete => LoadComplete',
         NEW e \in LoaderMessage,
         vfsMsgs' = Append(vfsMsgs, e),
         e.version = loader.version,
         e.done <= e.total,
         LoadComplete => e.kind # "loaded",
         Final(e) => LoadComplete'
  PROVE  LoaderInv'
<1> DEFINE k == Len(vfsMsgs) + 1
<1>1. /\ vfsMsgs \in Seq(LoaderMessage) /\ loader.version \in Nat
      /\ DOMAIN vfsMsgs' = DOMAIN vfsMsgs \cup {k}
      /\ vfsMsgs'[k] = e
      /\ \A i \in DOMAIN vfsMsgs : i < k /\ vfsMsgs'[i] = vfsMsgs[i] /\ i \in Nat
      /\ k \in Nat
  <2>1. vfsMsgs \in Seq(LoaderMessage) /\ loader.version \in Nat
    BY DEF TypeOK, LoaderType
  <2>2. Len(vfsMsgs) \in Nat /\ DOMAIN vfsMsgs = 1 .. Len(vfsMsgs)
    BY <2>1, LenProperties
  <2> QED
    BY <2>1, <2>2, Enqueue
<1> HIDE DEF k
<1>3. ASSUME NEW i \in DOMAIN vfsMsgs',
             Final(vfsMsgs'[i]), vfsMsgs'[i].version = loader'.version
      PROVE  /\ LoadComplete'
             /\ \A j \in DOMAIN vfsMsgs' : j > i => ~LoadedOf(loader'.version, vfsMsgs'[j])
  <2>1. CASE i = k
    BY <1>1, <1>3, <2>1
  <2>2. CASE i \in DOMAIN vfsMsgs
    <3>1. vfsMsgs'[i] = vfsMsgs[i]
      BY <1>1, <2>2
    <3>2. /\ LoadComplete
          /\ \A j \in DOMAIN vfsMsgs : j > i => ~LoadedOf(loader.version, vfsMsgs[j])
      BY <1>3, <2>2, <3>1 DEF LoaderInv
    <3> QED
      BY <1>1, <3>2 DEF LoadedOf
  <2> QED
    BY <1>1, <2>1, <2>2
<1>4. \A i \in DOMAIN vfsMsgs' :
        vfsMsgs'[i].version <= loader'.version /\ vfsMsgs'[i].done <= vfsMsgs'[i].total
  BY <1>1 DEF LoaderInv
<1>5. ASSUME readiness.vfsReady, readiness.version > 0
      PROVE  /\ inbox = <<>> /\ LoadComplete'
             /\ \A i \in DOMAIN vfsMsgs' : ~LoadedOf(readiness.version, vfsMsgs'[i])
  <2>1. /\ inbox = <<>> /\ LoadComplete
        /\ \A i \in DOMAIN vfsMsgs : ~LoadedOf(readiness.version, vfsMsgs[i])
    BY <1>5 DEF LoaderInv
  <2> QED
    BY <1>1, <2>1 DEF LoadedOf
<1>6. /\ readiness'.progress.version = readiness'.version
      /\ readiness'.version = loader'.version + Len(inbox')
      /\ \A i \in DOMAIN inbox' : inbox'[i].version = loader'.version + i
  BY DEF LoaderInv
<1> QED
  BY <1>3, <1>4, <1>5, <1>6 DEF LoaderInv

LEMMA LoaderSilent ==
  ASSUME LoaderInv, UNCHANGED <<readiness, inbox, vfsMsgs>>,
         loader'.version = loader.version,
         \A n \in loader'.owed : n <= loader'.counted,
         LoadComplete => LoadComplete'
  PROVE  LoaderInv'
BY DEF LoaderInv

LEMMA NextVersion ==
  ASSUME NEW v \in Nat, NEW i \in Nat
  PROVE  v + (i + 1) = (v + 1) + i /\ v + (i + 1) = (v + i) + 1
OBVIOUS

LEMMA LoaderTakesConfig ==
  ASSUME TypeOK, LoaderInv, LoaderTakeConfig
  PROVE  LoaderInv'
<1>1. PICK reconcile \in BOOLEAN :
        LET config == Head(inbox)
            next   == [phase |-> "loading", version |-> config.version,
                       reconcile |-> reconcile, unread |-> config.entries,
                       read |-> 0, counted |-> 0, owed |-> {}]
        IN  /\ loader' = next
            /\ vfsMsgs' = IF LoaderTotal(next) > 0
                          THEN Append(vfsMsgs, Progress(next.version, 0, LoaderTotal(next)))
                          ELSE vfsMsgs
  BY DEF LoaderTakeConfig
<1> DEFINE total == LoaderTotal(loader')
           e     == Progress(loader'.version, 0, total)
<1>2. vfsMsgs' = IF total > 0 THEN Append(vfsMsgs, e) ELSE vfsMsgs
  BY <1>1
<1>3. /\ inbox # <<>> /\ inbox' = Tail(inbox) /\ UNCHANGED readiness
      /\ inbox \in Seq([version : Nat, entries : Nat])
      /\ vfsMsgs \in Seq(LoaderMessage)
      /\ loader.version \in Nat
  BY DEF LoaderTakeConfig, loopVars, TypeOK, LoaderType
<1>4. /\ Head(inbox) \in [version : Nat, entries : Nat]
      /\ Head(inbox) = inbox[1] /\ 1 \in DOMAIN inbox
      /\ Len(inbox') = Len(inbox) - 1
      /\ \A i \in DOMAIN inbox' : i + 1 \in DOMAIN inbox /\ inbox'[i] = inbox[i + 1]
      /\ Len(inbox) \in Nat
  BY <1>3, Dequeue, LenProperties
<1>5. loader'.version = loader.version + 1 /\ loader'.owed = {} /\ loader' \in LoaderType
  BY <1>1, <1>4 DEF LoaderInv, LoaderType
<1>6. total \in Nat
  BY <1>5, LoaderTotalType
<1>7. e \in LoaderMessage /\ e.version = loader'.version /\ e.done <= e.total /\ (total > 0 => ~Final(e))
  <2>1. e \in LoaderMessage
    BY <1>5, <1>6, LoaderMessageType DEF LoaderType
  <2>2. e.version = loader'.version /\ e.done = 0 /\ e.total = total
    BY DEF Progress
  <2> QED
    BY <1>6, <2>1, <2>2 DEF Final
<1> HIDE DEF total, e
<1>8. \A i \in DOMAIN vfsMsgs' : \/ i \in DOMAIN vfsMsgs /\ vfsMsgs'[i] = vfsMsgs[i]
                                 \/ total > 0 /\ vfsMsgs'[i] = e
  <2>1. CASE total > 0
    <3>1. /\ vfsMsgs' = Append(vfsMsgs, e)
          /\ e \in LoaderMessage
      BY <1>2, <1>7, <2>1
    <3>2. /\ DOMAIN vfsMsgs' = DOMAIN vfsMsgs \cup {Len(vfsMsgs) + 1}
          /\ vfsMsgs'[Len(vfsMsgs) + 1] = e
          /\ \A i \in DOMAIN vfsMsgs : vfsMsgs'[i] = vfsMsgs[i]
      BY <1>3, <3>1, Enqueue
    <3> QED
      BY <2>1, <3>2
  <2>2. CASE ~(total > 0)
    BY <1>2, <2>2
  <2> QED
    BY <2>1, <2>2
<1>9. ASSUME NEW i \in DOMAIN vfsMsgs'
      PROVE  /\ vfsMsgs'[i].version <= loader'.version
             /\ vfsMsgs'[i].done <= vfsMsgs'[i].total
             /\ ~(Final(vfsMsgs'[i]) /\ vfsMsgs'[i].version = loader'.version)
  <2>1. CASE vfsMsgs'[i] = e /\ total > 0
    BY <1>5, <1>7, <2>1 DEF LoaderType
  <2>2. CASE i \in DOMAIN vfsMsgs /\ vfsMsgs'[i] = vfsMsgs[i]
    <3>1. vfsMsgs[i].version <= loader.version /\ vfsMsgs[i].done <= vfsMsgs[i].total
      BY <2>2 DEF LoaderInv
    <3>2. vfsMsgs[i] \in LoaderMessage
      <4>1. i \in 1 .. Len(vfsMsgs)
        BY <1>3, <2>2, LenProperties
      <4> QED
        BY <1>3, <4>1, ElementOfSeq
    <3>3. vfsMsgs[i].version \in Nat
      BY <3>2 DEF LoaderMessage
    <3> QED
      BY <1>3, <1>5, <2>2, <3>1, <3>3
  <2> QED
    BY <1>8, <2>1, <2>2
<1>10. /\ readiness'.progress.version = readiness'.version
       /\ readiness'.version = loader'.version + Len(inbox')
       /\ \A i \in DOMAIN inbox' : inbox'[i].version = loader'.version + i
  <2>1. readiness'.version = loader'.version + Len(inbox')
    BY <1>3, <1>4, <1>5 DEF LoaderInv
  <2>2. ASSUME NEW i \in DOMAIN inbox' PROVE inbox'[i].version = loader'.version + i
    <3>1. i \in Nat
      <4>1. inbox' \in Seq([version : Nat, entries : Nat])
        BY <1>3, Dequeue
      <4> QED
        BY <4>1, LenProperties
    <3>2. i + 1 \in DOMAIN inbox /\ inbox'[i] = inbox[i + 1]
      BY <1>4
    <3>3. inbox[i + 1].version = loader.version + (i + 1)
      BY <3>2 DEF LoaderInv
    <3>4. inbox'[i].version = loader.version + (i + 1)
      BY <3>2, <3>3
    <3>5. loader.version + (i + 1) = (loader.version + 1) + i
      BY <1>3, <3>1, NextVersion
    <3> QED
      BY <1>5, <3>4, <3>5
  <2> QED
    BY <1>3, <2>1, <2>2 DEF LoaderInv
<1>11. ~(readiness.vfsReady /\ readiness.version > 0)
  BY <1>3 DEF LoaderInv
<1> QED
  BY <1>3, <1>5, <1>9, <1>10, <1>11 DEF LoaderInv

LEMMA LoaderSteps ==
  ASSUME TypeOK, LoaderInv, Loader
  PROVE  LoaderInv'
<1>1. /\ loader \in LoaderType /\ loader.version \in Nat /\ loader.unread \in Nat
      /\ loader.read \in Nat /\ loader.counted \in Nat /\ loader.owed \subseteq Nat
      /\ loader.reconcile \in BOOLEAN
      /\ LoaderTotal(loader) \in Nat
      /\ \A n \in loader.owed : n <= loader.counted
  BY LoaderTotalType DEF TypeOK, LoaderType, LoaderInv
<1>2. CASE LoaderReadEntry
  <2>1. /\ loader'.version = loader.version /\ loader'.owed = loader.owed
        /\ loader'.counted = loader.counted
        /\ UNCHANGED <<readiness, inbox>>
        /\ vfsMsgs' = Append(vfsMsgs, Loaded(loader.version))
        /\ ~LoadComplete
    BY <1>1, <1>2 DEF LoaderReadEntry, LoaderType, loopVars, LoadComplete
  <2>2. /\ Loaded(loader.version) \in LoaderMessage
        /\ Loaded(loader.version).version = loader.version
        /\ Loaded(loader.version).done <= Loaded(loader.version).total
        /\ ~Final(Loaded(loader.version))
    BY <1>1, LoaderMessageType DEF Loaded, Final
  <2> QED
    BY <1>1, <2>1, <2>2, LoaderSends
<1>3. CASE LoaderCountEntry
  <2>1. /\ loader'.version = loader.version
        /\ loader'.owed = loader.owed \cup {loader.counted + 1}
        /\ loader'.counted = loader.counted + 1
        /\ UNCHANGED <<readiness, inbox, vfsMsgs>>
        /\ loader'.unread = loader.unread /\ loader'.reconcile = loader.reconcile
        /\ loader'.phase = loader.phase
    BY <1>1, <1>3 DEF LoaderCountEntry, LoaderType, loopVars
  <2>2. \A n \in loader'.owed : n <= loader'.counted
    BY <1>1, <2>1
  <2>3. LoadComplete => LoadComplete'
    BY <2>1 DEF LoadComplete
  <2> QED
    BY <2>1, <2>2, <2>3, LoaderSilent
<1>4. CASE LoaderReport
  <2> DEFINE total == LoaderTotal(loader)
  <2>1. PICK n \in loader.owed :
          /\ loader' = [loader EXCEPT !.owed = @ \ {n}]
          /\ vfsMsgs' = Append(vfsMsgs, Progress(loader.version, n, total))
    BY <1>4 DEF LoaderReport
  <2> DEFINE e == Progress(loader.version, n, total)
  <2>2. /\ loader'.version = loader.version /\ loader'.owed \subseteq loader.owed
        /\ loader'.counted = loader.counted
        /\ loader'.unread = loader.unread /\ loader'.reconcile = loader.reconcile
        /\ loader'.phase = loader.phase
        /\ UNCHANGED <<readiness, inbox>>
    BY <1>1, <1>4, <2>1 DEF LoaderReport, LoaderType, loopVars
  <2>3. n \in Nat /\ n <= loader.counted
    BY <1>1
  <2>4. /\ e \in LoaderMessage /\ e.kind # "loaded"
        /\ e.version = loader.version /\ e.done = n /\ e.total = total
    BY <1>1, <2>3, LoaderMessageType DEF Progress
  <2>5. total = loader.unread + loader.read + loader.counted + (IF loader.reconcile THEN 1 ELSE 0)
    BY DEF LoaderTotal
  <2>6. n <= total /\ (n >= total => loader.unread = 0 /\ ~loader.reconcile)
    BY <1>1, <2>3, <2>5
  <2>7. Final(e) => LoadComplete'
    BY <2>2, <2>4, <2>6 DEF Final, LoadComplete
  <2>8. LoadComplete => LoadComplete'
    BY <2>2 DEF LoadComplete
  <2>9. \A i \in loader'.owed : i <= loader'.counted
    BY <1>1, <2>2
  <2>10. e.done <= e.total
    BY <2>4, <2>6
  <2> HIDE DEF e, total
  <2>11. vfsMsgs' = Append(vfsMsgs, e)
    BY <2>1 DEF e, total
  <2> QED
    BY <2>2, <2>4, <2>7, <2>8, <2>9, <2>10, <2>11, LoaderSends
<1>5. CASE LoaderUnload
  <2>1. /\ loader'.version = loader.version /\ loader'.owed = loader.owed
        /\ loader'.counted = loader.counted
        /\ UNCHANGED <<readiness, inbox>>
        /\ vfsMsgs' = Append(vfsMsgs, Loaded(loader.version))
        /\ ~LoadComplete
    BY <1>1, <1>5 DEF LoaderUnload, LoaderType, loopVars, LoadComplete
  <2>2. /\ Loaded(loader.version) \in LoaderMessage
        /\ Loaded(loader.version).version = loader.version
        /\ Loaded(loader.version).done <= Loaded(loader.version).total
        /\ ~Final(Loaded(loader.version))
    BY <1>1, LoaderMessageType DEF Loaded, Final
  <2> QED
    BY <1>1, <2>1, <2>2, LoaderSends
<1>6. CASE LoaderFinish
  <2> DEFINE total == LoaderTotal(loader)
             e     == Progress(loader.version, total, total)
  <2>1. /\ loader'.version = loader.version /\ loader'.owed = loader.owed
        /\ loader'.counted = loader.counted
        /\ UNCHANGED <<readiness, inbox>>
        /\ vfsMsgs' = Append(vfsMsgs, e) \/ UNCHANGED vfsMsgs
        /\ LoadComplete'
    BY <1>1, <1>6 DEF LoaderFinish, LoaderType, loopVars, LoadComplete, EntriesDone
  <2>2. /\ e \in LoaderMessage /\ e.kind # "loaded"
        /\ e.version = loader.version /\ e.done <= e.total
    BY <1>1, LoaderMessageType DEF Progress
  <2> HIDE DEF e, total
  <2>3. CASE vfsMsgs' = Append(vfsMsgs, e)
    BY <1>1, <2>1, <2>2, <2>3, LoaderSends
  <2>4. CASE UNCHANGED vfsMsgs
    BY <1>1, <2>1, <2>4, LoaderSilent
  <2> QED
    BY <2>1, <2>3, <2>4
<1> QED
  BY <1>2, <1>3, <1>4, <1>5, <1>6, LoaderTakesConfig DEF Loader

-----------------------------------------------------------------------------
(* Steps of the main loop *)

LEMMA LoadFieldsKept ==
  ASSUME NEW r \in ReadinessType, NEW g, NEW errors
  PROVE  /\ LoadFields(RequestReload(r)) = LoadFields(r)
         /\ LoadFields(StartFetch(r, g)) = LoadFields(r)
         /\ LoadFields(AcceptBegin(r, g)) = LoadFields(r)
         /\ LoadFields(FinishFetch(r, g, errors)) = LoadFields(r)
         /\ LoadFields(Defer(r)) = LoadFields(r)
         /\ LoadFields(TakeDeferred(r)) = LoadFields(r)
<1>1. LoadFields(TakeDeferred(r)) = LoadFields(r)
  <2>1. CASE IsReady(r)
    BY <2>1 DEF TakeDeferred, LoadFields, ReadinessType
  <2>2. CASE ~IsReady(r)
    BY <2>2 DEF TakeDeferred
  <2> QED
    BY <2>1, <2>2
<1> QED
  BY <1>1 DEF LoadFields, ReadinessType, RequestReload, StartFetch, AcceptBegin,
              FinishFetch, Defer

LEMMA LoaderClientTurn ==
  ASSUME TypeOK, LoaderInv, ClientTurn
  PROVE  LoaderInv'
<1>1. readiness \in ReadinessType
  BY DEF TypeOK
<1>2. UNCHANGED loaderVars
  BY DEF ClientTurn, ReloadTurn, PullTurn, EditTurn
<1>3. CASE ReloadTurn
  <2>1. PICK r \in {readiness, Defer(readiness)} : readiness' = RequestReload(r)
    BY <1>3 DEF ReloadTurn
  <2>2. r \in ReadinessType /\ LoadFields(r) = LoadFields(readiness)
    BY <1>1, DeferType, LoadFieldsKept
  <2>3. LoadFields(readiness') = LoadFields(readiness)
    BY <2>1, <2>2, LoadFieldsKept
  <2> QED
    BY <1>2, <2>3, LoaderStutter
<1>4. CASE \E p \in PullRequests : PullTurn(p)
  <2>1. readiness' = readiness \/ readiness' = Defer(readiness)
    BY <1>4 DEF PullTurn
  <2>2. LoadFields(readiness') = LoadFields(readiness)
    BY <1>1, <2>1, LoadFieldsKept
  <2> QED
    BY <1>2, <2>2, LoaderStutter
<1>5. CASE EditTurn
  <2>1. UNCHANGED readiness
    BY <1>5 DEF EditTurn
  <2> QED
    BY <1>2, <2>1, LoaderStutter
<1> QED
  BY <1>3, <1>4, <1>5 DEF ClientTurn

LEMMA LoaderFinishTurn ==
  ASSUME TypeOK, LoaderInv, FinishTurn
  PROVE  LoaderInv'
<1>1. PICK reload \in BOOLEAN :
        LET r == AfterChanges(reload)
            t == IF reload THEN RequestTask(reloadTask, r.requested) ELSE reloadTask
        IN  readiness' = IF ShouldStart(t) THEN StartFetch(TakeDeferred(r), t.requested)
                         ELSE TakeDeferred(r)
  BY DEF FinishTurn, TypeOK, Pending
<1>2. PICK r \in ReadinessType :
        /\ r.version = readiness.version /\ r.progress = readiness.progress
        /\ r.vfsReady = readiness.vfsReady
        /\ \/ readiness' = TakeDeferred(r)
           \/ \E g : readiness' = StartFetch(TakeDeferred(r), g)
  BY <1>1, AfterChangesFields
<1>3. LoadFields(readiness') = LoadFields(r)
  BY <1>2, DeferType, LoadFieldsKept
<1>4. LoadFields(readiness') = LoadFields(readiness)
  BY <1>2, <1>3 DEF LoadFields
<1>5. UNCHANGED loaderVars
  BY DEF FinishTurn
<1> QED
  BY <1>4, <1>5, LoaderStutter

LEMMA LoaderTaskTurn ==
  ASSUME TypeOK, FetchInv, LoaderInv, TaskTurn
  PROVE  LoaderInv'
<1>1. readiness \in ReadinessType /\ tasks \in Seq(FetchMessage)
      /\ inbox \in Seq([version : Nat, entries : Nat]) /\ loader.version \in Nat
  BY DEF TypeOK, LoaderType
<1>2. CASE HandleBegin
  <2>1. UNCHANGED loaderVars
    BY <1>2 DEF HandleBegin
  <2>2. readiness' = readiness \/ \E g : readiness' = AcceptBegin(readiness, g)
    BY <1>2 DEF HandleBegin
  <2>3. LoadFields(readiness') = LoadFields(readiness)
    BY <1>1, <2>2, LoadFieldsKept
  <2> QED
    BY <2>1, <2>3, LoaderStutter
<1>3. CASE HandleStaleEnd \/ HandleFailure
  <2>1. UNCHANGED loaderVars /\ readiness' = Finished
    BY <1>3 DEF HandleStaleEnd, HandleFailure
  <2>2. LoadFields(readiness') = LoadFields(readiness)
    BY <1>1, <2>1, LoadFieldsKept DEF Finished
  <2> QED
    BY <2>1, <2>2, LoaderStutter
<1>4. CASE HandleSuccess
  <2>1. PICK entries \in 0 .. MaxEntries :
          /\ readiness' = Defer(BeginVfsLoad(Finished, entries))
          /\ inbox' = Append(inbox, [version |-> readiness'.version, entries |-> entries])
          /\ UNCHANGED <<loader, vfsMsgs>>
    BY <1>4 DEF HandleSuccess
  <2>2. Head(tasks).gen \in Nat /\ Head(tasks).errors \in BOOLEAN
    <3>1. tasks # <<>>
      BY <1>4 DEF HandleSuccess, HandleEnd, TakeTask
    <3>2. Head(tasks) \in FetchMessage
      BY <1>1, <3>1, Dequeue
    <3> QED
      BY <3>2 DEF FetchMessage
  <2>3. PICK f \in ReadinessType : f = Finished /\ LoadFields(f) = LoadFields(readiness)
    BY <1>1, <2>2, FinishFetchType, LoadFieldsKept DEF Finished
  <2>4. f.version = readiness.version /\ f.version \in Nat
    BY <2>3 DEF LoadFields, ReadinessType
  <2>5. /\ readiness'.version = readiness.version + 1
        /\ readiness'.progress.version = readiness'.version
        /\ readiness'.vfsReady = FALSE
    BY <2>1, <2>3, <2>4 DEF Defer, BeginVfsLoad, ReadinessType
  <2>6. entries \in Nat /\ readiness'.version \in Nat
    BY <2>1, <2>4, <2>5, BoundsAssumption
  <2> DEFINE e == [version |-> readiness'.version, entries |-> entries]
  <2>7. e \in [version : Nat, entries : Nat] /\ inbox' = Append(inbox, e)
        /\ e.version = readiness.version + 1
    BY <2>1, <2>5, <2>6
  <2> HIDE DEF e
  <2>8. /\ Len(inbox') = Len(inbox) + 1
        /\ DOMAIN inbox' = DOMAIN inbox \cup {Len(inbox) + 1}
        /\ inbox'[Len(inbox) + 1] = e
        /\ \A i \in DOMAIN inbox : inbox'[i] = inbox[i]
        /\ Len(inbox) \in Nat
    BY <1>1, <2>7, Enqueue, LenProperties
  <2>9. readiness.version = loader.version + Len(inbox) /\ readiness.version \in Nat
    BY <2>4 DEF LoaderInv
  <2>10. loader.version + (Len(inbox) + 1) = (loader.version + Len(inbox)) + 1
    <3>1. loader.version \in Nat /\ Len(inbox) \in Nat
      BY <1>1, <2>8
    <3> QED
      BY <3>1, NextVersion
  <2>11. readiness'.version = loader'.version + Len(inbox')
    <3>1. readiness'.version = (loader.version + Len(inbox)) + 1
      BY <2>5, <2>9
    <3> QED
      BY <2>1, <2>8, <2>10, <3>1
  <2>12. ASSUME NEW i \in DOMAIN inbox' PROVE inbox'[i].version = loader'.version + i
    <3>1. CASE i = Len(inbox) + 1
      <4>1. inbox'[i].version = readiness.version + 1
        BY <2>7, <2>8, <3>1
      <4>2. readiness.version + 1 = loader.version + (Len(inbox) + 1)
        BY <2>9, <2>10
      <4> QED
        BY <2>1, <3>1, <4>1, <4>2
    <3>2. CASE i \in DOMAIN inbox
      <4>1. inbox[i].version = loader.version + i
        BY <3>2 DEF LoaderInv
      <4> QED
        BY <2>1, <2>8, <3>2, <4>1
    <3> QED
      BY <2>8, <3>1, <3>2
  <2>13. /\ \A n \in loader'.owed : n <= loader'.counted
         /\ \A i \in DOMAIN vfsMsgs' :
              /\ vfsMsgs'[i].version <= loader'.version
              /\ vfsMsgs'[i].done <= vfsMsgs'[i].total
              /\ Final(vfsMsgs'[i]) /\ vfsMsgs'[i].version = loader'.version =>
                   LoadComplete' /\ (\A j \in DOMAIN vfsMsgs' :
                                       j > i => ~LoadedOf(loader'.version, vfsMsgs'[j]))
    BY <2>1 DEF LoaderInv, LoadComplete
  <2> QED
    BY <2>5, <2>11, <2>12, <2>13 DEF LoaderInv
<1> QED
  BY <1>2, <1>3, <1>4 DEF TaskTurn

\* What is left of a channel when its first message is taken.
LEMMA LoaderReceives ==
  ASSUME TypeOK, LoaderInv, TakeVfsMsg, UNCHANGED <<inbox, loader>>,
         readiness'.version = readiness.version,
         readiness'.progress.version = readiness'.version,
         readiness'.vfsReady = readiness.vfsReady
           \/ /\ Head(vfsMsgs).version = readiness.version
              /\ Final(Head(vfsMsgs))
           \/ ~readiness'.vfsReady
  PROVE  LoaderInv'
<1>1. /\ vfsMsgs \in Seq(LoaderMessage) /\ vfsMsgs # <<>> /\ vfsMsgs' = Tail(vfsMsgs)
      /\ loader.version \in Nat /\ inbox \in Seq([version : Nat, entries : Nat])
  BY DEF TypeOK, LoaderType, TakeVfsMsg
<1>2. /\ Head(vfsMsgs) = vfsMsgs[1] /\ 1 \in DOMAIN vfsMsgs
      /\ Head(vfsMsgs) \in LoaderMessage
      /\ vfsMsgs' \in Seq(LoaderMessage)
      /\ \A i \in DOMAIN vfsMsgs' : i + 1 \in DOMAIN vfsMsgs /\ vfsMsgs'[i] = vfsMsgs[i + 1]
  BY <1>1, Dequeue
<1>3. \A i \in DOMAIN vfsMsgs' : i \in Nat /\ i + 1 > 1
  BY <1>2, LenProperties
<1>4. ASSUME NEW i \in DOMAIN vfsMsgs'
      PROVE  /\ vfsMsgs'[i].version <= loader.version
             /\ vfsMsgs'[i].done <= vfsMsgs'[i].total
             /\ Final(vfsMsgs'[i]) /\ vfsMsgs'[i].version = loader.version =>
                  LoadComplete /\ (\A j \in DOMAIN vfsMsgs' :
                                     j > i => ~LoadedOf(loader.version, vfsMsgs'[j]))
  <2>1. i + 1 \in DOMAIN vfsMsgs /\ vfsMsgs'[i] = vfsMsgs[i + 1] /\ i \in Nat
    BY <1>2, <1>3
  <2>2. /\ vfsMsgs[i + 1].version <= loader.version
        /\ vfsMsgs[i + 1].done <= vfsMsgs[i + 1].total
    BY <2>1 DEF LoaderInv
  <2>3. ASSUME Final(vfsMsgs[i + 1]), vfsMsgs[i + 1].version = loader.version
        PROVE  LoadComplete /\ (\A j \in DOMAIN vfsMsgs :
                                  j > i + 1 => ~LoadedOf(loader.version, vfsMsgs[j]))
    BY <2>1, <2>3 DEF LoaderInv
  <2>4. ASSUME Final(vfsMsgs'[i]), vfsMsgs'[i].version = loader.version,
               NEW j \in DOMAIN vfsMsgs', j > i
        PROVE  ~LoadedOf(loader.version, vfsMsgs'[j])
    <3>1. j + 1 \in DOMAIN vfsMsgs /\ vfsMsgs'[j] = vfsMsgs[j + 1] /\ j + 1 > i + 1
      BY <1>2, <1>3, <2>1, <2>4
    <3> QED
      BY <2>1, <2>3, <2>4, <3>1
  <2> QED
    BY <2>1, <2>2, <2>3, <2>4
<1>5. ASSUME readiness'.vfsReady, readiness'.version > 0
      PROVE  /\ inbox = <<>> /\ LoadComplete
             /\ \A i \in DOMAIN vfsMsgs' : ~LoadedOf(readiness.version, vfsMsgs'[i])
  <2>1. /\ inbox = <<>> /\ LoadComplete
        /\ \A j \in DOMAIN vfsMsgs : j > 1 => ~LoadedOf(readiness.version, vfsMsgs[j])
    <3>1. CASE readiness'.vfsReady = readiness.vfsReady
      <4>1. /\ inbox = <<>> /\ LoadComplete
            /\ \A j \in DOMAIN vfsMsgs : ~LoadedOf(readiness.version, vfsMsgs[j])
        BY <1>5, <3>1 DEF LoaderInv
      <4> QED
        BY <4>1
    <3>2. CASE Head(vfsMsgs).version = readiness.version /\ Final(Head(vfsMsgs))
      <4>1. /\ vfsMsgs[1].version <= loader.version
            /\ readiness.version = loader.version + Len(inbox)
            /\ vfsMsgs[1].version = readiness.version
        BY <1>2, <3>2 DEF LoaderInv
      <4>2. Len(inbox) \in Nat
        BY <1>1, LenProperties
      <4>3. Len(inbox) = 0 /\ vfsMsgs[1].version = loader.version
        <5>1. ASSUME NEW v \in Nat, NEW n \in Nat, v + n <= v
              PROVE  n = 0 /\ v + n = v
          BY <5>1
        <5>2. loader.version + Len(inbox) <= loader.version
          BY <4>1
        <5> QED
          BY <1>1, <4>1, <4>2, <5>1, <5>2
      <4>4. inbox = <<>>
        BY <1>1, <4>3, EmptySeq
      <4>5. LoadComplete /\ (\A j \in DOMAIN vfsMsgs :
                               j > 1 => ~LoadedOf(loader.version, vfsMsgs[j]))
        BY <1>2, <3>2, <4>3 DEF LoaderInv
      <4>6. loader.version = readiness.version
        BY <4>1, <4>3
      <4> QED
        BY <4>4, <4>5, <4>6
    <3> QED
      BY <1>5, <3>1, <3>2
  <2>2. ASSUME NEW i \in DOMAIN vfsMsgs' PROVE ~LoadedOf(readiness.version, vfsMsgs'[i])
    <3>1. i + 1 \in DOMAIN vfsMsgs /\ vfsMsgs'[i] = vfsMsgs[i + 1] /\ i + 1 > 1
      BY <1>2, <1>3
    <3> QED
      BY <2>1, <3>1
  <2> QED
    BY <2>1, <2>2
<1>6. LoadComplete' = LoadComplete
  BY DEF LoadComplete
<1>7. /\ readiness'.progress.version = readiness'.version
      /\ readiness'.version = loader'.version + Len(inbox')
      /\ \A i \in DOMAIN inbox' : inbox'[i].version = loader'.version + i
      /\ \A n \in loader'.owed : n <= loader'.counted
  BY DEF LoaderInv
<1> QED
  BY <1>4, <1>5, <1>6, <1>7 DEF LoaderInv

LEMMA LoaderVfsTurn ==
  ASSUME TypeOK, LoaderInv, VfsTurn
  PROVE  LoaderInv'
<1>1. readiness \in ReadinessType /\ readiness.progress.version = readiness.version
  BY DEF TypeOK, LoaderInv
<1>2. CASE HandleLoaded
  <2>1. TakeVfsMsg /\ UNCHANGED <<readiness, inbox, loader>>
    BY <1>2 DEF HandleLoaded
  <2> QED
    BY <1>1, <2>1, LoaderReceives
<1>3. CASE HandleProgress
  <2>1. TakeVfsMsg /\ UNCHANGED <<inbox, loader>>
    BY <1>3 DEF HandleProgress
  <2>2. CASE readiness' = readiness
    BY <1>1, <2>1, <2>2, LoaderReceives
  <2>3. CASE /\ Head(vfsMsgs).version = readiness.version
             /\ readiness' = AcceptProgress(readiness, Head(vfsMsgs).version,
                                            Head(vfsMsgs).done, Head(vfsMsgs).total)
    <3>1. /\ readiness'.version = readiness.version
          /\ readiness'.progress.version = readiness'.version
          /\ readiness'.vfsReady = (Head(vfsMsgs).done >= Head(vfsMsgs).total)
      BY <1>1, <2>3 DEF AcceptProgress, ReadinessType
    <3>2. Head(vfsMsgs).kind = "progress"
      BY <1>3 DEF HandleProgress
    <3>3. Final(Head(vfsMsgs)) \/ ~readiness'.vfsReady
      BY <3>1, <3>2 DEF Final
    <3> QED
      BY <2>1, <2>3, <3>1, <3>3, LoaderReceives
  <2> QED
    BY <1>3, <2>2, <2>3 DEF HandleProgress, AcceptsProgress
<1> QED
  BY <1>2, <1>3 DEF VfsTurn

-----------------------------------------------------------------------------
LEMMA LoaderNext ==
  ASSUME TypeOK, FetchInv, LoaderInv, [Next]_vars
  PROVE  LoaderInv'
<1>1. CASE Fetcher
  <2>1. UNCHANGED <<readiness, loaderVars>>
    BY <1>1 DEF Fetcher, FetcherBegin, FetcherEnd, loopVars
  <2> QED
    BY <2>1, LoaderStutter
<1>2. CASE UNCHANGED vars
  <2>1. UNCHANGED <<readiness, loaderVars>>
    BY <1>2 DEF vars, loopVars
  <2> QED
    BY <2>1, LoaderStutter
<1> QED
  BY <1>1, <1>2, LoaderClientTurn, LoaderTaskTurn, LoaderVfsTurn, LoaderFinishTurn,
     LoaderSteps DEF Next

\* Versions flow in order through the loader, and a final count of its
\* configuration leaves nothing of it to come (the loader thread of notify.rs
\* against accept_vfs_progress and begin_vfs_load).
THEOREM LoaderStays == Spec => []LoaderInv
<1>1. Init => LoaderInv
  BY LoaderInit
<1>2. TypeOK /\ FetchInv /\ LoaderInv /\ [Next]_vars => LoaderInv'
  BY LoaderNext
<1> QED
  BY <1>1, <1>2, TypeCorrect, FetchStages, PTL DEF Spec

\* When the server calls itself ready, nothing of the newest configuration is
\* still to be taken, read, unloaded or delivered.
THEOREM ReadyIsLoaded == Spec => []ReadyMeansLoaded
<1>1. TypeOK /\ LoaderInv => ReadyMeansLoaded
  <2> SUFFICES ASSUME TypeOK, LoaderInv, IsReady(readiness), readiness.version > 0
               PROVE  /\ inbox = <<>>
                      /\ loader.version = readiness.version
                      /\ loader.unread = 0
                      /\ loader.reconcile => loader.phase = "idle"
                      /\ \A i \in DOMAIN vfsMsgs :
                           vfsMsgs[i].kind = "loaded" => vfsMsgs[i].version # readiness.version
    BY DEF ReadyMeansLoaded
  <2>1. /\ inbox = <<>> /\ LoadComplete
        /\ \A i \in DOMAIN vfsMsgs : ~LoadedOf(readiness.version, vfsMsgs[i])
    BY DEF LoaderInv, IsReady
  <2>2. Len(inbox) = 0 /\ loader.version \in Nat
    BY <2>1 DEF TypeOK, LoaderType
  <2>3. loader.version = readiness.version
    <3>1. readiness.version = loader.version + 0
      BY <2>2 DEF LoaderInv
    <3> QED
      BY <2>2, <3>1
  <2> QED
    BY <2>1, <2>3 DEF LoadComplete, LoadedOf
<1> QED
  BY <1>1, TypeCorrect, LoaderStays, PTL

\* The assertions of ExclTask::complete and process_vfs_msg never fail.
THEOREM AssertionsHold == Spec => []NoAssertFails
<1>1. TypeOK /\ FetchInv /\ LoaderInv => NoAssertFails
  <2> SUFFICES ASSUME TypeOK, FetchInv, LoaderInv PROVE NoAssertFails
    OBVIOUS
  <2>1. ASSUME NEW i \in DOMAIN tasks, tasks[i].kind = "end" PROVE reloadTask.inProcess
    BY <2>1 DEF FetchInv, NoFetch, Fetching
  <2>2. ASSUME NEW i \in DOMAIN vfsMsgs
        PROVE  /\ vfsMsgs[i].version <= readiness.version
               /\ vfsMsgs[i].done <= vfsMsgs[i].total
    <3>1. /\ vfsMsgs[i].version <= loader.version
          /\ vfsMsgs[i].done <= vfsMsgs[i].total
          /\ readiness.version = loader.version + Len(inbox)
      BY DEF LoaderInv
    <3>2. Len(inbox) \in Nat /\ loader.version \in Nat
      BY LenProperties DEF TypeOK, LoaderType
    <3>3. vfsMsgs[i].version \in Nat
      <4>1. vfsMsgs[i] \in LoaderMessage
        BY LenProperties, ElementOfSeq DEF TypeOK
      <4> QED
        BY <4>1 DEF LoaderMessage
    <3>4. ASSUME NEW a \in Nat, NEW v \in Nat, NEW n \in Nat, a <= v PROVE a <= v + n
      BY <3>4
    <3> QED
      BY <3>1, <3>2, <3>3, <3>4
  <2> QED
    BY <2>1, <2>2 DEF NoAssertFails
<1> QED
  BY <1>1, TypeCorrect, FetchStages, LoaderStays, PTL
=============================================================================
