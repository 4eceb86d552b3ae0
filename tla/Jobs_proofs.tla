---------------------------- MODULE Jobs_proofs ----------------------------
(***************************************************************************)
(* Proofs about the jobs that the main loop gives out.                     *)
(*                                                                         *)
(* Module Requests, for any set of requests: the places a request can be   *)
(* in exclude each other, cancellation reaches every job, and the server   *)
(* implements the promise of module OneAnswer.                             *)
(*                                                                         *)
(* Module Qihe, for any number of runs and writes: the client shows a bar  *)
(* exactly for the active run, that run will still report, and findings of *)
(* a cancelled run are never shown.                                        *)
(***************************************************************************)
EXTENDS Requests, Qihe, FiniteSetTheorems, SequenceTheorems, TLAPS

-----------------------------------------------------------------------------
(* Requests *)

HasJob(r)    == \E j \in jobs : j.req = r
HasResult(r) == \E i \in DOMAIN channel : channel[i].req = r

DistinctJobs    == \A j, k \in jobs : j.req = k.req => j = k
DistinctResults == \A i, k \in DOMAIN channel : channel[i].req = channel[k].req => i = k

\* A request is in one place at a time; a pending one is in some place, and one
\* that did not arrive in none.
PlaceInv ==
  /\ DistinctJobs
  /\ DistinctResults
  /\ \A r \in Requests :
       /\ ~(HasJob(r) /\ HasResult(r))
       /\ r \in parked => ~HasJob(r) /\ ~HasResult(r)
       /\ HasJob(r) \/ HasResult(r) => method[r] # None
       /\ r \in incoming => r \in parked \/ HasJob(r) \/ HasResult(r)

\* A pending request has its token until it is cancelled.
TokenInv ==
  /\ incoming \subseteq tokens \cup cancelled
  /\ ~shutdown /\ ~exited => incoming \subseteq tokens
  /\ CancelReaches

\* The replies a request got follow from its registration.
ReplyInv ==
  \A r \in Requests : replies[r] = IF method[r] # None /\ r \notin incoming THEN 1 ELSE 0

IInv == TypeOK /\ PlaceInv /\ TokenInv /\ ReplyInv /\ CacheMatchesClient
-----------------------------------------------------------------------------
(* The result channel as a queue *)

\* Taking the oldest result removes its request from the channel.
LEMMA Pop ==
  ASSUME channel \in Seq(Result), channel # <<>>, DistinctResults, channel' = Tail(channel)
  PROVE  /\ Head(channel) \in Result
         /\ channel' \in Seq(Result)
         /\ HasResult(Head(channel).req)
         /\ DistinctResults'
         /\ \A x : HasResult(x)' <=> (HasResult(x) /\ x # Head(channel).req)
<1>1. /\ Len(channel) \in Nat /\ Len(channel) > 0
      /\ DOMAIN channel = 1 .. Len(channel)
      /\ Head(channel) = channel[1]
      /\ 1 \in DOMAIN channel
  OBVIOUS
<1>2. /\ channel' \in Seq(Result)
      /\ Len(channel') = Len(channel) - 1
      /\ DOMAIN channel' = 1 .. (Len(channel) - 1)
      /\ \A i \in DOMAIN channel' : channel'[i] = channel[i + 1] /\ i + 1 \in DOMAIN channel
  BY <1>1, HeadTailProperties
<1>3. DistinctResults'
  BY <1>1, <1>2 DEF DistinctResults
<1>4. ASSUME NEW x PROVE HasResult(x)' <=> (HasResult(x) /\ x # Head(channel).req)
  <2>1. ASSUME NEW i \in DOMAIN channel', channel'[i].req = x
        PROVE  HasResult(x) /\ x # Head(channel).req
    <3>1. i + 1 \in DOMAIN channel /\ channel[i + 1].req = x /\ i + 1 # 1
      BY <1>1, <1>2, <2>1
    <3> QED BY <3>1, <1>1 DEF HasResult, DistinctResults
  <2>2. ASSUME NEW i \in DOMAIN channel, channel[i].req = x, x # Head(channel).req
        PROVE  HasResult(x)'
    <3>1. i # 1 /\ i - 1 \in DOMAIN channel' /\ (i - 1) + 1 = i
      BY <1>1, <1>2, <2>2
    <3>2. channel'[i - 1] = channel[i]
      BY <3>1, <1>2
    <3> QED BY <3>1, <3>2, <2>2 DEF HasResult
  <2> QED BY <2>1, <2>2 DEF HasResult
<1> QED BY <1>1, <1>2, <1>3, <1>4 DEF HasResult

\* Sending a result of a request that had none.
LEMMA Push ==
  ASSUME channel \in Seq(Result), DistinctResults, NEW e \in Result, ~HasResult(e.req),
         channel' = Append(channel, e)
  PROVE  /\ channel' \in Seq(Result)
         /\ DistinctResults'
         /\ \A x : HasResult(x)' <=> (HasResult(x) \/ x = e.req)
<1>1. /\ Len(channel) \in Nat
      /\ DOMAIN channel = 1 .. Len(channel)
      /\ channel' \in Seq(Result)
      /\ DOMAIN channel' = 1 .. (Len(channel) + 1)
      /\ \A i \in DOMAIN channel : channel'[i] = channel[i]
      /\ channel'[Len(channel) + 1] = e
  BY AppendProperties
<1>2. \A i \in DOMAIN channel' : i \in DOMAIN channel \/ i = Len(channel) + 1
  BY <1>1
<1>3. DistinctResults'
  BY <1>1, <1>2 DEF DistinctResults, HasResult
<1>4. ASSUME NEW x PROVE HasResult(x)' <=> (HasResult(x) \/ x = e.req)
  <2>1. ASSUME HasResult(x) PROVE HasResult(x)'
    BY <2>1, <1>1 DEF HasResult
  <2>2. ASSUME x = e.req PROVE HasResult(x)'
    BY <2>2, <1>1 DEF HasResult
  <2>3. ASSUME HasResult(x)' PROVE HasResult(x) \/ x = e.req
    BY <2>3, <1>1, <1>2 DEF HasResult
  <2> QED BY <2>1, <2>2, <2>3
<1> QED BY <1>1, <1>3, <1>4
-----------------------------------------------------------------------------
(* The initial states, and one lemma per action *)

LEMMA InitIInv == Init => IInv
<1> SUFFICES ASSUME Init PROVE IInv
  OBVIOUS
<1>1. TypeOK
  <2>1. channel = <<>> /\ channel \in Seq(Result)
    BY DEF Init
  <2> QED BY <2>1 DEF Init, TypeOK
<1>2. PlaceInv
  BY DEF Init, PlaceInv, DistinctJobs, DistinctResults, HasJob, HasResult
<1>3. TokenInv /\ ReplyInv /\ CacheMatchesClient
  BY DEF Init, TokenInv, CancelReaches, ReplyInv, CacheMatchesClient
<1> QED BY <1>1, <1>2, <1>3 DEF IInv

\* A job that ends hands its request over to the channel.
LEMMA YieldStep ==
  ASSUME IInv, NEW j \in jobs, NEW kind \in {"ok", "error", "retry"}, Yield(j, kind)
  PROVE  IInv'
<1> DEFINE e == [req |-> j.req, kind |-> kind]
<1>1. j \in Job /\ j.req \in Requests /\ e \in Result /\ e.req = j.req
  BY DEF IInv, TypeOK, Job, Result
<1>2. HasJob(j.req) /\ ~HasResult(j.req)
  BY <1>1 DEF IInv, PlaceInv, HasJob
<1>3. channel' = Append(channel, e)
  BY DEF Yield
<1>4. /\ channel' \in Seq(Result)
      /\ DistinctResults'
      /\ \A x : HasResult(x)' <=> (HasResult(x) \/ x = j.req)
  <2> HIDE DEF e
  <2> QED BY <1>1, <1>2, <1>3, Push DEF IInv, TypeOK, PlaceInv
<1>5. \A x : HasJob(x)' <=> (HasJob(x) /\ x # j.req)
  BY DEF Yield, HasJob, IInv, PlaceInv, DistinctJobs
<1>6. UNCHANGED <<method, incoming, tokens, cancelled, parked, replies, ready, writing,
                  shutdown, exited, cached, shown>> /\ jobs' \subseteq jobs
  BY DEF Yield, tableVars, modeVars, cacheVars
<1>7. TypeOK'
  BY <1>4, <1>6 DEF IInv, TypeOK
<1>8. PlaceInv'
  BY <1>1, <1>2, <1>4, <1>5, <1>6 DEF IInv, PlaceInv, DistinctJobs
<1>9. TokenInv' /\ ReplyInv' /\ CacheMatchesClient'
  BY <1>6 DEF IInv, TokenInv, CancelReaches, ReplyInv, CacheMatchesClient
<1> QED BY <1>7, <1>8, <1>9 DEF IInv

LEMMA WorkerStep == IInv /\ Worker => IInv'
<1> SUFFICES ASSUME IInv, NEW j \in jobs,
                    StartJob(j) \/ ReturnJob(j) \/ FailJob(j) \/ InterruptJob(j)
             PROVE  IInv'
  BY DEF Worker
<1>1. ASSUME StartJob(j), ~IsCancelled(j) PROVE IInv'
  <2> DEFINE k == [j EXCEPT !.phase = "running"]
  <2>1. /\ jobs' = (jobs \ {j}) \cup {k}
        /\ UNCHANGED <<method, incoming, tokens, cancelled, parked, replies, ready, writing,
                       shutdown, exited, cached, shown, channel>>
    BY <1>1 DEF StartJob, tableVars, modeVars, cacheVars
  <2>2. j \in Job
    BY DEF IInv, TypeOK
  <2>3. k \in Job /\ k.req = j.req /\ k.own = j.own
    BY <2>2 DEF Job
  <2> HIDE DEF k
  <2>4. TypeOK'
    BY <2>1, <2>3 DEF IInv, TypeOK
  <2>5. \A x : (HasJob(x)' <=> HasJob(x)) /\ (HasResult(x)' <=> HasResult(x))
    BY <2>1, <2>3 DEF HasJob, HasResult
  <2>6. DistinctJobs' /\ DistinctResults'
    BY <2>1, <2>3 DEF IInv, PlaceInv, DistinctJobs, DistinctResults
  <2>7. PlaceInv'
    BY <2>1, <2>5, <2>6 DEF IInv, PlaceInv
  <2>8. CancelReaches'
    BY <2>1, <2>3 DEF IInv, TokenInv, CancelReaches
  <2>9. TokenInv' /\ ReplyInv' /\ CacheMatchesClient'
    BY <2>1, <2>8 DEF IInv, TokenInv, ReplyInv, CacheMatchesClient
  <2> QED BY <2>4, <2>7, <2>9 DEF IInv
<1>2. ASSUME StartJob(j), IsCancelled(j) PROVE IInv'
  BY <1>2, YieldStep DEF StartJob
<1>3. ASSUME ReturnJob(j) PROVE IInv'
  BY <1>3, YieldStep DEF ReturnJob
<1>4. ASSUME FailJob(j) PROVE IInv'
  BY <1>4, YieldStep DEF FailJob
<1>5. ASSUME InterruptJob(j) PROVE IInv'
  BY <1>5, YieldStep DEF InterruptJob
<1> QED BY <1>1, <1>2, <1>3, <1>4, <1>5

\* New jobs for requests that have their tokens.
LEMMA QueueJobFacts ==
  ASSUME NEW rs \in SUBSET Requests, rs \subseteq tokens'
  PROVE  /\ QueueJob(rs) \subseteq Job
         /\ \A k \in QueueJob(rs) : k.req \in rs /\ k.own = TRUE
         /\ \A k, l \in QueueJob(rs) : k.req = l.req => k = l
         /\ \A r \in rs : \E k \in QueueJob(rs) : k.req = r
<1> DEFINE job(r) == [req |-> r, phase |-> "queued", own |-> TRUE]
<1>1. QueueJob(rs) = {job(r) : r \in rs}
  <2>1. \A r \in rs : (r \in tokens') = TRUE
    OBVIOUS
  <2> QED BY <2>1, Zenon DEF QueueJob
<1>2. \A r \in rs : job(r).req = r /\ job(r).own = TRUE /\ job(r) \in Job
  BY DEF Job
<1> HIDE DEF job
<1>3. \A k \in QueueJob(rs) : \E r \in rs : k = job(r)
  BY <1>1, Zenon
<1>4. \A r \in rs : job(r) \in QueueJob(rs)
  BY <1>1, Zenon
<1>5. QueueJob(rs) \subseteq Job
  BY <1>2, <1>3, Zenon
<1>6. \A k \in QueueJob(rs) : k.req \in rs /\ k.own = TRUE
  BY <1>2, <1>3
<1>7. \A k, l \in QueueJob(rs) : k.req = l.req => k = l
  BY <1>2, <1>3
<1>8. \A r \in rs : \E k \in QueueJob(rs) : k.req = r
  BY <1>2, <1>4
<1> QED BY <1>5, <1>6, <1>7, <1>8

\* Requests without a job that leave the parked list and the channel, and are
\* handled again, keep the invariant.
LEMMA HandleAgainStep ==
  ASSUME IInv, Looping, NEW rs \in SUBSET Requests,
         \A r \in rs : ~HasJob(r) /\ method[r] # None,
         HandleAgain(rs),
         ready' \in BOOLEAN,
         UNCHANGED <<method, cancelled, writing, shutdown, exited, cached, shown>>,
         channel' \in Seq(Result), DistinctResults',
         \A x : HasResult(x)' <=> (HasResult(x) /\ x \notin rs)
  PROVE  IInv'
<1> DEFINE due     == rs \cap incoming
           parks   == {r \in due : method[r] = "pull" /\ ~ready'}
           refused == IF shutdown THEN due \ parks ELSE {}
           queued  == due \ (parks \cup refused)
<1>1. /\ parked' = (parked \ rs) \cup parks
      /\ incoming' = incoming \ refused
      /\ tokens' = tokens \ refused
      /\ replies' = Answered(refused)
      /\ jobs' = jobs \cup QueueJob(queued)
  BY DEF HandleAgain
<1>2. /\ due \subseteq rs /\ due \subseteq incoming
      /\ parks \subseteq due /\ refused \subseteq due /\ queued \subseteq due
      /\ \A r \in parks : method[r] = "pull"
      /\ due \subseteq parks \cup refused \cup queued
      /\ queued \cap (parks \cup refused) = {} /\ parks \cap refused = {}
      /\ (shutdown => queued = {})
  OBVIOUS
<1> HIDE DEF due, parks, refused, queued
<1>3. queued \subseteq tokens' /\ queued \in SUBSET Requests
  BY <1>1, <1>2 DEF IInv, TokenInv, Looping
<1>4. /\ QueueJob(queued) \subseteq Job
      /\ \A k \in QueueJob(queued) : k.req \in queued /\ k.own = TRUE
      /\ \A k, l \in QueueJob(queued) : k.req = l.req => k = l
      /\ \A r \in queued : \E k \in QueueJob(queued) : k.req = r
  BY <1>3, QueueJobFacts
<1>5. \A x : HasJob(x)' <=> (HasJob(x) \/ x \in queued)
  BY <1>1, <1>4 DEF HasJob
<1>6. TypeOK'
  <2>1. replies' \in [Requests -> Nat]
    BY <1>1 DEF Answered, IInv, TypeOK
  <2>2. incoming' \subseteq incoming /\ tokens' \subseteq incoming' /\ refused \subseteq Requests
    BY <1>1, <1>2 DEF IInv, TypeOK
  <2>3. parked' \subseteq {r \in Requests : method[r] = "pull"}
    BY <1>1, <1>2 DEF IInv, TypeOK
  <2>4. jobs' \subseteq Job
    BY <1>1, <1>4 DEF IInv, TypeOK
  <2> QED BY <2>1, <2>2, <2>3, <2>4 DEF IInv, TypeOK, Looping
<1>7. PlaceInv'
  <2>1. DistinctJobs'
    BY <1>1, <1>2, <1>4 DEF IInv, PlaceInv, DistinctJobs, HasJob
  <2>2. ASSUME NEW r \in Requests
        PROVE  /\ ~(HasJob(r)' /\ HasResult(r)')
               /\ r \in parked' => ~HasJob(r)' /\ ~HasResult(r)'
               /\ HasJob(r)' \/ HasResult(r)' => method[r]' # None
               /\ r \in incoming' => r \in parked' \/ HasJob(r)' \/ HasResult(r)'
    <3> USE <1>1, <1>2, <1>5 DEF IInv, PlaceInv
    <3>1. ~(HasJob(r)' /\ HasResult(r)')
      OBVIOUS
    <3>2. r \in parked' => ~HasJob(r)' /\ ~HasResult(r)'
      OBVIOUS
    <3>3. HasJob(r)' \/ HasResult(r)' => method[r]' # None
      OBVIOUS
    <3>4. ASSUME r \in incoming' PROVE r \in parked' \/ HasJob(r)' \/ HasResult(r)'
      <4>1. r \in incoming /\ r \notin refused
        BY <3>4
      <4>2. CASE r \in rs
        <5>1. r \in due
          BY <4>1, <4>2 DEF due
        <5> QED BY <4>1, <5>1
      <4>3. CASE r \notin rs
        BY <4>1, <4>3
      <4> QED BY <4>2, <4>3
    <3> QED BY <3>1, <3>2, <3>3, <3>4
  <2> QED BY <2>1, <2>2 DEF PlaceInv
<1>8. TokenInv'
  <2>1. CancelReaches'
    <3> SUFFICES ASSUME NEW j \in jobs'
                 PROVE  j.own /\ (j.req \notin incoming' => j.req \in cancelled)
      BY DEF CancelReaches
    <3>1. CASE j \in jobs
      BY <1>1, <1>2, <3>1 DEF IInv, TokenInv, CancelReaches, HasJob
    <3>2. CASE j \in QueueJob(queued)
      BY <1>1, <1>2, <1>4, <3>2
    <3> QED BY <1>1, <3>1, <3>2
  <2> QED BY <1>1, <1>2, <2>1 DEF IInv, TokenInv
<1>9. ReplyInv'
  BY <1>1, <1>2 DEF IInv, ReplyInv, Answered, TypeOK
<1>10. CacheMatchesClient'
  BY DEF IInv, CacheMatchesClient
<1> QED BY <1>6, <1>7, <1>8, <1>9, <1>10 DEF IInv

LEMMA TakeRetryStep == IInv /\ TakeRetry => IInv'
<1> SUFFICES ASSUME IInv, TakeRetry PROVE IInv'
  OBVIOUS
<1> DEFINE q == Head(channel).req
<1>1. /\ Head(channel) \in Result /\ HasResult(q)
      /\ channel' \in Seq(Result) /\ DistinctResults'
      /\ \A x : HasResult(x)' <=> (HasResult(x) /\ x # q)
  BY Pop DEF TakeRetry, IInv, TypeOK, PlaceInv
<1>2. q \in Requests /\ ~HasJob(q) /\ method[q] # None
  BY <1>1 DEF Result, IInv, PlaceInv
<1>3. /\ Looping /\ HandleAgain({q}) /\ ready' \in BOOLEAN
      /\ UNCHANGED <<method, cancelled, writing, shutdown, exited, cached, shown>>
  BY DEF TakeRetry, IInv, TypeOK, modeVars, cacheVars
<1> HIDE DEF q
<1> QED BY <1>1, <1>2, <1>3, HandleAgainStep

LEMMA BecomeReadyStep == IInv /\ BecomeReady => IInv'
<1> SUFFICES ASSUME IInv, BecomeReady PROVE IInv'
  OBVIOUS
<1>1. /\ Looping /\ HandleAgain(parked) /\ ready' \in BOOLEAN
      /\ UNCHANGED <<method, cancelled, writing, shutdown, exited, cached, shown, channel>>
  BY DEF BecomeReady, cacheVars
<1>2. parked \in SUBSET Requests /\ \A r \in parked : ~HasJob(r) /\ method[r] # None
  BY DEF IInv, TypeOK, PlaceInv, None
<1>3. /\ channel' \in Seq(Result) /\ DistinctResults'
      /\ \A x : HasResult(x)' <=> (HasResult(x) /\ x \notin parked)
  BY <1>1, <1>2 DEF IInv, TypeOK, PlaceInv, DistinctResults, HasResult
<1> QED BY <1>1, <1>2, <1>3, HandleAgainStep

LEMMA TakeAnswerStep == IInv /\ TakeAnswer => IInv'
<1> SUFFICES ASSUME IInv, TakeAnswer PROVE IInv'
  OBVIOUS
<1> DEFINE q   == Head(channel).req
           due == {q} \cap incoming
<1>1. /\ Head(channel) \in Result /\ HasResult(q)
      /\ channel' \in Seq(Result) /\ DistinctResults'
      /\ \A x : HasResult(x)' <=> (HasResult(x) /\ x # q)
  BY Pop DEF TakeAnswer, IInv, TypeOK, PlaceInv
<1>2. q \in Requests /\ ~HasJob(q) /\ q \notin parked /\ method[q] # None
  BY <1>1 DEF Result, IInv, PlaceInv
<1>3. /\ replies' = Answered(due)
      /\ incoming' = incoming \ due
      /\ tokens' = tokens \ due
      /\ shown' \in {q, shown} /\ cached' \in {q, cached}
      /\ UNCHANGED <<method, cancelled, parked, jobs, ready, writing, shutdown, exited>>
  BY DEF TakeAnswer, modeVars
<1>4. CacheMatchesClient'
  BY DEF TakeAnswer, IInv, CacheMatchesClient
<1>5. due \subseteq {q} /\ due \subseteq incoming /\ (q \in incoming => q \in due)
  OBVIOUS
<1> HIDE DEF q, due
<1>6. TypeOK'
  <2>1. replies' \in [Requests -> Nat]
    BY <1>3 DEF Answered, IInv, TypeOK
  <2> QED BY <1>1, <1>2, <1>3, <2>1 DEF IInv, TypeOK
<1>7. PlaceInv'
  <2>1. \A x : HasJob(x)' <=> HasJob(x)
    BY <1>3 DEF HasJob
  <2>2. DistinctJobs'
    BY <1>3 DEF IInv, PlaceInv, DistinctJobs
  <2>3. ASSUME NEW r \in Requests, r \in incoming'
        PROVE  r \in parked' \/ HasJob(r)' \/ HasResult(r)'
    BY <1>1, <1>3, <1>5, <2>1, <2>3 DEF IInv, PlaceInv
  <2> QED BY <1>1, <1>3, <2>1, <2>2, <2>3 DEF IInv, PlaceInv
<1>8. TokenInv'
  <2>1. CancelReaches'
    BY <1>2, <1>3, <1>5 DEF IInv, TokenInv, CancelReaches, HasJob
  <2> QED BY <1>3, <2>1 DEF IInv, TokenInv
<1>9. ReplyInv'
  BY <1>2, <1>3, <1>5 DEF IInv, ReplyInv, Answered, TypeOK
<1> QED BY <1>4, <1>6, <1>7, <1>8, <1>9 DEF IInv

LEMMA CancelStep == ASSUME IInv, NEW q \in Requests, Cancel(q) PROVE IInv'
<1>1. /\ q \in incoming
      /\ cancelled' = cancelled \cup ({q} \cap tokens)
      /\ tokens' = tokens \ {q}
      /\ incoming' = incoming \ {q}
      /\ replies' = Answered({q})
      /\ UNCHANGED <<method, parked, jobs, channel, ready, writing, shutdown, exited,
                     cached, shown>>
  BY DEF Cancel, modeVars, cacheVars
<1>2. TypeOK'
  <2>1. replies' \in [Requests -> Nat]
    BY <1>1 DEF Answered, IInv, TypeOK
  <2> QED BY <1>1, <2>1 DEF IInv, TypeOK
<1>3. PlaceInv'
  <2>1. \A x : (HasJob(x)' <=> HasJob(x)) /\ (HasResult(x)' <=> HasResult(x))
    BY <1>1 DEF HasJob, HasResult
  <2>2. DistinctJobs' /\ DistinctResults'
    BY <1>1 DEF IInv, PlaceInv, DistinctJobs, DistinctResults
  <2> QED BY <1>1, <2>1, <2>2 DEF IInv, PlaceInv
<1>4. TokenInv'
  <2>1. q \in cancelled'
    BY <1>1 DEF IInv, TokenInv
  <2>2. CancelReaches'
    BY <1>1, <2>1 DEF IInv, TokenInv, CancelReaches
  <2> QED BY <1>1, <2>2 DEF IInv, TokenInv
<1>5. ReplyInv'
  BY <1>1 DEF IInv, ReplyInv, Answered, TypeOK, Method, None
<1>6. CacheMatchesClient'
  BY <1>1 DEF IInv, CacheMatchesClient
<1> QED BY <1>2, <1>3, <1>4, <1>5, <1>6 DEF IInv

LEMMA ArriveStep ==
  ASSUME IInv, NEW q \in Requests, NEW m \in Method, Arrive(q, m)
  PROVE  IInv'
<1> DEFINE parks   == m = "pull" /\ ~ready
           answers == ~parks /\ (m \in InPlace \/ shutdown)
           stops   == m = "shutdown" /\ ~shutdown
           left    == IF answers THEN {} ELSE {q}
<1>1. /\ Looping
      /\ method[q] = None
      /\ method' = [method EXCEPT ![q] = m]
      /\ incoming' = incoming \cup left
      /\ tokens' = IF stops THEN {} ELSE tokens \cup left
      /\ parked' = IF parks THEN parked \cup {q} ELSE parked
      /\ jobs' = IF parks \/ answers THEN jobs ELSE jobs \cup QueueJob({q})
      /\ replies' = Answered({q} \ left)
      /\ shutdown' = (shutdown \/ stops)
      /\ cancelled' = cancelled \cup (IF stops THEN incoming
                                      ELSE IF shutdown THEN left ELSE {})
      /\ UNCHANGED <<channel, ready, writing, exited, cached, shown>>
  BY DEF Arrive, cacheVars
<1>2. /\ left \subseteq {q}
      /\ (q \notin left <=> answers)
      /\ (stops => answers /\ left = {})
      /\ (parks => m = "pull" /\ ~answers)
      /\ (~parks /\ ~answers => ~shutdown /\ ~stops)
  BY DEF InPlace
<1>3. q \notin incoming /\ q \notin parked /\ ~HasJob(q) /\ ~HasResult(q)
  BY <1>1 DEF IInv, TypeOK, PlaceInv, Method, None
<1>4. /\ m # None
      /\ method'[q] = m
      /\ \A r \in Requests : r # q => method'[r] = method[r]
      /\ method' \in [Requests -> Method \cup {None}]
  BY <1>1 DEF IInv, TypeOK, Method, None
<1> HIDE DEF parks, answers, stops, left
<1>5. \A x : HasResult(x)' <=> HasResult(x)
  BY <1>1 DEF HasResult
<1>6. ReplyInv' /\ replies' \in [Requests -> Nat]
  BY <1>1, <1>2, <1>3, <1>4 DEF IInv, ReplyInv, Answered, TypeOK
<1>7. /\ incoming' \subseteq {r \in Requests : method'[r] \in Method}
      /\ parked' \subseteq {r \in Requests : method'[r] = "pull"}
      /\ tokens' \subseteq incoming' /\ cancelled' \subseteq Requests
      /\ shutdown' \in BOOLEAN
  <2>1. incoming' \subseteq {r \in Requests : method'[r] \in Method}
    BY <1>1, <1>2, <1>4 DEF IInv, TypeOK
  <2>2. parked' \subseteq {r \in Requests : method'[r] = "pull"}
    BY <1>1, <1>2, <1>3, <1>4 DEF IInv, TypeOK
  <2>3. tokens' \subseteq incoming' /\ cancelled' \subseteq Requests
    BY <1>1, <1>2 DEF IInv, TypeOK
  <2>4. shutdown' \in BOOLEAN
    BY <1>1
  <2> QED BY <2>1, <2>2, <2>3, <2>4
<1>8. incoming' \subseteq tokens' \cup cancelled' /\ (~shutdown' /\ ~exited' => incoming' \subseteq tokens')
  BY <1>1, <1>2 DEF IInv, TokenInv, Looping
<1>9. CacheMatchesClient'
  BY <1>1 DEF IInv, CacheMatchesClient
<1>10. CASE parks \/ answers
  <2>1. jobs' = jobs /\ (q \in incoming' => q \in parked')
    BY <1>1, <1>2, <1>3, <1>10
  <2>2. TypeOK'
    BY <1>1, <1>4, <1>6, <1>7, <2>1 DEF IInv, TypeOK
  <2>3. \A x : HasJob(x)' <=> HasJob(x)
    BY <2>1 DEF HasJob
  <2>4. DistinctJobs' /\ DistinctResults'
    BY <1>1, <2>1 DEF IInv, PlaceInv, DistinctJobs, DistinctResults
  <2>5. ASSUME NEW r \in Requests
        PROVE  /\ ~(HasJob(r)' /\ HasResult(r)')
               /\ r \in parked' => ~HasJob(r)' /\ ~HasResult(r)'
               /\ HasJob(r)' \/ HasResult(r)' => method'[r] # None
               /\ r \in incoming' => r \in parked' \/ HasJob(r)' \/ HasResult(r)'
    <3>1. CASE r = q
      BY <1>3, <1>5, <2>1, <2>3, <3>1
    <3>2. CASE r # q
      <4>1. /\ r \in incoming' <=> r \in incoming
            /\ r \in parked' <=> r \in parked
        BY <1>1, <1>2, <3>2
      <4> QED BY <4>1, <1>4, <1>5, <2>3, <3>2 DEF IInv, PlaceInv
    <3> QED BY <3>1, <3>2
  <2>6. PlaceInv'
    BY <2>4, <2>5 DEF PlaceInv
  <2>7. CancelReaches'
    <3> SUFFICES ASSUME NEW j \in jobs PROVE j.own /\ (j.req \notin incoming' => j.req \in cancelled')
      BY <2>1 DEF CancelReaches
    <3> QED BY <1>1 DEF IInv, TokenInv, CancelReaches
  <2> QED BY <1>6, <1>8, <1>9, <2>2, <2>6, <2>7 DEF IInv, TokenInv
<1>11. CASE ~parks /\ ~answers
  <2>1. /\ left = {q} /\ ~shutdown /\ ~stops
        /\ incoming' = incoming \cup {q} /\ tokens' = tokens \cup {q}
        /\ parked' = parked /\ jobs' = jobs \cup QueueJob({q})
    BY <1>1, <1>2, <1>11
  <2>2. {q} \subseteq tokens' /\ {q} \in SUBSET Requests
    BY <2>1
  <2>3. /\ QueueJob({q}) \subseteq Job
        /\ \A k \in QueueJob({q}) : k.req \in {q} /\ k.own = TRUE
        /\ \A k, l \in QueueJob({q}) : k.req = l.req => k = l
        /\ \A r \in {q} : \E k \in QueueJob({q}) : k.req = r
    BY <2>2, QueueJobFacts
  <2>4. \A x : HasJob(x)' <=> (HasJob(x) \/ x = q)
    BY <2>1, <2>3 DEF HasJob
  <2>5. DistinctJobs' /\ DistinctResults'
    BY <1>1, <1>3, <2>1, <2>3 DEF IInv, PlaceInv, DistinctJobs, DistinctResults, HasJob
  <2>6. TypeOK'
    BY <1>1, <1>4, <1>6, <1>7, <2>1, <2>3 DEF IInv, TypeOK
  <2>7. ASSUME NEW r \in Requests
        PROVE  /\ ~(HasJob(r)' /\ HasResult(r)')
               /\ r \in parked' => ~HasJob(r)' /\ ~HasResult(r)'
               /\ HasJob(r)' \/ HasResult(r)' => method'[r] # None
               /\ r \in incoming' => r \in parked' \/ HasJob(r)' \/ HasResult(r)'
    <3>1. CASE r = q
      BY <1>3, <1>4, <1>5, <2>1, <2>4, <3>1
    <3>2. CASE r # q
      BY <1>4, <1>5, <2>1, <2>4, <3>2 DEF IInv, PlaceInv
    <3> QED BY <3>1, <3>2
  <2>8. PlaceInv'
    BY <2>5, <2>7 DEF PlaceInv
  <2>9. CancelReaches'
    <3> SUFFICES ASSUME NEW j \in jobs' PROVE j.own /\ (j.req \notin incoming' => j.req \in cancelled')
      BY DEF CancelReaches
    <3>1. CASE j \in jobs
      BY <1>1, <3>1 DEF IInv, TokenInv, CancelReaches
    <3>2. CASE j \in QueueJob({q})
      BY <2>1, <2>3, <3>2
    <3> QED BY <2>1, <3>1, <3>2
  <2> QED BY <1>6, <1>8, <1>9, <2>6, <2>8, <2>9 DEF IInv, TokenInv
<1> QED BY <1>10, <1>11

\* Steps that touch neither requests nor jobs.
LEMMA ModeStep ==
  ASSUME IInv, UNCHANGED <<tableVars, jobs, channel, shutdown, exited, cacheVars>>,
         ready' \in BOOLEAN, writing' \in BOOLEAN
  PROVE  IInv'
BY DEF IInv, tableVars, cacheVars, TypeOK, PlaceInv, DistinctJobs, DistinctResults,
       HasJob, HasResult, TokenInv, CancelReaches, ReplyInv, CacheMatchesClient

LEMMA ExitStep == IInv /\ Exit => IInv'
<1> SUFFICES ASSUME IInv, Exit PROVE IInv'
  OBVIOUS
<1>1. /\ exited' = TRUE /\ cancelled' = cancelled \cup incoming /\ tokens' = {}
      /\ UNCHANGED <<method, incoming, parked, replies, jobs, channel,
                     ready, writing, shutdown, cached, shown>>
  BY DEF Exit, cacheVars
<1>2. TypeOK'
  BY <1>1 DEF IInv, TypeOK
<1>3. PlaceInv'
  BY <1>1 DEF IInv, PlaceInv, DistinctJobs, DistinctResults, HasJob, HasResult
<1>4. CancelReaches'
  BY <1>1 DEF IInv, TokenInv, CancelReaches
<1>5. TokenInv' /\ ReplyInv' /\ CacheMatchesClient'
  BY <1>1, <1>4 DEF IInv, TokenInv, ReplyInv, CacheMatchesClient
<1> QED BY <1>2, <1>3, <1>5 DEF IInv

LEMMA NextIInv == IInv /\ [Next]_vars => IInv'
<1> SUFFICES ASSUME IInv, [Next]_vars PROVE IInv'
  OBVIOUS
<1>1. CASE Worker
  BY <1>1, WorkerStep
<1>2. ASSUME NEW r \in Requests, NEW m \in Method, Arrive(r, m) PROVE IInv'
  BY <1>2, ArriveStep
<1>3. ASSUME NEW r \in Requests, Cancel(r) PROVE IInv'
  BY <1>3, CancelStep
<1>4. CASE TakeAnswer
  BY <1>4, TakeAnswerStep
<1>5. CASE TakeRetry
  BY <1>5, TakeRetryStep
<1>6. CASE BecomeReady
  BY <1>6, BecomeReadyStep
<1>7. CASE StartReload \/ BeginWrite \/ EndWrite \/ UNCHANGED vars
  <2>1. ready' \in BOOLEAN /\ writing' \in BOOLEAN
    BY <1>7 DEF StartReload, BeginWrite, EndWrite, vars, modeVars, IInv, TypeOK
  <2>2. UNCHANGED <<tableVars, jobs, channel, shutdown, exited, cacheVars>>
    BY <1>7 DEF StartReload, BeginWrite, EndWrite, vars, modeVars
  <2> QED BY <2>1, <2>2, ModeStep
<1>8. CASE Exit
  BY <1>8, ExitStep
<1> QED BY <1>1, <1>2, <1>3, <1>4, <1>5, <1>6, <1>7, <1>8 DEF Next

-----------------------------------------------------------------------------
(* Theorems *)

\* The strengthened invariant holds in every reachable state.
THEOREM IndInv == Spec => []IInv
BY InitIInv, NextIInv, PTL DEF Spec

\* The tables are consistent: only pending requests have tokens, only pull
\* requests are parked (GlobalState and TaskPool).
THEOREM TypeCorrect == Spec => []TypeOK
<1>1. IInv => TypeOK
  BY DEF IInv
<1> QED BY IndInv, <1>1, PTL

\* A pending request is in exactly one place, an answered one in one at most
\* (handle_request, the worker pool and process_task hand it on).
THEOREM PendingAccounted == Spec => []Accounted
<1>1. IInv => Accounted
  <2> SUFFICES ASSUME IInv, NEW r \in Requests
               PROVE  Cardinality(JobsOf(r)) + Cardinality(InChannel(r))
                        + Cardinality({r} \cap parked)
                      \in IF r \in incoming THEN {1} ELSE {0, 1}
    BY DEF Accounted
  <2>1. /\ HasJob(r) => Cardinality(JobsOf(r)) = 1
        /\ ~HasJob(r) => Cardinality(JobsOf(r)) = 0
    <3>1. ASSUME NEW j \in jobs, j.req = r PROVE Cardinality(JobsOf(r)) = 1
      <4>1. JobsOf(r) = {j}
        BY <3>1 DEF JobsOf, IInv, PlaceInv, DistinctJobs
      <4> QED BY <4>1, FS_Singleton
    <3>2. ASSUME ~HasJob(r) PROVE Cardinality(JobsOf(r)) = 0
      <4>1. JobsOf(r) = {}
        BY <3>2 DEF JobsOf, HasJob
      <4> QED BY <4>1, FS_EmptySet
    <3> QED BY <3>1, <3>2 DEF HasJob
  <2>2. /\ HasResult(r) => Cardinality(InChannel(r)) = 1
        /\ ~HasResult(r) => Cardinality(InChannel(r)) = 0
    <3>1. ASSUME NEW i \in DOMAIN channel, channel[i].req = r
          PROVE  Cardinality(InChannel(r)) = 1
      <4>1. InChannel(r) = {i}
        BY <3>1 DEF InChannel, IInv, PlaceInv, DistinctResults
      <4> QED BY <4>1, FS_Singleton
    <3>2. ASSUME ~HasResult(r) PROVE Cardinality(InChannel(r)) = 0
      <4>1. InChannel(r) = {}
        BY <3>2 DEF InChannel, HasResult
      <4> QED BY <4>1, FS_EmptySet
    <3> QED BY <3>1, <3>2 DEF HasResult
  <2>3. /\ r \in parked => Cardinality({r} \cap parked) = 1
        /\ r \notin parked => Cardinality({r} \cap parked) = 0
    <3>1. ASSUME r \in parked PROVE Cardinality({r} \cap parked) = 1
      <4>1. {r} \cap parked = {r}
        BY <3>1
      <4> QED BY <4>1, FS_Singleton
    <3>2. ASSUME r \notin parked PROVE Cardinality({r} \cap parked) = 0
      <4>1. {r} \cap parked = {}
        BY <3>2
      <4> QED BY <4>1, FS_EmptySet
    <3> QED BY <3>1, <3>2
  <2>4. /\ ~(HasJob(r) /\ HasResult(r))
        /\ r \in parked => ~HasJob(r) /\ ~HasResult(r)
        /\ r \in incoming => r \in parked \/ HasJob(r) \/ HasResult(r)
    BY DEF IInv, PlaceInv
  <2> QED BY <2>1, <2>2, <2>3, <2>4
<1> QED BY IndInv, <1>1, PTL

\* Cancellation reaches every job: it watches its request's own token, and that
\* token is cancelled once nobody waits for the answer (request_token and
\* cancel_request of TaskPool, the fallback in the dispatcher).
THEOREM JobsCancelled == Spec => []CancelReaches
<1>1. IInv => CancelReaches
  BY DEF IInv, TokenInv
<1> QED BY IndInv, <1>1, PTL

\* The semantic tokens cache holds what the client got last (respond_task).
THEOREM CacheCurrent == Spec => []CacheMatchesClient
<1>1. IInv => CacheMatchesClient
  BY DEF IInv
<1> QED BY IndInv, <1>1, PTL

\* Handling again answers pending requests only.
LEMMA HandleAgainAnswers ==
  ASSUME Looping, NEW rs \in SUBSET Requests, incoming \subseteq Requests,
         replies \in [Requests -> Nat], HandleAgain(rs), exited' = exited
  PROVE  Promise!Answer \/ UNCHANGED Promise!vars
<1> PICK refused \in SUBSET (rs \cap incoming) :
         incoming' = incoming \ refused /\ replies' = Answered(refused)
  <2> DEFINE due     == rs \cap incoming
             parks   == {r \in due : method[r] = "pull" /\ ~ready'}
             refused == IF shutdown THEN due \ parks ELSE {}
  <2>1. incoming' = incoming \ refused /\ replies' = Answered(refused)
    BY DEF HandleAgain
  <2>2. refused \in SUBSET due
    OBVIOUS
  <2> QED BY <2>1, <2>2
<1>1. CASE refused = {}
  <2>1. replies' = replies
    BY <1>1 DEF Answered
  <2> QED BY <1>1, <2>1 DEF Promise!vars
<1>2. CASE refused # {}
  <2>1. replies' = [r \in Requests |-> IF r \in refused THEN replies[r] + 1 ELSE replies[r]]
    BY DEF Answered
  <2> QED BY <1>2, <2>1 DEF Promise!Answer, Promise!Reply, Looping
<1> QED BY <1>1, <1>2

\* Every step answers as module OneAnswer allows, or answers nothing.
LEMMA PromiseStep == IInv /\ [Next]_vars => [Promise!Next]_(Promise!vars)
<1> SUFFICES ASSUME IInv, [Next]_vars
             PROVE  Promise!Next \/ UNCHANGED Promise!vars
  OBVIOUS
<1> USE DEF Promise!Next, Promise!vars
<1>0. incoming \subseteq Requests /\ replies \in [Requests -> Nat] /\ parked \subseteq Requests
  BY DEF IInv, TypeOK
<1>1. CASE Worker
  BY <1>1 DEF Worker, StartJob, ReturnJob, FailJob, InterruptJob, Yield, tableVars, modeVars
<1>2. ASSUME NEW q \in Requests, NEW m \in Method, Arrive(q, m)
      PROVE  Promise!Ask(q)
  <2>1. q \notin incoming /\ replies[q] = 0
    BY <1>2 DEF Arrive, IInv, TypeOK, ReplyInv, Method, None
  <2>2. \/ incoming' = incoming \cup {q} /\ replies' = Answered({})
        \/ incoming' = incoming /\ replies' = Answered({q})
    BY <1>2 DEF Arrive
  <2>3. Answered({}) = replies
    BY <1>0 DEF Answered
  <2> QED BY <1>2, <2>1, <2>2, <2>3 DEF Arrive, Looping, Promise!Ask, Promise!Reply, Answered
<1>3. ASSUME NEW q \in Requests, Cancel(q) PROVE Promise!Answer
  <2>1. {q} \in SUBSET incoming /\ {q} # {}
    BY <1>3 DEF Cancel
  <2> QED BY <1>3, <2>1 DEF Cancel, Looping, Promise!Answer, Promise!Reply, Answered, modeVars
<1>4. ASSUME TakeAnswer PROVE Promise!Answer \/ UNCHANGED Promise!vars
  <2> DEFINE due == {Head(channel).req} \cap incoming
  <2>1. /\ due \in SUBSET incoming /\ ~exited /\ exited' = exited
        /\ incoming' = incoming \ due /\ replies' = Answered(due)
    BY <1>4 DEF TakeAnswer, Looping, modeVars
  <2> HIDE DEF due
  <2>2. CASE due = {}
    BY <1>0, <2>1, <2>2 DEF Answered
  <2>3. CASE due # {}
    BY <2>1, <2>3 DEF Promise!Answer, Promise!Reply, Answered
  <2> QED BY <2>2, <2>3
<1>5. ASSUME TakeRetry PROVE Promise!Answer \/ UNCHANGED Promise!vars
  <2>1. Head(channel) \in Result
    BY <1>5, Pop DEF TakeRetry, IInv, TypeOK, PlaceInv
  <2>2. {Head(channel).req} \in SUBSET Requests
    BY <2>1 DEF Result
  <2> QED BY <1>0, <1>5, <2>2, HandleAgainAnswers DEF TakeRetry, modeVars
<1>6. ASSUME BecomeReady PROVE Promise!Answer \/ UNCHANGED Promise!vars
  BY <1>0, <1>6, HandleAgainAnswers DEF BecomeReady
<1>7. CASE StartReload \/ BeginWrite \/ EndWrite \/ UNCHANGED vars
  BY <1>7 DEF StartReload, BeginWrite, EndWrite, vars, tableVars, modeVars
<1>8. CASE Exit
  BY <1>8 DEF Exit, Promise!Exit
<1> QED BY <1>1, <1>2, <1>3, <1>4, <1>5, <1>6, <1>7, <1>8 DEF Next

\* The server implements OneAnswer: at most one answer to a request, none that
\* was not asked for, none after the exit (register_request, respond, cancel).
THEOREM AnswersAtMostOnce == Spec => AnswersOnce
<1>1. Init => Promise!Init
  BY DEF Init, Promise!Init
<1>2. IInv /\ [Next]_vars => [Promise!Next]_(Promise!vars)
  BY PromiseStep
<1> QED BY <1>1, <1>2, IndInv, PTL DEF Spec, AnswersOnce, Promise!Spec

-----------------------------------------------------------------------------
(* Qihe *)

\* Every run has one result, in the pool or on its way.
OneResult ==
  /\ \A r, q \in running : r.id = q.id => r = q
  /\ \A i, k \in DOMAIN results : results[i].id = results[k].id => i = k
  /\ \A id \in Runs : ~(InPool(id) /\ InResults(id))

\* Only runs that were started report; the latest one is active until then.
Reporting ==
  \A id \in Runs : InPool(id) \/ InResults(id) =>
    /\ id <= generation
    /\ id = generation => active = id
    /\ id # findings

\* A write is begun below the bound.
WriteBounded == committing => commit.writes < MaxWrites

RunsInv ==
  /\ QiheTypeOK /\ OneResult /\ Reporting /\ WriteBounded
  /\ BarsMatch /\ ActiveReports /\ CancelledNotShown
-----------------------------------------------------------------------------
(* The pool and the channel *)

\* Taking the oldest result removes its run from the channel.
LEMMA PopResult ==
  ASSUME QiheTypeOK, OneResult, results # <<>>, results' = Tail(results)
  PROVE  /\ Head(results) \in QiheResult
         /\ results' \in Seq(QiheResult)
         /\ InResults(Head(results).id)
         /\ \A i, k \in DOMAIN results' : results'[i].id = results'[k].id => i = k
         /\ \A id : InResults(id)' <=> (InResults(id) /\ id # Head(results).id)
<1>1. /\ results \in Seq(QiheResult)
      /\ Len(results) \in Nat /\ Len(results) > 0
      /\ DOMAIN results = 1 .. Len(results)
      /\ Head(results) = results[1]
      /\ 1 \in DOMAIN results
  BY DEF QiheTypeOK
<1>2. /\ results' \in Seq(QiheResult)
      /\ DOMAIN results' = 1 .. (Len(results) - 1)
      /\ \A i \in DOMAIN results' : results'[i] = results[i + 1] /\ i + 1 \in DOMAIN results
  BY <1>1, HeadTailProperties
<1>3. \A i, k \in DOMAIN results' : results'[i].id = results'[k].id => i = k
  BY <1>1, <1>2 DEF OneResult
<1>4. ASSUME NEW id PROVE InResults(id)' <=> (InResults(id) /\ id # Head(results).id)
  <2>1. ASSUME NEW i \in DOMAIN results', results'[i].id = id
        PROVE  InResults(id) /\ id # Head(results).id
    <3>1. i + 1 \in DOMAIN results /\ results[i + 1].id = id /\ i + 1 # 1
      BY <1>1, <1>2, <2>1
    <3> QED BY <3>1, <1>1 DEF InResults, OneResult
  <2>2. ASSUME NEW i \in DOMAIN results, results[i].id = id, id # Head(results).id
        PROVE  InResults(id)'
    <3>1. i # 1 /\ i - 1 \in DOMAIN results' /\ (i - 1) + 1 = i
      BY <1>1, <1>2, <2>2
    <3>2. results'[i - 1] = results[i]
      BY <3>1, <1>2
    <3> QED BY <3>1, <3>2, <2>2 DEF InResults
  <2> QED BY <2>1, <2>2 DEF InResults
<1> QED BY <1>1, <1>2, <1>3, <1>4 DEF InResults

\* A run that ends moves from the pool to the channel.
LEMMA ReportStep ==
  ASSUME RunsInv, NEW r \in running, NEW kind \in {"finished", "cancelled", "failed"},
         Report(r, kind)
  PROVE  RunsInv'
<1> DEFINE e == [id |-> r.id, fresh |-> r.fresh, kind |-> kind]
<1>1. /\ r \in Run /\ r.id \in Runs
      /\ e \in QiheResult /\ e.id = r.id
      /\ running' = running \ {r}
      /\ results' = Append(results, e)
      /\ UNCHANGED <<runVars, asked, loopVars>>
  BY DEF RunsInv, QiheTypeOK, Report, Run, QiheResult
<1>2. /\ results \in Seq(QiheResult)
      /\ Len(results) \in Nat
      /\ DOMAIN results = 1 .. Len(results)
      /\ results' \in Seq(QiheResult)
      /\ DOMAIN results' = 1 .. (Len(results) + 1)
      /\ \A i \in DOMAIN results : results'[i] = results[i]
      /\ results'[Len(results) + 1] = e
  <2>1. results \in Seq(QiheResult)
    BY DEF RunsInv, QiheTypeOK
  <2> QED BY <2>1, <1>1, AppendProperties
<1>3. \A i \in DOMAIN results' : i \in DOMAIN results \/ i = Len(results) + 1
  BY <1>2
<1>4. ASSUME NEW id PROVE InResults(id)' <=> (InResults(id) \/ id = r.id)
  <2>1. InResults(id) => InResults(id)'
    BY <1>2 DEF InResults
  <2>2. id = r.id => InResults(id)'
    BY <1>1, <1>2 DEF InResults
  <2>3. InResults(id)' => InResults(id) \/ id = r.id
    BY <1>1, <1>2, <1>3 DEF InResults
  <2> QED BY <2>1, <2>2, <2>3
<1>5. ASSUME NEW id PROVE InPool(id)' <=> (InPool(id) /\ id # r.id)
  BY <1>1 DEF InPool, RunsInv, OneResult
<1>6. InPool(r.id) /\ ~InResults(r.id)
  <2>1. InPool(r.id)
    BY DEF InPool
  <2> QED BY <2>1, <1>1 DEF RunsInv, OneResult
<1>7. QiheTypeOK'
  BY <1>1, <1>2 DEF RunsInv, QiheTypeOK, runVars, loopVars
<1>8. OneResult'
  <2>1. \A p, q \in running' : p.id = q.id => p = q
    BY <1>1 DEF RunsInv, OneResult
  <2>2. \A i, k \in DOMAIN results' : results'[i].id = results'[k].id => i = k
    <3>1. \A i \in DOMAIN results : results[i].id # r.id
      BY <1>6 DEF InResults
    <3> QED BY <3>1, <1>1, <1>2, <1>3 DEF RunsInv, OneResult
  <2>3. \A id \in Runs : ~(InPool(id)' /\ InResults(id)')
    BY <1>4, <1>5 DEF RunsInv, OneResult
  <2> QED BY <2>1, <2>2, <2>3 DEF OneResult
<1>9. \A id : InPool(id)' \/ InResults(id)' <=> InPool(id) \/ InResults(id)
  BY <1>4, <1>5, <1>6
<1>10. Reporting' /\ BarsMatch' /\ ActiveReports' /\ CancelledNotShown' /\ WriteBounded'
  BY <1>1, <1>9
     DEF RunsInv, Reporting, BarsMatch, ActiveReports, CancelledNotShown, WriteBounded,
         runVars, loopVars
<1> QED BY <1>7, <1>8, <1>10 DEF RunsInv

\* What does not touch the pool and the channel leaves their runs there.
LEMMA SamePlaces ==
  ASSUME UNCHANGED <<running, results>>
  PROVE  /\ \A id : (InPool(id)' <=> InPool(id)) /\ (InResults(id)' <=> InResults(id))
         /\ OneResult => OneResult'
<1>1. \A id : (InPool(id)' <=> InPool(id)) /\ (InResults(id)' <=> InResults(id))
  BY DEF InPool, InResults
<1> QED BY <1>1 DEF OneResult
-----------------------------------------------------------------------------
(* The initial states, and one lemma per action *)

LEMMA InitRunsInv == QiheInit => RunsInv
<1> SUFFICES ASSUME QiheInit PROVE RunsInv
  OBVIOUS
<1>1. results = <<>> /\ results \in Seq(QiheResult) /\ DOMAIN results = {} /\ running = {}
  BY DEF QiheInit
<1>2. QiheTypeOK
  <2>1. generation \in 0 .. MaxRuns /\ commit \in Commit
    BY BoundsAssumption DEF QiheInit, Commit
  <2>2. cancelledRuns \subseteq 1 .. generation /\ findings \in 0 .. generation
    BY DEF QiheInit
  <2>3. asked \subseteq Runs /\ bars \subseteq Runs /\ running \subseteq Run
    BY DEF QiheInit
  <2> QED BY <1>1, <2>1, <2>2, <2>3 DEF QiheInit, QiheTypeOK
<1>3. OneResult /\ Reporting
  BY <1>1 DEF OneResult, Reporting, InPool, InResults
<1>4. BarsMatch /\ ActiveReports /\ CancelledNotShown /\ WriteBounded
  BY DEF QiheInit, BarsMatch, ActiveReports, CancelledNotShown, WriteBounded
<1> QED BY <1>2, <1>3, <1>4 DEF RunsInv

\* A run goes on to its commands.
LEMMA StartCommandsStep ==
  ASSUME RunsInv, NEW r \in running, StartCommands(r)
  PROVE  RunsInv'
<1> DEFINE q == [r EXCEPT !.phase = "commands"]
<1>1. /\ r \in Run
      /\ q \in Run /\ q.id = r.id
      /\ running' = (running \ {r}) \cup {q}
      /\ UNCHANGED <<runVars, results, asked, loopVars>>
  BY DEF RunsInv, QiheTypeOK, StartCommands, Run
<1> HIDE DEF q
<1>2. QiheTypeOK'
  BY <1>1 DEF RunsInv, QiheTypeOK, runVars, loopVars
<1>3. ASSUME NEW id
      PROVE  (InPool(id)' <=> InPool(id)) /\ (InResults(id)' <=> InResults(id))
  BY <1>1 DEF InPool, InResults
<1>4. OneResult'
  <2>1. \A x, y \in running' : x.id = y.id => x = y
    <3>1. \A x \in running' : x = q \/ (x \in running /\ x # r)
      BY <1>1
    <3>2. \A x, y \in running : x.id = y.id => x = y
      BY DEF RunsInv, OneResult
    <3> QED BY <1>1, <3>1, <3>2
  <2> QED BY <2>1, <1>1, <1>3 DEF RunsInv, OneResult
<1>5. Reporting' /\ BarsMatch' /\ ActiveReports' /\ CancelledNotShown' /\ WriteBounded'
  BY <1>1, <1>3
     DEF RunsInv, Reporting, BarsMatch, ActiveReports, CancelledNotShown, WriteBounded,
         runVars, loopVars
<1> QED BY <1>2, <1>4, <1>5 DEF RunsInv

LEMMA RunWorkerStep == ASSUME RunsInv, QiheWorker PROVE RunsInv'
<1> PICK r \in running : StartCommands(r) \/ Complete(r) \/ FailEarly(r) \/ Stop(r)
  BY DEF QiheWorker
<1>1. CASE StartCommands(r)
  BY <1>1, StartCommandsStep
<1>2. CASE Complete(r) \/ FailEarly(r) \/ Stop(r)
  <2>1. \E kind \in {"finished", "cancelled", "failed"} : Report(r, kind)
    BY <1>2 DEF Complete, FailEarly, Stop
  <2> QED BY <2>1, ReportStep
<1> QED BY <1>1, <1>2

\* A new run: the one it supersedes loses its bar and is told to stop.
LEMMA SpawnStep == ASSUME RunsInv, Spawn PROVE RunsInv'
<1> DEFINE n == generation + 1
           s == [id |-> n, fresh |-> commit, phase |-> "planning"]
<1>1. /\ generation \in Nat /\ n \in Runs
      /\ s \in Run /\ s.id = n
      /\ generation' = n /\ active' = n
      /\ cancelledRuns' = cancelledRuns \cup ({active} \ {0})
      /\ bars' = (bars \ {active}) \cup {n}
      /\ running' = running \cup {s}
      /\ UNCHANGED <<findings, results, asked, loopVars>>
  BY BoundsAssumption DEF RunsInv, QiheTypeOK, Spawn, Runs, Run
<1>2. \A id : InResults(id)' <=> InResults(id)
  BY <1>1 DEF InResults
<1>3. \A id : InPool(id)' <=> InPool(id) \/ id = n
  BY <1>1 DEF InPool
<1>4. ~InPool(n) /\ ~InResults(n)
  BY <1>1 DEF RunsInv, Reporting
<1>5. QiheTypeOK'
  BY <1>1 DEF RunsInv, QiheTypeOK, loopVars, Runs
<1>6. OneResult'
  <2>1. \A x, y \in running' : x.id = y.id => x = y
    BY <1>1, <1>4 DEF RunsInv, OneResult, InPool
  <2>2. \A i, k \in DOMAIN results' : results'[i].id = results'[k].id => i = k
    BY <1>1 DEF RunsInv, OneResult
  <2>3. \A id \in Runs : ~(InPool(id)' /\ InResults(id)')
    BY <1>2, <1>3, <1>4 DEF RunsInv, OneResult
  <2> QED BY <2>1, <2>2, <2>3 DEF OneResult
<1>7. Reporting'
  <2> SUFFICES ASSUME NEW id \in Runs, InPool(id)' \/ InResults(id)'
               PROVE  id <= n /\ (id = n => n = id) /\ id # findings
    BY <1>1 DEF Reporting
  <2>1. CASE id = n
    BY <2>1, <1>1 DEF RunsInv, QiheTypeOK
  <2>2. CASE id # n
    <3>1. InPool(id) \/ InResults(id)
      BY <2>2, <1>2, <1>3
    <3> QED BY <3>1, <1>1 DEF RunsInv, Reporting, Runs
  <2> QED BY <2>1, <2>2
<1>8. BarsMatch'
  BY <1>1 DEF RunsInv, BarsMatch, QiheTypeOK
<1>9. ActiveReports'
  BY <1>1, <1>3 DEF ActiveReports
<1>10. CancelledNotShown'
  <2>1. active # 0 => active # findings
    BY DEF RunsInv, ActiveReports, Reporting, QiheTypeOK, Runs, BarsMatch
  <2> QED BY <2>1, <1>1 DEF RunsInv, CancelledNotShown, QiheTypeOK
<1>11. WriteBounded'
  BY <1>1 DEF RunsInv, WriteBounded, loopVars
<1> QED BY <1>5, <1>6, <1>7, <1>8, <1>9, <1>10, <1>11 DEF RunsInv

\* A result leaves the channel; that of the latest run ends its bar.
LEMMA TakeResultStep == ASSUME RunsInv, TakeResult PROVE RunsInv'
<1> DEFINE h == Head(results)
<1>1. /\ h \in QiheResult /\ h.id \in Runs
      /\ results' \in Seq(QiheResult)
      /\ InResults(h.id)
      /\ \A i, k \in DOMAIN results' : results'[i].id = results'[k].id => i = k
      /\ \A id : InResults(id)' <=> (InResults(id) /\ id # h.id)
  BY PopResult DEF RunsInv, TakeResult, QiheResult
<1>2. UNCHANGED <<running, asked, loopVars>> /\ results' = Tail(results)
  BY DEF TakeResult
<1>3. \A id : InPool(id)' <=> InPool(id)
  BY <1>2 DEF InPool
<1>4. OneResult' /\ WriteBounded'
  BY <1>1, <1>2, <1>3 DEF RunsInv, OneResult, WriteBounded, loopVars
<1>5. CASE h.id # generation
  <2>1. UNCHANGED runVars
    BY <1>5 DEF TakeResult
  <2>2. QiheTypeOK'
    BY <2>1, <1>1, <1>2 DEF RunsInv, QiheTypeOK, runVars, loopVars
  <2>3. Reporting'
    BY <2>1, <1>1, <1>3 DEF RunsInv, Reporting, runVars
  <2>4. ActiveReports'
    <3>1. active # 0 => active # h.id
      BY <1>5 DEF RunsInv, QiheTypeOK
    <3> QED BY <3>1, <2>1, <1>1, <1>3 DEF RunsInv, ActiveReports, runVars
  <2>5. BarsMatch' /\ CancelledNotShown'
    BY <2>1 DEF RunsInv, BarsMatch, CancelledNotShown, runVars
  <2> QED BY <1>4, <2>2, <2>3, <2>4, <2>5 DEF RunsInv
<1>6. CASE h.id = generation
  <2>1. active = h.id
    BY <1>1, <1>6 DEF RunsInv, Reporting
  <2>2. /\ active' = 0 /\ bars' = bars \ {h.id}
        /\ findings' = findings \/ (findings' = h.id /\ h.id \notin cancelledRuns)
        /\ UNCHANGED <<generation, cancelledRuns>>
    BY <1>6, <2>1 DEF TakeResult, EndProgress
  <2>3. QiheTypeOK'
    BY <1>1, <1>2, <1>6, <2>2 DEF RunsInv, QiheTypeOK, loopVars
  <2>4. Reporting'
    <3> SUFFICES ASSUME NEW id \in Runs, InPool(id)' \/ InResults(id)'
                 PROVE  id <= generation /\ id # generation /\ id # findings'
      BY <2>2 DEF Reporting
    <3>1. id # h.id
      BY <1>1, <1>3 DEF RunsInv, OneResult
    <3>2. InPool(id) \/ InResults(id)
      BY <1>1, <1>3
    <3> QED BY <3>1, <3>2, <1>6, <2>2 DEF RunsInv, Reporting
  <2>5. BarsMatch' /\ ActiveReports'
    BY <2>1, <2>2 DEF RunsInv, BarsMatch, ActiveReports
  <2>6. CancelledNotShown'
    BY <2>2 DEF RunsInv, CancelledNotShown
  <2> QED BY <1>4, <2>3, <2>4, <2>5, <2>6 DEF RunsInv
<1> QED BY <1>5, <1>6

\* A cancellation, by the user or by the shutdown, hits runs without findings.
LEMMA CancelRunStep ==
  ASSUME RunsInv, Shutdown \/ \E id \in Runs : TakeCancel(id)
  PROVE  RunsInv'
<1>1. /\ UNCHANGED <<generation, active, findings, bars, running, results, commit, committing>>
      /\ asked' \subseteq Runs /\ stopping' \in BOOLEAN
  BY DEF RunsInv, QiheTypeOK, Shutdown, TakeCancel, loopVars
<1>2. \A c \in cancelledRuns' \ cancelledRuns : c \in Runs /\ (InPool(c) \/ InResults(c))
  <2>1. CASE Shutdown
    <3>1. \A r \in running : r.id \in Runs /\ InPool(r.id)
      BY DEF RunsInv, QiheTypeOK, Run, InPool
    <3>2. active # 0 => active \in Runs /\ (InPool(active) \/ InResults(active))
      BY DEF RunsInv, QiheTypeOK, ActiveReports, BarsMatch
    <3> QED BY <2>1, <3>1, <3>2 DEF Shutdown
  <2>2. CASE \E id \in Runs : TakeCancel(id)
    BY <2>2 DEF TakeCancel, RunsInv, ActiveReports, Runs
  <2> QED BY <2>1, <2>2
<1>3. QiheTypeOK'
  <2>1. \A c \in cancelledRuns' \ cancelledRuns : c \in 1 .. generation
    BY <1>2 DEF RunsInv, Reporting, Runs, QiheTypeOK
  <2> QED BY <1>1, <2>1 DEF RunsInv, QiheTypeOK
<1>4. CancelledNotShown'
  BY <1>1, <1>2 DEF RunsInv, CancelledNotShown, Reporting
<1>5. OneResult' /\ Reporting' /\ BarsMatch' /\ ActiveReports' /\ WriteBounded'
  BY <1>1, SamePlaces DEF RunsInv, Reporting, BarsMatch, ActiveReports, WriteBounded
<1> QED BY <1>3, <1>4, <1>5 DEF RunsInv

\* Writes, reloads and the client's wishes change no run.
LEMMA OtherStep ==
  ASSUME RunsInv,
         RequestReload \/ BeginCommit \/ EndCommit \/ (\E id \in Runs : AskCancel(id))
           \/ UNCHANGED qiheVars
  PROVE  RunsInv'
<1>1. UNCHANGED <<runVars, running, results>>
  BY DEF RequestReload, BeginCommit, EndCommit, AskCancel, qiheVars
<1>2. asked' \subseteq Runs /\ commit' \in Commit /\ committing' \in BOOLEAN /\ stopping' \in BOOLEAN
  <2>1. CASE RequestReload
    BY <2>1, BoundsAssumption DEF RunsInv, QiheTypeOK, RequestReload, Commit
  <2>2. CASE BeginCommit \/ (\E id \in Runs : AskCancel(id)) \/ UNCHANGED qiheVars
    BY <2>2 DEF RunsInv, QiheTypeOK, BeginCommit, AskCancel, qiheVars, loopVars
  <2>3. CASE EndCommit
    <3>1. commit.writes + 1 \in 0 .. MaxWrites
      BY <2>3, BoundsAssumption DEF RunsInv, QiheTypeOK, WriteBounded, EndCommit, Commit
    <3> QED BY <2>3, <3>1 DEF RunsInv, QiheTypeOK, EndCommit, Commit
  <2> QED BY <2>1, <2>2, <2>3
<1>3. QiheTypeOK'
  BY <1>1, <1>2 DEF RunsInv, QiheTypeOK, runVars
<1>4. OneResult' /\ Reporting' /\ BarsMatch' /\ ActiveReports' /\ CancelledNotShown'
  BY <1>1, SamePlaces
     DEF RunsInv, Reporting, BarsMatch, ActiveReports, CancelledNotShown, runVars
<1>5. WriteBounded'
  BY DEF RunsInv, WriteBounded, RequestReload, BeginCommit, EndCommit, AskCancel, qiheVars, loopVars
<1> QED BY <1>3, <1>4, <1>5 DEF RunsInv
-----------------------------------------------------------------------------
(* The theorems *)

\* The inductive invariant: a run has one result, and until it is taken the
\* latest run is the active one (handle_qihe_task, spawn_qihe_analysis).
THEOREM RunsInvariant == QiheSpec => []RunsInv
<1>1. RunsInv /\ [QiheNext]_qiheVars => RunsInv'
  BY RunWorkerStep, SpawnStep, TakeResultStep, CancelRunStep, OtherStep DEF QiheNext, MainLoop
<1> QED BY InitRunsInv, <1>1, PTL DEF QiheSpec

\* Type correctness: at most the latest run is active.
THEOREM RunsTypeCorrect == QiheSpec => []QiheTypeOK
BY RunsInvariant, PTL DEF RunsInv

\* The client shows a bar for the active run and for no other
\* (end_superseded_qihe_progress, end_current_qihe_progress).
THEOREM BarsCorrect == QiheSpec => []BarsMatch
BY RunsInvariant, PTL DEF RunsInv

\* A bar that is shown belongs to a run that will report (spawn_qihe_analysis).
THEOREM BarsBacked == QiheSpec => []ActiveReports
BY RunsInvariant, PTL DEF RunsInv

\* Findings of a cancelled run never show (handle_qihe_task).
THEOREM NothingCancelledShows == QiheSpec => []CancelledNotShown
BY RunsInvariant, PTL DEF RunsInv
=============================================================================
