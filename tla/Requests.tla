------------------------------ MODULE Requests ------------------------------
(***************************************************************************)
(* Answering the client's requests: the table of pending requests and      *)
(* their cancellation tokens (src/src/global_state.rs), the dispatcher     *)
(* that answers at once or gives a job to the worker pool                  *)
(* (src/src/global_state/dispatcher.rs), and the main loop that takes the  *)
(* results (src/src/global_state/main_loop.rs).                            *)
(*                                                                         *)
(* A job works on a snapshot of the database.  To change the database the  *)
(* main loop waits until every snapshot is gone; queries that run          *)
(* meanwhile are interrupted.  What becomes of an interrupted request      *)
(* depends on its method: it is tried again, or its client is told that    *)
(* the content was modified.                                               *)
(*                                                                         *)
(* Left out: what the answers say, the order in which the pool takes jobs, *)
(* and why the workspace is ready or not (module WorkspaceReload).  Ids    *)
(* are not used twice.                                                     *)
(***************************************************************************)
EXTENDS Naturals, Sequences, FiniteSets

CONSTANT Requests

\* How the dispatcher treats a method: pull diagnostics wait for the workspace
\* and are retried; semantic tokens are retried, and their answer is kept in a
\* cache that later deltas start from; most others are tried once; commands,
\* unknown methods and malformed parameters are answered in place; shutdown.
Method    == {"pull", "tokens", "once", "direct", "shutdown"}
Retryable == {"pull", "tokens"}
InPlace   == {"direct", "shutdown"}

VARIABLES
  method,     \* method of the requests that arrived
  incoming,   \* requests registered and not answered
  tokens,     \* requests with a cancellation token in the table
  cancelled,  \* requests whose token is cancelled
  parked,     \* pull requests held back until the workspace is ready
  jobs,       \* jobs given to the worker pool, each with a snapshot
  channel,    \* worker -> main loop
  replies,    \* number of answers the client got to a request
  ready,      \* the workspace is ready
  writing,    \* the main loop waits for the snapshots to go
  shutdown,   \* shutdown_requested
  exited,
  cached,     \* request whose answer the semantic tokens cache holds
  shown       \* last such answer the client got

tableVars == <<method, incoming, tokens, cancelled, parked, replies>>
modeVars  == <<ready, writing, shutdown, exited>>
cacheVars == <<cached, shown>>
vars      == <<tableVars, jobs, channel, modeVars, cacheVars>>

None == "none"

\* own: the job watches the token registered for its request, and not a fresh
\* one that only a shutdown cancels.
Job    == [req : Requests, phase : {"queued", "running"}, own : BOOLEAN]
Result == [req : Requests, kind : {"ok", "error", "retry"}]

\* The type invariant: a request in the tables has arrived, only pull requests
\* are parked, and a token is kept for pending requests only (global_state.rs:
\* request_cancel_tokens loses its entry in the step that answers).
TypeOK ==
  /\ method \in [Requests -> Method \cup {None}]
  /\ incoming \subseteq {r \in Requests : method[r] \in Method}
  /\ tokens \subseteq incoming
  /\ cancelled \subseteq Requests
  /\ parked \subseteq {r \in Requests : method[r] = "pull"}
  /\ jobs \subseteq Job
  /\ channel \in Seq(Result)
  /\ replies \in [Requests -> Nat]
  /\ ready \in BOOLEAN /\ writing \in BOOLEAN
  /\ shutdown \in BOOLEAN /\ exited \in BOOLEAN
  /\ cached \in Requests \cup {None}
  /\ shown \in Requests \cup {None}

Init ==
  /\ method = [r \in Requests |-> None]
  /\ incoming = {} /\ tokens = {} /\ cancelled = {} /\ parked = {}
  /\ jobs = {} /\ channel = <<>>
  /\ replies = [r \in Requests |-> 0]
  /\ ready = FALSE /\ writing = FALSE /\ shutdown = FALSE /\ exited = FALSE
  /\ cached = None /\ shown = None

-----------------------------------------------------------------------------
(* Worker threads *)

IsCancelled(j) == IF j.own THEN j.req \in cancelled ELSE shutdown \/ exited

\* The job ends: its snapshot goes and its result is sent.
Yield(j, kind) ==
  /\ jobs' = jobs \ {j}
  /\ channel' = Append(channel, [req |-> j.req, kind |-> kind])
  /\ UNCHANGED <<tableVars, modeVars, cacheVars>>

\* The first check of the token.
StartJob(j) ==
  /\ j.phase = "queued"
  /\ IF IsCancelled(j)
     THEN Yield(j, "error")
     ELSE /\ jobs' = (jobs \ {j}) \cup {[j EXCEPT !.phase = "running"]}
          /\ UNCHANGED <<tableVars, modeVars, cacheVars, channel>>

\* Mutant: a handler stores its tokens in the cache by itself.
ReturnJobCaching(j) ==
  /\ j.phase = "running"
  /\ jobs' = jobs \ {j}
  /\ channel' = Append(channel, [req |-> j.req, kind |-> "ok"])
  /\ cached' = IF method[j.req] = "tokens" THEN j.req ELSE cached
  /\ UNCHANGED <<tableVars, modeVars, shown>>

\* The handler returned; the token is checked again.
ReturnJob(j) ==
  /\ j.phase = "running"
  /\ Yield(j, IF IsCancelled(j) THEN "error" ELSE "ok")

\* Mutant: the panic of a handler takes the job with it.
FailJobSilently(j) ==
  /\ j.phase = "running"
  /\ jobs' = jobs \ {j}
  /\ UNCHANGED <<tableVars, modeVars, cacheVars, channel>>

\* The handler failed or panicked.
FailJob(j) ==
  /\ j.phase = "running"
  /\ Yield(j, "error")

\* A query was interrupted by a write: the request is cancelled, tried again,
\* or refused because the content was modified.
InterruptJob(j) ==
  /\ j.phase = "running"
  /\ writing
  /\ Yield(j, IF ~IsCancelled(j) /\ method[j.req] \in Retryable
              THEN "retry" ELSE "error")

Worker == \E j \in jobs : StartJob(j) \/ ReturnJob(j) \/ FailJob(j) \/ InterruptJob(j)

-----------------------------------------------------------------------------
(* The main loop.  It does nothing else while it waits for the snapshots. *)

Looping == ~exited /\ ~writing

QueueJob(rs) == {[req |-> r, phase |-> "queued", own |-> r \in tokens'] : r \in rs}

Answered(rs) == [r \in Requests |-> IF r \in rs THEN replies[r] + 1 ELSE replies[r]]

\* Mutant: a request that is parked is dispatched all the same.
ArriveParkedAndQueued(r, m) ==
  /\ Looping
  /\ method[r] = None
  /\ ~shutdown /\ m \notin InPlace
  /\ method' = [method EXCEPT ![r] = m]
  /\ incoming' = incoming \cup {r}
  /\ tokens' = tokens \cup {r}
  /\ parked' = IF m = "pull" /\ ~ready THEN parked \cup {r} ELSE parked
  /\ jobs' = jobs \cup QueueJob({r})
  /\ UNCHANGED <<cancelled, replies, channel, modeVars, cacheVars>>

\* A request arrives.  It is registered, with a token that is born cancelled
\* after a shutdown; then it is parked, answered in place, or queued.  A second
\* shutdown is only refused.
Arrive(r, m) ==
  /\ Looping
  /\ method[r] = None
  /\ method' = [method EXCEPT ![r] = m]
  /\ LET parks   == m = "pull" /\ ~ready
         answers == ~parks /\ (m \in InPlace \/ shutdown)
         stops   == m = "shutdown" /\ ~shutdown
         left    == IF answers THEN {} ELSE {r}
     IN  /\ incoming' = incoming \cup left
         /\ tokens' = IF stops THEN {} ELSE tokens \cup left
         /\ parked' = IF parks THEN parked \cup {r} ELSE parked
         /\ jobs' = IF parks \/ answers THEN jobs ELSE jobs \cup QueueJob({r})
         /\ replies' = Answered({r} \ left)
         /\ shutdown' = (shutdown \/ stops)
         /\ cancelled' = cancelled \cup (IF stops THEN incoming
                                         ELSE IF shutdown THEN left ELSE {})
  /\ UNCHANGED <<channel, ready, writing, exited, cacheVars>>

\* Mutant: also requests that were answered meanwhile are handled again.
HandleAgainRegardless(rs) ==
  LET parks   == {r \in rs : method[r] = "pull" /\ ~ready'}
      refused == IF shutdown THEN rs \ parks ELSE {}
  IN  /\ parked' = (parked \ rs) \cup parks
      /\ incoming' = incoming \ refused
      /\ tokens' = tokens \ refused
      /\ replies' = Answered(refused \cap incoming)
      /\ jobs' = jobs \cup QueueJob(rs \ (parks \cup refused))

\* Those of the requests that were not answered meanwhile are handled again:
\* parked if they are pull requests and the workspace is not ready, else
\* refused after a shutdown, else queued.
HandleAgain(rs) ==
  LET due     == rs \cap incoming
      parks   == {r \in due : method[r] = "pull" /\ ~ready'}
      refused == IF shutdown THEN due \ parks ELSE {}
  IN  /\ parked' = (parked \ rs) \cup parks
      /\ incoming' = incoming \ refused
      /\ tokens' = tokens \ refused
      /\ replies' = Answered(refused)
      /\ jobs' = jobs \cup QueueJob(due \ (parks \cup refused))

\* Mutant: an answer is sent whatever became of its request.
TakeAnswerRegardless ==
  /\ Looping
  /\ channel # <<>> /\ Head(channel).kind # "retry"
  /\ channel' = Tail(channel)
  /\ LET r      == Head(channel).req
         caches == method[r] = "tokens" /\ Head(channel).kind = "ok"
     IN  /\ replies' = Answered({r})
         /\ incoming' = incoming \ {r}
         /\ tokens' = tokens \ {r}
         /\ shown' = IF caches THEN r ELSE shown
         /\ cached' = IF caches THEN r ELSE cached
  /\ UNCHANGED <<method, cancelled, parked, jobs, modeVars>>

\* An answer: it reaches the client, and its tokens the cache, if the request
\* is still pending.
TakeAnswer ==
  /\ Looping
  /\ channel # <<>> /\ Head(channel).kind # "retry"
  /\ channel' = Tail(channel)
  /\ LET r      == Head(channel).req
         due    == {r} \cap incoming
         caches == due # {} /\ method[r] = "tokens" /\ Head(channel).kind = "ok"
     IN  /\ replies' = Answered(due)
         /\ incoming' = incoming \ due
         /\ tokens' = tokens \ due
         /\ shown' = IF caches THEN r ELSE shown
         /\ cached' = IF caches THEN r ELSE cached
  /\ UNCHANGED <<method, cancelled, parked, jobs, modeVars>>

\* A request to try again, unless it was answered meanwhile.
TakeRetry ==
  /\ Looping
  /\ channel # <<>> /\ Head(channel).kind = "retry"
  /\ channel' = Tail(channel)
  /\ UNCHANGED modeVars
  /\ HandleAgain({Head(channel).req})
  /\ UNCHANGED <<method, cancelled, cacheVars>>

\* $/cancelRequest: the token is cancelled and a pending request is answered
\* at once; its job, parked entry or result lingers.
Cancel(r) ==
  /\ Looping
  /\ r \in incoming
  /\ cancelled' = cancelled \cup ({r} \cap tokens)
  /\ tokens' = tokens \ {r}
  /\ incoming' = incoming \ {r}
  /\ replies' = Answered({r})
  /\ UNCHANGED <<method, parked, jobs, channel, modeVars, cacheVars>>

\* Mutant: the parked requests are forgotten.
BecomeReadyKeepingParked ==
  /\ Looping
  /\ ~ready
  /\ ready' = TRUE
  /\ UNCHANGED <<tableVars, jobs, channel, writing, shutdown, exited, cacheVars>>

\* The workspace becomes ready: at the end of that turn the parked requests
\* are handled again.
BecomeReady ==
  /\ Looping
  /\ ~ready
  /\ ready' = TRUE
  /\ UNCHANGED <<writing, shutdown, exited>>
  /\ HandleAgain(parked)
  /\ UNCHANGED <<method, cancelled, channel, cacheVars>>

StartReload ==
  /\ Looping
  /\ ready
  /\ ready' = FALSE
  /\ UNCHANGED <<tableVars, jobs, channel, writing, shutdown, exited, cacheVars>>

\* A turn with changes ends in a write to the database, ...
BeginWrite ==
  /\ Looping
  /\ writing' = TRUE
  /\ UNCHANGED <<tableVars, jobs, channel, ready, shutdown, exited, cacheVars>>

\* ... which waits until the last snapshot is gone.
EndWrite ==
  /\ writing
  /\ jobs = {}
  /\ writing' = FALSE
  /\ UNCHANGED <<tableVars, jobs, channel, ready, shutdown, exited, cacheVars>>

\* The exit notification ends the loop.
Exit ==
  /\ Looping
  /\ exited' = TRUE
  /\ cancelled' = cancelled \cup incoming
  /\ tokens' = {}
  /\ UNCHANGED <<method, incoming, parked, replies, jobs, channel,
                 ready, writing, shutdown, cacheVars>>

Next ==
  \/ Worker
  \/ \E r \in Requests, m \in Method : Arrive(r, m)
  \/ \E r \in Requests : Cancel(r)
  \/ TakeAnswer \/ TakeRetry
  \/ BecomeReady \/ StartReload
  \/ BeginWrite \/ EndWrite
  \/ Exit

\* The pool runs its jobs, the loop takes each of its sources again and again
\* (select! picks at random), a write gets its turn once the snapshots are gone,
\* and the workspace becomes ready in the end (ParkedAnswered of module
\* WorkspaceReload).  No client has to send, cancel, edit or exit.
Fairness ==
  /\ WF_vars(Worker)
  /\ WF_vars(EndWrite)
  /\ SF_vars(TakeAnswer \/ TakeRetry)
  /\ SF_vars(BecomeReady)

Spec     == Init /\ [][Next]_vars
FairSpec == Spec /\ Fairness

-----------------------------------------------------------------------------
(* Properties *)

InChannel(r) == {i \in DOMAIN channel : channel[i].req = r}
JobsOf(r)    == {j \in jobs : j.req = r}

\* Accounted: a pending request is in exactly one place, the parked list, the
\* pool or the result channel, so that it is neither lost nor worked on twice;
\* an answered one lingers in one place at most.
Accounted ==
  \A r \in Requests :
    LET places == Cardinality(JobsOf(r)) + Cardinality(InChannel(r))
                    + Cardinality({r} \cap parked)
    IN  places \in IF r \in incoming THEN {1} ELSE {0, 1}

\* CancelReaches: every job watches the token that was registered for its
\* request, never the fallback of the dispatcher, so that a job nobody waits for
\* any longer has been told to stop.
CancelReaches ==
  \A j \in jobs : j.own /\ (j.req \notin incoming => j.req \in cancelled)

\* CacheMatchesClient: the semantic tokens from which the next delta is computed
\* are those the client got last, however answers, cancellations and retries
\* overtake each other.
CacheMatchesClient == cached = shown

\* AnswersOnce: the server implements the promise of module OneAnswer.
Promise == INSTANCE OneAnswer WITH waiting <- incoming
AnswersOnce == Promise!Spec

\* OnceAnswered: a request that is tried once is answered or the server exits,
\* also while the client edits without a pause: no write waits for ever.
OnceAnswered ==
  \A r \in Requests :
    (r \in incoming /\ method[r] = "once") ~> (r \notin incoming \/ exited)

\* AnsweredInCalm: when the edits stop, every request is answered, parked and
\* retried ones included, or the server exits.
AnsweredInCalm ==
  <>[](~writing) => \A r \in Requests : r \in incoming ~> (r \notin incoming \/ exited)
=============================================================================
