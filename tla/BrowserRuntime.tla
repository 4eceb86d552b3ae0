---------------------------- MODULE BrowserRuntime ----------------------------
(***************************************************************************)
(* The language worker of the browser                                      *)
(* (src/packages/vide-extension-shared/src/browser/worker-runtime.ts): it  *)
(* hands the client's messages to the server compiled to WebAssembly,      *)
(* posts what the server emits, polls it while requests are pending, and   *)
(* answers for the server when it fails or takes too long.                 *)
(*                                                                         *)
(* The server is a set of requests it has yet to answer; its adapter       *)
(* (src/crates/vide-lsp-wasm/js/vide-lsp.adapter.js) throws when the       *)
(* server panics, and what it had drained until then is gone.              *)
(* Left out: texts and URIs, requests of the server, tracing.              *)
(***************************************************************************)
EXTENDS Naturals, FiniteSets

CONSTANT RequestIds

VARIABLES
  engine,      \* "none", "loading" or "loaded"
  port,        \* "new", "open" or "closed"
  announced,   \* the client was told that it may begin
  sent,        \* requests the client has sent
  atServer,    \* those the server has yet to answer
  waiting,     \* pendingLspRequests; each has its timer armed
  pump,        \* pollTimer is armed
  served,      \* answers of the server the client got, by request
  excused      \* error answers the worker gave in its place

runtimeVars == <<engine, port, announced, sent, atServer, waiting, pump, served, excused>>

RuntimeTypeOK ==
  /\ engine \in {"none", "loading", "loaded"}
  /\ port \in {"new", "open", "closed"}
  /\ announced \in BOOLEAN
  /\ sent \in SUBSET RequestIds
  /\ atServer \in SUBSET sent
  /\ waiting \in SUBSET sent
  /\ pump \in BOOLEAN
  /\ served \in [RequestIds -> Nat]
  /\ excused \in [RequestIds -> Nat]

RuntimeInit ==
  /\ engine = "none"
  /\ port = "new"
  /\ announced = FALSE
  /\ sent = {} /\ atServer = {} /\ waiting = {}
  /\ pump = FALSE
  /\ served = [r \in RequestIds |-> 0]
  /\ excused = [r \in RequestIds |-> 0]

\* One more for each of these requests.
Counted(counts, requests) ==
  [r \in RequestIds |-> counts[r] + IF r \in requests THEN 1 ELSE 0]

\* postLsp: without a port nothing is posted.
Post(counts, requests) == IF port = "open" THEN Counted(counts, requests) ELSE counts

\* failPendingRequests
FailWaiting ==
  /\ excused' = Post(excused, waiting)
  /\ waiting' = {}

-----------------------------------------------------------------------------
(* boot and stop.  The client does each once. *)

\* stopEngine finds nothing to stop here.
Boot ==
  /\ port = "new"
  /\ port' = "open"
  /\ engine' = "loading"
  /\ UNCHANGED <<announced, sent, atServer, waiting, pump, served, excused>>

\* The await of boot ends; the worker may have been stopped meanwhile.
Loaded ==
  /\ engine = "loading"
  /\ engine' = "loaded"
  /\ announced' = TRUE
  /\ UNCHANGED <<port, sent, atServer, waiting, pump, served, excused>>

LoadFails ==
  /\ engine = "loading"
  /\ engine' = "none"
  /\ port' = "closed"
  /\ UNCHANGED <<announced, sent, atServer, waiting, pump, served, excused>>

\* A boot under way goes on and will set the engine.
Stop ==
  /\ port = "open"
  /\ FailWaiting
  /\ pump' = FALSE
  /\ atServer' = {}
  /\ engine' = IF engine = "loading" THEN "loading" ELSE "none"
  /\ port' = "closed"
  /\ UNCHANGED <<announced, sent, served>>

-----------------------------------------------------------------------------
(* Messages *)

\* processEmittedMessages, and schedulePump when nothing was thrown.
Emit(pending, held, answered) ==
  /\ atServer' = held \ answered
  /\ waiting' = pending \ answered
  /\ served' = Post(served, answered)
  /\ pump' = (pump \/ pending \ answered # {})

\* The server takes the request and emits what is ready, perhaps its answer.
Request(r) ==
  /\ announced /\ port = "open"
  /\ r \notin sent
  /\ sent' = sent \cup {r}
  /\ \E answered \in SUBSET (atServer \cup {r}) :
       Emit(waiting \cup {r}, atServer \cup {r}, answered)
  /\ UNCHANGED <<engine, port, announced, excused>>

\* Mutant: the client gets no error when the server throws.
RequestThrowsSilently(r) ==
  /\ announced /\ port = "open"
  /\ r \notin sent
  /\ sent' = sent \cup {r}
  /\ waiting' = waiting \cup {r}
  /\ \E drained \in SUBSET (atServer \cup {r}) : atServer' = (atServer \cup {r}) \ drained
  /\ UNCHANGED <<engine, port, announced, pump, served, excused>>

\* send throws: answers drained before it did are lost.  The request is answered
\* with an error; clearClientRequest leaves it pending, since it has a method.
RequestThrows(r) ==
  /\ announced /\ port = "open"
  /\ r \notin sent
  /\ sent' = sent \cup {r}
  /\ waiting' = waiting \cup {r}
  /\ \E drained \in SUBSET (atServer \cup {r}) : atServer' = (atServer \cup {r}) \ drained
  /\ excused' = Post(excused, {r})
  /\ UNCHANGED <<engine, port, announced, pump, served>>

\* A notification brings no request, and what is ready comes out all the same.
Notify ==
  /\ announced /\ port = "open"
  /\ \E answered \in SUBSET atServer : Emit(waiting, atServer, answered)
  /\ UNCHANGED <<engine, port, announced, sent, excused>>

NotifyThrows ==
  /\ announced /\ port = "open"
  /\ \E drained \in SUBSET atServer : atServer' = atServer \ drained
  /\ UNCHANGED <<engine, port, announced, sent, waiting, pump, served, excused>>

-----------------------------------------------------------------------------
(* Timers *)

\* The pump polls, and is armed again while a request is pending.
Poll ==
  /\ pump
  /\ \E answered \in SUBSET atServer :
       /\ atServer' = atServer \ answered
       /\ waiting' = waiting \ answered
       /\ served' = Post(served, answered)
       /\ pump' = (waiting \ answered # {})
  /\ UNCHANGED <<engine, port, announced, sent, excused>>

\* poll throws: every pending request is answered with the error.
PollThrows ==
  /\ pump
  /\ \E drained \in SUBSET atServer : atServer' = atServer \ drained
  /\ FailWaiting
  /\ pump' = FALSE
  /\ UNCHANGED <<engine, port, announced, sent, served>>

\* REQUEST_TIMEOUT_MS have passed.
Timeout(r) ==
  /\ r \in waiting
  /\ waiting' = waiting \ {r}
  /\ excused' = Post(excused, {r})
  /\ UNCHANGED <<engine, port, announced, sent, atServer, pump, served>>

RuntimeNext ==
  \/ Boot \/ Loaded \/ LoadFails \/ Stop
  \/ \E r \in RequestIds : Request(r) \/ RequestThrows(r) \/ Timeout(r)
  \/ Notify \/ NotifyThrows \/ Poll \/ PollThrows

RuntimeSpec == RuntimeInit /\ [][RuntimeNext]_runtimeVars

-----------------------------------------------------------------------------
(* Properties *)

\* No request is forgotten: one that has no answer yet has its timer running and
\* the server is being polled for it, whatever was thrown, lost or stopped.
NoRequestForgotten ==
  \A r \in sent : served[r] + excused[r] = 0 => r \in waiting /\ pump
=============================================================================
