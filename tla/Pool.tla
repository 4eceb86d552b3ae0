--------------------------------- MODULE Pool ---------------------------------
(***************************************************************************)
(* The worker pool of the server (src/crates/utils/src/thread.rs): threads *)
(* that share one queue of worker jobs and one of latency-sensitive jobs.  *)
(* A thread prefers latency-sensitive jobs until its budget is used up.    *)
(* recv looks at the queues one after the other, and other threads take    *)
(* from them in between.                                                   *)
(*                                                                         *)
(* A job is counted, never named; it may spawn others.  What a thread's    *)
(* intent does to its scheduling by the system is left out.                *)
(***************************************************************************)
EXTENDS Naturals

CONSTANTS
  PoolThreads,
  LatencyBurst,    \* LATENCY_BURST
  MaxQueued        \* bounds the jobs in a queue

ASSUME PoolAssumption == LatencyBurst \in Nat \ {0}

VARIABLES
  workers,      \* length of the queue of worker jobs
  latencies,    \* length of the queue of latency-sensitive jobs
  senders,      \* sending ends that are open
  step,         \* where each thread is in recv
  budget,       \* latency_budget of each thread
  passed        \* latency-sensitive jobs each thread has taken since a worker
                \* job became the first of its queue; the code does not count them

poolVars == <<workers, latencies, senders, step, budget, passed>>

\* The four attempts of recv, the two blocking ones for a last queue, and what
\* the loop around recv does.
Steps == {"budget", "worker", "latency", "select", "onlyWorker", "onlyLatency",
          "run", "exit"}

PoolTypeOK ==
  /\ workers \in Nat
  /\ latencies \in Nat
  /\ senders \in SUBSET {"worker", "latency"}
  /\ step \in [PoolThreads -> Steps]
  /\ budget \in [PoolThreads -> 0 .. LatencyBurst]
  /\ passed \in [PoolThreads -> Nat]

PoolInit ==
  /\ workers = 0
  /\ latencies = 0
  /\ senders = {"worker", "latency"}
  /\ step = [t \in PoolThreads |-> "budget"]
  /\ budget = [t \in PoolThreads |-> LatencyBurst]
  /\ passed = [t \in PoolThreads |-> 0]

ForgetPassed == passed' = [t \in PoolThreads |-> 0]

Goes(t, s) == step' = [step EXCEPT ![t] = s]

\* Nothing is queued and nothing will be.
Finished(queue, length) == queue \notin senders /\ length = 0

TakeWorker(t) ==
  /\ workers > 0
  /\ workers' = workers - 1
  /\ budget' = [budget EXCEPT ![t] = LatencyBurst]
  /\ ForgetPassed
  /\ Goes(t, "run")
  /\ UNCHANGED <<latencies, senders>>

TakeLatency(t, left) ==
  /\ latencies > 0
  /\ latencies' = latencies - 1
  /\ budget' = [budget EXCEPT ![t] = left]
  /\ passed' = IF workers > 0 THEN [passed EXCEPT ![t] = @ + 1] ELSE passed
  /\ Goes(t, "run")
  /\ UNCHANGED <<workers, senders>>

Pass(t, s) == Goes(t, s) /\ UNCHANGED <<workers, latencies, senders, budget, passed>>

-----------------------------------------------------------------------------
(* recv *)

Budgeted(t) ==
  /\ step[t] = "budget"
  /\ IF budget[t] > 0 /\ latencies > 0 THEN TakeLatency(t, budget[t] - 1)
     ELSE Pass(t, "worker")

TryWorker(t) ==
  /\ step[t] = "worker"
  /\ IF workers > 0 THEN TakeWorker(t) ELSE Pass(t, "latency")

\* Mutant: a job taken beyond the budget renews the whole budget.
TryLatencyRenewing(t) ==
  /\ step[t] = "latency"
  /\ IF latencies > 0 THEN TakeLatency(t, LatencyBurst) ELSE Pass(t, "select")

\* No worker job was waiting: a new burst begins.
TryLatency(t) ==
  /\ step[t] = "latency"
  /\ IF latencies > 0 THEN TakeLatency(t, LatencyBurst - 1) ELSE Pass(t, "select")

\* Mutant: a thread that sees one queue closed does not wait for the other.
SelectExits(t) ==
  /\ step[t] = "select"
  /\ \/ TakeLatency(t, LatencyBurst - 1)
     \/ TakeWorker(t)
     \/ (Finished("latency", latencies) \/ Finished("worker", workers)) /\ Pass(t, "exit")

\* Blocks until a queue has a job or is finished.
Select(t) ==
  /\ step[t] = "select"
  /\ \/ TakeLatency(t, LatencyBurst - 1)
     \/ TakeWorker(t)
     \/ Finished("latency", latencies) /\ Pass(t, "onlyWorker")
     \/ Finished("worker", workers) /\ Pass(t, "onlyLatency")

OnlyWorker(t) ==
  /\ step[t] = "onlyWorker"
  /\ \/ TakeWorker(t)
     \/ Finished("worker", workers) /\ Pass(t, "exit")

OnlyLatency(t) ==
  /\ step[t] = "onlyLatency"
  /\ \/ TakeLatency(t, LatencyBurst - 1)
     \/ Finished("latency", latencies) /\ Pass(t, "exit")

Done(t) == step[t] = "run" /\ Pass(t, "budget")

-----------------------------------------------------------------------------
(* The owner of the pool *)

SpawnWorker ==
  /\ senders = {"worker", "latency"}
  /\ workers < MaxQueued
  /\ workers' = workers + 1
  /\ UNCHANGED <<latencies, senders, step, budget, passed>>

SpawnLatency ==
  /\ senders = {"worker", "latency"}
  /\ latencies < MaxQueued
  /\ latencies' = latencies + 1
  /\ UNCHANGED <<workers, senders, step, budget, passed>>

\* The pool is dropped: its senders go one after the other, in their order.
CloseWorker ==
  /\ senders = {"worker", "latency"}
  /\ senders' = {"latency"}
  /\ UNCHANGED <<workers, latencies, step, budget, passed>>

CloseLatency ==
  /\ senders = {"latency"}
  /\ senders' = {}
  /\ UNCHANGED <<workers, latencies, step, budget, passed>>

PoolNext ==
  \/ \E t \in PoolThreads :
       \/ Budgeted(t) \/ TryWorker(t) \/ TryLatency(t) \/ Select(t)
       \/ OnlyWorker(t) \/ OnlyLatency(t) \/ Done(t)
  \/ SpawnWorker \/ SpawnLatency \/ CloseWorker \/ CloseLatency

PoolSpec == PoolInit /\ [][PoolNext]_poolVars

-----------------------------------------------------------------------------
(* Properties *)

\* A worker job that is first in its queue sees a thread take at most a burst of
\* latency-sensitive jobs before it, whatever the other threads take meanwhile and
\* whatever was spawned.
NotStarved == \A t \in PoolThreads : passed[t] <= LatencyBurst

\* A thread exits only when no job is left for it: dropping the pool runs
\* everything that was spawned.
EverythingRun ==
  (\E t \in PoolThreads : step[t] = "exit") => workers = 0 /\ latencies = 0 /\ senders = {}
=============================================================================
