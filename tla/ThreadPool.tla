------------------------------ MODULE ThreadPool ------------------------------
(***************************************************************************)
(* The thread pool of slang (src/crates/slang/include/slang/util/          *)
(* ThreadPool.h).  A client breaks loops into blocks that it pushes one by *)
(* one, and waits until nothing is left; workers take the blocks in the    *)
(* order they were pushed.  A step is what happens while the mutex is      *)
(* held.  A thread asleep on a condition wakes when it is notified, and    *)
(* finds out when it has the mutex again whether the condition holds.      *)
(*                                                                         *)
(* Left out: what tasks compute, results handed back in futures,           *)
(* awakenings without a notification, the build without threads.           *)
(***************************************************************************)
EXTENDS Naturals, FiniteSets, Sequences

CONSTANTS
  Clients,       \* threads that use the pool
  PoolSize,      \* its threads
  LoopSizes,     \* lengths of the loops
  MaxLoops       \* bounds the runs: loops of each client

ASSUME ThreadPoolAssumption ==
  PoolSize \in Nat \ {0} /\ LoopSizes \subseteq Nat /\ MaxLoops \in Nat

VARIABLES
  tasks,         \* the queue
  busy,          \* the task each worker runs
  waiting,       \* the flag: somebody waits
  client,        \* for each client, what it does
  notified,      \* clients asleep whose condition was notified
  poolRunning,   \* no destructor has run
  runs           \* for each index of each loop, how often its body was run

threadPoolVars == <<tasks, busy, waiting, client, notified, poolRunning, runs>>

PoolWorkers == 1 .. PoolSize
NoTask == [of |-> "none"]

\* What a client does: stage "out" of the pool, "push"ing blocks, "asleep"; of the loop
\* number loop of the given size, blocks have been pushed.
Doing(stage, loop, size, blocks) ==
  [stage |-> stage, loop |-> loop, size |-> size, blocks |-> blocks]

CurrentTasks == Cardinality({w \in PoolWorkers : busy[w] # NoTask})
AllDone == CurrentTasks = 0 /\ tasks = <<>>

ThreadPoolTypeOK ==
  /\ waiting \in BOOLEAN /\ poolRunning \in BOOLEAN
  /\ notified \subseteq {c \in Clients : client[c].stage = "asleep"}
  /\ \A c \in Clients : client[c].loop \in 0 .. MaxLoops /\ client[c].size \in LoopSizes \cup {0}

ThreadPoolInit ==
  /\ tasks = <<>>
  /\ busy = [w \in PoolWorkers |-> NoTask]
  /\ waiting = FALSE
  /\ client = [c \in Clients |-> Doing("out", 0, 0, 0)]
  /\ notified = {}
  /\ poolRunning = TRUE
  /\ runs = [c \in Clients |-> [n \in 1 .. MaxLoops |-> <<>>]]

-----------------------------------------------------------------------------
(* pushLoop *)

NumBlocks(size) == IF size < PoolSize THEN size ELSE PoolSize
BlockSize(size) == IF size < PoolSize THEN 1 ELSE size \div PoolSize

\* Mutant: the indices that remain are left out.
BlockOfSize(size, k) ==
  [first |-> k * BlockSize(size), end |-> (k + 1) * BlockSize(size)]

\* Block k of a loop, from 0: its first index and the one behind its last.
Block(size, k) ==
  [first |-> k * BlockSize(size),
   end   |-> IF k = NumBlocks(size) - 1 THEN size ELSE (k + 1) * BlockSize(size)]

BeginLoop(c, size) ==
  LET n == client[c].loop + 1
  IN  /\ client[c].stage = "out" /\ poolRunning
      /\ n <= MaxLoops
      /\ client' = [client EXCEPT ![c] = Doing("push", n, size, 0)]
      /\ runs' = [runs EXCEPT ![c][n] = [i \in 1 .. size |-> 0]]
      /\ UNCHANGED <<tasks, busy, waiting, notified, poolRunning>>

PushBlock(c) ==
  LET do == client[c]
  IN  /\ do.stage = "push" /\ do.blocks < NumBlocks(do.size)
      /\ tasks' = Append(tasks, [of |-> c, loop |-> do.loop, block |-> Block(do.size, do.blocks)])
      /\ client' = [client EXCEPT ![c].blocks = @ + 1]
      /\ UNCHANGED <<busy, waiting, notified, poolRunning, runs>>

EndLoop(c) ==
  /\ client[c].stage = "push" /\ client[c].blocks = NumBlocks(client[c].size)
  /\ client' = [client EXCEPT ![c].stage = "out"]
  /\ UNCHANGED <<tasks, busy, waiting, notified, poolRunning, runs>>

-----------------------------------------------------------------------------
(* waitForAll *)

\* The condition holds, and the client goes on; or it sleeps.
Check(c, sleeps) ==
  IF AllDone
  THEN /\ waiting' = FALSE
       /\ client' = [client EXCEPT ![c].stage = "waited"]
  ELSE /\ waiting' = sleeps
       /\ client' = [client EXCEPT ![c].stage = "asleep"]

\* Mutant: the wait is not announced.
WaitForAllUnannounced(c) ==
  /\ client[c].stage = "out" /\ poolRunning
  /\ Check(c, waiting)
  /\ UNCHANGED <<tasks, busy, notified, poolRunning, runs>>

WaitForAll(c) ==
  /\ client[c].stage = "out" /\ poolRunning
  /\ Check(c, TRUE)
  /\ UNCHANGED <<tasks, busy, notified, poolRunning, runs>>

\* A client that was notified has the mutex again.
Awake(c) ==
  /\ c \in notified
  /\ notified' = notified \ {c}
  /\ Check(c, waiting)
  /\ UNCHANGED <<tasks, busy, poolRunning, runs>>

\* A wait with a time limit gives up; a client whose tasks are not done may wait again.
WaitTimesOut(c) ==
  /\ client[c].stage = "asleep"
  /\ ~AllDone
  /\ waiting' = FALSE
  /\ client' = [client EXCEPT ![c].stage = "out"]
  /\ notified' = notified \ {c}
  /\ UNCHANGED <<tasks, busy, poolRunning, runs>>

\* The client has what it waited for and uses it.
Return(c) ==
  /\ client[c].stage = "waited"
  /\ client' = [client EXCEPT ![c].stage = "out"]
  /\ UNCHANGED <<tasks, busy, waiting, notified, poolRunning, runs>>

\* The destructor has waited, and the workers end.
Destroy(c) ==
  /\ client[c].stage = "waited"
  /\ \A d \in Clients \ {c} : client[d].stage = "out"
  /\ poolRunning' = FALSE
  /\ client' = [client EXCEPT ![c].stage = "out"]
  /\ UNCHANGED <<tasks, busy, waiting, notified, runs>>

-----------------------------------------------------------------------------
(* worker *)

WorkerTakes(w) ==
  /\ busy[w] = NoTask
  /\ poolRunning /\ tasks # <<>>
  /\ busy' = [busy EXCEPT ![w] = Head(tasks)]
  /\ tasks' = Tail(tasks)
  /\ UNCHANGED <<waiting, client, notified, poolRunning, runs>>

\* The task runs outside the mutex; who waits is notified if it was the last.
WorkerEnds(w) ==
  LET t    == busy[w]
      last == tasks = <<>> /\ CurrentTasks = 1
  IN  /\ t # NoTask
      /\ busy' = [busy EXCEPT ![w] = NoTask]
      /\ runs' = [runs EXCEPT ![t.of][t.loop] =
                    [i \in DOMAIN @ |->
                       IF t.block.first < i /\ i <= t.block.end THEN @[i] + 1 ELSE @[i]]]
      /\ notified' = IF waiting /\ last THEN {c \in Clients : client[c].stage = "asleep"}
                     ELSE notified
      /\ UNCHANGED <<tasks, waiting, client, poolRunning>>

ThreadPoolNext ==
  \/ \E c \in Clients :
       \/ \E size \in LoopSizes : BeginLoop(c, size)
       \/ PushBlock(c) \/ EndLoop(c)
       \/ WaitForAll(c) \/ Awake(c) \/ WaitTimesOut(c) \/ Return(c) \/ Destroy(c)
  \/ \E w \in PoolWorkers : WorkerTakes(w) \/ WorkerEnds(w)

ThreadPoolSpec == ThreadPoolInit /\ [][ThreadPoolNext]_threadPoolVars

-----------------------------------------------------------------------------
(* Properties *)

\* A client that has waited finds the body of its loops run once for every index.
LoopsRunOnce ==
  \A c \in Clients : client[c].stage = "waited" =>
    \A n \in 1 .. client[c].loop : \A i \in DOMAIN runs[c][n] : runs[c][n][i] = 1

\* A client never sleeps on when everything is done: it is about to be woken.
NobodyOversleeps ==
  \A c \in Clients : client[c].stage = "asleep" /\ AllDone => c \in notified
=============================================================================
