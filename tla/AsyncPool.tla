----------------------------- MODULE AsyncPool ------------------------------
(***************************************************************************)
(* deps/async: pools of workers with a bounded channel each.  A task with  *)
(* a key goes to the worker the key hashes to, one without a key to the    *)
(* next worker in turn; a full channel refuses it.  A worker selects       *)
(* between its channel and quit; once it has seen quit it counts what is   *)
(* in the channel, runs that many tasks and ends.  Nothing stops a later   *)
(* task from being accepted into the channel of a worker that has ended.   *)
(*                                                                         *)
(* The module has the operations of every pool of a server; ServerKernel   *)
(* says who posts and when each pool is stopped.  A task is named by its   *)
(* key, 0 without one, by its number among the accepted tasks of that key, *)
(* and by what it carries.                                                 *)
(***************************************************************************)
EXTENDS Naturals, Sequences

CONSTANTS Pools,      \* the pools
          Keys,       \* keys of tasks
          Size,       \* number of workers of each pool
          WorkerOf,   \* SimpleHash(key) % size, for each pool
          QueueSize,  \* capacity of each channel
          Payloads    \* what a task may carry

CONSTANT Nothing      \* ... apart from itself

WorkersOf(p) == 0..(Size[p] - 1)
Workers == UNION {{p} \X WorkersOf(p) : p \in Pools}

ASSUME PoolParameters ==
    /\ 0 \notin Keys /\ Nothing \notin Payloads
    /\ Size \in [Pools -> Nat \ {0}]
    /\ \A p \in Pools, k \in Keys : WorkerOf[p][k] \in WorkersOf(p)
    /\ QueueSize \in Nat \ {0}

AllKeys == Keys \cup {0}
Task == [key : AllKeys, n : Nat, carries : Payloads \cup {Nothing}]
NoTask == [key |-> 0, n |-> 0, carries |-> Nothing]

VARIABLES ch,        \* the channel of each worker
          current,   \* the task each worker runs
          worker,    \* "running", "draining" or "ended"
          left,      \* tasks a draining worker has still to run
          index,     \* Async.index of each pool
          accepted,  \* number of accepted tasks of each pool and key
          early,     \* ... when quit was closed
          finished,  \* number of finished tasks
          poolStop   \* "no", "quit" (closed) or "returned"

poolVars == <<ch, current, worker, left, index, accepted, early, finished, poolStop>>

PoolInit ==
    /\ ch = [w \in Workers |-> <<>>] /\ current = [w \in Workers |-> NoTask]
    /\ worker = [w \in Workers |-> "running"] /\ left = [w \in Workers |-> 0]
    /\ index = [p \in Pools |-> 0]
    /\ accepted = [q \in Pools \X AllKeys |-> 0]
    /\ early = accepted /\ finished = accepted
    /\ poolStop = [p \in Pools |-> "no"]

Idle(w) == current[w] = NoTask

-----------------------------------------------------------------------------
(* post: the channel takes the task or is full.                             *)
Fits(w) == Len(ch[w]) < QueueSize
Post(w, k, x) ==
    LET q == <<w[1], k>>
    IN  IF Fits(w)
        THEN /\ accepted' = [accepted EXCEPT ![q] = @ + 1]
             /\ ch' = [ch EXCEPT ![w] = Append(@, [key |-> k, n |-> accepted[q] + 1, carries |-> x])]
        ELSE UNCHANGED <<ch, accepted>>

(* Post takes the next worker, PostFixed the worker of the key.             *)
NextIndex(p) == (index[p] + 1) % Size[p]
TargetShortest(p, k) ==
    <<p, CHOOSE i \in WorkersOf(p) : \A j \in WorkersOf(p) : Len(ch[<<p, i>>]) <= Len(ch[<<p, j>>])>>
Target(p, k) == <<p, IF k = 0 THEN NextIndex(p) ELSE WorkerOf[p][k]>>
PostFixedOrRand(p, k, x) ==
    /\ index' = IF k = 0 THEN [index EXCEPT ![p] = NextIndex(p)] ELSE index
    /\ Post(Target(p, k), k, x)
    /\ UNCHANGED <<current, worker, left, early, finished, poolStop>>

-----------------------------------------------------------------------------
Take(w) ==
    /\ current' = [current EXCEPT ![w] = Head(ch[w])]
    /\ ch' = [ch EXCEPT ![w] = Tail(@)]

(* A worker starts a task, while it runs or while it drains.                *)
WorkerTake(w) ==
    /\ worker[w] = "running" /\ Idle(w) /\ ch[w] # <<>>
    /\ Take(w)
    /\ UNCHANGED <<worker, left, index, accepted, early, finished, poolStop>>

DrainTake(w) ==
    /\ worker[w] = "draining" /\ Idle(w) /\ left[w] > 0 /\ ch[w] # <<>>
    /\ Take(w) /\ left' = [left EXCEPT ![w] = @ - 1]
    /\ UNCHANGED <<worker, index, accepted, early, finished, poolStop>>

(* The end of a task, or its panic, which SafeRun recovers.                 *)
FinishTask(w) ==
    /\ ~Idle(w)
    /\ finished' = [finished EXCEPT ![<<w[1], current[w].key>>] = @ + 1]
    /\ current' = [current EXCEPT ![w] = NoTask]
    /\ UNCHANGED <<ch, worker, left, index, accepted, early, poolStop>>

(* select picks quit, perhaps although tasks wait: they are counted once.   *)
RemainingOneMore(w) == Len(ch[w]) + 1
RemainingNone(w) == 0
Remaining(w) == Len(ch[w])
SeeQuit(w) ==
    /\ worker[w] = "running" /\ Idle(w) /\ poolStop[w[1]] # "no"
    /\ worker' = [worker EXCEPT ![w] = "draining"]
    /\ left' = [left EXCEPT ![w] = Remaining(w)]
    /\ UNCHANGED <<ch, current, index, accepted, early, finished, poolStop>>

WorkerEnds(w) ==
    /\ worker[w] = "draining" /\ Idle(w) /\ left[w] = 0
    /\ worker' = [worker EXCEPT ![w] = "ended"]
    /\ UNCHANGED <<ch, current, left, index, accepted, early, finished, poolStop>>

(* Stop closes quit and waits for the workers.                              *)
CloseQuit(p) ==
    /\ poolStop[p] = "no" /\ poolStop' = [poolStop EXCEPT ![p] = "quit"]
    /\ early' = [q \in DOMAIN early |-> IF q[1] = p THEN accepted[q] ELSE early[q]]
    /\ UNCHANGED <<ch, current, worker, left, index, accepted, finished>>

AllEnded(p) == \A w \in Workers : w[1] = p => worker[w] = "ended"
StopReturns(p) ==
    /\ poolStop[p] = "quit" /\ AllEnded(p)
    /\ poolStop' = [poolStop EXCEPT ![p] = "returned"]
    /\ UNCHANGED <<ch, current, worker, left, index, accepted, early, finished>>

-----------------------------------------------------------------------------
Counts == [Pools \X AllKeys -> Nat]

(* Types; a channel holds at most its capacity, and a draining worker never *)
(* waits for more than its channel has.                                     *)
PoolTypeOK ==
    /\ ch \in [Workers -> Seq(Task)]
    /\ \A w \in Workers : Len(ch[w]) <= QueueSize
    /\ current \in [Workers -> Task]
    /\ worker \in [Workers -> {"running", "draining", "ended"}]
    /\ left \in [Workers -> Nat] /\ index \in [Pools -> Nat]
    /\ accepted \in Counts /\ early \in Counts /\ finished \in Counts
    /\ poolStop \in [Pools -> {"no", "quit", "returned"}]

(* Tasks of one key run one after the other, in the order in which they     *)
(* were accepted: what a worker runs is the next task of its key, and no    *)
(* other worker runs one of that key.                                       *)
KeyOrder ==
    \A w \in Workers : ~Idle(w) /\ current[w].key # 0 =>
        /\ current[w].n = finished[<<w[1], current[w].key>>] + 1
        /\ \A v \in Workers \ {w} :
              v[1] = w[1] /\ ~Idle(v) => current[v].key # current[w].key

(* When Stop returns, whatever was accepted before it was called has run,   *)
(* although select may have picked quit while tasks were waiting.           *)
StopRunsAccepted ==
    \A q \in Pools \X AllKeys :
        poolStop[q[1]] = "returned" => finished[q] >= early[q]
=============================================================================
