----------------------------- MODULE DelayedJobs -----------------------------
(***************************************************************************)
(* The in-process pool of delayed jobs: a timer per job, then a queue in   *)
(* front of a few workers.  A job is refused when it is scheduled (too     *)
(* many timers: the caller is told) or dropped when its timer fires (the   *)
(* queue is full: only the job's onDrop is told).  A worker starts the     *)
(* next job in the step that frees it.                                     *)
(*                                                                         *)
(* What a job does is the business of the modules that schedule it; a      *)
(* restart empties the pool.                                               *)
(***************************************************************************)
EXTENDS Integers, FiniteSets, Sequences

CONSTANTS
    Jobs,            \* ids of jobs; each is scheduled at most once
    MaxPending,      \* timers at a time
    MaxQueue,        \* jobs waiting for a worker
    MaxConcurrency   \* workers

ASSUME PoolAssumption ==
    /\ MaxPending \in Nat \ {0}
    /\ MaxQueue \in Nat \ {0}
    /\ MaxConcurrency \in Nat \ {0}

VARIABLES
    timers,     \* jobs whose timer has not fired yet
    runQueue,   \* jobs waiting for a worker, in order
    workers     \* jobs that are running

poolVars == <<timers, runQueue, workers>>

PoolTypeOK ==
    /\ timers \subseteq Jobs
    /\ runQueue \in Seq(Jobs)
    /\ workers \subseteq Jobs

PoolInit == timers = {} /\ runQueue = <<>> /\ workers = {}

-----------------------------------------------------------------------------

CanSchedule == Cardinality(timers) < MaxPending

Schedule(j) ==
    /\ CanSchedule
    /\ timers' = timers \cup {j}
    /\ UNCHANGED <<runQueue, workers>>

\* Mutated form: the worker that ends does not look at the queue.
PumpNothing(queue, busy) == runQueue' = queue /\ workers' = busy

\* pump(): the head of the queue moves to a worker as long as one is free.
Pump(queue, busy) ==
    LET free    == MaxConcurrency - Cardinality(busy)
        started == IF Len(queue) < free THEN Len(queue) ELSE free
    IN /\ runQueue' = SubSeq(queue, started + 1, Len(queue))
       /\ workers'  = busy \cup {queue[i] : i \in 1..started}

Saturated == Len(runQueue) >= MaxQueue

\* A timer fires and its job is accepted.
Fire(j) ==
    /\ j \in timers
    /\ timers' = timers \ {j}
    /\ ~Saturated
    /\ Pump(Append(runQueue, j), workers)

\* A timer fires while the queue is full: the job never runs.
DropAtFire(j) ==
    /\ j \in timers
    /\ timers' = timers \ {j}
    /\ Saturated
    /\ UNCHANGED <<runQueue, workers>>

\* A job ends, however it ended.
Finish(j) ==
    /\ j \in workers
    /\ Pump(runQueue, workers \ {j})
    /\ UNCHANGED timers

LosePool == timers' = {} /\ runQueue' = <<>> /\ workers' = {}

\* A job is scheduled at most once, so never while it is in the pool.
InPool == timers \cup workers \cup {runQueue[i] : i \in 1..Len(runQueue)}

PoolNext ==
    \/ LosePool
    \/ \E j \in Jobs : \/ j \notin InPool /\ Schedule(j)
                       \/ Fire(j) \/ DropAtFire(j) \/ Finish(j)

PoolSpec == PoolInit /\ [][PoolNext]_poolVars

-----------------------------------------------------------------------------

\* The pool keeps within its limits, and no job waits while a worker is free: the
\* one call of pump() a job's end makes is enough, in any order of ends and timers.
PoolSound ==
    /\ Cardinality(timers) <= MaxPending
    /\ Len(runQueue) <= MaxQueue
    /\ Cardinality(workers) <= MaxConcurrency
    /\ runQueue # <<>> => Cardinality(workers) = MaxConcurrency
=============================================================================
