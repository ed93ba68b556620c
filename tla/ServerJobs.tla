----------------------------- MODULE ServerJobs -----------------------------
(***************************************************************************)
(* What the delayed-job pool promises to the two parts that share it, and  *)
(* what its jobs promise to the requesters, proved for ServerSpec: any     *)
(* number of approvals, sweeps, deliveries, retries and restarts.          *)
(***************************************************************************)
EXTENDS ServerSafety

-----------------------------------------------------------------------------
(* The pool (DelayedJobs) *)

\* No job stands twice in the queue.
Distinct(queue) == \A i, j \in 1..Len(queue) : queue[i] = queue[j] => i = j

Elements(queue) == {queue[i] : i \in 1..Len(queue)}

\* A job is in one place of the pool: without that, the worker that a job of the queue
\* takes might not be one more.
PoolTidy ==
    /\ PoolTypeOK
    /\ IsFiniteSet(timers) /\ IsFiniteSet(workers)
    /\ Distinct(runQueue)
    /\ timers \cap workers = {}
    /\ Elements(runQueue) \cap (timers \cup workers) = {}
    /\ PoolSound

\* The first n jobs of a queue without repetition are n jobs.
LEMMA HeadCount ==
  ASSUME NEW queue \in Seq(Jobs), Distinct(queue), NEW n \in 0..Len(queue)
  PROVE  LET heads == {queue[i] : i \in 1..n}
         IN  IsFiniteSet(heads) /\ Cardinality(heads) = n
<1> DEFINE heads == {queue[i] : i \in 1..n}
           pick  == [i \in 1..n |-> queue[i]]
<1>1. Len(queue) \in Nat /\ n \in Nat /\ 1..n \subseteq 1..Len(queue)
  OBVIOUS
<1>2. pick \in [1..n -> heads] /\ \A t \in heads : \E i \in 1..n : pick[i] = t
  OBVIOUS
<1>3. \A i, j \in 1..n : pick[i] = pick[j] => i = j
  BY <1>1 DEF Distinct
<1> HIDE DEF pick, heads
<1>4. pick \in Bijection(1..n, heads)
  BY <1>2, <1>3 DEF Bijection, Injection, Surjection, IsInjective
<1>5. IsFiniteSet(1..n) /\ Cardinality(1..n) = n
  BY <1>1, FS_Interval
<1> QED
  BY <1>4, <1>5, FS_Bijection DEF ExistsBijection, heads

\* pump() fills the free workers from the head of the queue, and leaves a job waiting only
\* when every worker is busy.
LEMMA PumpFills ==
  ASSUME NEW queue \in Seq(Jobs), Distinct(queue),
         NEW busy \in SUBSET Jobs, IsFiniteSet(busy), Cardinality(busy) <= MaxConcurrency,
         Elements(queue) \cap busy = {},
         Pump(queue, busy)
  PROVE  /\ runQueue' \in Seq(Jobs) /\ Len(runQueue') <= Len(queue)
         /\ Distinct(runQueue')
         /\ workers' \in SUBSET Jobs /\ IsFiniteSet(workers')
         /\ Cardinality(workers') <= MaxConcurrency
         /\ runQueue' # <<>> => Cardinality(workers') = MaxConcurrency
         /\ Elements(runQueue') \cap workers' = {}
         /\ workers' \cup Elements(runQueue') = busy \cup Elements(queue)
<1> USE PoolAssumption
<1> DEFINE free    == MaxConcurrency - Cardinality(busy)
           started == IF Len(queue) < free THEN Len(queue) ELSE free
           heads   == {queue[i] : i \in 1..started}
<1>1. Cardinality(busy) \in Nat /\ free \in Nat
  BY FS_CardinalityType
<1>2. started \in 0..Len(queue) /\ started <= free /\ Len(queue) \in Nat
  BY <1>1
<1>3. started < Len(queue) => started = free
  BY <1>1, <1>2
<1>4. runQueue' = SubSeq(queue, started + 1, Len(queue)) /\ workers' = busy \cup heads
  BY DEF Pump
<1> HIDE DEF free, started
<1>5. IsFiniteSet(heads) /\ Cardinality(heads) = started
  BY <1>2, HeadCount
<1>6. busy \cap heads = {} /\ heads \subseteq Jobs
  BY <1>2 DEF Elements
<1>7. Cardinality(workers') = Cardinality(busy) + started /\ IsFiniteSet(workers')
  <2> HIDE DEF heads
  <2>1. Cardinality(busy \cap heads) = 0
    BY <1>6, FS_EmptySet
  <2>2. /\ IsFiniteSet(busy \cup heads)
        /\ Cardinality(busy \cup heads)
             = Cardinality(busy) + Cardinality(heads) - Cardinality(busy \cap heads)
    BY <1>5, FS_Union
  <2> QED
    BY <1>1, <1>2, <1>4, <1>5, <2>1, <2>2
<1>8. /\ runQueue' \in Seq(Jobs) /\ Len(runQueue') = Len(queue) - started
      /\ \A i \in 1..Len(runQueue') : runQueue'[i] = queue[started + i]
  BY <1>2, <1>4
<1>9. Distinct(runQueue')
  <2> SUFFICES ASSUME NEW i \in 1..Len(runQueue'), NEW j \in 1..Len(runQueue'),
                      runQueue'[i] = runQueue'[j]
               PROVE  i = j
    BY DEF Distinct
  <2>1. /\ started + i \in 1..Len(queue) /\ started + j \in 1..Len(queue)
        /\ queue[started + i] = queue[started + j]
    BY <1>2, <1>8
  <2>2. started + i = started + j
    BY <2>1 DEF Distinct
  <2> QED
    BY <1>2, <2>2
<1>10. Elements(runQueue') \cap workers' = {}
  <2> SUFFICES ASSUME NEW i \in 1..Len(runQueue'), runQueue'[i] \in workers'
               PROVE  FALSE
    BY DEF Elements
  <2>1. started + i \in 1..Len(queue) /\ runQueue'[i] = queue[started + i]
    BY <1>2, <1>8
  <2>2. runQueue'[i] \notin busy
    BY <2>1 DEF Elements
  <2>3. PICK j \in 1..started : queue[j] = queue[started + i]
    BY <1>4, <2>1, <2>2
  <2>4. j = started + i
    BY <1>2, <2>1, <2>3 DEF Distinct
  <2> QED
    BY <1>2, <2>3, <2>4
<1>11. \A i \in 1..Len(queue) : queue[i] \in heads \/ queue[i] \in Elements(runQueue')
  <2> SUFFICES ASSUME NEW i \in 1..Len(queue), ~(i \in 1..started)
               PROVE  queue[i] \in Elements(runQueue')
    OBVIOUS
  <2>1. i - started \in 1..Len(runQueue') /\ runQueue'[i - started] = queue[i]
    BY <1>2, <1>8
  <2> QED
    BY <2>1 DEF Elements
<1>12. Elements(runQueue') \subseteq Elements(queue) /\ heads \subseteq Elements(queue)
  BY <1>2, <1>8 DEF Elements
<1>13. workers' \cup Elements(runQueue') = busy \cup Elements(queue)
  BY <1>4, <1>11, <1>12 DEF Elements
<1>14. runQueue' # <<>> => Cardinality(workers') = MaxConcurrency
  BY <1>1, <1>2, <1>3, <1>7, <1>8 DEF free
<1> QED
  BY <1>1, <1>2, <1>4, <1>6, <1>7, <1>8, <1>9, <1>10, <1>13, <1>14 DEF free

\* A pump with fresh timers leaves the pool tidy, with the jobs it was given.
LEMMA PumpTidy ==
  ASSUME NEW queue \in Seq(Jobs), Distinct(queue), Len(queue) <= MaxQueue,
         NEW busy \in SUBSET Jobs, IsFiniteSet(busy), Cardinality(busy) <= MaxConcurrency,
         Elements(queue) \cap busy = {},
         timers' \in SUBSET Jobs, IsFiniteSet(timers'), Cardinality(timers') <= MaxPending,
         timers' \cap (busy \cup Elements(queue)) = {},
         Pump(queue, busy)
  PROVE  PoolTidy' /\ InPool' = timers' \cup busy \cup Elements(queue)
<1>1. /\ runQueue' \in Seq(Jobs) /\ Len(runQueue') <= Len(queue)
      /\ Distinct(runQueue')
      /\ workers' \in SUBSET Jobs /\ IsFiniteSet(workers')
      /\ Cardinality(workers') <= MaxConcurrency
      /\ runQueue' # <<>> => Cardinality(workers') = MaxConcurrency
      /\ Elements(runQueue') \cap workers' = {}
      /\ workers' \cup Elements(runQueue') = busy \cup Elements(queue)
  BY PumpFills
<1>2. PoolTypeOK'
  BY <1>1 DEF PoolTypeOK
<1>3. timers' \cap workers' = {} /\ Elements(runQueue') \cap (timers' \cup workers') = {}
  BY <1>1
<1>4. Len(runQueue') \in Nat /\ Len(queue) \in Nat /\ MaxQueue \in Nat
  BY <1>1, PoolAssumption
<1>5. Len(runQueue') <= MaxQueue
  BY <1>1, <1>4
<1>6. PoolSound'
  BY <1>1, <1>5 DEF PoolSound
<1>7. InPool' = timers' \cup workers' \cup Elements(runQueue')
  BY DEF InPool, Elements
<1> QED
  BY <1>1, <1>2, <1>3, <1>6, <1>7 DEF PoolTidy

\* A job not in the pool is scheduled while there is room for one more timer.
LEMMA RoomForTimer ==
  ASSUME PoolTidy, CanSchedule, NEW j \in Jobs, j \notin InPool
  PROVE  /\ timers \cup {j} \in SUBSET Jobs /\ IsFiniteSet(timers \cup {j})
         /\ Cardinality(timers \cup {j}) <= MaxPending
<1>1. /\ IsFiniteSet(timers \cup {j})
      /\ Cardinality(timers \cup {j}) = Cardinality(timers) + 1
  BY FS_AddElement DEF PoolTidy, InPool
<1>2. Cardinality(timers) \in Nat /\ MaxPending \in Nat
  BY FS_CardinalityType, PoolAssumption DEF PoolTidy
<1> QED
  BY <1>1, <1>2 DEF PoolTidy, PoolTypeOK, CanSchedule

\* setTimeout in scheduleDelayedJob.
LEMMA ScheduleTidy ==
  ASSUME PoolTidy, NEW j \in Jobs, j \notin InPool, Schedule(j)
  PROVE  PoolTidy' /\ InPool' = InPool \cup {j}
<1>1. /\ timers' \in SUBSET Jobs /\ IsFiniteSet(timers')
      /\ Cardinality(timers') <= MaxPending
      /\ timers' = timers \cup {j} /\ runQueue' = runQueue /\ workers' = workers
  BY RoomForTimer DEF Schedule
<1>2. j \notin workers /\ j \notin Elements(runQueue)
  BY DEF InPool, Elements
<1>3. PoolTypeOK' /\ PoolSound'
  BY <1>1 DEF PoolTidy, PoolTypeOK, PoolSound
<1> QED
  BY <1>1, <1>2, <1>3 DEF PoolTidy, InPool

\* A timer fires and its job is accepted: it goes through the queue.
LEMMA FireTidy ==
  ASSUME PoolTidy, NEW j, Fire(j)
  PROVE  PoolTidy' /\ InPool' = InPool
<1> DEFINE queue == Append(runQueue, j)
<1>1. /\ j \in timers /\ timers' = timers \ {j} /\ j \in Jobs
      /\ runQueue \in Seq(Jobs) /\ Pump(queue, workers)
      /\ Len(runQueue) \in Nat /\ MaxQueue \in Nat /\ ~(Len(runQueue) >= MaxQueue)
  BY PoolAssumption DEF Fire, PoolTidy, PoolTypeOK, Saturated
<1>2. /\ queue \in Seq(Jobs) /\ Len(queue) = Len(runQueue) + 1
      /\ \A i \in 1..Len(runQueue) : queue[i] = runQueue[i]
      /\ queue[Len(runQueue) + 1] = j
  BY <1>1
<1> HIDE DEF queue
<1>3. \A i \in 1..Len(queue) : i \in 1..Len(runQueue) \/ i = Len(runQueue) + 1
  BY <1>1, <1>2
<1>4. Elements(queue) = Elements(runQueue) \cup {j}
  BY <1>1, <1>2, <1>3 DEF Elements
<1>5. \A i \in 1..Len(runQueue) : runQueue[i] # j
  BY <1>1 DEF PoolTidy, Elements
<1>6. Distinct(queue)
  BY <1>2, <1>3, <1>5 DEF PoolTidy, Distinct
<1>7. IsFiniteSet(timers') /\ Cardinality(timers') <= MaxPending
  <2>1. IsFiniteSet(timers') /\ Cardinality(timers') = Cardinality(timers) - 1
    BY <1>1, FS_RemoveElement DEF PoolTidy
  <2>2. Cardinality(timers) \in Nat /\ MaxPending \in Nat
    BY FS_CardinalityType, PoolAssumption DEF PoolTidy
  <2> QED
    BY <2>1, <2>2 DEF PoolTidy, PoolSound
<1>8. Len(queue) <= MaxQueue
  BY <1>1, <1>2
<1>9. /\ workers \in SUBSET Jobs /\ IsFiniteSet(workers)
      /\ Cardinality(workers) <= MaxConcurrency
      /\ Elements(queue) \cap workers = {}
      /\ timers' \in SUBSET Jobs /\ timers' \cap (workers \cup Elements(queue)) = {}
  BY <1>1, <1>4 DEF PoolTidy, PoolTypeOK, PoolSound
<1>10. PoolTidy' /\ InPool' = timers' \cup workers \cup Elements(queue)
  BY <1>1, <1>2, <1>6, <1>7, <1>8, <1>9, PumpTidy
<1>11. InPool = timers \cup workers \cup Elements(runQueue)
  BY DEF InPool, Elements
<1> QED
  BY <1>1, <1>4, <1>10, <1>11

\* A timer fires while the queue is full.
LEMMA DropTidy ==
  ASSUME PoolTidy, NEW j, DropAtFire(j)
  PROVE  PoolTidy' /\ InPool' = InPool \ {j}
<1>1. /\ timers' = timers \ {j} /\ j \in timers
      /\ runQueue' = runQueue /\ workers' = workers
  BY DEF DropAtFire
<1>2. IsFiniteSet(timers') /\ Cardinality(timers') = Cardinality(timers) - 1
  BY <1>1, FS_RemoveElement DEF PoolTidy
<1>3. Cardinality(timers) \in Nat /\ MaxPending \in Nat
  BY FS_CardinalityType, PoolAssumption DEF PoolTidy
<1>4. PoolTypeOK' /\ PoolSound'
  BY <1>1, <1>2, <1>3 DEF PoolTidy, PoolTypeOK, PoolSound
<1>5. InPool = timers \cup workers \cup Elements(runQueue)
      /\ InPool' = timers' \cup workers \cup Elements(runQueue)
  BY <1>1 DEF InPool, Elements
<1>6. InPool' = InPool \ {j}
  BY <1>1, <1>5 DEF PoolTidy
<1> QED
  BY <1>1, <1>2, <1>4, <1>6 DEF PoolTidy

\* A worker ends its job and takes the next, whatever timers are set in the same step.
LEMMA FinishTidy ==
  ASSUME PoolTidy, NEW j \in workers, Pump(runQueue, workers \ {j}),
         timers' \in SUBSET Jobs, IsFiniteSet(timers'), Cardinality(timers') <= MaxPending,
         timers' \cap (workers \cup Elements(runQueue)) = {}
  PROVE  /\ PoolTidy' /\ InPool' \subseteq InPool \cup timers'
         /\ InPool' = timers' \cup (workers \ {j}) \cup Elements(runQueue)
<1> DEFINE busy == workers \ {j}
<1>1. IsFiniteSet(busy) /\ Cardinality(busy) = Cardinality(workers) - 1
  BY FS_RemoveElement DEF PoolTidy
<1>2. Cardinality(workers) \in Nat /\ MaxConcurrency \in Nat
  BY FS_CardinalityType, PoolAssumption DEF PoolTidy
<1>3. /\ busy \in SUBSET Jobs /\ Cardinality(busy) <= MaxConcurrency
      /\ runQueue \in Seq(Jobs) /\ Distinct(runQueue) /\ Len(runQueue) <= MaxQueue
      /\ Elements(runQueue) \cap busy = {}
      /\ timers' \cap (busy \cup Elements(runQueue)) = {}
  BY <1>1, <1>2 DEF PoolTidy, PoolTypeOK, PoolSound
<1> HIDE DEF busy
<1>4. PoolTidy' /\ InPool' = timers' \cup busy \cup Elements(runQueue)
  BY <1>1, <1>3, PumpTidy DEF busy
<1>5. InPool = timers \cup workers \cup Elements(runQueue)
  BY DEF InPool, Elements
<1> QED
  BY <1>4, <1>5 DEF busy

\* A restart empties the pool.
LEMMA LostTidy == ASSUME LosePool PROVE PoolTidy' /\ InPool' = {}
<1>1. timers' = {} /\ runQueue' = <<>> /\ workers' = {}
  BY DEF LosePool
<1>2. Elements(runQueue') = {}
  BY <1>1 DEF Elements
<1>3. InPool' = {}
  BY <1>1, <1>2 DEF InPool, Elements
<1>4. Distinct(runQueue')
  BY <1>1 DEF Distinct
<1>5. Cardinality({}) = 0 /\ IsFiniteSet({})
  BY FS_EmptySet
<1>6. PoolSound' /\ PoolTypeOK'
  BY <1>1, <1>5, PoolAssumption DEF PoolSound, PoolTypeOK
<1> QED
  BY <1>1, <1>2, <1>3, <1>4, <1>5, <1>6 DEF PoolTidy

-----------------------------------------------------------------------------
(* Who schedules what *)

\* An approval that has not pushed its titles yet has no job.
FreshChecks == \A c \in Checks : approval[c].pc \in {"unused", "push"} => c \notin InPool

\* A delivery has no job of an attempt it has not come to.
FreshRetries == \A e \in Events, n \in 1..MaxAttempts :
                   <<e, n>> \in InPool => n <= delivery[e].attempt

JobsMove ==
    \/ FollowUpStep /\ UNCHANGED agentVars
    \/ AgentStep /\ UNCHANGED followVars
    \/ LosePool /\ LoseFollowUp /\ LoseAgents
    \/ UNCHANGED <<poolVars, followVars, agentVars>>

\* What a step of the process does to the pool and to the two parts that share it.
LEMMA JobsSee == [ServerNext]_serverVars => JobsMove
<1>1. CASE InFollowUp(FollowUpStep)
  BY <1>1 DEF InFollowUp, JobsMove
<1>2. CASE InAgents(AgentStep)
  BY <1>2 DEF InAgents, JobsMove
<1>3. CASE InScans(ScanStep)
  BY <1>3 DEF InScans, JobsMove
<1>4. CASE InImports(ImportStep)
  BY <1>4 DEF InImports, JobsMove
<1>5. CASE Webhooks
  BY <1>5 DEF Webhooks, JobsMove
<1>6. CASE Access
  BY <1>6 DEF Access, workVars, JobsMove
<1>7. CASE Restart
  BY <1>7 DEF Restart, JobsMove
<1>8. CASE UNCHANGED serverVars
  BY <1>8 DEF serverVars, workVars, JobsMove
<1> QED
  BY <1>1, <1>2, <1>3, <1>4, <1>5, <1>6, <1>7, <1>8 DEF ServerNext

\* A step that leaves the pool alone.
LEMMA PoolQuiet ==
  ASSUME PoolTidy, UNCHANGED poolVars  PROVE PoolTidy' /\ InPool' = InPool
BY DEF poolVars, PoolTidy, PoolTypeOK, PoolSound, InPool, Distinct, Elements

\* Finish(j) as a case of FinishTidy.
LEMMA EndTidy ==
  ASSUME PoolTidy, NEW j, Finish(j)  PROVE PoolTidy' /\ InPool' = InPool \ {j}
<1>1. j \in workers /\ Pump(runQueue, workers \ {j}) /\ timers' = timers
  BY DEF Finish
<1>2. /\ timers' \in SUBSET Jobs /\ IsFiniteSet(timers') /\ Cardinality(timers') <= MaxPending
      /\ timers' \cap (workers \cup Elements(runQueue)) = {}
  BY <1>1 DEF PoolTidy, PoolTypeOK, PoolSound
<1>3. PoolTidy' /\ InPool' = timers' \cup (workers \ {j}) \cup Elements(runQueue)
  BY <1>1, <1>2, FinishTidy
<1>4. InPool = timers \cup workers \cup Elements(runQueue)
  BY DEF InPool, Elements
<1> QED
  BY <1>1, <1>3, <1>4 DEF PoolTidy

\* The follow-up's own jobs: each is scheduled by its approval, once.
LEMMA FollowUpPool ==
  ASSUME PoolTidy, FreshChecks, FollowTypeOK, FollowUpStep
  PROVE  PoolTidy' /\ FreshChecks' /\ InPool' \subseteq InPool \cup Checks
<1> USE FollowUpAssumption
<1>1. ASSUME NEW c \in Checks, Approve(c)
      PROVE  PoolTidy' /\ FreshChecks' /\ InPool' \subseteq InPool
  <2>1. /\ UNCHANGED poolVars /\ approval[c].pc = "unused"
        /\ \A b \in Checks \ {c} : approval'[b] = approval[b]
    BY <1>1 DEF Approve, FollowTypeOK
  <2>2. PoolTidy' /\ InPool' = InPool
    BY <2>1, PoolQuiet
  <2> QED
    BY <2>1, <2>2 DEF FreshChecks
<1>2. ASSUME NEW c \in Checks, Pushed(c)
      PROVE  PoolTidy' /\ FreshChecks' /\ InPool' \subseteq InPool \cup Checks
  <2>1. /\ approval[c].pc = "push" /\ approval' = [approval EXCEPT ![c].pc = "done"]
        /\ Schedule(c) \/ UNCHANGED poolVars
    BY <1>2 DEF Pushed
  <2>2. c \in Jobs /\ c \notin InPool
    BY <2>1 DEF FreshChecks
  <2>3. PoolTidy' /\ InPool' \subseteq InPool \cup {c}
    BY <2>1, <2>2, PoolQuiet, ScheduleTidy
  <2>4. /\ approval'[c].pc = "done"
        /\ \A b \in Checks \ {c} : approval'[b] = approval[b]
    BY <2>1 DEF FollowTypeOK
  <2> QED
    BY <2>3, <2>4 DEF FreshChecks
<1>3. ASSUME NEW c \in Checks, EndCheck(c) \/ FireCheck(c)
      PROVE  PoolTidy' /\ InPool' \subseteq InPool /\ UNCHANGED approval
  BY <1>3, EndTidy, FireTidy, DropTidy DEF EndCheck, FireCheck, followVars
<1>4. ASSUME NEW w \in Checkers, \/ Look(w) \/ Ask(w) \/ GiveUp(w) \/ Retire(w)
                                 \/ Claim(w) \/ Send(w)
      PROVE  UNCHANGED <<poolVars, approval>>
  BY <1>4 DEF Look, Ask, GiveUp, Retire, Claim, Send
<1>5. ASSUME SweepBegin  PROVE UNCHANGED <<poolVars, approval>>
  BY <1>5 DEF SweepBegin
<1>6. ASSUME NEW r \in Requests, \/ Elapse(r) \/ Decline(r) \/ Progress(r)
                                 \/ Arrive(r) /\ UNCHANGED poolVars
      PROVE  UNCHANGED <<poolVars, approval>>
  BY <1>6 DEF Elapse, Decline, Progress, Arrive
<1>7. ASSUME UNCHANGED approval, InPool' \subseteq InPool  PROVE FreshChecks'
  BY <1>7 DEF FreshChecks
<1>8. ASSUME UNCHANGED <<poolVars, approval>>
      PROVE  PoolTidy' /\ FreshChecks' /\ InPool' \subseteq InPool
  <2>1. PoolTidy' /\ InPool' = InPool
    BY <1>8, PoolQuiet
  <2> QED
    BY <1>7, <1>8, <2>1
<1>9. CASE \E c \in Checks : Approve(c) \/ Pushed(c) \/ EndCheck(c) \/ FireCheck(c)
  BY <1>1, <1>2, <1>3, <1>7, <1>9
<1>10. CASE \E w \in Checkers : \/ Look(w) \/ Ask(w) \/ GiveUp(w) \/ Retire(w)
                                \/ Claim(w) \/ Send(w)
  BY <1>4, <1>8, <1>10
<1>11. CASE SweepBegin
  BY <1>5, <1>8, <1>11
<1>12. CASE \E r \in Requests : \/ Elapse(r) \/ Decline(r) \/ Progress(r)
                                \/ Arrive(r) /\ UNCHANGED poolVars
  BY <1>6, <1>8, <1>12
<1> QED
  BY <1>9, <1>10, <1>11, <1>12 DEF FollowUpStep

\* The write of an outcome ends e's delivery, and no other.
LEMMA OutcomeEnds ==
  ASSUME AgentTypeOK, NEW e \in Events, RecordOutcome(e)
  PROVE  \E d : /\ delivery' = [delivery EXCEPT ![e] = d]
                /\ d.attempt = delivery[e].attempt /\ d.joined = NoAgent
                /\ d.pc \in {"recorded", "unrecorded"}
<1>1. \A pc \in {"recorded", "unrecorded"} :
         /\ Over(e, pc).attempt = delivery[e].attempt /\ Over(e, pc).joined = NoAgent
         /\ Over(e, pc).pc = pc
  BY OverRests DEF Rests
<1>2. CASE delivery' = [delivery EXCEPT ![e] = Over(e, "recorded")]
  BY <1>1, <1>2
<1>3. CASE delivery' = [delivery EXCEPT ![e] = Over(e, "unrecorded")]
  BY <1>1, <1>3
<1> QED
  BY <1>2, <1>3 DEF RecordOutcome, Becomes

\* An attempt that begins takes the cached agent, joins a read or starts one.
LEMMA BeginMoves ==
  ASSUME AgentTypeOK, NEW e \in Events, Begin(e)
  PROVE  \E d : /\ delivery' = [delivery EXCEPT ![e] = d]
                /\ d.attempt = delivery[e].attempt
                /\ \/ /\ d.pc \in {"send", "withdrawn"} /\ inflight' = inflight
                      /\ d.joined \in {delivery[e].joined, NoAgent}
                   \/ /\ d.pc = "join" /\ d.joined = inflight
                      /\ inflight # NoAgent /\ inflight' = inflight
                   \/ d.pc = "load" /\ d.joined = delivery[e].joined /\ inflight' = e
<1> DEFINE sends == [delivery[e] EXCEPT !.pc = "send", !.agent = cache, !.floor = known]
           joins == [delivery[e] EXCEPT !.pc = "join", !.joined = inflight, !.floor = known]
           loads == [delivery[e] EXCEPT !.pc = "load", !.gen = gen, !.floor = known]
           rests == Over(e, "withdrawn")
<1>1. /\ sends.attempt = delivery[e].attempt /\ sends.joined = delivery[e].joined
      /\ sends.pc = "send"
      /\ joins.attempt = delivery[e].attempt /\ joins.joined = inflight /\ joins.pc = "join"
      /\ loads.attempt = delivery[e].attempt /\ loads.joined = delivery[e].joined
      /\ loads.pc = "load"
  BY DEF AgentTypeOK, DeliveryType
<1>2. rests.attempt = delivery[e].attempt /\ rests.joined = NoAgent /\ rests.pc = "withdrawn"
  BY OverRests DEF Rests
<1>3. \/ /\ \/ delivery' = [delivery EXCEPT ![e] = sends]
            \/ delivery' = [delivery EXCEPT ![e] = rests]
         /\ inflight' = inflight
      \/ /\ delivery' = [delivery EXCEPT ![e] = joins]
         /\ inflight # NoAgent /\ inflight' = inflight
      \/ delivery' = [delivery EXCEPT ![e] = loads] /\ inflight' = e
  <2>1. CASE cache # NoAgent
    BY <2>1 DEF Begin, Becomes, AgentTypeOK, DeliveryType
  <2>2. CASE cache = NoAgent /\ inflight # NoAgent
    BY <2>2 DEF Begin, Becomes, AgentTypeOK, DeliveryType
  <2>3. CASE cache = NoAgent /\ inflight = NoAgent
    BY <2>3 DEF Begin, Becomes, AgentTypeOK, DeliveryType
  <2> QED
    BY <2>1, <2>2, <2>3
<1> HIDE DEF sends, joins, loads, rests
<1> QED
  BY <1>1, <1>2, <1>3

\* A read that ends, well or badly, ends it for everybody who waits for it.
LEMMA ReadEnds ==
  ASSUME AgentTypeOK, NEW e \in Events, Loaded(e) \/ ReadFails(e)
  PROVE  /\ inflight' = IF Current(e) THEN NoAgent ELSE inflight
         /\ \A f \in Events \ Sharing(e) : delivery'[f] = delivery[f]
         /\ \A f \in Sharing(e) :
              /\ delivery'[f].attempt = delivery[f].attempt /\ delivery'[f].joined = NoAgent
              /\ delivery'[f].pc \in {"send", "withdrawn", "unread"}
<1>1. \A f \in Events, pc \in {"withdrawn", "unread"} :
         /\ Over(f, pc).attempt = delivery[f].attempt /\ Over(f, pc).joined = NoAgent
         /\ Over(f, pc).pc = pc
  BY OverRests DEF Rests
<1>2. ASSUME NEW f \in Events, NEW agent
      PROVE  /\ With(f, agent).attempt = delivery[f].attempt
             /\ With(f, agent).joined = NoAgent
             /\ With(f, agent).pc \in {"send", "withdrawn"}
  <2>1. CASE agent.enabled
    BY <2>1 DEF With, AgentTypeOK, DeliveryType
  <2>2. CASE ~agent.enabled
    BY <1>1, <2>2 DEF With
  <2> QED
    BY <2>1, <2>2
<1>3. CASE Loaded(e)
  <2>1. /\ inflight' = IF Current(e) THEN NoAgent ELSE inflight
        /\ \A f \in Events \ Sharing(e) : delivery'[f] = delivery[f]
        /\ \A f \in Sharing(e) : f \in Events /\ delivery'[f] = With(f, delivery[e].agent)
    BY <1>3 DEF Loaded, Sharing
  <2> QED
    BY <1>2, <2>1
<1>4. CASE ReadFails(e)
  <2>1. /\ inflight' = IF Current(e) THEN NoAgent ELSE inflight
        /\ \A f \in Events \ Sharing(e) : delivery'[f] = delivery[f]
        /\ \A f \in Sharing(e) : f \in Events /\ delivery'[f] = Over(f, "unread")
    BY <1>4 DEF ReadFails, Sharing
  <2> QED
    BY <1>1, <2>1
<1> QED
  BY <1>3, <1>4

\* A dispatch that fails ends the delivery before its first post.
LEMMA DispatchEnds ==
  ASSUME AgentTypeOK, NEW e \in Events, DispatchFails(e)
  PROVE  /\ UNCHANGED <<poolVars, inflight>> /\ delivery[e].pc \in {"emitted", "send"}
         /\ \E d : /\ delivery' = [delivery EXCEPT ![e] = d]
                   /\ d.attempt = delivery[e].attempt /\ d.joined = NoAgent
                   /\ d.pc = "unread"
<1>1. LET d == Over(e, "unread") IN d.attempt = delivery[e].attempt /\ d.joined = NoAgent
                                    /\ d.pc = "unread"
  BY OverRests DEF Rests
<1> QED
  BY <1>1 DEF DispatchFails, Becomes

\* The retries: the job of the next attempt is scheduled as the worker of this one ends.
LEMMA AgentsPool ==
  ASSUME PoolTidy, FreshRetries, AgentTypeOK, AgentStep
  PROVE  PoolTidy' /\ FreshRetries' /\ InPool' \subseteq InPool \cup Retries
<1> USE AgentAssumption
<1>1. ASSUME \A e \in Events : delivery'[e].attempt = delivery[e].attempt,
             InPool' \subseteq InPool
      PROVE  FreshRetries'
  BY <1>1 DEF FreshRetries
<1>2. ASSUME NEW e \in Events, NEW d, delivery' = [delivery EXCEPT ![e] = d],
             d.attempt = delivery[e].attempt
      PROVE  \A f \in Events : delivery'[f].attempt = delivery[f].attempt
  BY <1>2 DEF AgentTypeOK
<1>3. ASSUME Edit \/ Invalidate \/ ExpireCache
      PROVE  UNCHANGED <<poolVars, delivery>>
  BY <1>3 DEF Edit, Invalidate, ExpireCache
<1>4. ASSUME NEW e \in Events,
             Begin(e) \/ ReadRow(e) \/ Loaded(e) \/ ReadFails(e) \/ DispatchFails(e)
      PROVE  /\ UNCHANGED poolVars
             /\ \A f \in Events : delivery'[f].attempt = delivery[f].attempt
  <2>1. CASE Begin(e)
    <3>1. UNCHANGED poolVars
      BY <2>1 DEF Begin
    <3> QED
      BY <1>2, <2>1, <3>1, BeginMoves
  <2>2. CASE ReadRow(e)
    BY <1>2, <2>2 DEF ReadRow, Becomes, AgentTypeOK, DeliveryType
  <2>3. CASE Loaded(e) \/ ReadFails(e)
    BY <2>3, ReadEnds DEF Loaded, ReadFails
  <2>4. CASE DispatchFails(e)
    BY <1>2, <2>4, DispatchEnds
  <2> QED
    BY <1>4, <2>1, <2>2, <2>3, <2>4
<1>5. ASSUME NEW e \in Events, Deliver(e)
      PROVE  PoolTidy' /\ FreshRetries' /\ InPool' \subseteq InPool
  <2>1. \A f \in Events : delivery'[f].attempt = delivery[f].attempt
    BY <1>2, <1>5, OutcomeEnds DEF Deliver
  <2>2. PoolTidy' /\ InPool' \subseteq InPool
    BY <1>5, PoolQuiet, EndTidy DEF Deliver, EndAttempt
  <2> QED
    BY <1>1, <2>1, <2>2
<1>6. ASSUME NEW e \in Events, Withdrawn(e)
      PROVE  PoolTidy' /\ InPool' \subseteq InPool /\ UNCHANGED delivery
  BY <1>6, PoolQuiet, EndTidy DEF Withdrawn, EndAttempt, agentVars
<1>7. ASSUME NEW e \in Events, FireRetry(e)
      PROVE  PoolTidy' /\ FreshRetries' /\ InPool' \subseteq InPool
  <2>1. \A f \in Events : delivery'[f].attempt = delivery[f].attempt
    <3>1. UNCHANGED delivery \/ RecordOutcome(e)
      BY <1>7 DEF FireRetry, RecordDrop
    <3> QED
      BY <1>2, <3>1, OutcomeEnds
  <2>2. PoolTidy' /\ InPool' \subseteq InPool
    BY <1>7, FireTidy, DropTidy DEF FireRetry
  <2> QED
    BY <1>1, <2>1, <2>2
<1>8. ASSUME NEW e \in Events, Retry(e)
      PROVE  PoolTidy' /\ FreshRetries' /\ InPool' \subseteq InPool \cup Retries
  <2> DEFINE next == delivery[e].attempt + 1
             old  == <<e, delivery[e].attempt>>
             job  == <<e, next>>
  <2>1. delivery[e].attempt \in 0..MaxAttempts /\ AttemptsLeft(e)
    BY <1>8 DEF Retry, AgentTypeOK, DeliveryType
  <2>2. next \in 1..MaxAttempts /\ job \in Retries /\ job \in Jobs
    BY <2>1 DEF AttemptsLeft, Retries
  <2>3. job \notin InPool
    BY <2>1, <2>2 DEF FreshRetries
  <2>4. IF old \in workers THEN Pump(runQueue, workers \ {old})
                           ELSE UNCHANGED <<runQueue, workers>>
    BY <1>8 DEF Retry
  <2>5. ASSUME UNCHANGED timers  PROVE PoolTidy' /\ InPool' \subseteq InPool
    <3>1. CASE old \in workers
      BY <2>4, <2>5, <3>1, EndTidy DEF Finish
    <3>2. CASE old \notin workers
      BY <2>4, <2>5, <3>2, PoolQuiet DEF poolVars
    <3> QED
      BY <3>1, <3>2
  <2>6. ASSUME CanSchedule, timers' = timers \cup {job}
        PROVE  PoolTidy' /\ InPool' \subseteq InPool \cup {job}
    <3>1. CASE old \in workers
      <4>1. /\ timers' \in SUBSET Jobs /\ IsFiniteSet(timers')
            /\ Cardinality(timers') <= MaxPending
        BY <2>2, <2>3, <2>6, RoomForTimer
      <4>2. timers' \cap (workers \cup Elements(runQueue)) = {}
        BY <2>3, <2>6 DEF PoolTidy, InPool, Elements
      <4>3. PoolTidy' /\ InPool' \subseteq InPool \cup timers'
        BY <2>4, <3>1, <4>1, <4>2, FinishTidy
      <4> QED
        BY <2>6, <4>3 DEF InPool
    <3>2. CASE old \notin workers
      BY <2>2, <2>3, <2>4, <2>6, <3>2, ScheduleTidy DEF Schedule
    <3> QED
      BY <3>1, <3>2
  <2>7. CASE CanSchedule
    <3>1. /\ timers' = timers \cup {job}
          /\ delivery' = [delivery EXCEPT ![e] = [NotEmitted EXCEPT !.pc = "wait",
                                                                   !.attempt = next]]
      BY <1>8, <2>7 DEF Retry, Becomes
    <3>2. /\ delivery'[e].attempt = next
          /\ \A f \in Events \ {e} : delivery'[f] = delivery[f]
      BY <3>1 DEF AgentTypeOK, NotEmitted
    <3>3. PoolTidy' /\ InPool' \subseteq InPool \cup {job}
      BY <2>6, <2>7, <3>1
    <3>4. ASSUME NEW f \in Events, NEW n \in 1..MaxAttempts, <<f, n>> \in InPool'
          PROVE  n <= delivery'[f].attempt
      <4>1. CASE <<f, n>> = job
        BY <2>1, <3>2, <4>1
      <4>2. CASE <<f, n>> \in InPool
        <5>1. n <= delivery[f].attempt /\ n \in Nat
          BY <4>2 DEF FreshRetries
        <5>2. delivery[e].attempt <= delivery'[e].attempt
          BY <2>1, <3>2
        <5> QED
          BY <2>1, <2>2, <3>2, <5>1, <5>2
      <4> QED
        BY <3>3, <3>4, <4>1, <4>2
    <3> QED
      BY <2>2, <3>3, <3>4 DEF FreshRetries
  <2>8. CASE ~CanSchedule
    <3>1. UNCHANGED timers /\ RecordOutcome(e)
      BY <1>8, <2>8 DEF Retry
    <3>2. \A f \in Events : delivery'[f].attempt = delivery[f].attempt
      BY <1>2, <3>1, OutcomeEnds
    <3> QED
      BY <1>1, <2>5, <3>1, <3>2
  <2> QED
    BY <2>7, <2>8
<1> QED
  BY <1>1, <1>3, <1>4, <1>5, <1>6, <1>7, <1>8, PoolQuiet DEF AgentStep

-----------------------------------------------------------------------------
(* The follow-up (DownloadFollowUp) *)

FollowMove == FollowUpStep \/ LoseFollowUp \/ UNCHANGED followVars

LEMMA FollowSees == [ServerNext]_serverVars => FollowMove
BY JobsSee DEF JobsMove, FollowMove

\* A checker at work has a row; an approval not given yet has none.
FollowSound ==
    /\ FollowTypeOK
    /\ \A c \in Checks : approval[c].pc = "unused" => approval[c].rows = {}
    /\ \A w \in Checkers : checker[w].pc # "idle" => checker[w].at \in Requests

FollowRow == [status : {"NONE", "PENDING", "APPROVED", "DECLINED", "AVAILABLE"},
              armed  : Checks \cup {NoRow}, due : BOOLEAN]

FollowChecker == [pc : {"idle", "ask", "retire", "claim", "send"}, todo : SUBSET Requests,
                  at : Requests \cup {NoRow}]

\* What a step writes into a row stays a row.
LEMMA RowTypes ==
  ASSUME FollowTypeOK, NEW r \in Requests
  PROVE  /\ row[r] \in FollowRow /\ Consumed(r) \in FollowRow
         /\ \A c \in Checks : Armed(r, c) \in FollowRow
         /\ \A s \in {"PENDING", "DECLINED", "AVAILABLE"} : Moved(r, s) \in FollowRow
<1>1. row[r] \in FollowRow
  BY DEF FollowTypeOK, FollowRow
<1>2. Consumed(r) \in FollowRow
  BY <1>1 DEF Consumed, FollowRow
<1>3. ASSUME NEW c \in Checks  PROVE Armed(r, c) \in FollowRow
  BY <1>1 DEF Armed, FollowRow
<1>4. ASSUME NEW s \in {"PENDING", "DECLINED", "AVAILABLE"}  PROVE Moved(r, s) \in FollowRow
  BY <1>1 DEF Moved, FollowRow
<1> QED
  BY <1>1, <1>2, <1>3, <1>4

\* A checker that moves on, or leaves its row, stays one.
LEMMA CheckerMoves ==
  ASSUME FollowSound, NEW w \in Checkers,
         \/ Leave(w)
         \/ \E pc \in {"retire", "claim", "send"} : At(w, pc) /\ checker[w].pc # "idle"
  PROVE  /\ checker' \in [Checkers -> FollowChecker]
         /\ \A v \in Checkers : checker'[v].pc # "idle" => checker'[v].at \in Requests
         /\ \A v \in Checkers \ {w} : checker'[v] = checker[v]
<1>1. checker[w] \in FollowChecker /\ checker \in [Checkers -> FollowChecker]
  BY DEF FollowSound, FollowTypeOK, FollowChecker
<1>2. CASE Leave(w)
  <2> DEFINE left == [checker[w] EXCEPT !.pc = "idle", !.at = NoRow]
  <2>1. checker' = [checker EXCEPT ![w] = left]
    BY <1>1, <1>2 DEF Leave
  <2>2. left \in FollowChecker /\ left.pc = "idle"
    BY <1>1 DEF FollowChecker
  <2> HIDE DEF left
  <2> QED
    BY <1>1, <2>1, <2>2 DEF FollowSound
<1>3. ASSUME NEW pc \in {"retire", "claim", "send"}, At(w, pc), checker[w].pc # "idle"
      PROVE  /\ checker' \in [Checkers -> FollowChecker]
             /\ \A v \in Checkers : checker'[v].pc # "idle" => checker'[v].at \in Requests
             /\ \A v \in Checkers \ {w} : checker'[v] = checker[v]
  <2> DEFINE moved == [checker[w] EXCEPT !.pc = pc]
  <2>1. checker' = [checker EXCEPT ![w] = moved]
    BY <1>1, <1>3 DEF At
  <2>2. moved \in FollowChecker /\ moved.at = checker[w].at
    BY <1>1 DEF FollowChecker
  <2> HIDE DEF moved
  <2> QED
    BY <1>1, <1>3, <2>1, <2>2 DEF FollowSound
<1> QED
  BY <1>2, <1>3

LEMMA FollowSoundStep == ASSUME FollowSound, FollowMove PROVE FollowSound'
<1> USE FollowUpAssumption
<1> DEFINE Held == \A w \in Checkers : checker'[w].pc # "idle" => checker'[w].at \in Requests
<1>1. /\ row \in [Requests -> FollowRow] /\ checker \in [Checkers -> FollowChecker]
      /\ approval \in [Checks -> [pc : {"unused", "push", "done"}, rows : SUBSET Requests]]
  BY DEF FollowSound, FollowTypeOK, FollowRow, FollowChecker
<1>2. ASSUME row' \in [Requests -> FollowRow], checker' \in [Checkers -> FollowChecker], Held,
             UNCHANGED <<download, approval, told>>, faults' \in 0..MaxFaults
      PROVE  FollowSound'
  BY <1>2 DEF FollowSound, FollowTypeOK, FollowRow, FollowChecker
<1>3. faults \in 0..MaxFaults /\ \A w \in Checkers : checker[w].pc # "idle"
                                                   => checker[w].at \in Requests
  BY DEF FollowSound, FollowTypeOK
<1>4. ASSUME NEW c \in Checks, Approve(c)  PROVE FollowSound'
  <2>1. PICK R \in SUBSET Requests \ {{}} :
          /\ row' = [r \in Requests |-> IF r \in R THEN Armed(r, c) ELSE row[r]]
          /\ approval' = [approval EXCEPT ![c] = [pc |-> "push", rows |-> R]]
    BY <1>4 DEF Approve
  <2>2. row' \in [Requests -> FollowRow]
    BY <2>1, RowTypes DEF FollowSound
  <2>3. /\ approval' \in [Checks -> [pc : {"unused", "push", "done"}, rows : SUBSET Requests]]
        /\ \A b \in Checks : approval'[b].pc = "unused" => approval'[b].rows = {}
    BY <1>1, <2>1 DEF FollowSound
  <2> QED
    BY <1>4, <2>2, <2>3 DEF Approve, FollowSound, FollowTypeOK, FollowRow
<1>5. ASSUME NEW c \in Checks, Pushed(c)  PROVE FollowSound'
  <2>1. PICK refused \in SUBSET approval[c].rows :
          /\ row' = [r \in Requests |-> IF r \in refused /\ row[r].status = "APPROVED"
                                        THEN Moved(r, "PENDING") ELSE row[r]]
          /\ \/ checker' = [checker EXCEPT ![c].todo = approval[c].rows \ refused]
             \/ UNCHANGED checker
    BY <1>5 DEF Pushed
  <2>2. row' \in [Requests -> FollowRow]
    BY <2>1, RowTypes DEF FollowSound
  <2>3. checker' \in [Checkers -> FollowChecker] /\ Held
    <3> DEFINE todo == approval[c].rows \ refused
               set  == [checker[c] EXCEPT !.todo = todo]
    <3>1. c \in Checkers /\ checker[c] \in FollowChecker /\ todo \in SUBSET Requests
      BY <1>1 DEF Checkers
    <3>2. /\ set \in FollowChecker /\ set.pc = checker[c].pc /\ set.at = checker[c].at
      BY <3>1 DEF FollowChecker
    <3>3. CASE checker' = [checker EXCEPT ![c] = set]
      <4> HIDE DEF set
      <4> QED
        BY <1>1, <1>3, <3>1, <3>2, <3>3
    <3>4. CASE UNCHANGED checker
      BY <1>1, <1>3, <3>4
    <3> QED
      BY <1>1, <2>1, <3>1, <3>3, <3>4
  <2>4. /\ approval' \in [Checks -> [pc : {"unused", "push", "done"}, rows : SUBSET Requests]]
        /\ \A b \in Checks : approval'[b].pc = "unused" => approval'[b].rows = {}
    <3>1. approval' = [approval EXCEPT ![c].pc = "done"]
      BY <1>5 DEF Pushed
    <3> QED
      BY <1>1, <3>1 DEF FollowSound
  <2>5. UNCHANGED <<download, told, faults>>
    BY <1>5 DEF Pushed
  <2> QED
    BY <2>2, <2>3, <2>4, <2>5 DEF FollowSound, FollowTypeOK, FollowRow, FollowChecker
<1>6. ASSUME UNCHANGED followVars  PROVE FollowSound'
  BY <1>6 DEF followVars, FollowSound, FollowTypeOK
<1>7. ASSUME NEW w \in Checkers, Look(w)  PROVE FollowSound'
  <2>1. PICK r \in checker[w].todo :
          checker' = [checker EXCEPT
            ![w] = IF row[r].status = "APPROVED"
                   THEN [pc |-> "ask", todo |-> @.todo \ {r}, at |-> r]
                   ELSE [@ EXCEPT !.todo = checker[w].todo \ {r}]]
    BY <1>7 DEF Look
  <2> DEFINE asks  == [pc |-> "ask", todo |-> checker[w].todo \ {r}, at |-> r]
             skips == [checker[w] EXCEPT !.todo = checker[w].todo \ {r}]
  <2>2. checker[w] \in FollowChecker /\ r \in Requests /\ checker[w].pc = "idle"
    BY <1>1, <1>7, <2>1 DEF FollowChecker, Look
  <2>4. asks \in FollowChecker /\ asks.at \in Requests
    BY <2>2 DEF FollowChecker
  <2>5. skips \in FollowChecker /\ skips.pc = "idle"
    BY <2>2 DEF FollowChecker
  <2>6. \/ checker' = [checker EXCEPT ![w] = asks]
        \/ checker' = [checker EXCEPT ![w] = skips]
    <3>1. checker' = [checker EXCEPT ![w] = IF row[r].status = "APPROVED" THEN asks ELSE skips]
      BY <2>1
    <3> HIDE DEF asks, skips
    <3>2. CASE row[r].status = "APPROVED"
      BY <3>1, <3>2
    <3>3. CASE row[r].status # "APPROVED"
      BY <3>1, <3>3
    <3> QED
      BY <3>2, <3>3
  <2> HIDE DEF asks, skips
  <2>3. checker' \in [Checkers -> FollowChecker] /\ Held
    BY <1>1, <1>3, <2>4, <2>5, <2>6
  <2> QED
    BY <1>1, <1>2, <1>3, <1>7, <2>3 DEF Look
<1>8. ASSUME NEW w \in Checkers, Ask(w) \/ GiveUp(w) \/ Retire(w) \/ Claim(w)
      PROVE  FollowSound'
  <2>1. \/ Leave(w)
        \/ \E pc \in {"retire", "claim", "send"} : At(w, pc) /\ checker[w].pc # "idle"
    BY <1>8 DEF Ask, GiveUp, Retire, Claim
  <2>2. checker' \in [Checkers -> FollowChecker] /\ Held
    BY <2>1, CheckerMoves
  <2>3. row' \in [Requests -> FollowRow]
    BY <1>1, <1>8, RowTypes DEF Ask, GiveUp, Retire, Claim, Consume, FollowSound
  <2>4. UNCHANGED <<download, approval, told>> /\ faults' \in 0..MaxFaults
    BY <1>3, <1>8 DEF Ask, GiveUp, Retire, Claim
  <2> QED
    BY <1>2, <2>2, <2>3, <2>4
<1>9. ASSUME NEW w \in Checkers, Send(w)  PROVE FollowSound'
  <2>1. checker' \in [Checkers -> FollowChecker] /\ Held
    BY <1>9, CheckerMoves DEF Send
  <2>2. told' \in [Requests -> Nat] /\ UNCHANGED <<row, download, approval, faults>>
    BY <1>9 DEF Send, FollowSound, FollowTypeOK
  <2> QED
    BY <2>1, <2>2 DEF FollowSound, FollowTypeOK, FollowChecker
<1>10. ASSUME SweepBegin  PROVE FollowSound'
  <2>1. PICK overdue \in SUBSET Requests :
          checker' = [checker EXCEPT ![Sweep].todo = overdue]
    BY <1>10 DEF SweepBegin
  <2> DEFINE set == [checker[Sweep] EXCEPT !.todo = overdue]
  <2>2. Sweep \in Checkers /\ checker[Sweep] \in FollowChecker
    BY <1>1 DEF Checkers
  <2>3. set \in FollowChecker /\ set.pc = checker[Sweep].pc /\ set.at = checker[Sweep].at
    BY <2>2 DEF FollowChecker
  <2>4. checker' = [checker EXCEPT ![Sweep] = set]
    BY <1>1, <2>1, <2>2
  <2> HIDE DEF set
  <2>5. checker' \in [Checkers -> FollowChecker] /\ Held
    BY <1>1, <1>3, <2>2, <2>3, <2>4
  <2> QED
    BY <1>1, <1>2, <1>3, <1>10, <2>5 DEF SweepBegin
<1>11. ASSUME NEW r \in Requests, Elapse(r) \/ Decline(r) \/ Arrive(r)
       PROVE  FollowSound'
  <2>1. row' \in [Requests -> FollowRow]
    <3>1. CASE Elapse(r)
      BY <1>1, <3>1 DEF Elapse, FollowRow
    <3>2. CASE Decline(r) \/ Arrive(r)
      BY <1>1, <3>2, RowTypes DEF Decline, Arrive, FollowSound
    <3> QED
      BY <1>11, <3>1, <3>2
  <2> QED
    BY <1>1, <1>2, <1>3, <1>11, <2>1 DEF Elapse, Decline, Arrive
<1>12. ASSUME NEW r \in Requests, Progress(r)  PROVE FollowSound'
  <2>1. download' \in [Requests -> {"waiting", "queued", "onDisk"}]
    BY <1>12 DEF Progress, FollowSound, FollowTypeOK
  <2> QED
    BY <1>12, <2>1 DEF Progress, FollowSound, FollowTypeOK
<1>13. ASSUME LoseFollowUp  PROVE FollowSound'
  <2>1. checker' \in [Checkers -> FollowChecker] /\ Held
    BY <1>13 DEF LoseFollowUp, IdleChecker, FollowChecker
  <2>2. /\ approval' \in [Checks -> [pc : {"unused", "push", "done"}, rows : SUBSET Requests]]
        /\ \A b \in Checks : approval'[b].pc = "unused" => approval'[b].rows = {}
    BY <1>1, <1>13 DEF LoseFollowUp, FollowSound
  <2> QED
    BY <1>13, <2>1, <2>2 DEF LoseFollowUp, FollowSound, FollowTypeOK, FollowChecker
<1>14. ASSUME NEW c \in Checks, EndCheck(c) \/ FireCheck(c)  PROVE FollowSound'
  BY <1>6, <1>14 DEF EndCheck, FireCheck
<1>15. CASE \E c \in Checks : Approve(c) \/ Pushed(c) \/ EndCheck(c) \/ FireCheck(c)
  BY <1>4, <1>5, <1>14, <1>15
<1>16. CASE \E w \in Checkers : \/ Look(w) \/ Ask(w) \/ GiveUp(w) \/ Retire(w)
                                \/ Claim(w) \/ Send(w)
  BY <1>7, <1>8, <1>9, <1>16
<1>17. CASE \E r \in Requests : \/ Elapse(r) \/ Decline(r) \/ Progress(r)
                                \/ Arrive(r) /\ UNCHANGED poolVars
  BY <1>11, <1>12, <1>17
<1> QED
  BY <1>6, <1>10, <1>13, <1>15, <1>16, <1>17 DEF FollowMove, FollowUpStep

LEMMA FollowInvariant == ServerSpec => []FollowSound
<1>1. ASSUME ServerInit  PROVE FollowSound
  <2>1. PICK w \in Workloads : FollowInit(w.requests, w.checks)
    BY <1>1 DEF ServerInit
  <2> QED
    BY <2>1, FollowUpAssumption DEF FollowInit, FollowSound, FollowTypeOK, IdleChecker
<1>2. FollowSound /\ [ServerNext]_serverVars => FollowSound'
  BY FollowSees, FollowSoundStep
<1> QED
  BY <1>1, <1>2, PTL DEF ServerSpec

-----------------------------------------------------------------------------
(* The pool, with everybody in it *)

JobsSound == PoolTidy /\ FreshChecks /\ FreshRetries

LEMMA JobsSoundStep ==
  ASSUME JobsSound, FollowSound, AgentSound, JobsMove  PROVE JobsSound'
<1>1. FollowTypeOK /\ AgentTypeOK
  BY DEF FollowSound, AgentSound
<1>2. CASE FollowUpStep /\ UNCHANGED agentVars
  <2>1. PoolTidy' /\ FreshChecks' /\ InPool' \subseteq InPool \cup Checks
    BY <1>1, <1>2, FollowUpPool DEF JobsSound
  <2>2. \A e \in Events, n \in 1..MaxAttempts : <<e, n>> \in Retries
    BY DEF Retries
  <2>3. FreshRetries'
    BY <1>2, <2>1, <2>2, ProcessAssumption DEF JobsSound, FreshRetries, agentVars
  <2> QED
    BY <2>1, <2>3 DEF JobsSound
<1>3. CASE AgentStep /\ UNCHANGED followVars
  <2>1. PoolTidy' /\ FreshRetries' /\ InPool' \subseteq InPool \cup Retries
    BY <1>1, <1>3, AgentsPool DEF JobsSound
  <2>2. FreshChecks'
    BY <1>3, <2>1, ProcessAssumption DEF JobsSound, FreshChecks, followVars
  <2> QED
    BY <2>1, <2>2 DEF JobsSound
<1>4. CASE LosePool
  BY <1>4, LostTidy DEF JobsSound, FreshChecks, FreshRetries
<1>5. CASE UNCHANGED <<poolVars, followVars, agentVars>>
  <2>1. PoolTidy' /\ InPool' = InPool
    BY <1>5, PoolQuiet DEF JobsSound
  <2> QED
    BY <1>5, <2>1 DEF JobsSound, FreshChecks, FreshRetries, followVars, agentVars
<1> QED
  BY <1>2, <1>3, <1>4, <1>5 DEF JobsMove

LEMMA JobsInvariant == ServerSpec => []JobsSound
<1>1. ASSUME ServerInit  PROVE JobsSound
  <2>1. timers = {} /\ runQueue = <<>> /\ workers = {}
    BY <1>1 DEF ServerInit, PoolInit
  <2>2. Elements(runQueue) = {} /\ InPool = {} /\ Distinct(runQueue)
    BY <2>1 DEF Elements, InPool, Distinct
  <2>3. PoolTidy
    BY <2>1, <2>2, FS_EmptySet, PoolAssumption DEF PoolTidy, PoolTypeOK, PoolSound
  <2> QED
    BY <2>2, <2>3 DEF JobsSound, FreshChecks, FreshRetries
<1>2. JobsSound /\ FollowSound /\ AgentSound /\ [ServerNext]_serverVars => JobsSound'
  BY JobsSee, JobsSoundStep
<1> QED
  BY <1>1, <1>2, FollowInvariant, AgentInvariant, PTL DEF ServerSpec

\* The pool keeps within its limits, and no job waits while a worker is free, though checks
\* and retries share it and a retry is scheduled as its worker ends (lib/delayed-jobs.ts).
THEOREM PoolSafe == ServerSpec => []PoolSound
<1>1. JobsSound => PoolSound
  BY DEF JobsSound, PoolTidy
<1> QED
  BY <1>1, JobsInvariant, PTL

-----------------------------------------------------------------------------
(* Told once for each approval (DownloadFollowUp) *)

ApprovalsOf(r) == {c \in Checks : r \in approval[c].rows}
Tellers(r)   == {w \in Checkers : checker[w].pc = "send" /\ checker[w].at = r}
ToTell(r)    == IF row[r].armed # NoRow THEN 1 ELSE 0

\* The notices sent, those about to be sent and the backstop that is still armed are paid
\* for by different approvals.
PaidFor(r) ==
    /\ IsFiniteSet(ApprovalsOf(r)) /\ IsFiniteSet(Tellers(r))
    /\ told[r] + Cardinality(Tellers(r)) + ToTell(r) <= Cardinality(ApprovalsOf(r))

ToldSound == \A r \in Requests : PaidFor(r)

\* No step that neither approves, nor claims, nor sends makes a notice more.
LEMMA NoMoreNotices ==
  ASSUME FollowSound, NEW r \in Requests, PaidFor(r),
         ApprovalsOf(r)' = ApprovalsOf(r), Tellers(r)' \subseteq Tellers(r),
         told'[r] = told[r], row'[r].armed # NoRow => row[r].armed # NoRow
  PROVE  PaidFor(r)'
<1>1. /\ IsFiniteSet(Tellers(r)') /\ Cardinality(Tellers(r)') <= Cardinality(Tellers(r))
      /\ Cardinality(Tellers(r)') \in Nat /\ Cardinality(Tellers(r)) \in Nat
      /\ Cardinality(ApprovalsOf(r)) \in Nat
  BY FS_Subset, FS_CardinalityType DEF PaidFor
<1>2. told[r] \in Nat /\ ToTell(r)' <= ToTell(r) /\ ToTell(r) \in Nat /\ ToTell(r)' \in Nat
  BY DEF FollowSound, FollowTypeOK, ToTell
<1> QED
  BY <1>1, <1>2 DEF PaidFor

\* An approval of r arms its backstop: one notice more to come, at the most.
LEMMA ApprovePays ==
  ASSUME FollowSound, ToldSound, NEW c \in Checks, Approve(c)  PROVE ToldSound'
<1>1. PICK R \in SUBSET Requests \ {{}} :
        /\ row' = [r \in Requests |-> IF r \in R THEN Armed(r, c) ELSE row[r]]
        /\ approval' = [approval EXCEPT ![c] = [pc |-> "push", rows |-> R]]
        /\ UNCHANGED <<checker, told>> /\ approval[c].pc = "unused"
  BY DEF Approve
<1>2. /\ approval[c].rows = {} /\ approval'[c].rows = R
      /\ \A b \in Checks \ {c} : approval'[b] = approval[b]
  BY <1>1 DEF FollowSound, FollowTypeOK
<1> SUFFICES ASSUME NEW r \in Requests  PROVE PaidFor(r)'
  BY DEF ToldSound
<1>3. PaidFor(r) /\ Tellers(r)' = Tellers(r) /\ told'[r] = told[r]
  BY <1>1 DEF ToldSound, Tellers
<1>4. CASE r \in R
  <2>1. ApprovalsOf(r)' = ApprovalsOf(r) \cup {c} /\ c \notin ApprovalsOf(r)
    BY <1>2, <1>4 DEF ApprovalsOf
  <2>2. /\ IsFiniteSet(ApprovalsOf(r)')
        /\ Cardinality(ApprovalsOf(r)') = Cardinality(ApprovalsOf(r)) + 1
    BY <1>3, <2>1, FS_AddElement DEF PaidFor
  <2>3. /\ told[r] \in Nat /\ ToTell(r)' <= 1 /\ ToTell(r) >= 0
        /\ ToTell(r)' \in Nat /\ ToTell(r) \in Nat
    BY DEF FollowSound, FollowTypeOK, ToTell
  <2>4. Cardinality(ApprovalsOf(r)) \in Nat /\ Cardinality(Tellers(r)) \in Nat
    BY <1>3, FS_CardinalityType DEF PaidFor
  <2> QED
    BY <1>3, <2>2, <2>3, <2>4 DEF PaidFor
<1>5. CASE r \notin R
  <2>1. ApprovalsOf(r)' = ApprovalsOf(r)
    BY <1>2, <1>5 DEF ApprovalsOf
  <2>2. row'[r] = row[r]
    BY <1>1, <1>5
  <2> QED
    BY <1>3, <2>1, <2>2, NoMoreNotices
<1> QED
  BY <1>4, <1>5

\* A checker that leaves, or moves on to anything but a notice, tells nobody.
LEMMA NoTeller ==
  ASSUME FollowSound, NEW w \in Checkers,
         \A v \in Checkers \ {w} : checker'[v] = checker[v],
         checker'[w].pc # "send",
         NEW r
  PROVE  Tellers(r)' = Tellers(r) \ {w}
BY DEF Tellers

\* The claim turns the armed backstop into a notice about to be sent.
LEMMA ClaimPays ==
  ASSUME FollowSound, ToldSound, NEW w \in Checkers, Claim(w)  PROVE ToldSound'
<1> DEFINE at == checker[w].at
<1>1. /\ at \in Requests /\ checker[w].pc = "claim" /\ UNCHANGED <<approval, told>>
      /\ row' = [r \in Requests |-> IF r = at /\ Consumable(r) THEN Consumed(r) ELSE row[r]]
      /\ IF Consumable(at) /\ at \notin Muted THEN At(w, "send") ELSE Leave(w)
  BY DEF Claim, Consume, FollowSound
<1> HIDE DEF at
<1>2. \A v \in Checkers \ {w} : checker'[v] = checker[v]
  BY <1>1, CheckerMoves
<1>3. \A r \in Requests : row'[r].armed # NoRow => row[r].armed # NoRow
  <2>1. \A r \in Requests : row'[r] \in {row[r], Consumed(r)}
    BY <1>1
  <2>2. \A r \in Requests : Consumed(r).armed = NoRow
    BY DEF Consumed, FollowSound, FollowTypeOK
  <2> QED
    BY <2>1, <2>2
<1>4. \A r \in Requests : PaidFor(r) /\ ApprovalsOf(r)' = ApprovalsOf(r) /\ told'[r] = told[r]
  BY <1>1 DEF ToldSound, ApprovalsOf
<1> SUFFICES ASSUME NEW r \in Requests  PROVE PaidFor(r)'
  BY DEF ToldSound
<1>5. CASE Tellers(r)' \subseteq Tellers(r)
  BY <1>3, <1>4, <1>5, NoMoreNotices
<1>6. CASE ~(Tellers(r)' \subseteq Tellers(r))
  <2>1. Consumable(at) /\ At(w, "send")
    <3>1. Leave(w) => checker'[w].pc = "idle"
      BY DEF Leave, FollowSound, FollowTypeOK
    <3> QED
      BY <1>1, <1>2, <1>6, <3>1, NoTeller
  <2>2. checker'[w].pc = "send" /\ checker'[w].at = at
    BY <2>1 DEF At, FollowSound, FollowTypeOK, at
  <2>3. r = at /\ Tellers(r)' = Tellers(r) \cup {w} /\ w \notin Tellers(r)
    BY <1>1, <1>2, <1>6, <2>2 DEF Tellers
  <2>4. ToTell(r) = 1 /\ ToTell(r)' = 0
    <3>1. row[r].armed # NoRow
      BY <2>1, <2>3 DEF Consumable
    <3>2. row'[r] = Consumed(r)
      BY <1>1, <2>1, <2>3
    <3>3. row'[r].armed = NoRow
      BY <3>2 DEF Consumed, FollowSound, FollowTypeOK
    <3> QED
      BY <3>1, <3>3 DEF ToTell
  <2>5. IsFiniteSet(Tellers(r)') /\ Cardinality(Tellers(r)') = Cardinality(Tellers(r)) + 1
    BY <1>4, <2>3, FS_AddElement DEF PaidFor
  <2>6. /\ Cardinality(ApprovalsOf(r)) \in Nat /\ Cardinality(Tellers(r)) \in Nat
        /\ told[r] \in Nat
    BY <1>4, FS_CardinalityType DEF PaidFor, FollowSound, FollowTypeOK
  <2> QED
    BY <1>4, <2>4, <2>5, <2>6 DEF PaidFor
<1> QED
  BY <1>5, <1>6

\* The notice is sent: its sender leaves.
LEMMA SendPays ==
  ASSUME FollowSound, ToldSound, NEW w \in Checkers, Send(w)  PROVE ToldSound'
<1> DEFINE at == checker[w].at
<1>1. /\ at \in Requests /\ checker[w].pc = "send" /\ UNCHANGED <<approval, row>>
      /\ told' = [told EXCEPT ![at] = told[at] + 1] /\ Leave(w)
  BY DEF Send, FollowSound
<1>2. /\ \A v \in Checkers \ {w} : checker'[v] = checker[v]
      /\ checker'[w].pc = "idle"
  <2>1. \A v \in Checkers \ {w} : checker'[v] = checker[v]
    BY <1>1, CheckerMoves
  <2>2. checker'[w].pc = "idle"
    BY <1>1 DEF Leave, FollowSound, FollowTypeOK
  <2> QED
    BY <2>1, <2>2
<1> HIDE DEF at
<1> SUFFICES ASSUME NEW r \in Requests  PROVE PaidFor(r)'
  BY DEF ToldSound
<1>3. PaidFor(r) /\ ApprovalsOf(r)' = ApprovalsOf(r) /\ ToTell(r)' = ToTell(r)
  BY <1>1 DEF ToldSound, ApprovalsOf, ToTell
<1>4. Tellers(r)' = Tellers(r) \ {w}
  BY <1>2, NoTeller
<1>5. CASE r = at
  <2>1. w \in Tellers(r)
    BY <1>1, <1>5 DEF Tellers, at
  <2>2. IsFiniteSet(Tellers(r)') /\ Cardinality(Tellers(r)') = Cardinality(Tellers(r)) - 1
    BY <1>3, <1>4, <2>1, FS_RemoveElement DEF PaidFor
  <2>3. told[r] \in Nat /\ told'[r] = told[r] + 1 /\ ToTell(r) \in Nat
    BY <1>1, <1>5 DEF FollowSound, FollowTypeOK, ToTell
  <2>4. Cardinality(ApprovalsOf(r)) \in Nat /\ Cardinality(Tellers(r)) \in Nat
    BY <1>3, FS_CardinalityType DEF PaidFor
  <2> QED
    BY <1>3, <2>2, <2>3, <2>4 DEF PaidFor
<1>6. CASE r # at
  <2>1. told'[r] = told[r]
    BY <1>1, <1>6 DEF FollowSound, FollowTypeOK
  <2> QED
    BY <1>1, <1>3, <1>4, <2>1, NoMoreNotices
<1> QED
  BY <1>5, <1>6

LEMMA ToldSoundStep == ASSUME FollowSound, ToldSound, FollowMove PROVE ToldSound'
<1>1. ASSUME \A c \in Checks : approval'[c].rows = approval[c].rows,
             \A w \in Checkers : checker'[w].pc = "send" => checker'[w] = checker[w],
             UNCHANGED told,
             \A r \in Requests : row'[r].armed # NoRow => row[r].armed # NoRow
      PROVE  ToldSound'
  <2> SUFFICES ASSUME NEW r \in Requests  PROVE PaidFor(r)'
    BY DEF ToldSound
  <2>1. ApprovalsOf(r)' = ApprovalsOf(r) /\ Tellers(r)' \subseteq Tellers(r)
    BY <1>1 DEF ApprovalsOf, Tellers
  <2> QED
    BY <1>1, <2>1, NoMoreNotices DEF ToldSound
<1>2. ASSUME NEW c \in Checks, Pushed(c)  PROVE ToldSound'
  <2>1. PICK refused \in SUBSET approval[c].rows :
          /\ row' = [r \in Requests |-> IF r \in refused /\ row[r].status = "APPROVED"
                                        THEN Moved(r, "PENDING") ELSE row[r]]
          /\ \/ checker' = [checker EXCEPT ![c].todo = approval[c].rows \ refused]
             \/ UNCHANGED checker
          /\ approval' = [approval EXCEPT ![c].pc = "done"] /\ UNCHANGED told
    BY <1>2 DEF Pushed
  <2>2. \A r \in Requests : row'[r].armed # NoRow => row[r].armed # NoRow
    <3>1. \A r \in Requests : row'[r] \in {row[r], Moved(r, "PENDING")}
      BY <2>1
    <3>2. \A r \in Requests : Moved(r, "PENDING").armed = NoRow
      BY DEF Moved, FollowSound, FollowTypeOK
    <3> QED
      BY <3>1, <3>2
  <2>3. \A b \in Checks : approval'[b].rows = approval[b].rows
    BY <2>1 DEF FollowSound, FollowTypeOK
  <2>4. CASE UNCHANGED checker
    BY <1>1, <2>1, <2>2, <2>3, <2>4
  <2>5. CASE checker' = [checker EXCEPT ![c].todo = approval[c].rows \ refused]
    <3>2. /\ c \in Checkers
          /\ \A v \in Checkers : /\ checker'[v].pc = checker[v].pc
                                /\ checker'[v].at = checker[v].at
      BY <2>5 DEF Tellers, Checkers, FollowSound, FollowTypeOK
    <3>3. ASSUME NEW r \in Requests  PROVE PaidFor(r)'
      <4>1. ApprovalsOf(r)' = ApprovalsOf(r) /\ Tellers(r)' = Tellers(r)
        BY <2>3, <3>2 DEF ApprovalsOf, Tellers
      <4> QED
        BY <2>1, <2>2, <4>1, NoMoreNotices DEF ToldSound
    <3> QED
      BY <3>3 DEF ToldSound
  <2> QED
    BY <2>1, <2>4, <2>5
<1>3. ASSUME UNCHANGED <<approval, told, row>>,
             \A w \in Checkers : checker'[w].pc = "send" => checker'[w] = checker[w]
      PROVE  ToldSound'
  BY <1>1, <1>3
<1>4. ASSUME NEW w \in Checkers, checker'[w].pc # "send",
             \A v \in Checkers \ {w} : checker'[v] = checker[v]
      PROVE  \A v \in Checkers : checker'[v].pc = "send" => checker'[v] = checker[v]
  BY <1>4
<1>5. ASSUME NEW w \in Checkers, Leave(w) \/ At(w, "claim") \/ At(w, "retire"),
             checker[w].pc # "idle"
      PROVE  \A v \in Checkers : checker'[v].pc = "send" => checker'[v] = checker[v]
  <2>1. \A v \in Checkers \ {w} : checker'[v] = checker[v]
    BY <1>5, CheckerMoves
  <2>2. checker'[w].pc # "send"
    BY <1>5 DEF Leave, At, FollowSound, FollowTypeOK
  <2> QED
    BY <1>4, <2>1, <2>2
<1>6. ASSUME NEW w \in Checkers, Look(w)  PROVE ToldSound'
  <2>1. PICK d : checker' = [checker EXCEPT ![w] = d] /\ d.pc \in {"ask", "idle"}
    <3>1. PICK r \in checker[w].todo :
            checker' = [checker EXCEPT
              ![w] = IF row[r].status = "APPROVED"
                     THEN [pc |-> "ask", todo |-> @.todo \ {r}, at |-> r]
                     ELSE [@ EXCEPT !.todo = checker[w].todo \ {r}]]
      BY <1>6 DEF Look
    <3>2. /\ [pc |-> "ask", todo |-> checker[w].todo \ {r}, at |-> r].pc = "ask"
          /\ [checker[w] EXCEPT !.todo = checker[w].todo \ {r}].pc = "idle"
      BY <1>6 DEF Look, FollowSound, FollowTypeOK
    <3>3. CASE row[r].status = "APPROVED"
      BY <3>1, <3>2, <3>3
    <3>4. CASE row[r].status # "APPROVED"
      BY <3>1, <3>2, <3>4
    <3> QED
      BY <3>3, <3>4
  <2>2. \A v \in Checkers : checker'[v].pc = "send" => checker'[v] = checker[v]
    BY <2>1 DEF FollowSound, FollowTypeOK
  <2> QED
    BY <1>3, <1>6, <2>2 DEF Look
<1>7. ASSUME NEW w \in Checkers, Ask(w) \/ GiveUp(w)  PROVE ToldSound'
  <2>1. Leave(w) \/ At(w, "claim") \/ At(w, "retire")
    BY <1>7 DEF Ask, GiveUp
  <2>2. checker[w].pc # "idle" /\ UNCHANGED <<approval, told, row>>
    BY <1>7 DEF Ask, GiveUp
  <2> QED
    BY <1>3, <1>5, <2>1, <2>2
<1>8. ASSUME NEW w \in Checkers, Retire(w)  PROVE ToldSound'
  <2>1. Leave(w) /\ checker[w].pc # "idle" /\ UNCHANGED <<approval, told>>
    BY <1>8 DEF Retire
  <2>2. \A r \in Requests : row'[r] \in {row[r], Consumed(r)}
    BY <1>8 DEF Retire, Consume
  <2>3. \A r \in Requests : Consumed(r).armed = NoRow
    BY DEF Consumed, FollowSound, FollowTypeOK
  <2> QED
    BY <1>1, <1>5, <2>1, <2>2, <2>3
<1>9. ASSUME SweepBegin  PROVE ToldSound'
  <2>1. checker[Sweep].pc = "idle" /\ UNCHANGED <<approval, told, row>>
    BY <1>9 DEF SweepBegin, IdleChecker
  <2>2. PICK overdue : checker' = [checker EXCEPT ![Sweep].todo = overdue]
    BY <1>9 DEF SweepBegin
  <2>3. \A v \in Checkers : checker'[v].pc = "send" => checker'[v] = checker[v]
    BY <2>1, <2>2 DEF FollowSound, FollowTypeOK
  <2> QED
    BY <1>3, <2>1, <2>3
<1>10. ASSUME NEW r \in Requests, Elapse(r) \/ Decline(r) \/ Arrive(r)  PROVE ToldSound'
  <2>1. UNCHANGED <<approval, told, checker>>
    BY <1>10 DEF Elapse, Decline, Arrive
  <2>2. \A q \in Requests : row'[q].armed # NoRow => row[q].armed # NoRow
    <3>1. CASE Elapse(r)
      BY <3>1 DEF Elapse, FollowSound, FollowTypeOK
    <3>2. CASE Decline(r) \/ Arrive(r)
      <4>1. PICK s : row' = [row EXCEPT ![r] = Moved(r, s)]
        BY <3>2 DEF Decline, Arrive
      <4>2. Moved(r, s).armed = NoRow
        BY DEF Moved, FollowSound, FollowTypeOK
      <4> QED
        BY <4>1, <4>2 DEF FollowSound, FollowTypeOK
    <3> QED
      BY <1>10, <3>1, <3>2
  <2> QED
    BY <1>1, <2>1, <2>2
<1>11. ASSUME NEW r \in Requests, Progress(r)  PROVE ToldSound'
  BY <1>3, <1>11 DEF Progress
<1>12. ASSUME LoseFollowUp  PROVE ToldSound'
  <2>1. \A c \in Checks : approval'[c].rows = approval[c].rows
    BY <1>12 DEF LoseFollowUp, FollowSound, FollowTypeOK
  <2>2. \A w \in Checkers : checker'[w].pc # "send"
    BY <1>12 DEF LoseFollowUp, IdleChecker
  <2> QED
    BY <1>1, <1>12, <2>1, <2>2 DEF LoseFollowUp
<1>13. ASSUME UNCHANGED followVars  PROVE ToldSound'
  BY <1>3, <1>13 DEF followVars
<1>14. ASSUME NEW c \in Checks, EndCheck(c) \/ FireCheck(c)  PROVE ToldSound'
  BY <1>13, <1>14 DEF EndCheck, FireCheck
<1>15. CASE \E c \in Checks : Approve(c) \/ Pushed(c) \/ EndCheck(c) \/ FireCheck(c)
  BY <1>2, <1>14, <1>15, ApprovePays
<1>16. CASE \E w \in Checkers : \/ Look(w) \/ Ask(w) \/ GiveUp(w) \/ Retire(w)
                                \/ Claim(w) \/ Send(w)
  BY <1>6, <1>7, <1>8, <1>16, ClaimPays, SendPays
<1>17. CASE \E r \in Requests : \/ Elapse(r) \/ Decline(r) \/ Progress(r)
                                \/ Arrive(r) /\ UNCHANGED poolVars
  BY <1>10, <1>11, <1>17
<1> QED
  BY <1>9, <1>12, <1>13, <1>15, <1>16, <1>17 DEF FollowMove, FollowUpStep

LEMMA ToldInvariant == ServerSpec => []ToldSound
<1>1. ASSUME ServerInit  PROVE ToldSound
  <2>1. PICK w \in Workloads : FollowInit(w.requests, w.checks)
    BY <1>1 DEF ServerInit
  <2>2. ASSUME NEW r \in Requests  PROVE PaidFor(r)
    <3>1. ApprovalsOf(r) = {} /\ Tellers(r) = {} /\ ToTell(r) = 0 /\ told[r] = 0
      BY <2>1 DEF FollowInit, ApprovalsOf, Tellers, ToTell, IdleChecker
    <3> QED
      BY <3>1, FS_EmptySet DEF PaidFor
  <2> QED
    BY <2>2 DEF ToldSound
<1>2. ToldSound /\ FollowSound /\ [ServerNext]_serverVars => ToldSound'
  BY FollowSees, ToldSoundStep
<1> QED
  BY <1>1, <1>2, FollowInvariant, PTL DEF ServerSpec

\* A requester is told "it has not started" once for an approval, however the jobs, the
\* sweep, re-approvals and restarts overlap (lib/download-check.ts): there are never more
\* notices than approvals of the request.
THEOREM ToldOnceSafe == ServerSpec => []ToldOncePerApproval
<1>1. ASSUME ToldSound, FollowSound, NEW r \in Requests
      PROVE  told[r] <= Cardinality(ApprovalsOf(r))
  <2>1. /\ PaidFor(r) /\ told[r] \in Nat /\ ToTell(r) \in Nat
        /\ Cardinality(Tellers(r)) \in Nat /\ Cardinality(ApprovalsOf(r)) \in Nat
    BY <1>1, FS_CardinalityType DEF ToldSound, PaidFor, FollowSound, FollowTypeOK, ToTell
  <2> QED
    BY <2>1 DEF PaidFor
<1>2. ToldSound /\ FollowSound => ToldOncePerApproval
  BY <1>1 DEF ToldOncePerApproval, ApprovalsOf
<1> QED
  BY <1>2, ToldInvariant, FollowInvariant, PTL
-----------------------------------------------------------------------------
(* No retry is lost, and none outlives its delivery (AgentDelivery) *)

\* The attempts that a job of the pool may be for.
Underway == {"wait", "load", "join", "read", "send", "withdrawn", "unread"}

\* A delivery that waits for its next attempt has the job of it in the pool; a job of the
\* pool is for the attempt its delivery has come to, and has no worker only while that
\* delivery waits.
RetryHeld(e) ==
    /\ delivery[e].pc = "wait" => <<e, delivery[e].attempt>> \in Retries \cap InPool
    /\ \A n \in 1..MaxAttempts : <<e, n>> \in InPool =>
         /\ n = delivery[e].attempt /\ delivery[e].pc \in Underway
         /\ <<e, n>> \notin workers => delivery[e].pc = "wait"

\* A delivery that joined a read waits for one that will hand it the agent.
ReadAwaited(e) ==
    /\ delivery[e].joined # NoAgent <=> delivery[e].pc = "join"
    /\ delivery[e].pc = "join" => delivery[delivery[e].joined].pc \in {"load", "read"}

DeliveriesHeld ==
    /\ inflight # NoAgent => delivery[inflight].pc \in {"load", "read"}
    /\ \A e \in Events : RetryHeld(e) /\ ReadAwaited(e)

\* A step leaves job j where it is, or moves it on towards a worker.
Untouched(j) == /\ j \in InPool' <=> j \in InPool
                /\ j \in workers => j \in workers'

\* The pump takes no worker from its job.
LEMMA PumpKeeps == ASSUME NEW queue, NEW busy, Pump(queue, busy) PROVE busy \subseteq workers'
BY DEF Pump

\* What a timer, a drop and an end do to job j and to another job i.
LEMMA FireTouches ==
  ASSUME PoolTidy, NEW j, Fire(j), NEW i  PROVE Untouched(i)
<1>1. InPool' = InPool /\ workers \subseteq workers'
  BY FireTidy, PumpKeeps DEF Fire
<1> QED
  BY <1>1 DEF Untouched

LEMMA DropTouches ==
  ASSUME PoolTidy, NEW j, DropAtFire(j)
  PROVE  j \notin InPool' /\ \A i : i # j => Untouched(i)
<1>1. InPool' = InPool \ {j} /\ workers' = workers
  BY DropTidy DEF DropAtFire
<1> QED
  BY <1>1 DEF Untouched

LEMMA EndTouches ==
  ASSUME PoolTidy, NEW j, Finish(j)
  PROVE  j \notin InPool' /\ \A i : i # j => Untouched(i)
<1>1. InPool' = InPool \ {j} /\ workers \ {j} \subseteq workers'
  BY EndTidy, PumpKeeps DEF Finish
<1> QED
  BY <1>1 DEF Untouched

LEMMA QuietTouches == ASSUME UNCHANGED poolVars, NEW i PROVE Untouched(i)
BY DEF poolVars, InPool, Untouched

\* The worker of one attempt ends in the step that schedules the next.
LEMMA RetryTouches ==
  ASSUME PoolTidy, CanSchedule, NEW old, NEW job \in Jobs, job \notin InPool,
         timers' = timers \cup {job},
         IF old \in workers THEN Pump(runQueue, workers \ {old})
                            ELSE UNCHANGED <<runQueue, workers>>
  PROVE  /\ job \in InPool'
         /\ old \in workers => old \notin InPool'
         /\ \A i : i # job /\ (i # old \/ old \notin workers) => Untouched(i)
<1>1. InPool = timers \cup workers \cup Elements(runQueue) /\ job \in InPool'
  BY DEF InPool, Elements
<1>2. CASE old \in workers
  <2>1. /\ timers' \in SUBSET Jobs /\ IsFiniteSet(timers')
        /\ Cardinality(timers') <= MaxPending
    BY RoomForTimer
  <2>2. timers' \cap (workers \cup Elements(runQueue)) = {}
    BY <1>1 DEF PoolTidy
  <2>3. /\ InPool' = timers' \cup (workers \ {old}) \cup Elements(runQueue)
        /\ workers \ {old} \subseteq workers'
    BY <1>2, <2>1, <2>2, FinishTidy, PumpKeeps
  <2>4. old # job /\ old \notin timers /\ old \notin Elements(runQueue)
    BY <1>1, <1>2 DEF PoolTidy
  <2> QED
    BY <1>1, <1>2, <2>3, <2>4 DEF Untouched
<1>3. CASE old \notin workers
  <2>1. InPool' = timers' \cup workers \cup Elements(runQueue) /\ workers' = workers
    BY <1>3 DEF InPool, Elements
  <2> QED
    BY <1>1, <1>3, <2>1 DEF Untouched
<1> QED
  BY <1>2, <1>3

\* A delivery that keeps its state keeps its job.
LEMMA HeldStill ==
  ASSUME NEW e \in Events, RetryHeld(e),
         delivery'[e].attempt = delivery[e].attempt,
         \/ delivery'[e].pc = delivery[e].pc
         \/ delivery'[e].pc \in Underway \ {"wait"}
            /\ \A n \in 1..MaxAttempts : <<e, n>> \in InPool
                 => <<e, n>> \in workers /\ delivery[e].pc \in Underway,
         \A n \in 1..MaxAttempts : Untouched(<<e, n>>)
  PROVE  RetryHeld(e)'
BY DEF RetryHeld, Untouched, Retries

\* A delivery that leaves the pool.
LEMMA HeldOut ==
  ASSUME NEW e \in Events, delivery'[e].pc # "wait",
         \A n \in 1..MaxAttempts : <<e, n>> \notin InPool'
  PROVE  RetryHeld(e)'
BY DEF RetryHeld

\* A delivery that waits for its next attempt.
LEMMA HeldNext ==
  ASSUME NEW e \in Events, NEW m \in 1..MaxAttempts, delivery'[e].attempt = m, delivery'[e].pc = "wait",
         <<e, m>> \in InPool', \A n \in 1..MaxAttempts : <<e, n>> \in InPool' => n = m
  PROVE  RetryHeld(e)'
BY DEF RetryHeld, Underway, Retries

\* Everybody else's job stays when one of e's attempts ends, fires or is scheduled.
LEMMA OthersHeld ==
  ASSUME NEW e \in Events, \A f \in Events \ {e} : RetryHeld(f) /\ delivery'[f] = delivery[f],
         \A i : (\A n : i # <<e, n>>) => Untouched(i),
         RetryHeld(e)'
  PROVE  \A f \in Events : RetryHeld(f)'
<1>1. ASSUME NEW f \in Events \ {e}  PROVE RetryHeld(f)'
  <2>1. \A n : Untouched(<<f, n>>)
    OBVIOUS
  <2> QED
    BY <2>1, HeldStill
<1> QED
  BY <1>1

LEMMA RetriesStep ==
  ASSUME PoolTidy, AgentTypeOK, DeliveriesHeld, AgentStep
  PROVE  \A e \in Events : RetryHeld(e)'
<1> USE AgentAssumption
<1>0. /\ \A e \in Events : RetryHeld(e) /\ ReadAwaited(e) /\ delivery[e].attempt \in 0..MaxAttempts
      /\ delivery \in [Events -> DeliveryType]
  BY DEF DeliveriesHeld, AgentTypeOK, DeliveryType
<1>1. CASE Edit \/ Invalidate \/ ExpireCache
  <2>1. UNCHANGED <<poolVars, delivery>>
    BY <1>1 DEF Edit, Invalidate, ExpireCache
  <2>2. ASSUME NEW e \in Events  PROVE RetryHeld(e)'
    <3>1. \A n : Untouched(<<e, n>>)
      BY <2>1, QuietTouches
    <3> QED
      BY <1>0, <2>1, <3>1, HeldStill
  <2> QED
    BY <2>2
<1>2. ASSUME NEW e \in Events,
             Begin(e) \/ ReadRow(e) \/ Loaded(e) \/ ReadFails(e) \/ DispatchFails(e)
      PROVE  \A f \in Events : RetryHeld(f)'
  <2>1. UNCHANGED poolVars
    BY <1>2 DEF Begin, ReadRow, Loaded, ReadFails, DispatchFails
  <2>2. ASSUME NEW f \in Events,
               \/ delivery'[f] = delivery[f]
               \/ /\ delivery'[f].attempt = delivery[f].attempt
                  /\ delivery'[f].pc \in {"load", "join", "read", "send", "withdrawn", "unread"}
                  /\ delivery[f].pc = "wait" => <<f, delivery[f].attempt>> \in workers
        PROVE  RetryHeld(f)'
    <3>1. \A n : Untouched(<<f, n>>)
      BY <2>1, QuietTouches
    <3>2. CASE delivery'[f] = delivery[f]
      BY <1>0, <3>1, <3>2, HeldStill
    <3>3. CASE delivery'[f] # delivery[f]
      <4>1. ASSUME NEW n \in 1..MaxAttempts, <<f, n>> \in InPool
            PROVE  <<f, n>> \in workers /\ delivery[f].pc \in Underway
        BY <1>0, <2>2, <3>3, <4>1 DEF RetryHeld
      <4>2. delivery'[f].pc \in Underway \ {"wait"}
        BY <2>2, <3>3 DEF Underway
      <4> QED
        BY <1>0, <2>2, <3>1, <3>3, <4>1, <4>2, HeldStill
    <3> QED
      BY <3>2, <3>3
  <2>3. ASSUME NEW d, delivery' = [delivery EXCEPT ![e] = d],
               d.attempt = delivery[e].attempt,
               d.pc \in {"load", "join", "read", "send", "withdrawn", "unread"},
               delivery[e].pc = "wait" => <<e, delivery[e].attempt>> \in workers
        PROVE  \A f \in Events : RetryHeld(f)'
    <3>1. delivery'[e] = d /\ \A f \in Events \ {e} : delivery'[f] = delivery[f]
      BY <1>0, <2>3
    <3> QED
      BY <2>2, <2>3, <3>1
  <2>4. CASE Begin(e)
    <3>1. delivery[e].pc = "wait" => <<e, delivery[e].attempt>> \in workers
      BY <2>4 DEF Begin
    <3> QED
      BY <2>3, <2>4, <3>1, BeginMoves
  <2>5. CASE ReadRow(e)
    <3> DEFINE d == [delivery[e] EXCEPT !.pc = "read", !.agent = agentRow]
    <3>1. /\ delivery' = [delivery EXCEPT ![e] = d] /\ delivery[e].pc = "load"
          /\ d.attempt = delivery[e].attempt /\ d.pc = "read"
      BY <1>0, <2>5 DEF ReadRow, Becomes, DeliveryType
    <3> HIDE DEF d
    <3> QED
      BY <2>3, <3>1
  <2>6. CASE Loaded(e) \/ ReadFails(e)
    <3>1. \A f \in Sharing(e) : delivery[f].pc \in {"load", "read", "join"}
      BY <1>0, <2>6 DEF Loaded, ReadFails, Sharing, ReadAwaited
    <3> QED
      BY <2>2, <2>6, <3>1, ReadEnds
  <2>7. CASE DispatchFails(e)
    BY <2>3, <2>7, DispatchEnds
  <2> QED
    BY <1>2, <2>4, <2>5, <2>6, <2>7
<1>3. ASSUME NEW e \in Events, EndAttempt(e),
             delivery[e].pc \in {"send", "withdrawn", "unread"},
             \A f \in Events \ {e} : delivery'[f] = delivery[f],
             delivery'[e].pc # "wait"
      PROVE  \A f \in Events : RetryHeld(f)'
  <2> DEFINE job == <<e, delivery[e].attempt>>
  <2>1. \A n \in 1..MaxAttempts : <<e, n>> \in InPool => <<e, n>> = job /\ job \in workers
    BY <1>0, <1>3 DEF RetryHeld
  <2>2. /\ \A i : i # job \/ job \notin workers => Untouched(i)
        /\ job \in workers => job \notin InPool'
    BY <1>3, EndTouches, QuietTouches DEF EndAttempt
  <2> HIDE DEF job
  <2>3. ASSUME NEW n \in 1..MaxAttempts, <<e, n>> \in InPool'  PROVE FALSE
    <3>1. <<e, n>> \notin InPool
      BY <2>1, <2>2, <2>3
    <3> QED
      BY <2>2, <2>3, <3>1 DEF Untouched
  <2>4. RetryHeld(e)'
    BY <1>3, <2>3, HeldOut
  <2>5. \A i : (\A n : i # <<e, n>>) => Untouched(i)
    BY <2>2 DEF job
  <2> QED
    BY <1>0, <1>3, <2>4, <2>5, OthersHeld
<1>4. ASSUME NEW e \in Events, Deliver(e)  PROVE \A f \in Events : RetryHeld(f)'
  <2>1. EndAttempt(e) /\ delivery[e].pc = "send" /\ RecordOutcome(e)
    BY <1>4 DEF Deliver
  <2>2. /\ delivery'[e].pc \in {"recorded", "unrecorded"}
        /\ \A f \in Events \ {e} : delivery'[f] = delivery[f]
    BY <1>0, <2>1, OutcomeEnds
  <2> QED
    BY <1>3, <2>1, <2>2
<1>5. ASSUME NEW e \in Events, Withdrawn(e)  PROVE \A f \in Events : RetryHeld(f)'
  BY <1>3, <1>5 DEF Withdrawn, agentVars
<1>6. ASSUME NEW e \in Events, Retry(e)  PROVE \A f \in Events : RetryHeld(f)'
  <2> DEFINE next == delivery[e].attempt + 1
             old  == <<e, delivery[e].attempt>>
             job  == <<e, next>>
  <2>1. /\ delivery[e].attempt \in 0..MaxAttempts /\ delivery[e].pc = "send"
        /\ next \in 1..MaxAttempts /\ job \in Jobs
    BY <1>0, <1>6 DEF Retry, AttemptsLeft, Retries
  <2>2. \A n \in 1..MaxAttempts : <<e, n>> \in InPool => n = delivery[e].attempt /\ old \in workers
    BY <1>0, <2>1 DEF RetryHeld
  <2>3. IF old \in workers THEN Pump(runQueue, workers \ {old})
                           ELSE UNCHANGED <<runQueue, workers>>
    BY <1>6 DEF Retry
  <2>4. CASE CanSchedule
    <3>1. /\ timers' = timers \cup {job}
          /\ delivery' = [delivery EXCEPT ![e] = [NotEmitted EXCEPT !.pc = "wait",
                                                                   !.attempt = next]]
      BY <1>6, <2>4 DEF Retry, Becomes
    <3>2. /\ delivery'[e].attempt = next /\ delivery'[e].pc = "wait"
          /\ \A f \in Events \ {e} : delivery'[f] = delivery[f]
      BY <1>0, <3>1 DEF NotEmitted
    <3>3. job \notin InPool /\ job # old
      BY <2>1, <2>2
    <3>4. /\ job \in InPool'
          /\ old \in workers => old \notin InPool'
          /\ \A i : i # job /\ (i # old \/ old \notin workers) => Untouched(i)
      BY <2>1, <2>3, <2>4, <3>1, <3>3, RetryTouches
    <3>5. ASSUME NEW n \in 1..MaxAttempts, <<e, n>> \in InPool'  PROVE n = next
      <4>1. <<e, n>> \in InPool => <<e, n>> = old /\ old \in workers
        BY <2>2
      <4> HIDE DEF old, job
      <4>2. <<e, n>> = job
        BY <3>4, <3>5, <4>1 DEF Untouched
      <4> QED
        BY <4>2 DEF job
    <3>6. RetryHeld(e)'
      BY <2>1, <3>2, <3>4, <3>5, HeldNext
    <3> QED
      BY <1>0, <3>2, <3>4, <3>6, OthersHeld
  <2>5. CASE ~CanSchedule
    <3>1. UNCHANGED timers /\ RecordOutcome(e)
      BY <1>6, <2>5 DEF Retry
    <3>2. EndAttempt(e)
      BY <2>3, <3>1 DEF EndAttempt, Finish, poolVars
    <3>3. /\ delivery'[e].pc \in {"recorded", "unrecorded"}
          /\ \A f \in Events \ {e} : delivery'[f] = delivery[f]
      BY <1>0, <3>1, OutcomeEnds
    <3> QED
      BY <1>3, <2>1, <3>2, <3>3
  <2> QED
    BY <2>4, <2>5
<1>7. ASSUME NEW e \in Events, FireRetry(e)  PROVE \A f \in Events : RetryHeld(f)'
  <2>1. PICK n \in 1..MaxAttempts : \/ Fire(<<e, n>>) /\ UNCHANGED delivery
                                    \/ DropAtFire(<<e, n>>) /\ RecordDrop(e)
    BY <1>7 DEF FireRetry
  <2>2. CASE Fire(<<e, n>>) /\ UNCHANGED delivery
    <3>1. ASSUME NEW f \in Events  PROVE RetryHeld(f)'
      <4>1. \A m : Untouched(<<f, m>>)
        BY <2>2, FireTouches
      <4> QED
        BY <1>0, <2>2, <4>1, HeldStill
    <3> QED
      BY <3>1
  <2>3. CASE DropAtFire(<<e, n>>) /\ RecordDrop(e)
    <3>1. <<e, n>> \notin InPool' /\ \A i : i # <<e, n>> => Untouched(i)
      BY <2>3, DropTouches
    <3>2. <<e, n>> \in InPool
      BY <2>3 DEF DropAtFire, InPool
    <3>3. /\ delivery'[e].pc \in {"recorded", "unrecorded"}
          /\ \A f \in Events \ {e} : delivery'[f] = delivery[f]
      BY <1>0, <2>3, OutcomeEnds DEF RecordDrop
    <3>4. ASSUME NEW m \in 1..MaxAttempts, <<e, m>> \in InPool'  PROVE FALSE
      <4>1. m # n /\ <<e, m>> # <<e, n>>
        BY <3>1, <3>4
      <4>2. <<e, m>> \in InPool
        BY <3>1, <3>4, <4>1 DEF Untouched
      <4>3. m = delivery[e].attempt /\ n = delivery[e].attempt
        BY <1>0, <3>2, <4>2 DEF RetryHeld
      <4> QED
        BY <4>1, <4>3
    <3>5. RetryHeld(e)'
      BY <3>3, <3>4, HeldOut
    <3> QED
      BY <1>0, <3>1, <3>3, <3>5, OthersHeld
  <2> QED
    BY <2>1, <2>2, <2>3
<1> QED
  BY <1>1, <1>2, <1>4, <1>5, <1>6, <1>7 DEF AgentStep

\* What of the reads a step of e's delivery to d must keep.
LEMMA ReadsKept ==
  ASSUME AgentTypeOK, DeliveriesHeld, NEW e \in Events, NEW d,
         delivery' = [delivery EXCEPT ![e] = d],
         delivery[e].pc \in {"load", "read"} => d.pc \in {"load", "read"},
         d.joined # NoAgent <=> d.pc = "join",
         d.pc = "join" => d.joined = inflight /\ inflight # NoAgent,
         \/ inflight' = inflight
         \/ inflight' = NoAgent
         \/ inflight' = e /\ d.pc = "load"
  PROVE  /\ inflight' # NoAgent => delivery'[inflight'].pc \in {"load", "read"}
         /\ \A f \in Events : ReadAwaited(f)'
<1>0. /\ DOMAIN delivery = Events /\ inflight \in Events \cup {NoAgent} /\ NoAgent \notin Events
      /\ \A f \in Events : delivery[f].joined \in Events \cup {NoAgent} /\ ReadAwaited(f)
      /\ inflight # NoAgent => delivery[inflight].pc \in {"load", "read"}
  BY AgentAssumption DEF AgentTypeOK, DeliveryType, DeliveriesHeld
<1>1. delivery'[e] = d /\ \A f \in Events \ {e} : delivery'[f] = delivery[f]
  BY <1>0
<1>2. ASSUME NEW f \in Events, delivery[f].pc \in {"load", "read"}
      PROVE  delivery'[f].pc \in {"load", "read"}
  BY <1>1, <1>2
<1>3. inflight' # NoAgent => delivery'[inflight'].pc \in {"load", "read"}
  BY <1>0, <1>1, <1>2
<1>4. ReadAwaited(e)'
  BY <1>0, <1>1, <1>2 DEF ReadAwaited
<1>5. ASSUME NEW f \in Events \ {e}  PROVE ReadAwaited(f)'
  <2>1. delivery[f].pc = "join" => delivery[f].joined \in Events
    BY <1>0 DEF ReadAwaited
  <2> QED
    BY <1>0, <1>1, <1>2, <2>1 DEF ReadAwaited
<1> QED
  BY <1>3, <1>4, <1>5

LEMMA ReadsStep ==
  ASSUME PoolTidy, AgentSound, DeliveriesHeld, AgentStep
  PROVE  /\ inflight' # NoAgent => delivery'[inflight'].pc \in {"load", "read"}
         /\ \A f \in Events : ReadAwaited(f)'
<1> USE AgentAssumption
<1>0. /\ \A e \in Events : RetryHeld(e) /\ ReadAwaited(e) /\ ReadSound(e)
      /\ inflight # NoAgent => delivery[inflight].pc \in {"load", "read"}
      /\ inflight \in Events \cup {NoAgent}
      /\ AgentTypeOK
      /\ delivery \in [Events -> DeliveryType]
  BY DEF DeliveriesHeld, AgentSound, AgentTypeOK
<1>1. CASE UNCHANGED delivery /\ (UNCHANGED inflight \/ inflight' = NoAgent)
  BY <1>0, <1>1 DEF ReadAwaited
<1>2. ASSUME NEW e \in Events, NEW d, delivery' = [delivery EXCEPT ![e] = d],
             UNCHANGED inflight, delivery[e].pc \notin {"load", "read"},
             d.joined = NoAgent, d.pc # "join"
      PROVE  /\ inflight' # NoAgent => delivery'[inflight'].pc \in {"load", "read"}
             /\ \A f \in Events : ReadAwaited(f)'
  BY <1>0, <1>2, ReadsKept
<1>3. ASSUME NEW e \in Events, Begin(e)
      PROVE  /\ inflight' # NoAgent => delivery'[inflight'].pc \in {"load", "read"}
             /\ \A f \in Events : ReadAwaited(f)'
  <2>1. delivery[e].pc \in {"emitted", "wait"} /\ delivery[e].joined = NoAgent
    BY <1>0, <1>3 DEF Begin, ReadSound
  <2>2. PICK d : /\ delivery' = [delivery EXCEPT ![e] = d]
                 /\ \/ /\ d.pc \in {"send", "withdrawn"} /\ inflight' = inflight
                       /\ d.joined \in {delivery[e].joined, NoAgent}
                    \/ /\ d.pc = "join" /\ d.joined = inflight
                       /\ inflight # NoAgent /\ inflight' = inflight
                    \/ d.pc = "load" /\ d.joined = delivery[e].joined /\ inflight' = e
    BY <1>0, <1>3, BeginMoves
  <2>3. CASE d.pc \in {"send", "withdrawn"}
    BY <1>2, <2>1, <2>2, <2>3
  <2>4. CASE d.pc = "join"
    BY <1>0, <2>1, <2>2, <2>4, ReadsKept
  <2>5. CASE d.pc = "load"
    BY <1>0, <2>1, <2>2, <2>5, ReadsKept
  <2> QED
    BY <2>2, <2>3, <2>4, <2>5
<1>4. ASSUME NEW e \in Events, ReadRow(e)
      PROVE  /\ inflight' # NoAgent => delivery'[inflight'].pc \in {"load", "read"}
             /\ \A f \in Events : ReadAwaited(f)'
  <2> DEFINE d == [delivery[e] EXCEPT !.pc = "read", !.agent = agentRow]
  <2>1. /\ delivery' = [delivery EXCEPT ![e] = d] /\ delivery[e].pc = "load"
        /\ UNCHANGED inflight
    BY <1>4 DEF ReadRow, Becomes
  <2>2. d.pc = "read" /\ d.joined = delivery[e].joined /\ delivery[e].joined = NoAgent
    BY <1>0, <2>1 DEF ReadAwaited
  <2> HIDE DEF d
  <2> QED
    BY <1>0, <2>1, <2>2, ReadsKept
<1>5. ASSUME NEW e \in Events, Loaded(e) \/ ReadFails(e)
      PROVE  /\ inflight' # NoAgent => delivery'[inflight'].pc \in {"load", "read"}
             /\ \A f \in Events : ReadAwaited(f)'
  <2>1. /\ inflight' = IF Current(e) THEN NoAgent ELSE inflight
        /\ \A f \in Events \ Sharing(e) : delivery'[f] = delivery[f]
        /\ \A f \in Sharing(e) : /\ delivery'[f].joined = NoAgent
                                 /\ delivery'[f].pc \in {"send", "withdrawn", "unread"}
    BY <1>0, <1>5, ReadEnds
  <2>2. ASSUME NEW f \in Events, f # e, delivery[f].pc \in {"load", "read"}
        PROVE  delivery'[f] = delivery[f]
    BY <1>0, <2>1, <2>2 DEF ReadAwaited, Sharing
  <2>3. ASSUME NEW f \in Events  PROVE ReadAwaited(f)'
    <3>1. CASE f \in Sharing(e)
      BY <2>1, <3>1 DEF ReadAwaited
    <3>2. CASE f \notin Sharing(e)
      <4>1. delivery[f].pc = "join" => /\ delivery[f].joined \in Events
                                       /\ delivery[delivery[f].joined].pc \in {"load", "read"}
        BY <1>0 DEF ReadAwaited, DeliveryType
      <4> QED
        BY <1>0, <2>1, <2>2, <3>2, <4>1 DEF ReadAwaited, Sharing
    <3> QED
      BY <3>1, <3>2
  <2>4. inflight' # NoAgent => inflight' = inflight /\ inflight # e
    BY <1>0, <1>5, <2>1 DEF Loaded, ReadFails, Current, AgentSound
  <2> QED
    BY <1>0, <2>2, <2>3, <2>4
<1>6. ASSUME NEW e \in Events, delivery[e].pc \in {"send", "wait"}, UNCHANGED inflight,
             RecordOutcome(e)
      PROVE  /\ inflight' # NoAgent => delivery'[inflight'].pc \in {"load", "read"}
             /\ \A f \in Events : ReadAwaited(f)'
  BY <1>0, <1>2, <1>6, OutcomeEnds
<1>6a. ASSUME NEW e \in Events, DispatchFails(e)
      PROVE  /\ inflight' # NoAgent => delivery'[inflight'].pc \in {"load", "read"}
             /\ \A f \in Events : ReadAwaited(f)'
  BY <1>0, <1>2, <1>6a, DispatchEnds
<1>7. ASSUME NEW e \in Events, NEW n, delivery[e].pc = "send", UNCHANGED inflight,
             Becomes(e, [NotEmitted EXCEPT !.pc = "wait", !.attempt = n])
      PROVE  /\ inflight' # NoAgent => delivery'[inflight'].pc \in {"load", "read"}
             /\ \A f \in Events : ReadAwaited(f)'
  <2> DEFINE d == [NotEmitted EXCEPT !.pc = "wait", !.attempt = n]
  <2>1. delivery[e].pc \notin {"load", "read"}
    BY <1>7
  <2>2. delivery' = [delivery EXCEPT ![e] = d] /\ d.joined = NoAgent /\ d.pc = "wait"
    BY <1>7 DEF Becomes, NotEmitted
  <2> HIDE DEF d
  <2> QED
    BY <1>2, <1>7, <2>1, <2>2
<1>8. CASE \E e \in Events : Deliver(e) \/ Retry(e)
  <2>1. PICK e \in Events : Deliver(e) \/ Retry(e)
    BY <1>8
  <2>2. CASE Deliver(e)
    BY <1>6, <2>2 DEF Deliver
  <2>3. CASE Retry(e) /\ CanSchedule
    <3> DEFINE next == delivery[e].attempt + 1
    <3>1. /\ delivery[e].pc = "send" /\ UNCHANGED inflight
          /\ Becomes(e, [NotEmitted EXCEPT !.pc = "wait", !.attempt = next])
      BY <2>3 DEF Retry
    <3> HIDE DEF next
    <3> QED
      BY <1>7, <3>1
  <2>4. CASE Retry(e) /\ ~CanSchedule
    BY <1>6, <2>4 DEF Retry
  <2> QED
    BY <2>1, <2>2, <2>3, <2>4
<1>9. CASE \E e \in Events : Withdrawn(e)
  BY <1>1, <1>9 DEF Withdrawn, agentVars
<1>10. ASSUME NEW e \in Events, FireRetry(e)
      PROVE  /\ inflight' # NoAgent => delivery'[inflight'].pc \in {"load", "read"}
             /\ \A f \in Events : ReadAwaited(f)'
  <2>1. UNCHANGED inflight
    BY <1>10 DEF FireRetry
  <2>2. CASE UNCHANGED delivery
    BY <1>1, <2>1, <2>2
  <2>3. ASSUME NEW n \in 1..MaxAttempts, DropAtFire(<<e, n>>), RecordDrop(e)
        PROVE  /\ inflight' # NoAgent => delivery'[inflight'].pc \in {"load", "read"}
               /\ \A f \in Events : ReadAwaited(f)'
    <3>1. <<e, n>> \in InPool /\ <<e, n>> \notin workers
      BY <2>3 DEF DropAtFire, InPool, PoolTidy
    <3>2. delivery[e].pc = "wait"
      BY <1>0, <3>1 DEF RetryHeld
    <3> QED
      BY <1>6, <2>1, <2>3, <3>2 DEF RecordDrop
  <2> QED
    BY <1>10, <2>2, <2>3 DEF FireRetry
<1> QED
  BY <1>1, <1>3, <1>4, <1>5, <1>6a, <1>8, <1>9, <1>10 DEF AgentStep, Edit, Invalidate, ExpireCache, Unshared

\* The follow-up's steps move its own jobs only.
LEMMA FollowUpTouches ==
  ASSUME PoolTidy, FollowUpStep, NEW i, i \notin Checks  PROVE Untouched(i)
<1>1. ASSUME NEW c \in Checks, Approve(c) \/ Pushed(c) \/ EndCheck(c) \/ FireCheck(c)
      PROVE  Untouched(i)
  <2>1. CASE Approve(c)
    BY <2>1, QuietTouches DEF Approve
  <2>2. CASE Pushed(c)
    <3>1. Schedule(c) \/ UNCHANGED poolVars
      BY <2>2 DEF Pushed
    <3>2. CASE Schedule(c)
      BY <3>2 DEF Schedule, InPool, Untouched
    <3> QED
      BY <3>1, <3>2, QuietTouches
  <2>3. CASE EndCheck(c)
    BY <2>3, EndTouches DEF EndCheck
  <2>4. CASE FireCheck(c)
    BY <2>4, FireTouches, DropTouches DEF FireCheck
  <2> QED
    BY <1>1, <2>1, <2>2, <2>3, <2>4
<1>2. CASE ~ (\E c \in Checks : Approve(c) \/ Pushed(c) \/ EndCheck(c) \/ FireCheck(c))
  <2>1. UNCHANGED poolVars
    BY <1>2 DEF FollowUpStep, Look, Ask, GiveUp, Retire, Claim, Send, SweepBegin,
                Elapse, Decline, Progress, Arrive
  <2> QED
    BY <2>1, QuietTouches
<1> QED
  BY <1>1, <1>2

LEMMA HeldStep ==
  ASSUME PoolTidy, AgentSound, DeliveriesHeld, JobsMove  PROVE DeliveriesHeld'
<1>1. CASE AgentStep
  BY <1>1, RetriesStep, ReadsStep DEF AgentSound, DeliveriesHeld
<1>2. ASSUME UNCHANGED agentVars, \A e \in Events, n \in 1..MaxAttempts : Untouched(<<e, n>>)
      PROVE  DeliveriesHeld'
  <2>1. \A e \in Events : RetryHeld(e)'
    BY <1>2, HeldStill DEF DeliveriesHeld, agentVars
  <2> QED
    BY <1>2, <2>1 DEF DeliveriesHeld, agentVars, ReadAwaited
<1>3. CASE FollowUpStep /\ UNCHANGED agentVars
  <2>1. ASSUME NEW e \in Events, NEW n \in 1..MaxAttempts  PROVE <<e, n>> \notin Checks
    BY ProcessAssumption DEF Retries
  <2> QED
    BY <1>2, <1>3, <2>1, FollowUpTouches
<1>4. CASE UNCHANGED <<poolVars, followVars, agentVars>>
  BY <1>2, <1>4, QuietTouches
<1>5. CASE LosePool /\ LoseAgents
  <2>1. InPool' = {} /\ inflight' = NoAgent
    BY <1>5, LostTidy DEF LoseAgents
  <2>2. ASSUME NEW e \in Events  PROVE RetryHeld(e)' /\ ReadAwaited(e)'
    <3>1. \/ delivery[e].pc \in Ended /\ delivery'[e] = delivery[e]
          \/ delivery'[e] = [NotEmitted EXCEPT !.pc = "lost"]
      BY <1>5 DEF LoseAgents
    <3>2. delivery'[e].pc \in Ended /\ delivery'[e].joined = NoAgent
      BY <3>1 DEF NotEmitted, Ended, DeliveriesHeld, ReadAwaited
    <3> QED
      BY <2>1, <3>2 DEF RetryHeld, ReadAwaited, Ended
  <2> QED
    BY <2>1, <2>2 DEF DeliveriesHeld
<1> QED
  BY <1>1, <1>3, <1>4, <1>5 DEF JobsMove

\* "Nothing is silently lost" (docs/guardrails/14c.md), as far as safety goes: a delivery that
\* waits for a retry has its job in the pool, whatever checks, other retries and full queues do;
\* one that waits for a read of the table waits for one under way, whatever invalidates the
\* cache and whichever reads fail; and no job of the pool is left without its delivery
\* (lib/notify-agents.ts).  A delivery whose own read fails is lost: it waits for nothing.
THEOREM DeliveriesKept == ServerSpec => []DeliveriesHeld
<1>1. ASSUME ServerInit  PROVE DeliveriesHeld
  <2>1. InPool = {}
    BY <1>1 DEF ServerInit, PoolInit, InPool
  <2>2. PICK w \in Workloads : AgentInit(w.events, w.edits)
    BY <1>1 DEF ServerInit
  <2>3. inflight = NoAgent
        /\ \A e \in Events : delivery[e].pc \in {"off", "emitted"} /\ delivery[e].joined = NoAgent
    BY <2>2 DEF AgentInit, NotEmitted
  <2> QED
    BY <2>1, <2>3 DEF DeliveriesHeld, RetryHeld, ReadAwaited
<1>2. JobsSound /\ AgentSound /\ DeliveriesHeld /\ [ServerNext]_serverVars => DeliveriesHeld'
  BY JobsSee, HeldStep DEF JobsSound
<1> QED
  BY <1>1, <1>2, JobsInvariant, AgentInvariant, PTL DEF ServerSpec
=============================================================================
