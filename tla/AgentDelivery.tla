---------------------------- MODULE AgentDelivery ----------------------------
(***************************************************************************)
(* Outbound notification channels (agents): an event is posted to the      *)
(* agent, and a failure worth retrying is scheduled in the delayed-job     *)
(* pool, a bounded number of times.  Each attempt loads the agents through *)
(* a process-wide cache, which the admin's routes invalidate after they    *)
(* wrote the table; one read is shared by everybody who waits for it.      *)
(*                                                                         *)
(* One agent.  Its row is a version (the URL and secret of one write) and  *)
(* whether it is enabled and subscribed.  Rendering is left out.  Any      *)
(* statement to the database may fail.                                     *)
(***************************************************************************)
EXTENDS DelayedJobs

CONSTANTS
    Events,        \* events emitted, each delivered to the agent
    MaxAttempts,   \* retries after the first attempt
    MaxEdits,      \* bound: writes of the agent's row
    NoAgent

Retries == Events \X (1..MaxAttempts)

ASSUME AgentAssumption ==
    /\ MaxAttempts \in Nat
    /\ MaxEdits \in Nat
    /\ Retries \subseteq Jobs
    /\ NoAgent \notin Events

VARIABLES
    agentRow,   \* the row in the database
    known,      \* the version of the last write that has invalidated the cache
    cache,      \* the cached row, or NoAgent
    gen,        \* the cache's generation
    inflight,   \* the event whose read the others join, or NoAgent
    delivery

agentVars == <<agentRow, known, cache, gen, inflight, delivery>>

Agent == [version : 0..MaxEdits, enabled : BOOLEAN]

DeliveryType ==
    [pc      : {"off", "emitted", "load", "join", "read", "send", "wait", "recorded",
                "unrecorded", "withdrawn", "unread", "lost"},
     attempt : 0..MaxAttempts,
     agent   : Agent \cup {NoAgent},
     gen     : 0..MaxEdits,
     joined  : Events \cup {NoAgent},
     floor   : 0..MaxEdits]   \* history: known when the attempt began

NotEmitted == [pc |-> "off", attempt |-> 0, agent |-> NoAgent, gen |-> 0,
               joined |-> NoAgent, floor |-> 0]

AgentTypeOK ==
    /\ agentRow \in Agent
    /\ known \in 0..MaxEdits
    /\ cache \in Agent \cup {NoAgent}
    /\ gen \in 0..MaxEdits
    /\ inflight \in Events \cup {NoAgent}
    /\ delivery \in [Events -> DeliveryType]

\* The events of E are about to be emitted; the admin writes the row up to N times.
AgentInit(E, N) ==
    /\ agentRow = [version |-> MaxEdits - N, enabled |-> TRUE]
    /\ known = MaxEdits - N /\ cache = NoAgent /\ gen = 0 /\ inflight = NoAgent
    /\ delivery = [e \in Events |->
                     IF e \in E THEN [NotEmitted EXCEPT !.pc = "emitted"] ELSE NotEmitted]

Becomes(e, new) == delivery' = [delivery EXCEPT ![e] = new]

\* The delivery is over, and forgotten but for how it ended.
Over(e, pc) == [NotEmitted EXCEPT !.pc = pc, !.attempt = delivery[e].attempt]

-----------------------------------------------------------------------------
(* The admin's write, and the invalidation after it *)

Editing == agentRow.version # known

Edit ==
    /\ ~Editing /\ agentRow.version < MaxEdits
    /\ \E enabled \in BOOLEAN :
         agentRow' = [version |-> agentRow.version + 1, enabled |-> enabled]
    /\ UNCHANGED <<known, cache, gen, inflight, delivery, poolVars>>

\* Mutated form: a read under way is still shared with those who come later.
StillShared == inflight

Unshared == NoAgent

Invalidate ==
    /\ Editing
    /\ known' = agentRow.version
    /\ gen' = gen + 1 /\ cache' = NoAgent /\ inflight' = Unshared
    /\ UNCHANGED <<agentRow, delivery, poolVars>>

ExpireCache ==
    /\ cache # NoAgent
    /\ cache' = NoAgent
    /\ UNCHANGED <<agentRow, known, gen, inflight, delivery, poolVars>>

-----------------------------------------------------------------------------
(* loadEnabledAgents *)

\* The delivery goes on with the agent it was given, if it is still wanted.
With(e, agent) ==
    IF agent.enabled
    THEN [delivery[e] EXCEPT !.pc = "send", !.agent = agent, !.gen = 0, !.joined = NoAgent]
    ELSE Over(e, "withdrawn")

\* An attempt begins: the first when the event is emitted, the others as jobs.
Begin(e) ==
    /\ \/ delivery[e].pc = "emitted"
       \/ delivery[e].pc = "wait" /\ <<e, delivery[e].attempt>> \in workers
    /\ LET d == [delivery[e] EXCEPT !.floor = known] IN
       CASE cache # NoAgent ->
              /\ Becomes(e, IF cache.enabled THEN [d EXCEPT !.pc = "send", !.agent = cache]
                            ELSE Over(e, "withdrawn"))
              /\ UNCHANGED inflight
         [] cache = NoAgent /\ inflight # NoAgent ->
              /\ Becomes(e, [d EXCEPT !.pc = "join", !.joined = inflight])
              /\ UNCHANGED inflight
         [] OTHER ->
              /\ Becomes(e, [d EXCEPT !.pc = "load", !.gen = gen])
              /\ inflight' = e
    /\ UNCHANGED <<agentRow, known, cache, gen, poolVars>>

ReadRow(e) ==
    /\ delivery[e].pc = "load"
    /\ Becomes(e, [delivery[e] EXCEPT !.pc = "read", !.agent = agentRow])
    /\ UNCHANGED <<agentRow, known, cache, gen, inflight, poolVars>>

\* Mutated form: the generation is not compared.
CurrentAnyway(e) == TRUE

\* Was the cache not invalidated since e's read began?
Current(e) == delivery[e].gen = gen

\* Those who wait for e's read.
Sharing(e) == {f \in Events : f = e \/ delivery[f].joined = e}

\* The read's result is cached unless the cache was invalidated meanwhile, and
\* is handed to everybody who joined it.
Loaded(e) ==
    /\ delivery[e].pc = "read"
    /\ cache' = IF Current(e) THEN delivery[e].agent ELSE cache
    /\ inflight' = IF Current(e) THEN NoAgent ELSE inflight
    /\ delivery' = [f \in Events |-> IF f \in Sharing(e) THEN With(f, delivery[e].agent)
                                     ELSE delivery[f]]
    /\ UNCHANGED <<agentRow, known, gen, poolVars>>

\* The read fails: the dispatch or the job of everybody who waits for it throws, which
\* is logged and no more.
ReadFails(e) ==
    /\ delivery[e].pc = "load"
    /\ inflight' = IF Current(e) THEN NoAgent ELSE inflight
    /\ delivery' = [f \in Events |-> IF f \in Sharing(e) THEN Over(f, "unread")
                                     ELSE delivery[f]]
    /\ UNCHANGED <<agentRow, known, cache, gen, poolVars>>

\* What else a dispatch reads, the feature flags before and the titles after, fails
\* likewise.
DispatchFails(e) ==
    /\ \/ delivery[e].pc = "emitted"
       \/ delivery[e].pc = "send" /\ delivery[e].attempt = 0
    /\ Becomes(e, Over(e, "unread"))
    /\ UNCHANGED <<agentRow, known, cache, gen, inflight, poolVars>>

-----------------------------------------------------------------------------
(* deliverWithRetry *)

\* The worker of e's attempt, if it has one, is free again.
EndAttempt(e) ==
    LET job == <<e, delivery[e].attempt>> IN
    IF job \in workers THEN Finish(job) ELSE UNCHANGED poolVars

\* recordOutcome, which never rejects: a write that fails is swallowed.
RecordOutcome(e) == Becomes(e, Over(e, "recorded")) \/ Becomes(e, Over(e, "unrecorded"))

\* The agent answers, well or badly for good: the outcome is recorded on its row.
Deliver(e) ==
    /\ delivery[e].pc = "send"
    /\ RecordOutcome(e)
    /\ EndAttempt(e)
    /\ UNCHANGED <<agentRow, known, cache, gen, inflight>>

\* Mutated form: one attempt too many.
OneMoreAttempt(e) == delivery[e].attempt <= MaxAttempts

AttemptsLeft(e) == delivery[e].attempt < MaxAttempts

\* A failure worth another attempt: one more job, whose refusal is recorded.
Retry(e) ==
    /\ delivery[e].pc = "send"
    /\ AttemptsLeft(e)
    /\ LET next == delivery[e].attempt + 1
           old  == <<e, delivery[e].attempt>>
       IN /\ IF CanSchedule
             THEN /\ timers' = timers \cup {<<e, next>>}
                  /\ Becomes(e, [NotEmitted EXCEPT !.pc = "wait", !.attempt = next])
             ELSE RecordOutcome(e) /\ UNCHANGED timers
          /\ IF old \in workers
             THEN Pump(runQueue, workers \ {old})
             ELSE UNCHANGED <<runQueue, workers>>
    /\ UNCHANGED <<agentRow, known, cache, gen, inflight>>

\* The job of an attempt that the admin withdrew, or that could not read the agents,
\* ends without a word.
Withdrawn(e) ==
    /\ delivery[e].pc \in {"withdrawn", "unread"}
    /\ <<e, delivery[e].attempt>> \in workers
    /\ EndAttempt(e)
    /\ UNCHANGED agentVars

\* Mutated form: the pool drops the job and nobody is told.
DropSilently(e) == UNCHANGED delivery

\* onDrop: a retry dropped at fire time is recorded as the final failure.
RecordDrop(e) == RecordOutcome(e)

FireRetry(e) ==
    \E n \in 1..MaxAttempts :
       /\ \/ Fire(<<e, n>>) /\ UNCHANGED delivery
          \/ DropAtFire(<<e, n>>) /\ RecordDrop(e)
       /\ UNCHANGED <<agentRow, known, cache, gen, inflight>>

Ended == {"off", "recorded", "unrecorded", "withdrawn", "unread", "lost"}

\* A restart: pending retries are dropped, the cache is empty.
LoseAgents ==
    /\ delivery' = [e \in Events |-> IF delivery[e].pc \in Ended THEN delivery[e]
                                     ELSE [NotEmitted EXCEPT !.pc = "lost"]]
    /\ cache' = NoAgent /\ inflight' = NoAgent
    /\ known' = agentRow.version
    /\ UNCHANGED <<agentRow, gen>>

AgentStep ==
    \/ Edit \/ Invalidate \/ ExpireCache
    \/ \E e \in Events : \/ Begin(e) \/ ReadRow(e) \/ Loaded(e)
                         \/ ReadFails(e) \/ DispatchFails(e)
                         \/ Deliver(e) \/ Retry(e) \/ Withdrawn(e) \/ FireRetry(e)

-----------------------------------------------------------------------------

\* An attempt that begins after an admin's write has invalidated the cache (a
\* retry of an older failure, too) posts to the agent as that write left it: not
\* to the old URL, and not at all when the agent was disabled.  A read of the
\* table that the write overtook may be used by those who wait for it, and is
\* never cached.
NoStaleDelivery ==
    \A e \in Events : delivery[e].pc = "send"
                        => delivery[e].agent.version >= delivery[e].floor

\* The cache agrees with the table whenever no write is under way.
CacheSound == cache # NoAgent /\ ~Editing => cache = agentRow

\* A delivery does not stay under way for ever: it ends with its outcome recorded on the
\* agent, unless the admin withdrew the agent, the process ended, or a statement of the
\* delivery's own (the read of the agents, the write of the outcome) failed.  So a retry
\* that the pool refused or dropped is an outcome too (docs/guardrails/14c.md).
DeliveryEnds ==
    \A e \in Events : delivery[e].pc = "emitted" ~> delivery[e].pc \in Ended
=============================================================================
