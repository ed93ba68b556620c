---------------------------- MODULE ServerProcess ----------------------------
(***************************************************************************)
(* What one server process does besides answering requests, and what it    *)
(* holds in memory only: the pool of delayed jobs shared by the download   *)
(* checks and the retries of outbound notifications, the coalescing of     *)
(* library scans that the Download webhooks ask for after their response,  *)
(* the slot of the backup upload, the ledger of sign-in challenges, the    *)
(* revocation marks and the requests under way.  A restart loses all of    *)
(* it; the rows, the replay ledger and the grab stay.                      *)
(*                                                                         *)
(* The parts interleave freely, but those with nothing in common are kept  *)
(* in different behaviours: a workload says who shows up.                  *)
(***************************************************************************)
EXTENDS DownloadFollowUp, AgentDelivery, WebhookIntake, LibraryScan, ImportSession,
        MfaSignIn, AccountAccess, SessionRefresh

CONSTANT Workloads

ASSUME ProcessAssumption ==
    /\ \A w \in Workloads :
         /\ w.requests \subseteq Requests /\ w.checks \subseteq Checks
         /\ w.events \subseteq Events /\ w.edits \in 0..MaxEdits
         /\ w.deliveries \subseteq Deliveries /\ w.posted \subseteq Payloads
         /\ w.bursts \in BOOLEAN
         /\ w.late \subseteq w.uploads /\ w.uploads \subseteq Uploads
         /\ w.challenges \subseteq Challenges /\ w.verifiers \subseteq Verifiers
         /\ w.admins \subseteq Users /\ w.admins # {}
         /\ w.desks \subseteq Desks /\ w.leavers \subseteq Users
         /\ w.hits \subseteq Hits /\ {w.revokes, w.edited} \subseteq BOOLEAN
         /\ w.restarts \in Nat
    /\ Callers = Deliveries
    /\ Checks \cap Retries = {}

VARIABLE restarts   \* bound: how often the process may still restart

workVars   == <<poolVars, followVars, agentVars, intakeVars, grabVars, scanVars, importVars>>
accessVars == <<mfaVars, accountVars, sessionVars>>
serverVars == <<workVars, accessVars, restarts>>

ServerTypeOK ==
    /\ PoolTypeOK /\ FollowTypeOK /\ AgentTypeOK /\ IntakeTypeOK /\ GrabTypeOK
    /\ ScanTypeOK /\ ImportTypeOK
    /\ MfaTypeOK /\ AccountTypeOK /\ SessionTypeOK
    /\ restarts \in Nat

ServerInit ==
    /\ PoolInit /\ GrabInit
    /\ \E w \in Workloads :
         /\ FollowInit(w.requests, w.checks)
         /\ AgentInit(w.events, w.edits)
         /\ IntakeInit(w.deliveries, w.posted)
         /\ ScanInit(w.bursts)
         /\ ImportInit(w.uploads, w.late)
         /\ MfaInit(w.challenges, w.verifiers)
         /\ AccountInit(w.admins, w.desks, w.leavers)
         /\ SessionInit(w.hits, w.revokes, w.edited)
         /\ restarts = w.restarts

-----------------------------------------------------------------------------

InFollowUp(A) ==
    A /\ UNCHANGED <<agentVars, intakeVars, grabVars, scanVars, importVars, accessVars,
                     restarts>>
InAgents(A) ==
    A /\ UNCHANGED <<followVars, intakeVars, grabVars, scanVars, importVars, accessVars,
                     restarts>>
InScans(A) ==
    A /\ UNCHANGED <<poolVars, followVars, agentVars, intakeVars, grabVars, importVars,
                     accessVars, restarts>>
InImports(A) ==
    A /\ UNCHANGED <<poolVars, followVars, agentVars, intakeVars, grabVars, scanVars,
                     accessVars, restarts>>

\* Who signs in, who may, and for how long are three parts with nothing in common here.
Access ==
    /\ \/ MfaStep     /\ UNCHANGED <<accountVars, sessionVars>>
       \/ AccountStep /\ UNCHANGED <<mfaVars, sessionVars>>
       \/ SessionStep /\ UNCHANGED <<mfaVars, accountVars>>
    /\ UNCHANGED <<workVars, restarts>>

\* A delivery.  The task that wants a scan is deferred at the flip, and begins when
\* the response has gone, whatever the response.
Serve(d) ==
    \/ (Record(d) \/ Renew(d) \/ Throw(d)) /\ UNCHANGED <<grabVars, scanVars>>
    \/ AtGrab(d) /\ UNCHANGED <<intakeVars, scanVars>>
    \/ /\ Flip(d) /\ Book(d)
       /\ UNCHANGED <<grabVars, entry, live, checking, inFlight, scans, bursts>>
    \/ /\ Answer(d) \/ Undo(d)
       /\ Wake(d)
       /\ UNCHANGED <<grabVars, entry, live, checking, inFlight, scans, bursts>>

Ledger ==
    \/ Reap /\ UNCHANGED <<grabVars, scanVars>>
    \/ \E p \in Payloads : ExpireRecord(p) /\ UNCHANGED <<grabVars, scanVars>>
    \/ ResolveIssue /\ UNCHANGED <<intakeVars, scanVars>>

Webhooks ==
    /\ Ledger \/ \E d \in Deliveries : Serve(d)
    /\ UNCHANGED <<poolVars, followVars, agentVars, importVars, accessVars, restarts>>

Restart ==
    /\ restarts > 0
    /\ restarts' = restarts - 1
    /\ LosePool /\ LoseFollowUp /\ LoseAgents /\ LosePosts /\ LoseCarriers
    /\ LoseScans /\ LoseImport /\ LoseMfa /\ LoseHandlers /\ LoseSessions

ServerNext ==
    \/ InFollowUp(FollowUpStep) \/ InAgents(AgentStep) \/ InScans(ScanStep)
    \/ InImports(ImportStep) \/ Webhooks \/ Access \/ Restart

ServerSpec == ServerInit /\ [][ServerNext]_serverVars

-----------------------------------------------------------------------------
(***************************************************************************)
(* Fairness.  Timers fire; what the process has begun goes on to its end:  *)
(* every await has a timeout of its own, so it answers or fails; the cron  *)
(* loop posts to /api/sync every hour, which begins the sweep.  Clients,   *)
(* admins, deliveries and Radarr/Sonarr owe nothing.  One condition stands *)
(* for many actors where each of them has finitely many steps to take.     *)
(***************************************************************************)
Works(w) == Look(w) \/ Ask(w) \/ GiveUp(w) \/ Retire(w) \/ Claim(w) \/ Send(w)

JobsWork == \/ \E c \in Checks : Pushed(c) \/ FireCheck(c) \/ Works(c) \/ EndCheck(c)
            \/ \E r \in Requests : Elapse(r)

AgentsWork == \E e \in Events : \/ Begin(e) \/ ReadRow(e) \/ Loaded(e)
                                \/ ReadFails(e) \/ DispatchFails(e)
                                \/ Deliver(e) \/ Retry(e) \/ Withdrawn(e) \/ FireRetry(e)

ScansWork == EndScan \/ \E h \in Handles : \/ TimerFires(h) \/ StandDown(h)
                                          \/ PutOff(h) \/ StartScan(h)

ImportsWork == \/ ExpireSession
               \/ \E p \in Posts : HandlePost(p)
               \/ \E u \in Uploads : Cancel(u) \/ Cancelled(u)

ServerFairness ==
    /\ WF_serverVars(InFollowUp(JobsWork))
    /\ WF_serverVars(InFollowUp(Works(Sweep) \/ SweepBegin))
    /\ WF_serverVars(InAgents(AgentsWork))
    /\ WF_serverVars(InScans(ScansWork))
    /\ WF_serverVars(InScans(Late))
    /\ WF_serverVars(InScans(\E c \in Callers : AskScan(c)))
    /\ WF_serverVars(InImports(ImportsWork))

ServerFairSpec == ServerSpec /\ ServerFairness
=============================================================================
