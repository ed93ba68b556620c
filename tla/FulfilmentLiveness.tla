------------------------- MODULE FulfilmentLiveness -------------------------
(***************************************************************************)
(* RequestFulfilment under the fairness its scheduling gives: the cron     *)
(* loop posts to /api/sync every hour, so a run begins and, unless it is   *)
(* cut short (MaxAborts bounds how often), goes on to its end; and         *)
(* Radarr/Sonarr and the media servers, asked again every hour, answer     *)
(* in full infinitely often.  Nothing else is assumed: webhooks may be     *)
(* lost, deferred tasks and Resyncs may never run.                         *)
(***************************************************************************)
EXTENDS RequestFulfilment

Hourly(A) ==
    /\ Syncing
    /\ A
    /\ UNCHANGED <<hook, resync, intake, deskVars, removalVars, churn>>
    /\ reached' = reached \cup {r \in Requests : rows'[r].status = "AVAILABLE"}

ArrAnswers     == FetchArr /\ run'.fresh = Titles
LibraryAnswers == FetchLibrary /\ run'.sound # run.sound

Fairness ==
    /\ WF_vars(Hourly(SyncProgress))
    /\ SF_vars(Hourly(ArrAnswers))
    /\ SF_vars(Hourly(LibraryAnswers))

FairSpec == Spec /\ Fairness

\* Where the requester is told from: a server they did not exclude holds the title.
Shown(r) == \E s \in Configured : Announces(s, r) /\ TitleOf[r] \in library[s]

\* An approved request is not left behind once Radarr/Sonarr hold its title, for a
\* requester without a preferred server, or once that server shows it, for one who
\* waits for it: some sync marks it available.
ApprovedTitleArrives ==
    \A r \in Requests :
       ~<>[](/\ rows[r].status = "APPROVED"
             /\ arr[TitleOf[r]] = "complete"
             /\ Pin[r] = "any" \/ Shown(r))

\* Where the fallback may tell them from: as before, or from any server, for a requester
\* whose preferred one is not configured.
Seen(r) ==
    \/ Shown(r)
    \/ Pin[r] \notin Configured \cup {"any"} /\ \E s \in Configured : TitleOf[r] \in library[s]

\* A request that became available without its requester being told (the webhook's
\* flip, a mark by the other server, a lost task) is announced by the notification
\* fallback once a server shows the title that they watch, or that stands in for one
\* nobody configured.
AvailableIsAnnounced ==
    \A r \in Requests :
       ~<>[](rows[r].status = "AVAILABLE" /\ ~rows[r].notified /\ Seen(r))
=============================================================================
