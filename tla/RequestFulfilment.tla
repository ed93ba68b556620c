------------------------- MODULE RequestFulfilment -------------------------
(***************************************************************************)
(* The request lifecycle: every writer of the MediaRequest table modelled  *)
(* so far, interleaved statement by statement over one store.  A component *)
(* whose constant is empty takes no step, so that a run can look at the    *)
(* ones it is about.                                                       *)
(***************************************************************************)
EXTENDS SyncOrchestrator, ArrWebhooks, LibraryResync, RequestCreate,
        AdminDecisions, LibraryRemoval

CONSTANTS
    Syncing,     \* does the hourly run take place?
    Start,       \* the statuses the requests have at first
    MaxChurn     \* bound: changes in Radarr/Sonarr and the media servers

ASSUME FulfilmentAssumption ==
    /\ Syncing \in BOOLEAN
    /\ Start \subseteq {"NONE", "PENDING", "APPROVED", "AVAILABLE"}
    /\ MaxChurn \in Nat

VARIABLES
    churn,
    reached    \* history: requests that have been AVAILABLE

vars == <<storeVars, syncVars, hook, resync, intake, deskVars, removalVars,
          churn, reached>>

TypeOK ==
    /\ StoreTypeOK /\ SyncTypeOK /\ HookTypeOK /\ ResyncTypeOK
    /\ IntakeTypeOK /\ DeskTypeOK /\ RemovalTypeOK
    /\ churn \in 0..MaxChurn
    /\ reached \subseteq Requests

-----------------------------------------------------------------------------

\* A requester has one row per title, however many of their requests race.
OneRowPerRequester ==
    \A q, r \in Requests :
       q # r /\ Owner[q] = Owner[r] /\ TitleOf[q] = TitleOf[r]
       => ~(Exists(q) /\ Exists(r))

\* Whatever the table held before, it held within its unique index.
Init ==
    /\ StoreInit(Start) /\ SyncInit /\ HookInit /\ ResyncInit /\ IntakeInit
    /\ DeskInit /\ RemovalInit
    /\ OneRowPerRequester
    /\ churn = 0
    /\ reached = WithStatus({"AVAILABLE"})

Sync ==
    /\ Syncing
    /\ SyncStep
    /\ UNCHANGED <<hook, resync, intake, deskVars, removalVars, churn>>

Churn ==
    /\ churn < MaxChurn
    /\ Outside
    /\ churn' = churn + 1
    /\ UNCHANGED <<syncVars, hook, resync, intake, deskVars, removalVars>>

Webhook ==
    /\ WebhookStep
    /\ UNCHANGED <<syncVars, resync, intake, deskVars, removalVars, churn>>

Resync ==
    /\ ResyncStep
    /\ UNCHANGED <<syncVars, hook, intake, deskVars, removalVars, churn>>

Create ==
    /\ CreateStep
    /\ UNCHANGED <<syncVars, hook, resync, deskVars, removalVars, churn>>

Decide ==
    /\ DecisionStep
    /\ UNCHANGED <<syncVars, hook, resync, intake, removalVars, churn>>

Removal ==
    /\ RemovalStep
    /\ UNCHANGED <<syncVars, hook, resync, intake, deskVars, churn>>

Next ==
    /\ Sync \/ Churn \/ Webhook \/ Resync \/ Create \/ Decide \/ Removal
    /\ reached' = reached \cup {r \in Requests : rows'[r].status = "AVAILABLE"}

Spec == Init /\ [][Next]_vars

-----------------------------------------------------------------------------
(* Safety *)

\* Every path that announces a request (both *arr passes, both library passes, the
\* fallback, the webhooks, a resync, an admin) claims it first with one conditional
\* UPDATE, so its requester hears "now available" at most once, ever.
NotifiedAtMostOnce == \A r \in Requests : sent[r] <= 1

\* The 90-second backstop is armed by an approval and lives no longer than it: a
\* request that is pending, declined or deleted has none, and one that is available
\* has one only between the claim that made it so and the statement that disarms it.
BackstopOnlyOnLiveApproval ==
    \A r \in Requests :
       rows[r].armed => \/ rows[r].status = "APPROVED"
                        \/ rows[r].status = "AVAILABLE" /\ rows[r].notified

\* A request of a removed title keeps its stamp once the removal has re-asserted it,
\* whatever another execution, refused or lost, withdraws (guardrail 14b).
SettledKeepsStamp ==
    \A r \in settled : rows[r].status = "AVAILABLE" => rows[r].stamp # None

\* Such a request is not demoted until an admin puts the title back.
SettledNotDemoted ==
    [][\A r \in settled : rows[r].status = "AVAILABLE" => rows'[r].status # "APPROVED"]_vars

\* A permanent decline marks a declined request and nothing else: approving or
\* reopening lifts it, so no live request keeps its requester barred.
BanOnlyOnDeclined == \A r \in Requests : rows[r].banned => rows[r].status = "DECLINED"

\* A requester whose request was declined for good cannot shed the declined row by
\* asking again: only an admin's handler deletes it.
BanNotEvaded ==
    [][\A r \in Requests : rows[r].banned /\ rows'[r].status = "GONE"
                            => \E a \in Desks : desk[a].row = r /\ desk'[a] # desk[a]]_vars

\* The lifecycle implements the board.
Board == INSTANCE RequestBoard WITH
             status  <- [r \in Requests |-> rows[r].status],
             claimed <- [r \in Requests |-> rows[r].notified],
             told    <- sent

RefinesBoard == Board!BoardSpec

-----------------------------------------------------------------------------
(* What the repository's documents say and the code does not keep *)

\* Requests a step makes AVAILABLE because a media server holds their title.
LibraryMarks ==
    {r \in Requests :
       /\ rows[r].status \in {"PENDING", "APPROVED"} /\ rows'[r].status = "AVAILABLE"
       /\ \/ run.pc \in {"libClaim", "libDone"} /\ run' # run
          \/ \E s \in Resyncs : resync[s].pc \in {"claim", "finish"}
                               /\ resync'[s] # resync[s]}

\* docs/guardrails/14a.md: "Library presence alone NEVER flips a request Sonarr still
\* lists as wanted."  (Listed by Sonarr, not by the table the last sync wrote.)
WantedSeriesNotMarked ==
    [][\A r \in LibraryMarks : TitleOf[r] \in Series => arr[TitleOf[r]] # "wanted"]_vars

\* requests/[id]/route.ts: a rollback must not "leave Sonarr grabbing content the DB
\* says is pending": an approval Radarr/Sonarr confirmed is not rolled back.
RollbackMeansRefused ==
    [][\A r \in backed : rows[r].status = "APPROVED" => rows'[r].status # "PENDING"]_vars

\* arr-title-lifecycle.ts stamps a removal "so the sync never reads the title's
\* disappearance as a lost file and re-adds it": a request of a title an admin removed,
\* and nobody put back, is not demoted (a demoted request is pushed again).
RemovedTitleNotDemoted ==
    [][\A r \in Requests : TitleOf[r] \in removed /\ rows[r].status = "AVAILABLE"
                            => rows'[r].status # "APPROVED"]_vars

=============================================================================
