----------------------------- MODULE GrabNotices -----------------------------
(***************************************************************************)
(* The part of the Radarr and Sonarr Download handlers that tells an admin *)
(* "the replacement for this issue landed".  One IssueGrab row, matched by *)
(* every delivery: whoever claims it (notifiedAt) emits the event, closes  *)
(* the issue and pushes to the admin; a push that failed leaves a marker   *)
(* (the Setting grabPushRetry:<id>) for a later delivery to take.          *)
(*                                                                         *)
(* Which deliveries match a grab (season, episode) is data; people resolve *)
(* and reopen issues in other routes, which are left out.  A restart loses *)
(* the handlers at the grab; its row and its marker stay for the           *)
(* deliveries still to come.                                               *)
(***************************************************************************)
EXTENDS Integers

CONSTANTS
    Deliveries,
    AutoResolve   \* is the feature on that resolves the issue of a claimed grab?

ASSUME GrabAssumption == AutoResolve \in BOOLEAN

VARIABLES
    grab,
    issue,        \* "closing": the claim's resolution is on its way
    carrier       \* a handler at the grab

grabVars == <<grab, issue, carrier>>

GrabTypeOK ==
    /\ grab \in [notified : BOOLEAN, retry : BOOLEAN, emitted : Nat, pushed : Nat]
    /\ issue \in {"open", "closing", "resolved"}
    /\ carrier \in [Deliveries -> {"off", "claim", "take", "push", "mark", "done"}]

GrabInit ==
    /\ grab = [notified |-> FALSE, retry |-> FALSE, emitted |-> 0, pushed |-> 0]
    /\ issue = "open"
    /\ carrier = [d \in Deliveries |-> "off"]

Carry(d, pc) == carrier' = [carrier EXCEPT ![d] = pc]

\* Candidates: not those of a resolved issue.
ReadGrab(d) ==
    /\ carrier[d] = "off"
    /\ Carry(d, IF issue = "resolved" THEN "done"
                ELSE IF grab.notified THEN "take" ELSE "claim")
    /\ UNCHANGED <<grab, issue>>

\* Mutated form: the claim by id alone.
GrabClaimableTwice == TRUE

GrabClaimable == ~grab.notified

\* updateMany({where: {id, notifiedAt: null}}): the winner emits.
ClaimGrab(d) ==
    /\ carrier[d] = "claim"
    /\ IF GrabClaimable
       THEN /\ grab' = [grab EXCEPT !.notified = TRUE, !.emitted = @ + 1]
            /\ issue' = IF AutoResolve /\ issue = "open" THEN "closing" ELSE issue
            /\ Carry(d, "push")
       ELSE Carry(d, "done") /\ UNCHANGED <<grab, issue>>

\* Deleting the marker is the claim of the retry.
TakeRetry(d) ==
    /\ carrier[d] = "take"
    /\ grab' = [grab EXCEPT !.retry = FALSE]
    /\ Carry(d, IF grab.retry THEN "push" ELSE "done")
    /\ UNCHANGED issue

\* The push is reported sent, or skipped (nobody subscribed), or failed, which a push
\* whose answer is lost counts as.
PushGrab(d) ==
    /\ carrier[d] = "push"
    /\ \/ grab' = [grab EXCEPT !.pushed = @ + 1] /\ Carry(d, "done")
       \/ Carry(d, "done") /\ UNCHANGED grab
       \/ Carry(d, "mark") /\ UNCHANGED grab
    /\ UNCHANGED issue

MarkRetry(d) ==
    /\ carrier[d] = "mark"
    /\ grab' = [grab EXCEPT !.retry = TRUE]
    /\ Carry(d, "done")
    /\ UNCHANGED issue

\* autoResolveIssueForGrab, which the handler does not wait for.
ResolveIssue ==
    /\ issue = "closing"
    /\ issue' = "resolved"
    /\ UNCHANGED <<grab, carrier>>

LoseCarriers ==
    /\ carrier' = [d \in Deliveries |-> IF carrier[d] = "off" THEN "off" ELSE "done"]
    /\ issue' = IF issue = "closing" THEN "open" ELSE issue
    /\ UNCHANGED grab

GrabStep(d) == ReadGrab(d) \/ ClaimGrab(d) \/ TakeRetry(d) \/ PushGrab(d) \/ MarkRetry(d)

-----------------------------------------------------------------------------

\* One grab is emitted to the outbound channels once and pushed to its admin once
\* (as far as the push services tell), however many deliveries find it pending or
\* marked at the same time, fail half way, are posted again, or come after a restart.
GrabToldOnce == grab.emitted <= 1 /\ grab.pushed <= 1
=============================================================================
