-------------------------- MODULE DownloadFollowUp --------------------------
(***************************************************************************)
(* "Did the approval actually start downloading?"  An approval arms the    *)
(* row's backstop (pendingNotifyAt) and, once Radarr/Sonarr took the title,*)
(* schedules one delayed job for the rows it approved.  The job, and the   *)
(* hourly sync's sweep of the overdue rows after it, ask Radarr/Sonarr and *)
(* consume the backstop before they tell the requester.                    *)
(*                                                                         *)
(* The backstop holds the id of the approval that armed it: an approval    *)
(* and its job are a check.  A check's rows are looked at one after the    *)
(* other (the code overlaps four of them; they are different rows).  Only  *)
(* the columns the follow-up reads are modelled; the other writers of the  *)
(* row are RequestFulfilment's.                                            *)
(***************************************************************************)
EXTENDS DelayedJobs

CONSTANTS
    Requests,
    Checks,     \* approvals, each with the job it schedules
    Sweep,      \* the orchestrator's sweep of the overdue rows
    Muted,      \* requests whose requester's account is disabled
    MaxFaults,  \* bound: rows given up on an unreadable queue or a failed statement
    NoRow

ASSUME FollowUpAssumption ==
    /\ Checks \subseteq Jobs
    /\ Sweep \notin Checks
    /\ NoRow \notin Requests \cup Checks
    /\ Muted \subseteq Requests
    /\ MaxFaults \in Nat

VARIABLES
    row,        \* the request's row
    download,   \* external: how far Radarr/Sonarr are with the title
    approval,   \* the approving handler
    checker,    \* a check or the sweep, at work
    told,       \* per request, the "not started" notices sent
    faults      \* how often a row was given up

followVars == <<row, download, approval, checker, told, faults>>

Checkers == Checks \cup {Sweep}

IdleChecker == [pc |-> "idle", todo |-> {}, at |-> NoRow]

FollowTypeOK ==
    /\ row \in [Requests -> [status : {"NONE", "PENDING", "APPROVED", "DECLINED", "AVAILABLE"},
                             armed  : Checks \cup {NoRow},
                             due    : BOOLEAN]]
    /\ download \in [Requests -> {"waiting", "queued", "onDisk"}]
    /\ approval \in [Checks -> [pc : {"unused", "push", "done"}, rows : SUBSET Requests]]
    /\ checker \in [Checkers -> [pc   : {"idle", "ask", "retire", "claim", "send"},
                                 todo : SUBSET Requests,
                                 at   : Requests \cup {NoRow}]]
    /\ told \in [Requests -> Nat]
    /\ faults \in 0..MaxFaults

\* The requests of R are pending, the others do not exist; the approvals of C may
\* be given.
FollowInit(R, C) ==
    /\ row = [r \in Requests |-> [status |-> IF r \in R THEN "PENDING" ELSE "NONE",
                                  armed |-> NoRow, due |-> FALSE]]
    /\ download = [r \in Requests |-> "waiting"]
    /\ approval = [c \in Checks |-> [pc |-> IF c \in C THEN "unused" ELSE "done",
                                  rows |-> {}]]
    /\ checker = [w \in Checkers |-> IdleChecker]
    /\ told = [r \in Requests |-> 0]
    /\ faults = 0

-----------------------------------------------------------------------------
(* The approval *)

Armed(r, c)  == [row[r] EXCEPT !.status = "APPROVED", !.armed = c, !.due = FALSE]
Moved(r, s)  == [row[r] EXCEPT !.status = s, !.armed = NoRow, !.due = FALSE]
Consumed(r)  == [row[r] EXCEPT !.armed = NoRow, !.due = FALSE]

\* One pending or declined row, or a batch of pending ones: one UPDATE.
Approvable(R) ==
    \/ \A r \in R : row[r].status = "PENDING"
    \/ \E r \in R : R = {r} /\ row[r].status = "DECLINED"

Approve(c) ==
    /\ approval[c].pc = "unused"
    /\ \E R \in SUBSET Requests \ {{}} :
         /\ Approvable(R)
         /\ row' = [r \in Requests |-> IF r \in R THEN Armed(r, c) ELSE row[r]]
         /\ approval' = [approval EXCEPT ![c] = [pc |-> "push", rows |-> R]]
    /\ UNCHANGED <<download, checker, told, faults, poolVars>>

\* Radarr/Sonarr refuse some of the titles: those rows go back to PENDING if they
\* are still APPROVED.  The others share one job, unless the pool refuses it.
Pushed(c) ==
    /\ approval[c].pc = "push"
    /\ \E refused \in SUBSET approval[c].rows :
         LET kept == approval[c].rows \ refused IN
         /\ row' = [r \in Requests |-> IF r \in refused /\ row[r].status = "APPROVED"
                                       THEN Moved(r, "PENDING") ELSE row[r]]
         /\ IF kept # {} /\ CanSchedule
            THEN /\ Schedule(c)
                 /\ checker' = [checker EXCEPT ![c].todo = kept]
            ELSE UNCHANGED <<checker, poolVars>>
    /\ approval' = [approval EXCEPT ![c].pc = "done"]
    /\ UNCHANGED <<download, told, faults>>

-----------------------------------------------------------------------------
(* One check *)

AtWork(w) == w = Sweep \/ w \in workers

Leave(w) == checker' = [checker EXCEPT ![w].pc = "idle", ![w].at = NoRow]
At(w, pc) == checker' = [checker EXCEPT ![w].pc = pc]

\* The row is read: nothing to ask about one that is not APPROVED any more.
Look(w) ==
    /\ AtWork(w) /\ checker[w].pc = "idle"
    /\ \E r \in checker[w].todo :
         checker' = [checker EXCEPT
           ![w] = IF row[r].status = "APPROVED"
                  THEN [pc |-> "ask", todo |-> @.todo \ {r}, at |-> r]
                  ELSE [@ EXCEPT !.todo = checker[w].todo \ {r}]]
    /\ UNCHANGED <<row, download, approval, told, faults, poolVars>>

\* Mutated form: nobody is the last to follow up.
NeverLast(w) == FALSE

Last(w) == w = Sweep

\* Radarr/Sonarr answer.  Only the sweep, the last to follow up, retires the
\* backstop of a title that is downloading; the job leaves it to the sweep.
Ask(w) ==
    /\ checker[w].pc = "ask"
    /\ IF download[checker[w].at] # "queued" THEN At(w, "claim")
       ELSE IF Last(w) THEN At(w, "retire") ELSE Leave(w)
    /\ UNCHANGED <<row, download, approval, told, faults, poolVars>>

\* The queue cannot be read, or a statement throws: this row is left alone, and
\* the other rows of the check are not.
GiveUp(w) ==
    /\ checker[w].pc # "idle" /\ faults < MaxFaults
    /\ faults' = faults + 1
    /\ Leave(w)
    /\ UNCHANGED <<row, download, approval, told, poolVars>>

\* Mutated form: the consume by id and status alone.
ConsumableTwice(r) == row[r].status = "APPROVED"

\* where: {id, status: "APPROVED", pendingNotifyAt: {not: null}}
Consumable(r) == row[r].status = "APPROVED" /\ row[r].armed # NoRow

Consume(w) ==
    row' = [r \in Requests |-> IF r = checker[w].at /\ Consumable(r)
                               THEN Consumed(r) ELSE row[r]]

Retire(w) ==
    /\ checker[w].pc = "retire"
    /\ Consume(w)
    /\ Leave(w)
    /\ UNCHANGED <<download, approval, told, faults, poolVars>>

\* Whoever consumes the backstop tells the requester, unless the account is disabled.
Claim(w) ==
    /\ checker[w].pc = "claim"
    /\ Consume(w)
    /\ IF Consumable(checker[w].at) /\ checker[w].at \notin Muted
       THEN At(w, "send") ELSE Leave(w)
    /\ UNCHANGED <<download, approval, told, faults, poolVars>>

Send(w) ==
    /\ checker[w].pc = "send"
    /\ told' = [told EXCEPT ![checker[w].at] = @ + 1]
    /\ Leave(w)
    /\ UNCHANGED <<row, download, approval, faults, poolVars>>

\* The job has looked at its last row.
EndCheck(c) ==
    /\ c \in workers /\ checker[c] = IdleChecker
    /\ Finish(c)
    /\ UNCHANGED followVars

FireCheck(c) == (Fire(c) \/ DropAtFire(c)) /\ UNCHANGED followVars

-----------------------------------------------------------------------------
(* The sweep, and what else moves the row *)

Overdue(r) == row[r].status = "APPROVED" /\ row[r].due

\* The sweep starts from its run's snapshot, and skips titles seen on disk.
SweepBegin ==
    /\ checker[Sweep] = IdleChecker
    /\ \E seen \in SUBSET {r \in Requests : download[r] = "onDisk"} :
         LET overdue == {r \in Requests : Overdue(r)} \ seen IN
         /\ overdue # {}
         /\ checker' = [checker EXCEPT ![Sweep].todo = overdue]
    /\ UNCHANGED <<row, download, approval, told, faults, poolVars>>

\* Ninety seconds after the approval.
Elapse(r) ==
    /\ row[r].armed # NoRow /\ ~row[r].due
    /\ row' = [row EXCEPT ![r].due = TRUE]
    /\ UNCHANGED <<download, approval, checker, told, faults, poolVars>>

\* An import (a webhook or a library pass) makes the row AVAILABLE.
Arrive(r) ==
    /\ download[r] = "onDisk" /\ row[r].status = "APPROVED"
    /\ row' = [row EXCEPT ![r] = Moved(r, "AVAILABLE")]
    /\ UNCHANGED <<download, approval, checker, told, faults>>

Decline(r) ==
    /\ row[r].status \in {"PENDING", "APPROVED"}
    /\ row' = [row EXCEPT ![r] = Moved(r, "DECLINED")]
    /\ UNCHANGED <<download, approval, checker, told, faults, poolVars>>

\* Radarr/Sonarr (external) find a release, lose it again, or import it.
Progress(r) ==
    /\ row[r].status # "NONE"
    /\ \E next \in CASE download[r] = "waiting" -> {"queued"}
                     [] download[r] = "queued"  -> {"waiting", "onDisk"}
                     [] OTHER -> {} :
         download' = [download EXCEPT ![r] = next]
    /\ UNCHANGED <<row, approval, checker, told, faults, poolVars>>

\* A restart: the row is all that is left.
LoseFollowUp ==
    /\ checker' = [w \in Checkers |-> IdleChecker]
    /\ approval' = [c \in Checks |-> IF approval[c].pc = "push"
                                     THEN [approval[c] EXCEPT !.pc = "done"]
                                     ELSE approval[c]]
    /\ UNCHANGED <<row, download, told, faults>>

FollowUpStep ==
    \/ \E c \in Checks : Approve(c) \/ Pushed(c) \/ EndCheck(c) \/ FireCheck(c)
    \/ \E w \in Checkers : \/ Look(w) \/ Ask(w) \/ GiveUp(w) \/ Retire(w)
                           \/ Claim(w) \/ Send(w)
    \/ SweepBegin
    \/ \E r \in Requests : \/ Elapse(r) \/ Decline(r) \/ Progress(r)
                           \/ Arrive(r) /\ UNCHANGED poolVars

-----------------------------------------------------------------------------

\* A requester is told "it has not started" at most once for each approval of the
\* request, however the jobs, the sweep, re-approvals and restarts overlap.
ToldOncePerApproval ==
    \A r \in Requests :
       told[r] <= Cardinality({c \in Checks : r \in approval[c].rows})

\* An armed backstop does not stay: unless the title arrives, somebody asks
\* Radarr/Sonarr about it, though the job may be refused, dropped, fail or be lost
\* with the process.
BackstopSettled ==
    \A r \in Requests :
       row[r].armed # NoRow ~> row[r].armed = NoRow \/ download[r] = "onDisk"
=============================================================================
