--------------------------- MODULE AdminDecisions ---------------------------
(***************************************************************************)
(* The admin's routes over a request: PATCH and DELETE of                  *)
(* /api/requests/[id], and POST /api/requests/batch.  A desk is one        *)
(* handler in flight.  PATCH reads the row, compares-and-swaps on the      *)
(* status it read, then pushes to Radarr/Sonarr with nothing locked and    *)
(* rolls the approval back when the push failed.                           *)
(*                                                                         *)
(* A push may be accepted, refused, or accepted with the answer lost.      *)
(* Notes, searches and the approved/declined notifications change nothing  *)
(* modelled here.                                                          *)
(***************************************************************************)
EXTENDS RequestStore

CONSTANTS Desks

VARIABLES
    desk,
    backed    \* history: rows whose latest approval Radarr/Sonarr confirmed

deskVars == <<desk, backed>>

DeskType ==
    [pc     : {"idle", "decide", "push", "undo", "claim", "tell",
               "batchRead", "batchPush"},
     row    : Requests \cup {None},
     was    : Statuses \cup {None},   \* the status read
     todo   : SUBSET Requests,        \* the batch's rows still to push
     failed : SUBSET Requests]        \* and those whose push failed

IdleDesk == [pc |-> "idle", row |-> None, was |-> None, todo |-> {}, failed |-> {}]

DeskTypeOK ==
    /\ desk \in [Desks -> DeskType]
    /\ \A a \in Desks : desk[a].pc \notin {"idle", "batchRead", "batchPush"}
                          => desk[a].row \in Requests
    /\ backed \subseteq Requests

DeskInit == desk = [a \in Desks |-> IdleDesk] /\ backed = {}

Close(a) == desk' = [desk EXCEPT ![a] = IdleDesk]

-----------------------------------------------------------------------------
(* PATCH and DELETE *)

Open(a) ==
    /\ desk[a].pc = "idle"
    /\ \E r \in {q \in Requests : Exists(q)} :
         desk' = [desk EXCEPT ![a] = [IdleDesk EXCEPT !.pc = "decide", !.row = r,
                                                      !.was = rows[r].status]]
    /\ UNCHANGED <<storeVars, backed>>

Deciding(a, from) == desk[a].pc = "decide" /\ desk[a].was \in from

\* Mutated form: the write without its compare-and-swap.
UnmovedUnchecked(a) == Exists(desk[a].row)

\* The row still has the status that was read.
Unmoved(a) == rows[desk[a].row].status = desk[a].was

\* updateMany({where: {id, status: existing.status}, data: new})
Cas(a, new) == rows' = [rows EXCEPT ![desk[a].row] = new]

Approvable(row, banned) == [row EXCEPT !.status = "APPROVED", !.banned = banned,
                                       !.armed = TRUE]

\* Mutated form: the permanent flag survives the approval.
ApprovedStillBanned(row) == Approvable(row, row.banned)

Approved(row) == Approvable(row, FALSE)

Approve(a) ==
    /\ Deciding(a, {"PENDING", "DECLINED"})
    /\ Unmoved(a)
    /\ Cas(a, Approved(rows[desk[a].row]))
    /\ desk' = [desk EXCEPT ![a] = [@ EXCEPT !.pc = "push"]]
    /\ backed' = backed \ {desk[a].row}
    /\ UNCHANGED <<sent, wanted, avail, outside>>

\* Mutated form: the backstop survives the decline.
DeclinedStillArmed(row, permanent) == [row EXCEPT !.status = "DECLINED",
                                                  !.banned = permanent]

Declined(row, permanent) == [row EXCEPT !.status = "DECLINED", !.armed = FALSE,
                                        !.banned = permanent]

Decline(a) ==
    /\ Deciding(a, {"PENDING", "APPROVED"})
    /\ Unmoved(a)
    /\ \E permanent \in BOOLEAN : Cas(a, Declined(rows[desk[a].row], permanent))
    /\ Close(a)
    /\ backed' = backed \ {desk[a].row}
    /\ UNCHANGED <<sent, wanted, avail, outside>>

Reopen(a) ==
    /\ Deciding(a, {"DECLINED"})
    /\ Unmoved(a)
    /\ Cas(a, [rows[desk[a].row] EXCEPT !.status = "PENDING", !.banned = FALSE])
    /\ Close(a)
    /\ UNCHANGED <<sent, wanted, avail, outside, backed>>

MarkAvailable(a) ==
    /\ Deciding(a, {"APPROVED"})
    /\ Unmoved(a)
    /\ Cas(a, Arrived(rows[desk[a].row]))
    /\ desk' = [desk EXCEPT ![a] = [@ EXCEPT !.pc = "claim"]]
    /\ UNCHANGED <<sent, wanted, avail, outside, backed>>

\* Mutated form: the claim without its condition.
ClaimableAgain(r) == Exists(r)

\* The second statement's guard is on the flag alone.
Claimable(r) == Exists(r) /\ ~rows[r].notified

ClaimByHand(a) ==
    /\ desk[a].pc = "claim"
    /\ IF Claimable(desk[a].row)
       THEN /\ rows' = [rows EXCEPT ![desk[a].row] = Announced(@)]
            /\ desk' = [desk EXCEPT ![a] = [@ EXCEPT !.pc = "tell"]]
       ELSE Close(a) /\ UNCHANGED rows
    /\ UNCHANGED <<sent, wanted, avail, outside, backed>>

\* Nobody is told of their own action.
TellByHand(a) ==
    /\ desk[a].pc = "tell"
    /\ Deliver({desk[a].row}) \/ UNCHANGED sent
    /\ Close(a)
    /\ UNCHANGED <<rows, wanted, avail, outside, backed>>

\* 409: somebody moved the row since it was read.
Conflict(a) ==
    /\ desk[a].pc = "decide"
    /\ ~Unmoved(a)
    /\ Close(a)
    /\ UNCHANGED <<storeVars, backed>>

\* Radarr/Sonarr take the title of r, unless they have it.
Taken(r) == arr' = [arr EXCEPT ![TitleOf[r]] = IF @ = "absent" THEN "wanted" ELSE @]

\* The row was deleted since: the handler answers 404 and pushes nothing.
Push(a) ==
    /\ desk[a].pc = "push"
    /\ \/ /\ Exists(desk[a].row)
          /\ \/ /\ Taken(desk[a].row)
                /\ Close(a)
                /\ backed' = backed \cup {desk[a].row}
             \/ /\ Taken(desk[a].row) \/ UNCHANGED arr
                /\ desk' = [desk EXCEPT ![a] = [@ EXCEPT !.pc = "undo"]]
                /\ UNCHANGED backed
       \/ /\ ~Exists(desk[a].row)
          /\ Close(a)
          /\ UNCHANGED <<arr, backed>>
    /\ UNCHANGED <<tables, library, mail>>

Undo(a) ==
    /\ desk[a].pc = "undo"
    /\ rows' = [rows EXCEPT ![desk[a].row] =
                  IF RollbackAllowed(@) THEN RolledBack(@) ELSE @]
    /\ Close(a)
    /\ UNCHANGED <<sent, wanted, avail, outside, backed>>

\* Re-push: the status was read when the handler started and is not read again.
Retry(a) ==
    /\ Deciding(a, {"APPROVED"})
    /\ \/ Taken(desk[a].row) /\ backed' = backed \cup {desk[a].row}
       \/ (Taken(desk[a].row) \/ UNCHANGED arr) /\ UNCHANGED backed
    /\ Close(a)
    /\ UNCHANGED <<tables, library, mail>>

Delete(a) ==
    /\ desk[a].pc = "decide"
    /\ Exists(desk[a].row)
    /\ Cas(a, Deleted(rows[desk[a].row]))
    /\ Close(a)
    /\ backed' = backed \ {desk[a].row}
    /\ UNCHANGED <<sent, wanted, avail, outside>>

\* The requester cancels: only what is still pending.
Cancel(a) ==
    /\ Deciding(a, {"PENDING"})
    /\ Unmoved(a)
    /\ Cas(a, Deleted(rows[desk[a].row]))
    /\ Close(a)
    /\ UNCHANGED <<sent, wanted, avail, outside, backed>>

-----------------------------------------------------------------------------
(* The batch: claim, re-read, push row by row, roll back at the end *)

Pending(S) == {r \in S : rows[r].status = "PENDING"}

BatchApprove(a) ==
    /\ desk[a].pc = "idle"
    /\ \E S \in SUBSET Requests :
         /\ Pending(S) # {}
         /\ rows' = [r \in Requests |-> IF r \in Pending(S) THEN Approved(rows[r])
                                                            ELSE rows[r]]
         /\ desk' = [desk EXCEPT ![a] = [IdleDesk EXCEPT !.pc = "batchRead",
                                                         !.todo = Pending(S)]]
         /\ backed' = backed \ Pending(S)
    /\ UNCHANGED <<sent, wanted, avail, outside>>

BatchDecline(a) ==
    /\ desk[a].pc = "idle"
    /\ \E S \in SUBSET Requests, permanent \in BOOLEAN :
         /\ Pending(S) # {}
         /\ rows' = [r \in Requests |-> IF r \in Pending(S)
                                        THEN Declined(rows[r], permanent) ELSE rows[r]]
    /\ UNCHANGED <<sent, wanted, avail, outside, deskVars>>

BatchRead(a) ==
    /\ desk[a].pc = "batchRead"
    /\ desk' = [desk EXCEPT ![a] = [@ EXCEPT !.pc = "batchPush",
                                   !.todo = desk[a].todo \cap WithStatus({"APPROVED"})]]
    /\ UNCHANGED <<storeVars, backed>>

BatchPush(a) ==
    /\ desk[a].pc = "batchPush"
    /\ \E r \in desk[a].todo :
         \/ /\ Taken(r)
            /\ desk' = [desk EXCEPT ![a] = [@ EXCEPT !.todo = desk[a].todo \ {r}]]
            /\ backed' = backed \cup {r}
         \/ /\ Taken(r) \/ UNCHANGED arr
            /\ desk' = [desk EXCEPT ![a] = [@ EXCEPT !.todo = desk[a].todo \ {r},
                                           !.failed = desk[a].failed \cup {r}]]
            /\ UNCHANGED backed
    /\ UNCHANGED <<tables, library, mail>>

BatchUndo(a) ==
    /\ desk[a].pc = "batchPush"
    /\ desk[a].todo = {}
    /\ rows' = [r \in Requests |-> IF r \in desk[a].failed /\ RollbackAllowed(rows[r])
                                   THEN RolledBack(rows[r]) ELSE rows[r]]
    /\ Close(a)
    /\ UNCHANGED <<sent, wanted, avail, outside, backed>>

\* A restart while the handler is in flight.
DeskLost(a) ==
    /\ desk[a].pc # "idle"
    /\ Close(a)
    /\ UNCHANGED <<storeVars, backed>>

DeskStep(a) ==
    \/ Open(a) \/ Approve(a) \/ Decline(a) \/ Reopen(a) \/ MarkAvailable(a)
    \/ ClaimByHand(a) \/ TellByHand(a) \/ Conflict(a) \/ Push(a) \/ Undo(a)
    \/ Retry(a) \/ Delete(a) \/ Cancel(a)
    \/ BatchApprove(a) \/ BatchDecline(a) \/ BatchRead(a) \/ BatchPush(a)
    \/ BatchUndo(a) \/ DeskLost(a)

DecisionStep == \E a \in Desks : DeskStep(a)
=============================================================================
