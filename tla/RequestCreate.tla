--------------------------- MODULE RequestCreate ---------------------------
(***************************************************************************)
(* createMediaRequest (lib/request-create.ts), the web and API path that   *)
(* creates a row: reads, one serializable transaction, and for an auto-    *)
(* approver the push to Radarr/Sonarr and its rollback.  Attempt r, when   *)
(* it succeeds, creates the row r.                                         *)
(*                                                                         *)
(* A library copy is not consulted: the instance has skipLibraryCheck.     *)
(* Quotas, ratings, blacklists and votes can only refuse an attempt before *)
(* it starts and are not modelled.  The announcement to admins is not      *)
(* modelled.                                                               *)
(***************************************************************************)
EXTENDS RequestStore

CONSTANTS
    Owner,          \* the requester of each request
    AutoApproved    \* the requests whose requester may approve for themselves

ASSUME CreateAssumption ==
    /\ DOMAIN Owner = Requests
    /\ AutoApproved \subseteq Requests
    /\ None \notin Requests

VARIABLE intake

IntakeType ==
    [pc    : {"idle", "create", "push", "undo", "done"},
     stale : Requests \cup {None},   \* the declined row to replace
     has   : BOOLEAN]                \* the *arr held the title when read

IntakeTypeOK == intake \in [Requests -> IntakeType]

NoIntake == [pc |-> "idle", stale |-> None, has |-> FALSE]
Finished == [pc |-> "done", stale |-> None, has |-> FALSE]

IntakeInit == intake = [r \in Requests |-> NoIntake]

\* Mutated form: an index over the pending rows only.
RivalsPending(r) == {q \in Requests \ {r} : /\ Owner[q] = Owner[r]
                                             /\ TitleOf[q] = TitleOf[r]
                                             /\ rows[q].status = "PENDING"}

\* What the unique index (requestedBy, tmdbId, mediaType, arrInstance) spans.
Rivals(r) == {q \in Requests \ {r} : /\ Owner[q] = Owner[r]
                                      /\ TitleOf[q] = TitleOf[r]
                                      /\ Exists(q)}

\* The reads before the transaction.  Any row of the same requester but an
\* ordinary decline refuses the attempt.
ReadForCreate(r) ==
    /\ intake[r].pc = "idle"
    /\ rows[r].status = "NONE"
    /\ \A q \in Rivals(r) : rows[q].status = "DECLINED" /\ ~rows[q].banned
    /\ intake' = [intake EXCEPT ![r] =
         [pc |-> "create", has |-> TitleOf[r] \in avail,
          stale |-> IF Rivals(r) = {} THEN None ELSE CHOOSE q \in Rivals(r) : TRUE]]
    /\ UNCHANGED storeVars

\* Mutated form: the delete without its compare-and-swap.
ReplaceableUnguarded(q) == Exists(q)

\* Is the declined row still there to be replaced?
Replaceable(q) == rows[q].status = "DECLINED" /\ ~rows[q].banned

\* The rows of the title whose status a new request copies.
Greenlit(r) == {p \in RowsOf(TitleOf[r]) :
                  rows[p].status \in {"APPROVED", "AVAILABLE"} /\ rows[p].stamp = None}

\* The statuses a new row may be created with, and whether its backstop is armed.
Created(r) ==
    IF r \in AutoApproved THEN {NewRow("APPROVED", TRUE)}
    ELSE IF Greenlit(r) = {} THEN {NewRow("PENDING", FALSE)}
    ELSE {NewRow(IF rows[p].status = "AVAILABLE" /\ ~intake[r].has
                 THEN "APPROVED" ELSE rows[p].status, FALSE) : p \in Greenlit(r)}

\* The transaction: delete the stale row, insert, or roll back on the index.
CreateRow(r) ==
    /\ intake[r].pc = "create"
    /\ ~(r \in AutoApproved /\ intake[r].has)
    /\ LET gone == {q \in {intake[r].stale} \ {None} : Replaceable(q)} IN
         /\ Rivals(r) \subseteq gone
         /\ \E new \in Created(r) :
              rows' = [q \in Requests |-> IF q = r THEN new
                                          ELSE IF q \in gone THEN Deleted(rows[q]) ELSE rows[q]]
    /\ intake' = [intake EXCEPT ![r] =
         IF r \in AutoApproved THEN [Finished EXCEPT !.pc = "push"] ELSE Finished]
    /\ UNCHANGED <<sent, wanted, avail, outside>>

\* Already on the instance, or beaten by another request of the same requester.
CreateRefused(r) ==
    /\ intake[r].pc = "create"
    /\ \/ r \in AutoApproved /\ intake[r].has
       \/ \E q \in Rivals(r) : q # intake[r].stale \/ ~Replaceable(q)
    /\ intake' = [intake EXCEPT ![r] = Finished]
    /\ UNCHANGED storeVars

\* Radarr/Sonarr take the title, unless they have it.
Pushed(t) == arr' = [arr EXCEPT ![t] = IF @ = "absent" THEN "wanted" ELSE @]

CreatePush(r) ==
    /\ intake[r].pc = "push"
    /\ \/ Pushed(TitleOf[r]) /\ intake' = [intake EXCEPT ![r] = Finished]
       \/ /\ Pushed(TitleOf[r]) \/ UNCHANGED arr
          /\ intake' = [intake EXCEPT ![r] = [@ EXCEPT !.pc = "undo"]]
    /\ UNCHANGED <<tables, library, mail>>

CreateUndo(r) ==
    /\ intake[r].pc = "undo"
    /\ rows' = [rows EXCEPT ![r] = IF RollbackAllowed(@) THEN RolledBack(@) ELSE @]
    /\ intake' = [intake EXCEPT ![r] = Finished]
    /\ UNCHANGED <<sent, wanted, avail, outside>>

\* A restart while the handler is in flight.
CreateLost(r) ==
    /\ intake[r].pc \notin {"idle", "done"}
    /\ intake' = [intake EXCEPT ![r] = Finished]
    /\ UNCHANGED storeVars

CreateStep ==
    \E r \in Requests : \/ ReadForCreate(r) \/ CreateRow(r) \/ CreateRefused(r)
                        \/ CreatePush(r) \/ CreateUndo(r) \/ CreateLost(r)
=============================================================================
