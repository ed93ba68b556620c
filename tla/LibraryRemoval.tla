--------------------------- MODULE LibraryRemoval ---------------------------
(***************************************************************************)
(* Deliberate removals: Library cleanup's confirmed delete, the title      *)
(* manager's Remove, and its Add, which takes a removal back.  A removal   *)
(* stamps the title's AVAILABLE requests (cleanedUpAt) before it deletes,  *)
(* so that the sync does not read the absence as a lost file.              *)
(*                                                                         *)
(* The stamp is the time of the execution; two executions have different   *)
(* times, so an execution is its stamp.  A title is one instance's copy,   *)
(* so an execution has one target; the partial outcome of a cleanup over   *)
(* several instances is one execution per instance.  The dry run, the      *)
(* blacklist and deletion votes are not modelled.                          *)
(***************************************************************************)
EXTENDS RequestStore

VARIABLES
    exec,
    settled,   \* history: rows a completed removal stamped last
    removed    \* history: titles an admin removed and nobody put back since

removalVars == <<exec, settled, removed>>

ExecType ==
    [pc    : {"idle", "read", "stamp", "delete", "unstamp", "own", "assert", "clear"},
     kind  : {"cleanup", "remove"},
     title : Titles \cup {None},
     gone  : BOOLEAN,                \* the title is known to be off the instance
     owns  : SUBSET Requests]        \* the rows it stamped, or will stamp

IdleExec == [pc |-> "idle", kind |-> "cleanup", title |-> None, gone |-> FALSE,
             owns |-> {}]

RemovalTypeOK ==
    /\ exec \in [Executes -> ExecType]
    /\ \A e \in Executes : exec[e].pc # "idle" => exec[e].title \in Titles
    /\ settled \subseteq Requests
    /\ removed \subseteq Titles

RemovalInit ==
    /\ exec = [e \in Executes |-> IdleExec]
    /\ settled = {} /\ removed = {}

-----------------------------------------------------------------------------
(* Planning and stamping *)

\* The requests that forbid the removal of a title.
Active(kind) == IF kind = "cleanup" THEN {"PENDING", "APPROVED"} ELSE {"APPROVED"}

Plan(e) ==
    /\ exec[e].pc = "idle"
    /\ \E t \in Titles, kind \in {"cleanup", "remove"} :
         /\ arr[t] # "absent"
         /\ RowsOf(t) \cap WithStatus(Active(kind)) = {}
         /\ exec' = [exec EXCEPT ![e] = [IdleExec EXCEPT
                       !.pc = IF kind = "cleanup" THEN "read" ELSE "stamp",
                       !.kind = kind, !.title = t]]
    /\ UNCHANGED <<storeVars, settled, removed>>

Stampable(t) == {r \in RowsOf(t) : rows[r].status = "AVAILABLE" /\ rows[r].stamp = None}

\* Cleanup reads the rows it will stamp.
ReadStampable(e) ==
    /\ exec[e].pc = "read"
    /\ exec' = [exec EXCEPT ![e] = [@ EXCEPT !.pc = "stamp",
                                   !.owns = Stampable(exec[e].title)]]
    /\ UNCHANGED <<storeVars, settled, removed>>

Stamped(e, row) == [row EXCEPT !.stamp = e]

\* Remove stamps what it finds in the same statement.
ToStamp(e) == IF exec[e].kind = "remove" THEN Stampable(exec[e].title)
              ELSE {r \in exec[e].owns : Exists(r) /\ rows[r].stamp = None}

Stamp(e) ==
    /\ exec[e].pc = "stamp"
    /\ rows' = [r \in Requests |-> IF r \in ToStamp(e)
                                   THEN Stamped(e, rows[r]) ELSE rows[r]]
    /\ exec' = [exec EXCEPT ![e] = [@ EXCEPT !.pc = "delete",
                                   !.owns = IF exec[e].kind = "remove" THEN ToStamp(e)
                                            ELSE exec[e].owns]]
    /\ UNCHANGED <<sent, wanted, avail, outside, settled, removed>>

-----------------------------------------------------------------------------
(* The delete: accepted (a 404 counts), refused, or unknown *)

\* The *arr takes the title off and sends its Delete webhook.
TakenOff(t) ==
    /\ arr' = [arr EXCEPT ![t] = "absent"]
    /\ mail' = IF arr[t] = "absent" THEN mail
               ELSE mail \cup {[type |-> "Delete", title |-> t]}

\* The title is off the instance.  Cleanup reads the rows it re-asserts first.
Settle(e) ==
    exec' = [exec EXCEPT ![e] = [@ EXCEPT !.gone = TRUE, !.owns = {},
                                !.pc = IF exec[e].kind = "cleanup" THEN "own" ELSE "assert"]]

DeleteAccepted(e) ==
    /\ exec[e].pc = "delete"
    /\ TakenOff(exec[e].title)
    /\ removed' = removed \cup {exec[e].title}
    /\ Settle(e)
    /\ UNCHANGED <<tables, library, settled>>

\* A definite refusal leaves the title on the instance.
DeleteRefused(e) ==
    /\ exec[e].pc = "delete"
    /\ arr[exec[e].title] # "absent"
    /\ exec' = [exec EXCEPT ![e] = [@ EXCEPT !.pc = "unstamp"]]
    /\ UNCHANGED <<storeVars, settled, removed>>

\* A timeout, a network failure, a gateway's 502: the title may be gone.  Cleanup
\* holds the stamps as if it were; Remove reads the title back first.
DeleteUnknown(e) ==
    /\ exec[e].pc = "delete"
    /\ TakenOff(exec[e].title) \/ UNCHANGED <<arr, mail>>
    /\ \/ /\ exec[e].kind = "cleanup"
          /\ exec' = [exec EXCEPT ![e] = [@ EXCEPT !.pc = "own", !.owns = {}]]
       \/ /\ exec[e].kind = "remove" /\ arr'[exec[e].title] = "absent"
          /\ Settle(e)
       \/ /\ exec[e].kind = "remove"
          /\ exec' = [exec EXCEPT ![e] = IdleExec]
    /\ removed' = IF arr'[exec[e].title] = "absent"
                  THEN removed \cup {exec[e].title} ELSE removed
    /\ UNCHANGED <<tables, library, settled>>

Withdraw(e) == {r \in exec[e].owns : UnstampOwn(e, rows[r])}

\* Remove reads the title back between the refusal and the unstamp.
Unstamp(e) ==
    /\ exec[e].pc = "unstamp"
    /\ \/ /\ rows' = [r \in Requests |-> IF r \in Withdraw(e)
                                         THEN [rows[r] EXCEPT !.stamp = None]
                                         ELSE rows[r]]
          /\ exec' = [exec EXCEPT ![e] = IdleExec]
       \/ /\ exec[e].kind = "remove" /\ arr[exec[e].title] = "absent"
          /\ Settle(e)
          /\ UNCHANGED rows
    /\ UNCHANGED <<sent, wanted, avail, outside, settled, removed>>

-----------------------------------------------------------------------------
(* Re-asserting the stamp on every AVAILABLE request of the title *)

OwnRows(e) == RowsOf(exec[e].title) \cap WithStatus({"AVAILABLE"})

ReadOwn(e) ==
    /\ exec[e].pc = "own"
    /\ exec' = [exec EXCEPT ![e] = [@ EXCEPT !.pc = "assert", !.owns = OwnRows(e)]]
    /\ UNCHANGED <<storeVars, settled, removed>>

\* Remove finds them in the same statement that writes them.
Own(e) == IF exec[e].kind = "remove" THEN OwnRows(e) ELSE exec[e].owns \cap OwnRows(e)

\* Mutated form: the re-assertion keeps a stamp it finds.
ReassertUnstamped(e) == {r \in Own(e) : rows[r].stamp = None}

Reassert(e) == Own(e)

ReassertStamps(e) ==
    /\ exec[e].pc = "assert"
    /\ rows' = [r \in Requests |-> IF r \in Reassert(e)
                                   THEN Stamped(e, rows[r]) ELSE rows[r]]
    /\ settled' = IF exec[e].gone THEN settled \cup Own(e) ELSE settled
    /\ exec' = [exec EXCEPT ![e] = IdleExec]
    /\ UNCHANGED <<sent, wanted, avail, outside, removed>>

-----------------------------------------------------------------------------
(* Putting a title back *)

AddBack(e) ==
    /\ exec[e].pc = "idle"
    /\ \E t \in Titles :
         /\ arr[t] = "absent"
         /\ arr' = [arr EXCEPT ![t] = "wanted"]
         /\ removed' = removed \ {t}
         /\ exec' = [exec EXCEPT ![e] = [IdleExec EXCEPT !.pc = "clear", !.title = t]]
    /\ UNCHANGED <<tables, library, mail, settled>>

ClearStamps(e) ==
    /\ exec[e].pc = "clear"
    /\ rows' = [r \in Requests |-> IF TitleOf[r] = exec[e].title
                                   THEN [rows[r] EXCEPT !.stamp = None] ELSE rows[r]]
    /\ settled' = settled \ RowsOf(exec[e].title)
    /\ exec' = [exec EXCEPT ![e] = IdleExec]
    /\ UNCHANGED <<sent, wanted, avail, outside, removed>>

ExecLost(e) ==
    /\ exec[e].pc # "idle"
    /\ exec' = [exec EXCEPT ![e] = IdleExec]
    /\ UNCHANGED <<storeVars, settled, removed>>

ExecStep(e) ==
    \/ Plan(e) \/ ReadStampable(e) \/ Stamp(e)
    \/ DeleteAccepted(e) \/ DeleteRefused(e) \/ DeleteUnknown(e) \/ Unstamp(e)
    \/ ReadOwn(e) \/ ReassertStamps(e) \/ AddBack(e) \/ ClearStamps(e) \/ ExecLost(e)

RemovalStep == \E e \in Executes : ExecStep(e)
=============================================================================
