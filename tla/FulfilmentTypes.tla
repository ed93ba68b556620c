--------------------------- MODULE FulfilmentTypes ---------------------------
(***************************************************************************)
(* What every step of RequestFulfilment does to a row of the table, and    *)
(* the type invariant, proved for every value of the constants.            *)
(*                                                                         *)
(* Every later proof rests on TableStep: whoever takes a step, a row stays *)
(* as it was or goes through one of the few statements of RowMove, is      *)
(* created, is claimed or deleted at a desk, or has a removal write its    *)
(* stamp.  What must be known beforehand is CreatesUnused: a creation in   *)
(* flight still finds its row unused (row ids are never reused).           *)
(***************************************************************************)
EXTENDS RequestFulfilment, TLAPS

\* The statements a row can go through; the hourly run alone demotes.
RowMove(row, new) ==
    \/ new = row
    \/ Markable(row) /\ new = Marked(row)
    \/ row.status = "AVAILABLE" /\ ~row.notified /\ new = Announced(row)
    \/ Forward(row) /\ new = Arrived(row)
    \/ Demotable(row) /\ run.pc = "demote" /\ run' # run /\ new = Demoted(row)
    \/ new = Disarmed(row)
    \/ RollbackAllowed(row) /\ new = RolledBack(row)
    \/ row.status \in {"PENDING", "DECLINED"} /\ new = Approved(row)
    \/ /\ row.status \in {"PENDING", "APPROVED"}
       /\ \E permanent \in BOOLEAN : new = Declined(row, permanent)
    \/ /\ row.status = "DECLINED"
       /\ new = [row EXCEPT !.status = "PENDING", !.banned = FALSE]
    \/ row.status = "DECLINED" /\ ~row.banned /\ new = Deleted(row)

NewRows == {NewRow("PENDING", FALSE), NewRow("APPROVED", FALSE),
            NewRow("APPROVED", TRUE), NewRow("AVAILABLE", FALSE)}

\* Or it is created, by the attempt that bears its name.
Born(r) == /\ rows[r].status = "NONE" /\ rows'[r] \in NewRows
           /\ intake[r].pc = "create" /\ intake'[r].pc # "create"

\* Or a desk that has read it claims or deletes it, whatever it has become.
AtDesk(r) ==
    \E a \in Desks :
       /\ desk[a].row = r /\ desk'[a] # desk[a] /\ Exists(r)
       /\ \/ desk[a].pc = "claim" /\ ~rows[r].notified /\ rows'[r] = Announced(rows[r])
          \/ rows'[r] = Deleted(rows[r])

\* Or a removal, or an Add, writes its stamp.
Restamped(r) ==
    /\ exec' # exec
    /\ \E e \in Executes \cup {None} : rows'[r] = [rows[r] EXCEPT !.stamp = e]

TableMoves ==
    /\ rows' = [r \in Requests |-> rows'[r]]
    /\ \A r \in Requests : RowMove(rows[r], rows'[r]) \/ Born(r) \/ AtDesk(r) \/ Restamped(r)

CreatesUnused ==
    \A r \in Requests : intake[r].pc = "create" => rows[r].status = "NONE"

-----------------------------------------------------------------------------
(* Rows *)

\* A row stays a row through every statement that writes one.
LEMMA RowMoveType ==
  ASSUME NEW row \in Row, NEW new, RowMove(row, new)
  PROVE  new \in Row
<1>1. None \in Executes \cup {None}
  OBVIOUS
<1>2. CASE Markable(row) /\ new = Marked(row)
  BY <1>2 DEF Row, Marked, Statuses
<1>3. CASE new = Announced(row)
  BY <1>3 DEF Row, Announced
<1>4. CASE Forward(row) /\ new = Arrived(row)
  BY <1>4 DEF Row, Arrived, Statuses
<1>5. CASE Demotable(row) /\ new = Demoted(row)
  BY <1>5 DEF Row, Demoted, Statuses
<1>6. CASE new = Disarmed(row)
  BY <1>6 DEF Row, Disarmed
<1>7. CASE RollbackAllowed(row) /\ new = RolledBack(row)
  BY <1>7 DEF Row, RolledBack, Statuses
<1>8. CASE new = Approved(row)
  BY <1>8 DEF Row, Approved, Approvable, Statuses
<1>9. CASE \E permanent \in BOOLEAN : new = Declined(row, permanent)
  BY <1>9 DEF Row, Declined, Statuses
<1>10. CASE new = [row EXCEPT !.status = "PENDING", !.banned = FALSE]
  BY <1>10 DEF Row, Statuses
<1>11. CASE new = Deleted(row)
  BY <1>1, <1>11 DEF Row, Deleted, Statuses
<1> QED
  BY <1>2, <1>3, <1>4, <1>5, <1>6, <1>7, <1>8, <1>9, <1>10, <1>11
     DEF RowMove

\* A table of rows stays one.
LEMMA TableMovesType ==
  ASSUME rows \in [Requests -> Row], TableMoves
  PROVE  rows' \in [Requests -> Row]
<1>1. ASSUME NEW r \in Requests PROVE rows'[r] \in Row
  <2>1. rows[r] \in Row
    OBVIOUS
  <2>2. CASE RowMove(rows[r], rows'[r])
    BY <2>1, <2>2, RowMoveType
  <2>3. CASE Born(r)
    <3>1. \A s \in Statuses, b \in BOOLEAN : NewRow(s, b) \in Row
      BY DEF Row, NewRow
    <3> QED
      BY <2>3, <3>1 DEF Born, NewRows, Statuses
  <2>4. CASE AtDesk(r)
    <3>1. Announced(rows[r]) \in Row
      BY <2>1 DEF Row, Announced
    <3>2. None \in Executes \cup {None} /\ "GONE" \in Statuses
      BY DEF Statuses
    <3>3. Deleted(rows[r]) \in Row
      BY <2>1, <3>2 DEF Row, Deleted
    <3> QED
      BY <2>4, <3>1, <3>3 DEF AtDesk
  <2>5. CASE Restamped(r)
    BY <2>1, <2>5 DEF Restamped, Row
  <2> QED
    BY <2>2, <2>3, <2>4, <2>5 DEF TableMoves
<1> QED
  BY <1>1 DEF TableMoves

\* A step that leaves the table alone moves no row.
LEMMA TableKept ==
  ASSUME rows \in [Requests -> Row], UNCHANGED rows
  PROVE  TableMoves
BY DEF TableMoves, RowMove

-----------------------------------------------------------------------------
(* What each component does to the table *)

\* The hourly run: claims, disarmings, silent flips and demotions.
LEMMA SyncMovesRows == ASSUME TypeOK, Sync PROVE TableMoves
<1>0. rows \in [Requests -> Row]
  BY DEF TypeOK, StoreTypeOK
<1>1. CASE ClaimFirst \/ ClaimSecond \/ ClaimLibrary
  BY <1>0, <1>1 DEF ClaimFirst, ClaimSecond, ClaimLibrary, ClaimFor, ClaimMarking,
                    TableMoves, RowMove
<1>2. CASE FinishFirst
  BY <1>0, <1>2 DEF FinishFirst, TableMoves, RowMove
<1>3. CASE FinishSecond
  BY <1>0, <1>3 DEF FinishSecond, TableMoves, RowMove
<1>4. CASE SweepOverdue
  BY <1>0, <1>4 DEF SweepOverdue, TableMoves, RowMove
<1>5. CASE Demote
  <2>1. run.pc = "demote" /\ run'.pc = "still"
    BY <1>5 DEF Demote, TypeOK, SyncTypeOK, RunType
  <2> QED
    BY <1>0, <1>5, <2>1 DEF Demote, TableMoves, RowMove
<1>6. CASE FinishLibrary
  <2>1. rows' = [r \in Requests |->
                   CASE r \in run.won -> Disarmed(rows[r])
                     [] r \in run.only /\ Forward(rows[r]) -> Arrived(rows[r])
                     [] OTHER -> rows[r]]
    BY <1>6 DEF FinishLibrary
  <2>2. ASSUME NEW r \in Requests
        PROVE  \/ rows'[r] = rows[r] \/ rows'[r] = Disarmed(rows[r])
               \/ Forward(rows[r]) /\ rows'[r] = Arrived(rows[r])
    BY <2>1
  <2> QED
    BY <2>1, <2>2 DEF TableMoves, RowMove
<1>7. CASE ClaimFallback
  BY <1>0, <1>7 DEF ClaimFallback, ClaimAnnouncing, Announceable, TableMoves, RowMove
<1>8. CASE UNCHANGED rows
  BY <1>0, <1>8, TableKept
<1> QED
  BY <1>1, <1>2, <1>3, <1>4, <1>5, <1>6, <1>7, <1>8
     DEF Sync, SyncStep, SyncProgress, SyncBegin, SnapAvailable, ReadFirst, FetchArr,
         WriteArr, ReadSecond, ReadRepush, PushAgain, ReadInArr, FetchLibrary,
         LibrariesDone, SkipDemote, ReadStill, ReadHeld, ReadLibrary,
         LibraryPassesDone, ReadUnannounced, SyncEnd, SyncAbort, storeVars, tables

\* The webhooks: one transaction per verified import, and the late announcement.
LEMMA WebhookMovesRows == ASSUME TypeOK, Webhook PROVE TableMoves
<1>0. rows \in [Requests -> Row]
  BY DEF TypeOK, StoreTypeOK
<1>1. ASSUME NEW t, NEW confirmed, FlipApproved(t, confirmed) PROVE TableMoves
  BY <1>0, <1>1 DEF FlipApproved, Imported, Forward, TableMoves, RowMove
<1>2. ASSUME NEW h \in Hooks, Flip(h) PROVE TableMoves
  BY <1>0, <1>1, <1>2, TableKept DEF Flip, storeVars, tables
<1>3. ASSUME NEW h \in Hooks, FlipLate(h) PROVE TableMoves
  BY <1>1, <1>3 DEF FlipLate
<1>4. ASSUME NEW h \in Hooks, Notify(h) PROVE TableMoves
  BY <1>0, <1>4 DEF Notify, ClaimAnnouncing, Announceable, TableMoves, RowMove
<1>5. CASE UNCHANGED rows
  BY <1>0, <1>5, TableKept
<1> QED
  BY <1>2, <1>3, <1>4, <1>5
     DEF Webhook, WebhookStep, HookStep, EvictTitle, DownloadReceived, VerifyRefused,
         Verify, AfterScan, ReadPending, Poll, PollEnds, HookEnd, HookLost,
         storeVars, tables

\* A Resync: one claim, and what follows it.
LEMMA ResyncMovesRows == ASSUME TypeOK, Resync PROVE TableMoves
<1>0. rows \in [Requests -> Row]
  BY DEF TypeOK, StoreTypeOK
<1>1. ASSUME NEW s \in Resyncs, ResyncClaim(s) PROVE TableMoves
  BY <1>0, <1>1 DEF ResyncClaim, ClaimMarking, TableMoves, RowMove
<1>2. ASSUME NEW s \in Resyncs, ResyncFinish(s) PROVE TableMoves
  <2>1. rows' = [r \in Requests |->
                   CASE r \in resync[s].won -> Disarmed(rows[r])
                     [] r \in resync[s].only /\ Forward(rows[r]) -> Arrived(rows[r])
                     [] OTHER -> rows[r]]
    BY <1>2 DEF ResyncFinish
  <2>2. ASSUME NEW r \in Requests
        PROVE  \/ rows'[r] = rows[r] \/ rows'[r] = Disarmed(rows[r])
               \/ Forward(rows[r]) /\ rows'[r] = Arrived(rows[r])
    BY <2>1
  <2> QED
    BY <2>1, <2>2 DEF TableMoves, RowMove
<1>3. CASE UNCHANGED rows
  BY <1>0, <1>3, TableKept
<1> QED
  BY <1>1, <1>2, <1>3
     DEF Resync, ResyncStep, ResyncFetch, ResyncSnap, ResyncHeld, ResyncLost,
         storeVars, tables

\* A creation fills an unused row and may delete the declined row it replaces.
LEMMA CreateMovesRows == ASSUME TypeOK, CreatesUnused, Create PROVE TableMoves
<1>0. rows \in [Requests -> Row]
  BY DEF TypeOK, StoreTypeOK
<1>1. ASSUME NEW r \in Requests, CreateRow(r) PROVE TableMoves
  <2>1. /\ rows[r].status = "NONE"
        /\ intake[r].pc = "create" /\ intake'[r].pc # "create"
    BY <1>1 DEF CreateRow, CreatesUnused, Finished, TypeOK, IntakeTypeOK
  <2> DEFINE gone == {q \in {intake[r].stale} \ {None} : Replaceable(q)}
  <2>2. PICK new \in Created(r) :
             rows' = [q \in Requests |-> IF q = r THEN new
                                         ELSE IF q \in gone THEN Deleted(rows[q])
                                         ELSE rows[q]]
    BY <1>1 DEF CreateRow
  <2>3. new \in NewRows
    BY <2>2 DEF Created, Greenlit, NewRows
  <2>4. \A q \in gone : rows[q].status = "DECLINED" /\ ~rows[q].banned
    BY DEF Replaceable
  <2> QED
    BY <1>0, <2>1, <2>2, <2>3, <2>4 DEF TableMoves, RowMove, Born
<1>2. ASSUME NEW r \in Requests, CreateUndo(r) PROVE TableMoves
  BY <1>0, <1>2 DEF CreateUndo, TableMoves, RowMove
<1>3. CASE UNCHANGED rows
  BY <1>0, <1>3, TableKept
<1> QED
  BY <1>1, <1>2, <1>3
     DEF Create, CreateStep, ReadForCreate, CreateRefused, CreatePush, CreateLost,
         storeVars, tables

\* The admin's statements, each under the condition it is issued with.
LEMMA DecideMovesRows == ASSUME TypeOK, Decide PROVE TableMoves
<1>0. rows \in [Requests -> Row]
  BY DEF TypeOK, StoreTypeOK
<1>a. ASSUME NEW a \in Desks, NEW new, Cas(a, new),
             desk[a].row \in Requests => RowMove(rows[desk[a].row], new)
      PROVE  TableMoves
  BY <1>0, <1>a DEF Cas, TableMoves, RowMove
<1>b. desk \in [Desks -> DeskType]
  BY DEF TypeOK, DeskTypeOK
<1>c. ASSUME NEW a \in Desks, desk[a].pc # "idle", Close(a) PROVE desk'[a] # desk[a]
  BY <1>b, <1>c DEF Close, IdleDesk
<1>1. ASSUME NEW a \in Desks, Approve(a) PROVE TableMoves
  BY <1>a, <1>1 DEF Approve, Deciding, Unmoved, RowMove
<1>2. ASSUME NEW a \in Desks, Decline(a) PROVE TableMoves
  BY <1>a, <1>2 DEF Decline, Deciding, Unmoved, RowMove
<1>3. ASSUME NEW a \in Desks, Reopen(a) PROVE TableMoves
  BY <1>a, <1>3 DEF Reopen, Deciding, Unmoved, RowMove
<1>4. ASSUME NEW a \in Desks, MarkAvailable(a) PROVE TableMoves
  BY <1>a, <1>4 DEF MarkAvailable, Deciding, Unmoved, Forward, RowMove
<1>5. ASSUME NEW a \in Desks, ClaimByHand(a) PROVE TableMoves
  <2>1. CASE Claimable(desk[a].row)
    <3>1. /\ desk[a].pc = "claim" /\ ~rows[desk[a].row].notified /\ Exists(desk[a].row)
          /\ rows' = [rows EXCEPT ![desk[a].row] = Announced(@)]
          /\ desk' = [desk EXCEPT ![a] = [@ EXCEPT !.pc = "tell"]]
      BY <1>5, <2>1 DEF ClaimByHand, Claimable
    <3>2. desk'[a] # desk[a]
      BY <1>b, <3>1 DEF DeskType
    <3>3. \A r \in Requests : rows'[r] = rows[r] \/ AtDesk(r)
      BY <1>0, <3>1, <3>2 DEF AtDesk
    <3> QED
      BY <1>0, <3>1, <3>3 DEF TableMoves, RowMove
  <2> QED
    BY <1>0, <1>5, <2>1, TableKept DEF ClaimByHand
<1>6. ASSUME NEW a \in Desks, Undo(a) PROVE TableMoves
  BY <1>0, <1>6 DEF Undo, TableMoves, RowMove
<1>7. ASSUME NEW a \in Desks, Delete(a) PROVE TableMoves
  <2>1. /\ desk'[a] # desk[a] /\ Exists(desk[a].row)
        /\ rows' = [rows EXCEPT ![desk[a].row] = Deleted(rows[desk[a].row])]
    BY <1>c, <1>7 DEF Delete, Cas
  <2>2. \A r \in Requests : rows'[r] = rows[r] \/ AtDesk(r)
    BY <1>0, <2>1 DEF AtDesk
  <2> QED
    BY <1>0, <2>1, <2>2 DEF TableMoves, RowMove
<1>8. ASSUME NEW a \in Desks, Cancel(a) PROVE TableMoves
  <2>1. /\ desk'[a] # desk[a] /\ Exists(desk[a].row)
        /\ rows' = [rows EXCEPT ![desk[a].row] = Deleted(rows[desk[a].row])]
    BY <1>c, <1>8 DEF Cancel, Deciding, Unmoved, Exists, Cas
  <2>2. \A r \in Requests : rows'[r] = rows[r] \/ AtDesk(r)
    BY <1>0, <2>1 DEF AtDesk
  <2> QED
    BY <1>0, <2>1, <2>2 DEF TableMoves, RowMove
<1>9. ASSUME NEW a \in Desks, BatchApprove(a) PROVE TableMoves
  BY <1>0, <1>9 DEF BatchApprove, Pending, TableMoves, RowMove
<1>10. ASSUME NEW a \in Desks, BatchDecline(a) PROVE TableMoves
  BY <1>0, <1>10 DEF BatchDecline, Pending, TableMoves, RowMove
<1>11. ASSUME NEW a \in Desks, BatchUndo(a) PROVE TableMoves
  BY <1>0, <1>11 DEF BatchUndo, TableMoves, RowMove
<1>12. CASE UNCHANGED rows
  BY <1>0, <1>12, TableKept
<1> QED
  BY <1>1, <1>2, <1>3, <1>4, <1>5, <1>6, <1>7, <1>8, <1>9, <1>10, <1>11, <1>12
     DEF Decide, DecisionStep, DeskStep, Open, TellByHand, Conflict, Push, Retry,
         BatchRead, BatchPush, DeskLost, storeVars, tables

\* A removal writes nothing but stamps.
LEMMA RemovalMovesRows == ASSUME TypeOK, Removal PROVE TableMoves
<1>0. rows \in [Requests -> Row]
  BY DEF TypeOK, StoreTypeOK
<1>a. exec \in [Executes -> ExecType]
  BY DEF TypeOK, RemovalTypeOK
<1>1. ASSUME NEW e \in Executes, Stamp(e) PROVE TableMoves
  <2>1. exec'[e].pc = "delete" /\ exec[e].pc = "stamp"
    BY <1>a, <1>1 DEF Stamp, ExecType
  <2>2. exec' # exec
    BY <2>1
  <2>3. \A r \in Requests : rows'[r] = rows[r] \/ Restamped(r)
    BY <1>1, <2>2 DEF Stamp, Stamped, Restamped
  <2> QED
    BY <1>1, <2>3 DEF Stamp, TableMoves, RowMove
<1>2. ASSUME NEW e \in Executes, ReassertStamps(e) PROVE TableMoves
  <2>1. exec' # exec
    BY <1>a, <1>2 DEF ReassertStamps, IdleExec
  <2>2. \A r \in Requests : rows'[r] = rows[r] \/ Restamped(r)
    BY <1>2, <2>1 DEF ReassertStamps, Stamped, Restamped
  <2> QED
    BY <1>2, <2>2 DEF ReassertStamps, TableMoves, RowMove
<1>3. ASSUME NEW e \in Executes, Unstamp(e) PROVE TableMoves
  <2>1. CASE exec' = [exec EXCEPT ![e] = IdleExec]
    <3>1. exec[e].pc = "unstamp"
      BY <1>3 DEF Unstamp
    <3>2. exec' # exec
      BY <1>a, <2>1, <3>1 DEF IdleExec
    <3>3. CASE UNCHANGED rows
      BY <1>0, <3>3, TableKept
    <3>4. CASE rows' = [r \in Requests |-> IF r \in Withdraw(e)
                                            THEN [rows[r] EXCEPT !.stamp = None]
                                            ELSE rows[r]]
      BY <3>2, <3>4 DEF Restamped, TableMoves, RowMove
    <3> QED
      BY <1>3, <3>3, <3>4 DEF Unstamp
  <2> QED
    BY <1>0, <1>3, <2>1, TableKept DEF Unstamp
<1>5. ASSUME NEW e \in Executes, ClearStamps(e) PROVE TableMoves
  <2>1. exec' # exec
    BY <1>a, <1>5 DEF ClearStamps, IdleExec
  <2>2. \A r \in Requests : rows'[r] = rows[r] \/ Restamped(r)
    BY <1>5, <2>1 DEF ClearStamps, Restamped
  <2> QED
    BY <1>5, <2>2 DEF ClearStamps, TableMoves, RowMove
<1>4. CASE UNCHANGED rows
  BY <1>0, <1>4, TableKept
<1> QED
  BY <1>1, <1>2, <1>3, <1>4, <1>5
     DEF Removal, RemovalStep, ExecStep, Plan, ReadStampable, DeleteAccepted,
         DeleteRefused, DeleteUnknown, ReadOwn, AddBack, ExecLost, storeVars, tables

\* Whoever takes a step, every row stays, goes through one statement, or is created.
LEMMA TableStep == ASSUME TypeOK, CreatesUnused, [Next]_vars PROVE TableMoves
<1>0. rows \in [Requests -> Row]
  BY DEF TypeOK, StoreTypeOK
<1>1. CASE Churn \/ UNCHANGED vars
  BY <1>0, <1>1, TableKept
     DEF Churn, Outside, ArrImport, ArrEpisode, ArrFileGone, ArrRemove, LibraryScans,
         LibraryDrops, LoseDelivery, vars, storeVars, tables
<1> QED
  BY <1>1, SyncMovesRows, WebhookMovesRows, ResyncMovesRows, CreateMovesRows,
     DecideMovesRows, RemovalMovesRows DEF Next

-----------------------------------------------------------------------------
(* Types *)

\* A notification adds one, up to the bound.
LEMMA DeliverType ==
  ASSUME sent \in [Requests -> 0..2], NEW S, Deliver(S)
  PROVE  sent' \in [Requests -> 0..2]
BY DEF Deliver

\* The hourly run keeps the store (the table apart) and its memory well typed.
LEMMA SyncType ==
  ASSUME TypeOK, Sync
  PROVE  /\ SyncTypeOK'
         /\ sent' \in [Requests -> 0..2] /\ wanted' \subseteq Titles
         /\ avail' \subseteq Titles /\ arr' \in [Titles -> ArrStates]
         /\ library' = library /\ mail' = mail
<1> USE DEF SyncTypeOK
<1>0. /\ run \in RunType /\ aborts \in 0..MaxAborts /\ MaxAborts \in Nat
      /\ sent \in [Requests -> 0..2]
      /\ wanted \subseteq Titles /\ avail \subseteq Titles
      /\ arr \in [Titles -> ArrStates]
      /\ library \in [Sources -> SUBSET Titles]
      /\ TitleOf \in [Requests -> Titles]
  BY StoreAssumption, AbortAssumption DEF TypeOK, StoreTypeOK
<1>1. IdleRun \in RunType
  BY DEF IdleRun, RunType, Stages, ArrStates
<1>2. CASE SyncBegin
  <2>1. PICK due \in SUBSET WithStatus({"APPROVED"}) :
          run' = [IdleRun EXCEPT !.pc = "snap", !.due = due,
                                 !.approved = WithStatus({"APPROVED"})]
    BY <1>2 DEF SyncBegin
  <2>2. WithStatus({"APPROVED"}) \subseteq Requests
    BY DEF WithStatus
  <2>3. run' \in RunType
    BY <1>1, <2>1, <2>2 DEF RunType, Stages
  <2> QED
    BY <1>0, <1>2, <2>3 DEF SyncBegin, storeVars, tables, outside
<1>3. CASE SnapAvailable
  BY <1>0, <1>3 DEF SnapAvailable, WithStatus, RunType, Stages, storeVars
<1>4. CASE ReadFirst
  BY <1>0, <1>4 DEF ReadFirst, RunType, Stages, Unpinned, storeVars
<1>5. CASE ClaimFirst
  BY <1>0, <1>5 DEF ClaimFirst, ClaimFor, RunType, Stages, outside
<1>6. CASE FinishFirst
  BY <1>0, <1>6, DeliverType DEF FinishFirst, RunType, Stages, outside
<1>7. CASE FetchArr
  <2>1. PICK alive \in SUBSET Titles, fresh \in SUBSET Titles, gated \in {{}, Series} :
          run' = [run EXCEPT !.pc = "write", !.alive = alive, !.fresh = fresh,
                    !.gated = gated,
                    !.fetched = [t \in Titles |-> IF t \in fresh THEN arr[t]
                                                  ELSE "absent"]]
    <3>1. PICK alive \in SUBSET Titles : \E fresh \in SUBSET alive, gated \in {{}, Series} :
            run' = [run EXCEPT !.pc = "write", !.alive = alive, !.fresh = fresh,
                      !.gated = gated,
                      !.fetched = [t \in Titles |-> IF t \in fresh THEN arr[t]
                                                    ELSE "absent"]]
      BY <1>7, Zenon DEF FetchArr
    <3>2. SUBSET alive \subseteq SUBSET Titles
      BY <3>1
    <3> QED
      BY <3>1, <3>2, Zenon
  <2>2. [t \in Titles |-> IF t \in fresh THEN arr[t] ELSE "absent"]
          \in [Titles -> ArrStates]
    BY <1>0 DEF ArrStates
  <2>3. run' \in RunType
    BY <1>0, <2>1, <2>2, StoreAssumption DEF RunType, Stages
  <2> QED
    BY <1>0, <1>7, <2>3 DEF FetchArr, storeVars
<1>8. CASE WriteArr
  BY <1>0, <1>8 DEF WriteArr, FetchedAs, RunType, Stages, ArrStates, outside
<1>9. CASE ReadSecond
  <2>1. PICK hit \in SUBSET Requests :
          run' = [run EXCEPT !.pc = "secondClaim", !.cand = Unpinned(hit),
                     !.known = run.known \cup {TitleOf[r] : r \in hit}]
    BY <1>0, <1>9 DEF ReadSecond, RunType
  <2>2. Unpinned(hit) \subseteq Requests
    BY DEF Unpinned
  <2>3. {TitleOf[r] : r \in hit} \subseteq Titles
    BY <1>0
  <2>4. run' \in RunType
    BY <1>0, <2>1, <2>2, <2>3 DEF RunType, Stages
  <2> QED
    BY <1>0, <1>9, <2>4 DEF ReadSecond, storeVars
<1>10. CASE ClaimSecond
  BY <1>0, <1>10 DEF ClaimSecond, ClaimFor, RunType, Stages, outside
<1>11. CASE FinishSecond
  BY <1>0, <1>11, DeliverType DEF FinishSecond, RunType, Stages, outside
<1>12. CASE SweepOverdue
  BY <1>0, <1>12 DEF SweepOverdue, RunType, Stages, outside
<1>13. CASE ReadRepush
  <2>1. PICK repush \in SUBSET Titles :
          run' = [run EXCEPT !.pc = "push", !.approved = {}, !.repush = repush]
    BY <1>0, <1>13 DEF ReadRepush, RunType
  <2>2. run' \in RunType
    BY <1>0, <2>1 DEF RunType, Stages
  <2> QED
    BY <1>0, <1>13, <2>2 DEF ReadRepush, storeVars
<1>14. CASE PushAgain
  BY <1>0, <1>14 DEF PushAgain, RunType, Stages, ArrStates, tables
<1>15. CASE ReadInArr
  BY <1>0, <1>15, StoreAssumption DEF ReadInArr, RunType, Stages, storeVars
<1>16. CASE FetchLibrary
  <2>1. PICK s \in run.todo :
          \/ run' = [run EXCEPT !.todo = run.todo \ {s}, !.sound = run.sound \cup {s},
                                !.seen = [run.seen EXCEPT ![s] = library[s]]]
          \/ \E part \in SUBSET library[s] :
               run' = [run EXCEPT !.todo = run.todo \ {s},
                                  !.seen = [run.seen EXCEPT ![s] = part]]
    BY <1>16 DEF FetchLibrary
  <2>2. s \in Sources /\ library[s] \subseteq Titles
    BY <1>0 DEF RunType
  <2>3. \A part \in SUBSET Titles :
          [run.seen EXCEPT ![s] = part] \in [Sources -> SUBSET Titles]
    BY <1>0, <2>2 DEF RunType
  <2>4. ASSUME NEW seen \in [Sources -> SUBSET Titles]
        PROVE  /\ [run EXCEPT !.todo = run.todo \ {s}, !.sound = run.sound \cup {s},
                              !.seen = seen] \in RunType
               /\ [run EXCEPT !.todo = run.todo \ {s}, !.seen = seen] \in RunType
    BY <1>0, <2>2 DEF RunType
  <2>5. run' \in RunType
    BY <2>1, <2>2, <2>3, <2>4
  <2> QED
    BY <1>0, <1>16, <2>5 DEF FetchLibrary, storeVars
<1>17. CASE LibrariesDone
  BY <1>0, <1>17 DEF LibrariesDone, RunType, Stages, storeVars
<1>18. CASE Demote
  <2>1. PICK toRevert \in SUBSET Requests :
          run' = [run EXCEPT !.pc = "still", !.reverted = toRevert,
                             !.available = {}, !.inArr = {}]
    BY <1>0, <1>18 DEF Demote, RunType
  <2>2. run' \in RunType
    BY <1>0, <2>1 DEF RunType, Stages
  <2> QED
    BY <1>0, <1>18, <2>2 DEF Demote, outside
<1>19. CASE SkipDemote
  BY <1>0, <1>19 DEF SkipDemote, RunType, Stages, storeVars
<1>20. CASE ReadStill
  BY <1>0, <1>20 DEF ReadStill, WithStatus, RunType, Stages, storeVars
<1>21. CASE ReadHeld
  BY <1>0, <1>21 DEF ReadHeld, RunType, Stages, storeVars
<1>22. CASE ReadLibrary
  BY <1>0, <1>22 DEF ReadLibrary, MarkableBy, RunType, Stages, storeVars
<1>23. CASE ClaimLibrary
  BY <1>0, <1>23 DEF ClaimLibrary, ClaimFor, RunType, Stages, outside
<1>24. CASE FinishLibrary
  BY <1>0, <1>24, DeliverType DEF FinishLibrary, RunType, Stages, outside
<1>25. CASE LibraryPassesDone
  BY <1>0, <1>25 DEF LibraryPassesDone, RunType, Stages, storeVars
<1>26. CASE ReadUnannounced
  <2>1. PICK cand \in SUBSET Requests :
          run' = [run EXCEPT !.pc = "fallbackClaim", !.cand = cand]
    BY <1>26 DEF ReadUnannounced
  <2>2. run' \in RunType
    BY <1>0, <2>1 DEF RunType, Stages
  <2> QED
    BY <1>0, <1>26, <2>2 DEF ReadUnannounced, storeVars
<1>27. CASE ClaimFallback
  BY <1>0, <1>1, <1>27 DEF ClaimFallback, RunType, Stages, outside
<1>28. CASE SyncEnd
  BY <1>0, <1>1, <1>28, DeliverType DEF SyncEnd, outside
<1>29. CASE SyncAbort
  BY <1>0, <1>1, <1>29 DEF SyncAbort, storeVars
<1> QED
  BY <1>2, <1>3, <1>4, <1>5, <1>6, <1>7, <1>8, <1>9, <1>10, <1>11, <1>12, <1>13,
     <1>14, <1>15, <1>16, <1>17, <1>18, <1>19, <1>20, <1>21, <1>22, <1>23, <1>24,
     <1>25, <1>26, <1>27, <1>28, <1>29 DEF Sync, SyncStep, SyncProgress

\* Radarr, Sonarr and the media servers keep their contents and the mail well typed.
LEMMA ChurnType ==
  ASSUME TypeOK, Churn
  PROVE  /\ StoreTypeOK' /\ churn' \in 0..MaxChurn
<1>0. StoreTypeOK /\ churn \in 0..MaxChurn /\ MaxChurn \in Nat
  BY FulfilmentAssumption DEF TypeOK
<1>1. churn' \in 0..MaxChurn
  BY <1>0 DEF Churn
<1>2. ASSUME NEW t \in Titles, ArrImport(t) PROVE StoreTypeOK'
  BY <1>0, <1>2 DEF ArrImport, Send, StoreTypeOK, ArrStates, Events, tables
<1>3. ASSUME NEW t \in Titles, ArrEpisode(t) PROVE StoreTypeOK'
  BY <1>0, <1>3 DEF ArrEpisode, Send, StoreTypeOK, Events, tables
<1>4. ASSUME NEW t \in Titles, ArrFileGone(t) PROVE StoreTypeOK'
  BY <1>0, <1>4 DEF ArrFileGone, Send, StoreTypeOK, ArrStates, Events, tables
<1>5. ASSUME NEW t \in Titles, ArrRemove(t) PROVE StoreTypeOK'
  BY <1>0, <1>5 DEF ArrRemove, Send, StoreTypeOK, ArrStates, Events, tables
<1>6. ASSUME NEW s \in Configured, NEW t \in Titles,
             LibraryScans(s, t) \/ LibraryDrops(s, t)
      PROVE  StoreTypeOK'
  BY <1>0, <1>6 DEF LibraryScans, LibraryDrops, StoreTypeOK, tables
<1>7. CASE LoseDelivery
  <2>1. mail' \subseteq Events
    BY <1>0, <1>7 DEF LoseDelivery, StoreTypeOK
  <2>2. UNCHANGED <<rows, sent, wanted, avail, arr, library>>
    BY <1>7 DEF LoseDelivery, tables
  <2> QED
    BY <1>0, <1>1, <2>1, <2>2 DEF StoreTypeOK
<1> QED
  BY <1>1, <1>2, <1>3, <1>4, <1>5, <1>6, <1>7 DEF Churn, Outside

\* The webhook routes keep the store (the table apart) well typed.
LEMMA WebhookStoreType ==
  ASSUME TypeOK, Webhook
  PROVE  /\ sent' \in [Requests -> 0..2] /\ wanted' \subseteq Titles
         /\ avail' \subseteq Titles /\ mail' \subseteq Events
         /\ arr' = arr /\ library' = library
<1> DEFINE Rest == /\ sent' \in [Requests -> 0..2] /\ wanted' \subseteq Titles
                   /\ avail' \subseteq Titles /\ mail' \subseteq Events
                   /\ arr' = arr /\ library' = library
<1>0. /\ sent \in [Requests -> 0..2] /\ wanted \subseteq Titles
      /\ avail \subseteq Titles /\ mail \subseteq Events
      /\ \A h \in Hooks : hook[h].pc # "idle" => hook[h].title \in Titles
  BY DEF TypeOK, StoreTypeOK, HookTypeOK
<1>1. CASE EvictTitle
  BY <1>0, <1>1 DEF EvictTitle, Events
<1>2. CASE UNCHANGED storeVars
  BY <1>0, <1>2 DEF storeVars, tables, outside
<1>3. ASSUME NEW h \in Hooks, DownloadReceived(h) PROVE Rest
  BY <1>0, <1>3 DEF DownloadReceived, tables
<1>4. ASSUME NEW t \in Titles, NEW confirmed, FlipApproved(t, confirmed) PROVE Rest
  BY <1>0, <1>4 DEF FlipApproved, outside
<1>5. ASSUME NEW h \in Hooks, Flip(h) \/ FlipLate(h) PROVE Rest
  <2>1. hook[h].title \in Titles
    BY <1>0, <1>5 DEF Flip, FlipLate
  <2> QED
    BY <1>2, <1>4, <1>5, <2>1 DEF Flip, FlipLate
<1>6. ASSUME NEW h \in Hooks, Notify(h) PROVE Rest
  BY <1>0, <1>6 DEF Notify, outside
<1>7. ASSUME NEW h \in Hooks, HookEnd(h) PROVE Rest
  BY <1>0, <1>7, DeliverType DEF HookEnd, outside
<1> QED
  BY <1>1, <1>2, <1>3, <1>5, <1>6, <1>7
     DEF Webhook, WebhookStep, HookStep, VerifyRefused, Verify, AfterScan, ReadPending,
         Poll, PollEnds, HookLost

\* A hook's memory stays well typed.
LEMMA WebhookMemoryType == ASSUME TypeOK, Webhook PROVE HookTypeOK'
<1>0. /\ hook \in [Hooks -> HookType]
      /\ \A h \in Hooks : hook[h].pc # "idle" => hook[h].title \in Titles
  BY DEF TypeOK, HookTypeOK
<1>1. IdleHook \in HookType /\ IdleHook.pc = "idle"
  BY DEF IdleHook, HookType
<1>2. CASE UNCHANGED hook
  BY <1>0, <1>2 DEF HookTypeOK
<1>3. ASSUME NEW h \in Hooks, NEW x \in HookType, hook' = [hook EXCEPT ![h] = x],
             x.pc # "idle" => x.title \in Titles
      PROVE  HookTypeOK'
  BY <1>0, <1>3 DEF HookTypeOK
<1>4. ASSUME NEW h \in Hooks, hook' = [hook EXCEPT ![h] = IdleHook]
      PROVE  HookTypeOK'
  BY <1>1, <1>3, <1>4
<1>5. ASSUME NEW h \in Hooks, hook[h].pc # "idle", NEW x \in HookType,
             hook' = [hook EXCEPT ![h] = x], x.title = hook[h].title
      PROVE  HookTypeOK'
  BY <1>0, <1>3, <1>5
<1>6. ASSUME NEW h \in Hooks, DownloadReceived(h) PROVE HookTypeOK'
  <2>1. PICK t \in Titles :
          hook' = [hook EXCEPT ![h] = [IdleHook EXCEPT !.pc = "verify", !.title = t]]
    BY <1>6 DEF DownloadReceived
  <2>2. [IdleHook EXCEPT !.pc = "verify", !.title = t] \in HookType
    BY <1>1 DEF HookType
  <2>3. [IdleHook EXCEPT !.pc = "verify", !.title = t].title = t
    BY DEF IdleHook
  <2> QED
    BY <1>3, <2>1, <2>2, <2>3
<1>7. ASSUME NEW h \in Hooks, hook[h] \in HookType, Verify(h) PROVE HookTypeOK'
  <2>1. PICK v \in {"downloaded", "incomplete", "unknown"} :
          hook' = [hook EXCEPT ![h] = [@ EXCEPT !.pc = "flip", !.verdict = v]]
    BY <1>7 DEF Verify, Verdicts
  <2>2. [hook[h] EXCEPT !.pc = "flip", !.verdict = v] \in HookType
    BY <1>7 DEF HookType
  <2>3. [hook[h] EXCEPT !.pc = "flip", !.verdict = v].title = hook[h].title
    BY <1>7 DEF HookType
  <2> QED
    BY <1>5, <1>7, <2>1, <2>2, <2>3 DEF Verify
<1>8. ASSUME NEW h \in Hooks, hook[h] \in HookType, Flip(h) \/ FlipLate(h)
      PROVE  HookTypeOK'
  <2>1. Moves(hook[h].title) \in BOOLEAN
    BY DEF Moves
  <2>2. ASSUME NEW pc \in {"scan", "read"}
        PROVE  LET x == [hook[h] EXCEPT !.pc = pc, !.moved = Moves(hook[h].title)]
               IN x \in HookType /\ x.title = hook[h].title
    BY <1>8, <2>1 DEF HookType
  <2> QED
    BY <1>5, <1>8, <2>2 DEF Flip, FlipLate
<1>9. ASSUME NEW h \in Hooks, hook[h] \in HookType, AfterScan(h) PROVE HookTypeOK'
  <2>1. ASSUME NEW pc \in {"read", "flipLate"}
        PROVE  LET x == [hook[h] EXCEPT !.pc = pc]
               IN x \in HookType /\ x.title = hook[h].title
    BY <1>9 DEF HookType
  <2> QED
    BY <1>4, <1>5, <1>9, <2>1 DEF AfterScan
<1>10. ASSUME NEW h \in Hooks, hook[h] \in HookType, ReadPending(h) PROVE HookTypeOK'
  <2> DEFINE S == IF hook[h].title \in Series /\ ~hook[h].moved THEN {}
                  ELSE {r \in RowsOf(hook[h].title) : Announceable(rows[r])}
  <2>0. S \in SUBSET Requests
    BY DEF RowsOf
  <2>1. hook' = [hook EXCEPT ![h] = IF S = {} THEN IdleHook
                   ELSE [hook[h] EXCEPT !.pc = "poll", !.pending = S]]
    BY <1>10 DEF ReadPending
  <2> HIDE DEF S
  <2>2. LET x == [hook[h] EXCEPT !.pc = "poll", !.pending = S]
        IN x \in HookType /\ x.title = hook[h].title
    BY <1>10, <2>0 DEF HookType
  <2> QED
    BY <1>4, <1>5, <1>10, <2>1, <2>2 DEF ReadPending
<1>11. ASSUME NEW h \in Hooks, hook[h] \in HookType, Poll(h) PROVE HookTypeOK'
  <2>1. PICK s \in Sources :
          hook' = [hook EXCEPT ![h] = [hook[h] EXCEPT !.seen = hook[h].seen \cup {s}]]
    BY <1>11, StoreAssumption DEF Poll
  <2>2. LET x == [hook[h] EXCEPT !.seen = hook[h].seen \cup {s}]
        IN x \in HookType /\ x.title = hook[h].title
    BY <1>11 DEF HookType
  <2> QED
    BY <1>5, <1>11, <2>1, <2>2 DEF Poll
<1>12. ASSUME NEW h \in Hooks, hook[h] \in HookType, PollEnds(h) \/ Notify(h)
       PROVE  HookTypeOK'
  <2>1. hook[h].pending \subseteq Requests
    BY <1>12 DEF HookType
  <2>2. PICK S \in SUBSET Requests, pc \in {"notify", "deliver"} :
          hook' = [hook EXCEPT ![h] = [hook[h] EXCEPT !.pc = pc, !.pending = S]]
    <3>1. CASE PollEnds(h)
      <4> DEFINE S == {r \in hook[h].pending :
                         ShouldNotify(r, hook[h].seen, Sources \ Configured)}
      <4>1. hook' = [hook EXCEPT ![h] = [hook[h] EXCEPT !.pc = "notify", !.pending = S]]
        BY <3>1 DEF PollEnds
      <4> QED
        BY <2>1, <4>1
    <3>2. CASE Notify(h)
      <4> DEFINE S == {r \in hook[h].pending : Announceable(rows[r])}
      <4>1. hook' = [hook EXCEPT ![h] = [hook[h] EXCEPT !.pc = "deliver", !.pending = S]]
        BY <3>2 DEF Notify
      <4> QED
        BY <2>1, <4>1
    <3> QED
      BY <1>12, <3>1, <3>2
  <2>3. LET x == [hook[h] EXCEPT !.pc = pc, !.pending = S]
        IN x \in HookType /\ x.title = hook[h].title
    BY <1>12 DEF HookType
  <2> QED
    BY <1>5, <1>12, <2>2, <2>3 DEF PollEnds, Notify
<1>13. ASSUME NEW h \in Hooks, VerifyRefused(h) \/ HookEnd(h) \/ HookLost(h)
       PROVE  HookTypeOK'
  BY <1>4, <1>13 DEF VerifyRefused, HookEnd, HookLost
<1> QED
  BY <1>0, <1>2, <1>6, <1>7, <1>8, <1>9, <1>10, <1>11, <1>12, <1>13
     DEF Webhook, WebhookStep, HookStep, EvictTitle

\* A Resync keeps the store (the table apart) and its memory well typed.
LEMMA ResyncKeepsTypes ==
  ASSUME TypeOK, Resync
  PROVE  /\ ResyncTypeOK' /\ sent' \in [Requests -> 0..2]
         /\ UNCHANGED <<wanted, avail, outside>>
<1>0. /\ resync \in [Resyncs -> ResyncType] /\ sent \in [Requests -> 0..2]
      /\ library \in [Sources -> SUBSET Titles] /\ Resyncs \subseteq Sources
  BY ResyncAssumption DEF TypeOK, StoreTypeOK, ResyncTypeOK
<1>1. IdleResync \in ResyncType
  BY DEF IdleResync, ResyncType
<1>2. ASSUME NEW s \in Resyncs, NEW x \in ResyncType, resync' = [resync EXCEPT ![s] = x]
      PROVE  ResyncTypeOK'
  BY <1>0, <1>2 DEF ResyncTypeOK
<1>3. ASSUME NEW s \in Resyncs, ResyncFetch(s) PROVE ResyncTypeOK' /\ UNCHANGED storeVars
  <2>1. PICK part \in SUBSET Titles :
          resync' = [resync EXCEPT ![s] = [IdleResync EXCEPT !.pc = "snap", !.seen = part]]
    BY <1>0, <1>3 DEF ResyncFetch
  <2>2. [IdleResync EXCEPT !.pc = "snap", !.seen = part] \in ResyncType
    BY <1>1 DEF ResyncType
  <2> QED
    BY <1>2, <1>3, <2>1, <2>2 DEF ResyncFetch
<1>4. ASSUME NEW s \in Resyncs, resync[s] \in ResyncType, ResyncSnap(s)
      PROVE  ResyncTypeOK' /\ UNCHANGED storeVars
  <2>1. ASSUME NEW still \in SUBSET Requests, NEW told \in SUBSET Requests
        PROVE  [resync[s] EXCEPT !.pc = "held", !.still = still, !.told = told] \in ResyncType
    BY <1>4 DEF ResyncType
  <2> DEFINE still == {r \in WithStatus({"PENDING", "APPROVED"}) :
                        TitleOf[r] \in resync[s].seen}
  <2>2. still \in SUBSET Requests /\ {r \in still : rows[r].notified} \in SUBSET Requests
    BY DEF WithStatus
  <2> QED
    BY <1>2, <1>4, <2>1, <2>2 DEF ResyncSnap
<1>5. ASSUME NEW s \in Resyncs, resync[s] \in ResyncType, ResyncHeld(s)
      PROVE  ResyncTypeOK' /\ UNCHANGED storeVars
  <2>1. ASSUME NEW cand \in SUBSET Requests, NEW only \in SUBSET Requests
        PROVE  [resync[s] EXCEPT !.pc = "claim", !.cand = cand, !.only = only, !.still = {},
                                 !.told = {}, !.seen = {}] \in ResyncType
    BY <1>5 DEF ResyncType
  <2> DEFINE kept == Kept(resync[s].still)
             new  == {r \in kept \ resync[s].told : Announces(s, r)}
  <2>2. new \in SUBSET Requests /\ kept \ new \in SUBSET Requests
    BY <1>5 DEF ResyncType, Kept
  <2> QED
    BY <1>2, <1>5, <2>1, <2>2 DEF ResyncHeld
<1>6. ASSUME NEW s \in Resyncs, resync[s] \in ResyncType, ResyncClaim(s)
      PROVE  ResyncTypeOK' /\ UNCHANGED <<sent, wanted, avail, outside>>
  <2>1. ASSUME NEW won \in SUBSET Requests
        PROVE  [resync[s] EXCEPT !.pc = "finish", !.cand = {}, !.won = won] \in ResyncType
    BY <1>6 DEF ResyncType
  <2>2. {r \in resync[s].cand : Markable(rows[r])} \in SUBSET Requests
    BY <1>6 DEF ResyncType
  <2> QED
    BY <1>2, <1>6, <2>1, <2>2 DEF ResyncClaim
<1>7. ASSUME NEW s \in Resyncs, ResyncFinish(s)
      PROVE  /\ ResyncTypeOK' /\ sent' \in [Requests -> 0..2]
             /\ UNCHANGED <<wanted, avail, outside>>
  BY <1>0, <1>1, <1>2, <1>7, DeliverType DEF ResyncFinish
<1>8. ASSUME NEW s \in Resyncs, ResyncLost(s) PROVE ResyncTypeOK' /\ UNCHANGED storeVars
  BY <1>1, <1>2, <1>8 DEF ResyncLost
<1> QED
  <2>1. PICK s \in Resyncs : \/ ResyncFetch(s) \/ ResyncSnap(s) \/ ResyncHeld(s)
                              \/ ResyncClaim(s) \/ ResyncFinish(s) \/ ResyncLost(s)
    BY DEF Resync, ResyncStep
  <2>2. resync[s] \in ResyncType
    BY <1>0
  <2> QED
    BY <1>0, <1>3, <1>4, <1>5, <1>6, <1>7, <1>8, <2>1, <2>2 DEF storeVars, outside

\* A creation keeps the store (the table apart) and its memory well typed.
LEMMA CreateKeepsTypes ==
  ASSUME TypeOK, Create
  PROVE  /\ IntakeTypeOK' /\ arr' \in [Titles -> ArrStates]
         /\ UNCHANGED <<sent, wanted, avail, library, mail>>
<1>0. /\ intake \in [Requests -> IntakeType] /\ arr \in [Titles -> ArrStates]
  BY DEF TypeOK, StoreTypeOK, IntakeTypeOK
<1>1. Finished \in IntakeType /\ [Finished EXCEPT !.pc = "push"] \in IntakeType
  BY DEF Finished, IntakeType
<1>2. ASSUME NEW r \in Requests, NEW x \in IntakeType, intake' = [intake EXCEPT ![r] = x]
      PROVE  IntakeTypeOK'
  BY <1>0, <1>2 DEF IntakeTypeOK
<1>3. ASSUME NEW r \in Requests, ReadForCreate(r)
      PROVE  IntakeTypeOK' /\ UNCHANGED storeVars
  <2>1. PICK stale \in Requests \cup {None}, has \in BOOLEAN :
          intake' = [intake EXCEPT ![r] = [pc |-> "create", has |-> has, stale |-> stale]]
    <3> DEFINE stale == IF Rivals(r) = {} THEN None ELSE CHOOSE q \in Rivals(r) : TRUE
    <3>1. stale \in Requests \cup {None}
      BY DEF Rivals
    <3>2. (TitleOf[r] \in avail) \in BOOLEAN
      OBVIOUS
    <3>3. intake' = [intake EXCEPT ![r] = [pc |-> "create", has |-> TitleOf[r] \in avail,
                                           stale |-> stale]]
      BY <1>3 DEF ReadForCreate
    <3> QED
      BY <3>1, <3>2, <3>3
  <2>2. [pc |-> "create", has |-> has, stale |-> stale] \in IntakeType
    BY DEF IntakeType
  <2> QED
    BY <1>2, <1>3, <2>1, <2>2 DEF ReadForCreate
<1>4. ASSUME NEW r \in Requests, CreateRow(r)
      PROVE  IntakeTypeOK' /\ UNCHANGED <<sent, wanted, avail, outside>>
  BY <1>1, <1>2, <1>4 DEF CreateRow
<1>5. ASSUME NEW r \in Requests, CreateRefused(r) \/ CreateLost(r)
      PROVE  IntakeTypeOK' /\ UNCHANGED storeVars
  BY <1>1, <1>2, <1>5 DEF CreateRefused, CreateLost
<1>6. ASSUME NEW r \in Requests, intake[r] \in IntakeType, CreatePush(r)
      PROVE  IntakeTypeOK' /\ arr' \in [Titles -> ArrStates]
             /\ UNCHANGED <<tables, library, mail>>
  <2>1. [intake[r] EXCEPT !.pc = "undo"] \in IntakeType
    BY <1>6 DEF IntakeType
  <2>2. IntakeTypeOK'
    BY <1>1, <1>2, <1>6, <2>1 DEF CreatePush
  <2> QED
    BY <1>0, <1>6, <2>2 DEF CreatePush, Pushed, ArrStates
<1>7. ASSUME NEW r \in Requests, CreateUndo(r)
      PROVE  IntakeTypeOK' /\ UNCHANGED <<sent, wanted, avail, outside>>
  BY <1>1, <1>2, <1>7 DEF CreateUndo
<1> QED
  BY <1>0, <1>3, <1>4, <1>5, <1>6, <1>7
     DEF Create, CreateStep, storeVars, tables, outside

\* The admin's routes keep the store (the table apart) well typed.
LEMMA DecideStoreType ==
  ASSUME TypeOK, Decide
  PROVE  /\ sent' \in [Requests -> 0..2] /\ arr' \in [Titles -> ArrStates]
         /\ UNCHANGED <<wanted, avail, library, mail>>
<1> DEFINE Rest == /\ sent' \in [Requests -> 0..2] /\ arr' \in [Titles -> ArrStates]
                   /\ UNCHANGED <<wanted, avail, library, mail>>
<1>0. sent \in [Requests -> 0..2] /\ arr \in [Titles -> ArrStates]
  BY DEF TypeOK, StoreTypeOK
<1>1. CASE UNCHANGED <<sent, wanted, avail, outside>>
  BY <1>0, <1>1 DEF outside
<1>2. CASE UNCHANGED storeVars
  BY <1>0, <1>2 DEF storeVars
<1>3. ASSUME NEW r, Taken(r) PROVE arr' \in [Titles -> ArrStates]
  BY <1>0, <1>3 DEF Taken, ArrStates
<1>4. ASSUME NEW a \in Desks, TellByHand(a) PROVE Rest
  BY <1>0, <1>4, DeliverType DEF TellByHand, outside
<1>5. ASSUME NEW a \in Desks, Push(a) \/ Retry(a) \/ BatchPush(a) PROVE Rest
  <2>1. UNCHANGED <<sent, wanted, avail, library, mail>>
    BY <1>5 DEF Push, Retry, BatchPush, tables
  <2>2. arr' = arr \/ \E r : Taken(r)
    BY <1>5 DEF Push, Retry, BatchPush
  <2> QED
    BY <1>0, <1>3, <2>1, <2>2
<1> QED
  BY <1>1, <1>2, <1>4, <1>5
     DEF Decide, DecisionStep, DeskStep, Open, Approve, Decline, Reopen, MarkAvailable,
         ClaimByHand, Conflict, Undo, Delete, Cancel, BatchApprove, BatchDecline,
         BatchRead, BatchUndo, DeskLost

\* A desk's memory stays well typed.
LEMMA DecideMemoryType == ASSUME TypeOK, Decide PROVE DeskTypeOK'
<1> DEFINE Alone == {"idle", "batchRead", "batchPush"}
           Good(x) == x \in DeskType /\ (x.pc \notin Alone => x.row \in Requests)
<1>0. /\ desk \in [Desks -> DeskType] /\ backed \subseteq Requests
      /\ \A a \in Desks : desk[a].pc \notin Alone => desk[a].row \in Requests
  BY DEF TypeOK, DeskTypeOK
<1>1. Good(IdleDesk)
  BY DEF IdleDesk, DeskType
<1>2. ASSUME NEW a \in Desks, NEW x, Good(x), desk' = [desk EXCEPT ![a] = x],
             backed' \subseteq Requests
      PROVE  DeskTypeOK'
  BY <1>0, <1>2 DEF DeskTypeOK
<1>3. ASSUME NEW a \in Desks, Close(a), backed' \subseteq Requests PROVE DeskTypeOK'
  <2>1. desk' = [desk EXCEPT ![a] = IdleDesk]
    BY <1>3 DEF Close
  <2> QED
    BY <1>1, <1>2, <1>3, <2>1
<1>4. ASSUME NEW a \in Desks, desk[a].pc \notin Alone,
             NEW pc \in {"push", "undo", "claim", "tell"},
             desk' = [desk EXCEPT ![a] = [desk[a] EXCEPT !.pc = pc]],
             backed' \subseteq Requests
      PROVE  DeskTypeOK'
  <2>1. desk[a] \in DeskType /\ desk[a].row \in Requests
    BY <1>0, <1>4
  <2>2. Good([desk[a] EXCEPT !.pc = pc])
    BY <2>1 DEF DeskType
  <2> QED
    BY <1>2, <1>4, <2>2
<1>5. ASSUME NEW a \in Desks, Open(a) PROVE DeskTypeOK'
  <2>1. PICK r \in Requests :
          /\ Exists(r)
          /\ desk' = [desk EXCEPT ![a] = [IdleDesk EXCEPT !.pc = "decide", !.row = r,
                                                          !.was = rows[r].status]]
    BY <1>5 DEF Open
  <2>2. rows[r].status \in Statuses
    BY DEF TypeOK, StoreTypeOK, Row
  <2>3. Good([IdleDesk EXCEPT !.pc = "decide", !.row = r, !.was = rows[r].status])
    BY <1>1, <2>2 DEF IdleDesk, DeskType
  <2> QED
    BY <1>0, <1>2, <1>5, <2>1, <2>3 DEF Open
<1>6. ASSUME NEW a \in Desks, Approve(a) PROVE DeskTypeOK'
  BY <1>0, <1>4, <1>6 DEF Approve, Deciding
<1>7. ASSUME NEW a \in Desks, MarkAvailable(a) PROVE DeskTypeOK'
  BY <1>0, <1>4, <1>7 DEF MarkAvailable, Deciding
<1>8. ASSUME NEW a \in Desks, ClaimByHand(a) PROVE DeskTypeOK'
  BY <1>0, <1>3, <1>4, <1>8 DEF ClaimByHand
<1>9. ASSUME NEW a \in Desks, Push(a) PROVE DeskTypeOK'
  <2>1. desk[a].row \in Requests
    BY <1>0, <1>9 DEF Push
  <2> QED
    BY <1>0, <1>3, <1>4, <1>9, <2>1 DEF Push
<1>10. ASSUME NEW a \in Desks, Retry(a) PROVE DeskTypeOK'
  <2>1. desk[a].row \in Requests
    BY <1>0, <1>10 DEF Retry, Deciding
  <2> QED
    BY <1>0, <1>3, <1>10, <2>1 DEF Retry
<1>11. ASSUME NEW a \in Desks,
              \/ Decline(a) \/ Reopen(a) \/ TellByHand(a) \/ Conflict(a) \/ Undo(a)
              \/ Delete(a) \/ Cancel(a) \/ BatchUndo(a) \/ DeskLost(a)
       PROVE  DeskTypeOK'
  BY <1>0, <1>3, <1>11
     DEF Decline, Reopen, TellByHand, Conflict, Undo, Delete, Cancel, BatchUndo, DeskLost
<1>12. ASSUME NEW a \in Desks, BatchApprove(a) PROVE DeskTypeOK'
  <2>1. PICK S \in SUBSET Requests :
          /\ desk' = [desk EXCEPT ![a] = [IdleDesk EXCEPT !.pc = "batchRead",
                                                         !.todo = Pending(S)]]
          /\ backed' = backed \ Pending(S)
    BY <1>12 DEF BatchApprove
  <2>2. Pending(S) \subseteq Requests
    BY DEF Pending
  <2>3. Good([IdleDesk EXCEPT !.pc = "batchRead", !.todo = Pending(S)])
    BY <1>1, <2>2 DEF IdleDesk, DeskType
  <2> QED
    BY <1>0, <1>2, <2>1, <2>3
<1>13. ASSUME NEW a \in Desks, BatchRead(a) PROVE DeskTypeOK'
  <2>1. Good([desk[a] EXCEPT !.pc = "batchPush",
                             !.todo = desk[a].todo \cap WithStatus({"APPROVED"})])
    BY <1>0 DEF DeskType
  <2> QED
    BY <1>0, <1>2, <1>13, <2>1 DEF BatchRead
<1>14. ASSUME NEW a \in Desks, BatchPush(a) PROVE DeskTypeOK'
  <2>1. PICK r \in desk[a].todo :
          /\ backed' = backed \cup {r} \/ backed' = backed
          /\ \/ desk' = [desk EXCEPT ![a] = [desk[a] EXCEPT !.todo = desk[a].todo \ {r}]]
             \/ desk' = [desk EXCEPT ![a] = [desk[a] EXCEPT !.todo = desk[a].todo \ {r},
                                               !.failed = desk[a].failed \cup {r}]]
    BY <1>14 DEF BatchPush
  <2>2. desk[a].todo \subseteq Requests /\ desk[a].pc = "batchPush"
    BY <1>0, <1>14 DEF BatchPush, DeskType
  <2>3. Good([desk[a] EXCEPT !.todo = desk[a].todo \ {r}])
    BY <1>0, <2>2 DEF DeskType
  <2>4. Good([desk[a] EXCEPT !.todo = desk[a].todo \ {r},
                             !.failed = desk[a].failed \cup {r}])
    BY <1>0, <2>2 DEF DeskType
  <2> QED
    BY <1>0, <1>2, <2>1, <2>2, <2>3, <2>4
<1>15. ASSUME NEW a \in Desks, BatchDecline(a) PROVE DeskTypeOK'
  BY <1>0, <1>15 DEF BatchDecline, DeskTypeOK, deskVars
<1> QED
  BY <1>5, <1>6, <1>7, <1>8, <1>9, <1>10, <1>11, <1>12, <1>13, <1>14, <1>15
     DEF Decide, DecisionStep, DeskStep

\* A removal keeps the store (the table apart) and its memory well typed.
LEMMA RemovalKeepsTypes ==
  ASSUME TypeOK, Removal
  PROVE  /\ RemovalTypeOK' /\ arr' \in [Titles -> ArrStates] /\ mail' \subseteq Events
         /\ UNCHANGED <<sent, wanted, avail, library>>
<1> DEFINE Good(x) == x \in ExecType /\ (x.pc # "idle" => x.title \in Titles)
           Histories == settled' \subseteq Requests /\ removed' \subseteq Titles
           Same == UNCHANGED <<sent, wanted, avail, library, arr, mail>>
           Rest == /\ arr' \in [Titles -> ArrStates] /\ mail' \subseteq Events
                   /\ UNCHANGED <<sent, wanted, avail, library>>
<1>0. /\ exec \in [Executes -> ExecType]
      /\ \A e \in Executes : exec[e].pc # "idle" => exec[e].title \in Titles
      /\ settled \subseteq Requests /\ removed \subseteq Titles
      /\ arr \in [Titles -> ArrStates] /\ mail \subseteq Events
  BY DEF TypeOK, StoreTypeOK, RemovalTypeOK
<1>1. Good(IdleExec)
  BY DEF IdleExec, ExecType
<1>2. ASSUME NEW e \in Executes, NEW x, Good(x), exec' = [exec EXCEPT ![e] = x], Histories
      PROVE  RemovalTypeOK'
  BY <1>0, <1>2 DEF RemovalTypeOK
<1>3. ASSUME NEW e \in Executes, exec' = [exec EXCEPT ![e] = IdleExec], Histories
      PROVE  RemovalTypeOK'
  BY <1>1, <1>2, <1>3
<1>4. ASSUME NEW e \in Executes, exec[e].pc # "idle", NEW S \in SUBSET Requests,
             NEW pc \in {"stamp", "delete", "unstamp", "own", "assert"}, Histories,
             \/ exec' = [exec EXCEPT ![e] = [exec[e] EXCEPT !.pc = pc]]
             \/ exec' = [exec EXCEPT ![e] = [exec[e] EXCEPT !.pc = pc, !.owns = S]]
             \/ exec' = [exec EXCEPT ![e] = [exec[e] EXCEPT !.gone = TRUE, !.owns = {},
                                                           !.pc = pc]]
      PROVE  RemovalTypeOK'
  <2>1. exec[e] \in ExecType /\ exec[e].title \in Titles
    BY <1>0, <1>4
  <2>2. /\ Good([exec[e] EXCEPT !.pc = pc])
        /\ Good([exec[e] EXCEPT !.pc = pc, !.owns = S])
        /\ Good([exec[e] EXCEPT !.gone = TRUE, !.owns = {}, !.pc = pc])
    BY <2>1 DEF ExecType
  <2> QED
    BY <1>2, <1>4, <2>2
<1>5. ASSUME NEW e \in Executes, exec[e].pc # "idle", Settle(e), Histories
      PROVE  RemovalTypeOK'
  <2> DEFINE pc == IF exec[e].kind = "cleanup" THEN "own" ELSE "assert"
  <2>1. exec' = [exec EXCEPT ![e] = [exec[e] EXCEPT !.gone = TRUE, !.owns = {}, !.pc = pc]]
    BY <1>5 DEF Settle
  <2>2. pc \in {"own", "assert"}
    OBVIOUS
  <2> QED
    BY <1>4, <1>5, <2>1, <2>2
<1>6. ASSUME NEW t \in Titles, TakenOff(t)
      PROVE  arr' \in [Titles -> ArrStates] /\ mail' \subseteq Events
  BY <1>0, <1>6 DEF TakenOff, ArrStates, Events
<1>7. /\ UNCHANGED storeVars => Same /\ Rest
      /\ UNCHANGED <<sent, wanted, avail, outside>> => Same /\ Rest
  BY <1>0 DEF storeVars, outside
<1>8. ASSUME NEW e \in Executes, Plan(e) PROVE RemovalTypeOK' /\ Rest
  <2>1. PICK t \in Titles, kind \in {"cleanup", "remove"} :
          exec' = [exec EXCEPT ![e] = [IdleExec EXCEPT
                     !.pc = IF kind = "cleanup" THEN "read" ELSE "stamp",
                     !.kind = kind, !.title = t]]
    BY <1>8 DEF Plan
  <2>2. Good([IdleExec EXCEPT !.pc = IF kind = "cleanup" THEN "read" ELSE "stamp",
                              !.kind = kind, !.title = t])
    BY DEF IdleExec, ExecType
  <2> QED
    BY <1>0, <1>2, <1>7, <1>8, <2>1, <2>2 DEF Plan
<1>9. ASSUME NEW e \in Executes, ReadStampable(e) PROVE RemovalTypeOK' /\ Rest
  <2>1. Stampable(exec[e].title) \in SUBSET Requests
    BY DEF Stampable, RowsOf
  <2> QED
    BY <1>0, <1>4, <1>7, <1>9, <2>1 DEF ReadStampable
<1>10. ASSUME NEW e \in Executes, Stamp(e) PROVE RemovalTypeOK' /\ Rest
  <2> DEFINE S == IF exec[e].kind = "remove" THEN ToStamp(e) ELSE exec[e].owns
  <2>1. S \in SUBSET Requests
    BY <1>0 DEF ToStamp, Stampable, RowsOf, ExecType
  <2>2. exec' = [exec EXCEPT ![e] = [exec[e] EXCEPT !.pc = "delete", !.owns = S]]
    BY <1>10 DEF Stamp
  <2> QED
    BY <1>0, <1>4, <1>7, <1>10, <2>1, <2>2 DEF Stamp
<1>11. ASSUME NEW e \in Executes, DeleteAccepted(e) PROVE RemovalTypeOK' /\ Rest
  BY <1>0, <1>5, <1>6, <1>11 DEF DeleteAccepted, tables
<1>12. ASSUME NEW e \in Executes, DeleteRefused(e) PROVE RemovalTypeOK' /\ Rest
  BY <1>0, <1>4, <1>7, <1>12 DEF DeleteRefused
<1>13. ASSUME NEW e \in Executes, DeleteUnknown(e) PROVE RemovalTypeOK' /\ Rest
  <2>1. exec[e].pc # "idle" /\ exec[e].title \in Titles
    BY <1>0, <1>13 DEF DeleteUnknown
  <2>2. Rest
    BY <1>0, <1>6, <1>13, <2>1 DEF DeleteUnknown, tables
  <2>3. Histories
    BY <1>0, <1>13, <2>1 DEF DeleteUnknown
  <2>4. \/ exec' = [exec EXCEPT ![e] = [exec[e] EXCEPT !.pc = "own", !.owns = {}]]
        \/ Settle(e)
        \/ exec' = [exec EXCEPT ![e] = IdleExec]
    BY <1>13 DEF DeleteUnknown
  <2> QED
    BY <1>3, <1>4, <1>5, <2>1, <2>2, <2>3, <2>4
<1>14. ASSUME NEW e \in Executes, Unstamp(e) PROVE RemovalTypeOK' /\ Rest
  BY <1>0, <1>3, <1>5, <1>7, <1>14 DEF Unstamp
<1>15. ASSUME NEW e \in Executes, ReadOwn(e) PROVE RemovalTypeOK' /\ Rest
  <2>1. OwnRows(e) \in SUBSET Requests
    BY DEF OwnRows, RowsOf
  <2> QED
    BY <1>0, <1>4, <1>7, <1>15, <2>1 DEF ReadOwn
<1>16. ASSUME NEW e \in Executes, ReassertStamps(e) PROVE RemovalTypeOK' /\ Rest
  <2>1. Own(e) \subseteq Requests
    BY DEF Own, OwnRows, RowsOf
  <2> QED
    BY <1>0, <1>3, <1>7, <1>16, <2>1 DEF ReassertStamps
<1>17. ASSUME NEW e \in Executes, AddBack(e) PROVE RemovalTypeOK' /\ Rest
  <2>1. PICK t \in Titles :
          /\ arr' = [arr EXCEPT ![t] = "wanted"] /\ removed' = removed \ {t}
          /\ exec' = [exec EXCEPT ![e] = [IdleExec EXCEPT !.pc = "clear", !.title = t]]
    BY <1>17 DEF AddBack
  <2>2. Good([IdleExec EXCEPT !.pc = "clear", !.title = t])
    BY DEF IdleExec, ExecType
  <2>3. arr' \in [Titles -> ArrStates]
    BY <1>0, <2>1 DEF ArrStates
  <2> QED
    BY <1>0, <1>2, <1>17, <2>1, <2>2, <2>3 DEF AddBack, tables
<1>18. ASSUME NEW e \in Executes, ClearStamps(e) PROVE RemovalTypeOK' /\ Rest
  BY <1>0, <1>3, <1>7, <1>18 DEF ClearStamps
<1>19. ASSUME NEW e \in Executes, ExecLost(e) PROVE RemovalTypeOK' /\ Rest
  BY <1>0, <1>3, <1>7, <1>19 DEF ExecLost
<1> QED
  BY <1>8, <1>9, <1>10, <1>11, <1>12, <1>13, <1>14, <1>15, <1>16, <1>17, <1>18, <1>19
     DEF Removal, RemovalStep, ExecStep

-----------------------------------------------------------------------------
(* The invariant *)

\* A creation in flight still finds its row unused: rows are born only through it.
LEMMA UnusedStep ==
  ASSUME TypeOK, CreatesUnused, [Next]_vars PROVE CreatesUnused'
<1> SUFFICES ASSUME NEW r \in Requests, intake'[r].pc = "create"
             PROVE  rows'[r].status = "NONE"
  BY DEF CreatesUnused
<1>1. TableMoves
  BY TableStep
<1>2. CASE intake[r].pc = "create"
  <2>1. /\ rows[r] \in Row /\ rows[r].status = "NONE"
        /\ RowMove(rows[r], rows'[r]) \/ Restamped(r)
    BY <1>1, <1>2 DEF CreatesUnused, TableMoves, Born, AtDesk, Exists, TypeOK, StoreTypeOK
  <2>2. CASE Restamped(r)
    BY <2>1, <2>2 DEF Restamped, Row
  <2> QED
    BY <2>1, <2>2 DEF RowMove, Row, Markable, Forward, Demotable, RollbackAllowed, Announced,
                Disarmed
<1>3. CASE intake[r].pc # "create"
  <2>1. intake \in [Requests -> IntakeType]
    BY DEF TypeOK, IntakeTypeOK
  <2>2. PICK q \in Requests : \/ ReadForCreate(q) \/ CreateRow(q) \/ CreateRefused(q)
                              \/ CreatePush(q) \/ CreateUndo(q) \/ CreateLost(q)
    BY <1>3 DEF Next, Sync, Churn, Webhook, Resync, Create, Decide, Removal, CreateStep,
                vars
  <2>3. CASE ReadForCreate(q)
    BY <1>3, <2>1, <2>3 DEF ReadForCreate, storeVars
  <2>4. CASE CreatePush(q)
    BY <1>3, <2>1, <2>4 DEF CreatePush, Finished, IntakeType
  <2>5. CASE CreateRow(q) \/ CreateRefused(q) \/ CreateUndo(q) \/ CreateLost(q)
    BY <1>3, <2>1, <2>5 DEF CreateRow, CreateRefused, CreateUndo, CreateLost, Finished
  <2> QED
    BY <2>2, <2>3, <2>4, <2>5
<1> QED
  BY <1>2, <1>3

\* Initially everything has its type and nothing is being created.
LEMMA TypesInitially == Init => TypeOK /\ CreatesUnused
<1> SUFFICES ASSUME Init PROVE TypeOK /\ CreatesUnused
  OBVIOUS
<1>1. \A s \in Statuses, b \in BOOLEAN : NewRow(s, b) \in Row
  BY DEF Row, NewRow
<1>2. \A s \in Start : s \in Statuses /\ (s = "APPROVED") \in BOOLEAN
  BY FulfilmentAssumption DEF Statuses
<1>3. rows \in [Requests -> Row]
  <2>1. {NewRow(s, s = "APPROVED") : s \in Start} \subseteq Row
    BY <1>1, <1>2
  <2>2. rows \in [Requests -> {NewRow(s, s = "APPROVED") : s \in Start}]
    BY DEF Init, StoreInit
  <2> QED
    BY <2>1, <2>2
<1>4. StoreTypeOK
  BY <1>3 DEF Init, StoreInit, StoreTypeOK
<1>5. SyncTypeOK
  BY AbortAssumption DEF Init, SyncInit, SyncTypeOK, IdleRun, RunType, Stages, ArrStates
<1>6. HookTypeOK
  BY DEF Init, HookInit, HookTypeOK, IdleHook, HookType
<1>7. ResyncTypeOK
  BY DEF Init, ResyncInit, ResyncTypeOK, IdleResync, ResyncType
<1>8. IntakeTypeOK /\ CreatesUnused
  BY DEF Init, IntakeInit, IntakeTypeOK, NoIntake, IntakeType, CreatesUnused
<1>9. DeskTypeOK
  BY DEF Init, DeskInit, DeskTypeOK, IdleDesk, DeskType
<1>10. RemovalTypeOK
  BY DEF Init, RemovalInit, RemovalTypeOK, IdleExec, ExecType
<1>11. churn \in 0..MaxChurn /\ reached \subseteq Requests
  BY FulfilmentAssumption DEF Init, WithStatus
<1> QED
  BY <1>4, <1>5, <1>6, <1>7, <1>8, <1>9, <1>10, <1>11 DEF TypeOK

\* Every step keeps every type.
LEMMA TypesStep == TypeOK /\ CreatesUnused /\ [Next]_vars => TypeOK'
<1> SUFFICES ASSUME TypeOK, CreatesUnused, [Next]_vars PROVE TypeOK'
  OBVIOUS
<1>1. rows' \in [Requests -> Row]
  BY TableStep, TableMovesType DEF TypeOK, StoreTypeOK
<1>2. CASE UNCHANGED vars
  BY <1>2 DEF TypeOK, StoreTypeOK, SyncTypeOK, HookTypeOK, ResyncTypeOK, IntakeTypeOK,
              DeskTypeOK, RemovalTypeOK, vars, storeVars, syncVars, deskVars, removalVars
<1>3. CASE Next
  <2>1. reached' \subseteq Requests
    BY <1>3 DEF Next, TypeOK
  <2>2. CASE Sync
    <3>1. StoreTypeOK'
      BY <1>1, <2>2, SyncType DEF StoreTypeOK, TypeOK
    <3> QED
      BY <2>1, <2>2, <3>1, SyncType
         DEF Sync, TypeOK, HookTypeOK, ResyncTypeOK, IntakeTypeOK, DeskTypeOK,
             RemovalTypeOK, deskVars, removalVars
  <2>3. CASE Churn
    BY <2>1, <2>3, ChurnType
       DEF Churn, TypeOK, SyncTypeOK, HookTypeOK, ResyncTypeOK, IntakeTypeOK, DeskTypeOK,
           RemovalTypeOK, syncVars, deskVars, removalVars
  <2>4. CASE Webhook
    <3>1. StoreTypeOK'
      BY <1>1, <2>4, WebhookStoreType DEF StoreTypeOK, TypeOK
    <3> QED
      BY <2>1, <2>4, <3>1, WebhookMemoryType
         DEF Webhook, TypeOK, SyncTypeOK, ResyncTypeOK, IntakeTypeOK, DeskTypeOK,
             RemovalTypeOK, syncVars, deskVars, removalVars
  <2>5. CASE Resync
    <3>1. StoreTypeOK'
      BY <1>1, <2>5, ResyncKeepsTypes DEF StoreTypeOK, TypeOK, outside
    <3> QED
      BY <2>1, <2>5, <3>1, ResyncKeepsTypes
         DEF Resync, TypeOK, SyncTypeOK, HookTypeOK, IntakeTypeOK, DeskTypeOK,
             RemovalTypeOK, syncVars, deskVars, removalVars
  <2>6. CASE Create
    <3>1. StoreTypeOK'
      BY <1>1, <2>6, CreateKeepsTypes DEF StoreTypeOK, TypeOK
    <3> QED
      BY <2>1, <2>6, <3>1, CreateKeepsTypes
         DEF Create, TypeOK, SyncTypeOK, HookTypeOK, ResyncTypeOK, DeskTypeOK,
             RemovalTypeOK, syncVars, deskVars, removalVars
  <2>7. CASE Decide
    <3>1. StoreTypeOK'
      BY <1>1, <2>7, DecideStoreType DEF StoreTypeOK, TypeOK
    <3> QED
      BY <2>1, <2>7, <3>1, DecideMemoryType
         DEF Decide, TypeOK, SyncTypeOK, HookTypeOK, ResyncTypeOK, IntakeTypeOK,
             RemovalTypeOK, syncVars, removalVars
  <2>8. CASE Removal
    <3>1. StoreTypeOK'
      BY <1>1, <2>8, RemovalKeepsTypes DEF StoreTypeOK, TypeOK
    <3> QED
      BY <2>1, <2>8, <3>1, RemovalKeepsTypes
         DEF Removal, TypeOK, SyncTypeOK, HookTypeOK, ResyncTypeOK, IntakeTypeOK,
             DeskTypeOK, syncVars, deskVars
  <2> QED
    BY <1>3, <2>2, <2>3, <2>4, <2>5, <2>6, <2>7, <2>8 DEF Next
<1> QED
  BY <1>2, <1>3

\* The lifecycle never leaves its types, whatever the number of requests, titles,
\* handlers and executions: the types of the rows rest on TableStep, and that on
\* no creation finding its row used.
THEOREM TypeCorrect == Spec => [](TypeOK /\ CreatesUnused)
<1>1. Init => TypeOK /\ CreatesUnused
  BY TypesInitially
<1>2. TypeOK /\ CreatesUnused /\ [Next]_vars => (TypeOK /\ CreatesUnused)'
  BY TypesStep, UnusedStep
<1> QED
  BY <1>1, <1>2, PTL DEF Spec
=============================================================================
