------------------------ MODULE FulfilmentRefinement ------------------------
(***************************************************************************)
(* The lifecycle implements the board, and what it keeps of a requester's  *)
(* rows and of a removal's stamps, proved for every value of the           *)
(* constants.                                                              *)
(*                                                                         *)
(* Every proof starts from TableStep (FulfilmentTypes): what a step may do *)
(* to a row.  The board also needs the tickets of FulfilmentSafety, since  *)
(* only who holds one announces, and ReachedSound, since a desk that made  *)
(* a row available claims it whatever the row has become meanwhile.        *)
(***************************************************************************)
EXTENDS FulfilmentSafety

-----------------------------------------------------------------------------
(* One row per requester and title *)

\* A row that is not there is not moved.
LEMMA AbsentKept ==
  ASSUME NEW row \in Row, NEW new, RowMove(row, new), row.status \in {"NONE", "GONE"}
  PROVE  new.status = row.status
BY DEF RowMove, Row, Markable, Forward, Demotable, RollbackAllowed, Announced, Disarmed

\* A row is born in the transaction of its own attempt.
LEMMA BirthIsCreate ==
  ASSUME TypeOK, [Next]_vars, NEW r \in Requests, Born(r)
  PROVE  CreateRow(r)
<1>0. intake \in [Requests -> IntakeType]
  BY DEF TypeOK, IntakeTypeOK
<1>1. /\ rows[r].status = "NONE" /\ rows'[r].status # "NONE"
      /\ intake[r].pc = "create" /\ intake'[r].pc # "create"
  BY DEF Born, NewRows, NewRow
<1>2. PICK q \in Requests : \/ ReadForCreate(q) \/ CreateRow(q) \/ CreateRefused(q)
                            \/ CreatePush(q) \/ CreateUndo(q) \/ CreateLost(q)
  BY <1>1 DEF Next, Sync, Churn, Webhook, Resync, Create, Decide, Removal, CreateStep, vars
<1>3. intake' = [intake EXCEPT ![q] = intake'[q]]
  BY <1>0, <1>2 DEF ReadForCreate, CreateRow, CreateRefused, CreatePush, CreateUndo,
                    CreateLost
<1>4. q = r
  BY <1>0, <1>1, <1>3
<1>5. ~ReadForCreate(r) /\ ~CreatePush(r) /\ ~CreateUndo(r)
  BY <1>1 DEF ReadForCreate, CreatePush, CreateUndo
<1>6. ~CreateRefused(r) /\ ~CreateLost(r)
  BY <1>1 DEF CreateRefused, CreateLost, storeVars
<1> QED
  BY <1>2, <1>4, <1>5, <1>6

\* A creation leaves no rival of the row it creates.
LEMMA CreateAlone ==
  ASSUME TypeOK, NEW r \in Requests, CreateRow(r), NEW q \in Requests, q # r,
         Owner[q] = Owner[r], TitleOf[q] = TitleOf[r]
  PROVE  ~Exists(q)'
<1> DEFINE gone == {p \in {intake[r].stale} \ {None} : Replaceable(p)}
<1>1. PICK new \in Created(r) :
         rows' = [p \in Requests |-> IF p = r THEN new
                                     ELSE IF p \in gone THEN Deleted(rows[p]) ELSE rows[p]]
  BY DEF CreateRow
<1>2. Rivals(r) \subseteq gone
  BY DEF CreateRow
<1>3. rows[q] \in Row
  BY DEF TypeOK, StoreTypeOK
<1> HIDE DEF gone
<1>4. CASE q \in gone
  <2>1. rows'[q] = Deleted(rows[q])
    BY <1>1, <1>4
  <2> QED
    BY <1>3, <2>1 DEF Deleted, Row, Exists
<1>5. CASE q \notin gone
  <2>1. rows'[q] = rows[q] /\ q \notin Rivals(r)
    BY <1>1, <1>2, <1>5
  <2> QED
    BY <2>1 DEF Rivals, Exists
<1> QED
  BY <1>4, <1>5

\* Whether a row is there changes only by its birth or its deletion.
LEMMA ExistsStep ==
  ASSUME TypeOK, CreatesUnused, [Next]_vars, NEW r \in Requests, Exists(r)'
  PROVE  Exists(r) \/ Born(r)
<1>1. /\ rows[r] \in Row
      /\ RowMove(rows[r], rows'[r]) \/ Born(r) \/ AtDesk(r) \/ Restamped(r)
  BY TableStep DEF TableMoves, TypeOK, StoreTypeOK
<1>2. CASE RowMove(rows[r], rows'[r])
  BY <1>1, <1>2, AbsentKept DEF Exists
<1>3. CASE AtDesk(r)
  BY <1>3 DEF AtDesk
<1>4. CASE Restamped(r)
  BY <1>1, <1>4 DEF Restamped, Row, Exists
<1> QED
  BY <1>1, <1>2, <1>3, <1>4

\* However many requests of one requester race for a title, one row of it stands: the
\* unique index, checked in the transaction that replaces the declined row.
THEOREM OneRowSafe == Spec => []OneRowPerRequester
<1>1. Init => OneRowPerRequester
  BY DEF Init
<1>2. TypeOK /\ CreatesUnused /\ OneRowPerRequester /\ [Next]_vars => OneRowPerRequester'
  <2> SUFFICES ASSUME TypeOK, CreatesUnused, OneRowPerRequester, [Next]_vars,
                      NEW q \in Requests, NEW r \in Requests, q # r,
                      Owner[q] = Owner[r], TitleOf[q] = TitleOf[r],
                      Exists(q)', Exists(r)'
               PROVE  FALSE
    BY DEF OneRowPerRequester
  <2>1. CASE Born(q)
    BY <2>1, BirthIsCreate, CreateAlone
  <2>2. CASE Born(r)
    BY <2>2, BirthIsCreate, CreateAlone
  <2>3. CASE ~Born(q) /\ ~Born(r)
    BY <2>3, ExistsStep DEF OneRowPerRequester
  <2> QED
    BY <2>1, <2>2, <2>3
<1> QED
  BY <1>1, <1>2, TypeCorrect, PTL DEF Spec

\* A ban ends with an admin's decision, never with the requester asking again.
THEOREM BanHolds == Spec => BanNotEvaded
<1>1. TypeOK /\ CreatesUnused /\ RowsSound /\ [Next]_vars
      => [\A r \in Requests : rows[r].banned /\ rows'[r].status = "GONE"
                              => \E a \in Desks : desk[a].row = r /\ desk'[a] # desk[a]]_vars
  <2> SUFFICES ASSUME TypeOK, CreatesUnused, RowsSound, [Next]_vars,
                      NEW r \in Requests, rows[r].banned, rows'[r].status = "GONE"
               PROVE  AtDesk(r)
    BY DEF AtDesk
  <2>1. /\ rows[r] \in Row /\ rows[r].status = "DECLINED"
        /\ RowMove(rows[r], rows'[r]) \/ Born(r) \/ AtDesk(r) \/ Restamped(r)
    BY TableStep DEF TableMoves, RowsSound, RowSound, TypeOK, StoreTypeOK
  <2>2. CASE RowMove(rows[r], rows'[r])
    <3>1. /\ Approved(rows[r]).status = "APPROVED" /\ Disarmed(rows[r]).status = "DECLINED"
          /\ [rows[r] EXCEPT !.status = "PENDING", !.banned = FALSE].status = "PENDING"
      BY <2>1 DEF Row, Approved, Approvable, Disarmed
    <3> QED
      BY <2>1, <2>2, <3>1 DEF RowMove, Markable, Forward, Demotable, RollbackAllowed
  <2>3. CASE Born(r) \/ Restamped(r)
    BY <2>1, <2>3 DEF Born, Restamped, Row
  <2> QED
    BY <2>1, <2>2, <2>3
<1> QED
  BY <1>1, RowsAlwaysSound, PTL DEF Spec, BanNotEvaded

-----------------------------------------------------------------------------
(* The stamps of a removal *)

\* The stages at which an execution may still withdraw the stamps it owns.
Stamping == {"stamp", "delete", "unstamp"}

\* The stamp a removal settled stands, and whoever wrote it will not withdraw it.
Held(r) == /\ rows[r].status = "AVAILABLE" /\ rows[r].stamp \in Executes
           /\ \A e \in Executes : rows[r].stamp = e /\ exec[e].pc \in Stamping
                                  => r \notin exec[e].owns

SettledSound == \A r \in settled : rows[r].status = "GONE" \/ Held(r)

\* What may happen to a settled row short of a removal's own statements.
LEMMA SettledRowStep ==
  ASSUME TypeOK, CreatesUnused, [Next]_vars, NEW r \in Requests, ~Restamped(r),
         rows[r].status = "GONE" \/ (rows[r].status = "AVAILABLE" /\ rows[r].stamp # None)
  PROVE  \/ rows'[r].status = "GONE"
         \/ /\ rows'[r].status = "AVAILABLE" /\ rows[r].status = "AVAILABLE"
            /\ rows'[r].stamp = rows[r].stamp
<1>1. /\ rows[r] \in Row
      /\ RowMove(rows[r], rows'[r]) \/ Born(r) \/ AtDesk(r)
  BY TableStep DEF TableMoves, TypeOK, StoreTypeOK
<1>2. CASE RowMove(rows[r], rows'[r])
  <2>1. CASE rows[r].status = "GONE"
    BY <1>1, <1>2, <2>1, AbsentKept
  <2>2. CASE rows[r].status = "AVAILABLE" /\ rows[r].stamp # None
    BY <1>1, <1>2, <2>2 DEF RowMove, Row, Markable, Forward, Demotable, RollbackAllowed,
                            Announced, Disarmed
  <2> QED
    BY <2>1, <2>2
<1>3. CASE AtDesk(r)
  <2>1. Deleted(rows[r]).status = "GONE"
    BY <1>1 DEF Deleted, Row
  <2>2. /\ Announced(rows[r]).status = rows[r].status
        /\ Announced(rows[r]).stamp = rows[r].stamp
    BY <1>1 DEF Announced, Row
  <2> QED
    BY <1>3, <2>1, <2>2 DEF AtDesk, Exists
<1> QED
  BY <1>1, <1>2, <1>3 DEF Born

\* A removal's step: it stamps only what has no stamp or what it finds AVAILABLE, and
\* withdraws only what it wrote.
LEMMA RemovalKeepsSettled ==
  ASSUME TypeOK, SettledSound, Removal
  PROVE  SettledSound'
<1>0. /\ rows \in [Requests -> Row] /\ exec \in [Executes -> ExecType]
      /\ settled \subseteq Requests /\ None \notin Executes
  BY StoreAssumption DEF TypeOK, StoreTypeOK, RemovalTypeOK
<1> PICK e \in Executes : ExecStep(e)
  BY DEF Removal, RemovalStep
<1>i. IdleExec \in ExecType /\ IdleExec.owns = {} /\ IdleExec.pc = "idle"
  BY DEF IdleExec, ExecType
<1>s. Settle(e) => exec'[e].owns = {}
  BY <1>0 DEF Settle, ExecType
<1>1. \A k \in Executes : k # e => exec'[k] = exec[k]
  BY <1>0 DEF ExecStep, Plan, ReadStampable, Stamp, DeleteAccepted, DeleteRefused,
     DeleteUnknown, Settle, Unstamp, ReadOwn, ReassertStamps, AddBack, ClearStamps, ExecLost
<1>2. ASSUME NEW r \in settled, rows'[r] = rows[r],
             \/ exec'[e].pc \notin Stamping
             \/ r \notin exec'[e].owns
             \/ exec[e].pc \in Stamping /\ exec'[e].owns = exec[e].owns
      PROVE  rows'[r].status = "GONE" \/ Held(r)'
  BY <1>0, <1>1, <1>2 DEF SettledSound, Held
<1>3. CASE \/ Plan(e) \/ DeleteAccepted(e) \/ DeleteRefused(e) \/ DeleteUnknown(e)
           \/ ReadOwn(e) \/ AddBack(e) \/ ExecLost(e)
  <2>1. settled' = settled /\ rows' = rows
    BY <1>3 DEF Plan, DeleteAccepted, DeleteRefused, DeleteUnknown, ReadOwn, AddBack,
                ExecLost, storeVars, tables
  <2>2. \/ exec'[e].pc \notin Stamping
        \/ exec'[e].owns = {}
        \/ exec[e].pc \in Stamping /\ exec'[e].owns = exec[e].owns
    <3>1. CASE Plan(e)
      <4>1. PICK t \in Titles, kind \in {"cleanup", "remove"} :
              exec' = [exec EXCEPT ![e] = [IdleExec EXCEPT
                         !.pc = IF kind = "cleanup" THEN "read" ELSE "stamp",
                         !.kind = kind, !.title = t]]
        BY <3>1 DEF Plan
      <4>2. exec'[e] = [pc |-> IF kind = "cleanup" THEN "read" ELSE "stamp",
                        kind |-> kind, title |-> t, gone |-> FALSE, owns |-> {}]
        BY <1>0, <4>1 DEF IdleExec
      <4> QED
        BY <4>2
    <3>2. CASE DeleteAccepted(e)
      BY <1>s, <3>2 DEF DeleteAccepted
    <3>3. CASE DeleteRefused(e)
      BY <1>0, <3>3 DEF DeleteRefused, ExecType, Stamping
    <3>4. CASE DeleteUnknown(e)
      <4>1. CASE exec' = [exec EXCEPT ![e] = [@ EXCEPT !.pc = "own", !.owns = {}]]
        BY <1>0, <4>1 DEF ExecType
      <4>2. CASE exec' = [exec EXCEPT ![e] = IdleExec]
        BY <1>0, <1>i, <4>2
      <4> QED
        BY <1>s, <3>4, <4>1, <4>2 DEF DeleteUnknown
    <3>5. CASE ReadOwn(e)
      BY <1>0, <3>5 DEF ReadOwn, ExecType, Stamping
    <3>6. CASE AddBack(e)
      <4>1. PICK t \in Titles :
              exec' = [exec EXCEPT ![e] = [IdleExec EXCEPT !.pc = "clear", !.title = t]]
        BY <3>6 DEF AddBack
      <4>2. exec'[e].pc = "clear"
        BY <1>0, <4>1 DEF IdleExec
      <4> QED
        BY <4>2 DEF Stamping
    <3>7. CASE ExecLost(e)
      BY <1>0, <1>i, <3>7 DEF ExecLost
    <3> QED
      BY <1>3, <3>1, <3>2, <3>3, <3>4, <3>5, <3>6, <3>7
  <2>3. ASSUME NEW r \in settled PROVE rows'[r].status = "GONE" \/ Held(r)'
    BY <1>2, <2>1, <2>2
  <2> QED
    BY <2>1, <2>3 DEF SettledSound
<1>4. CASE ReadStampable(e)
  <2>1. settled' = settled /\ rows' = rows /\ exec'[e].owns = Stampable(exec[e].title)
    BY <1>0, <1>4 DEF ReadStampable, storeVars, ExecType
  <2>2. ASSUME NEW r \in settled PROVE rows'[r].status = "GONE" \/ Held(r)'
    <3>1. r \notin exec'[e].owns
      BY <1>0, <2>1 DEF SettledSound, Held, Stampable
    <3> QED
      BY <1>2, <2>1, <3>1
  <2> QED
    BY <2>1, <2>2 DEF SettledSound
<1>5. CASE Stamp(e)
  <2>1. /\ settled' = settled /\ exec[e].pc = "stamp"
        /\ exec'[e].owns = exec[e].owns \/ exec'[e].owns = ToStamp(e)
        /\ \A r \in Requests \ ToStamp(e) : rows'[r] = rows[r]
    BY <1>0, <1>5 DEF Stamp, ExecType
  <2>2. ASSUME NEW r \in settled PROVE rows'[r].status = "GONE" \/ Held(r)'
    <3>1. r \in Requests /\ r \notin ToStamp(e)
      BY <1>0 DEF SettledSound, Held, ToStamp, Stampable, Exists
    <3> QED
      BY <1>2, <2>1, <3>1 DEF Stamping
  <2> QED
    BY <2>1, <2>2 DEF SettledSound
<1>6. CASE Unstamp(e)
  <2>1. /\ settled' = settled /\ exec[e].pc = "unstamp" /\ exec'[e].owns = {}
        /\ \A r \in Requests \ Withdraw(e) : rows'[r] = rows[r]
    <3>1. exec[e].pc = "unstamp" /\ settled' = settled
      BY <1>6 DEF Unstamp
    <3>2. exec'[e].owns = {}
      BY <1>0, <1>i, <1>s, <1>6 DEF Unstamp
    <3>3. \A r \in Requests \ Withdraw(e) : rows'[r] = rows[r]
      BY <1>6 DEF Unstamp
    <3> QED
      BY <3>1, <3>2, <3>3
  <2>2. ASSUME NEW r \in settled PROVE rows'[r].status = "GONE" \/ Held(r)'
    <3>1. CASE r \notin Withdraw(e)
      BY <1>0, <1>2, <2>1, <3>1
    <3>2. CASE r \in Withdraw(e)
      <4>1. r \in exec[e].owns /\ rows[r].stamp = e
        BY <3>2 DEF Withdraw, UnstampOwn
      <4>2. rows[r].status = "GONE"
        BY <2>1, <4>1 DEF SettledSound, Held, Stamping
      <4>3. rows'[r] = [rows[r] EXCEPT !.stamp = None] \/ rows'[r] = rows[r]
        BY <1>0, <1>6, <3>2 DEF Unstamp
      <4> QED
        BY <1>0, <4>2, <4>3 DEF Row
    <3> QED
      BY <3>1, <3>2
  <2> QED
    BY <2>1, <2>2 DEF SettledSound
<1>7. CASE ReassertStamps(e)
  <2>1. /\ settled' \subseteq settled \cup Own(e) /\ exec'[e].owns = {}
        /\ rows' = [r \in Requests |-> IF r \in Own(e)
                                       THEN [rows[r] EXCEPT !.stamp = e] ELSE rows[r]]
    BY <1>0, <1>i, <1>7 DEF ReassertStamps, Reassert, Stamped
  <2>2. ASSUME NEW r \in settled, r \notin Own(e)
        PROVE  rows'[r].status = "GONE" \/ Held(r)'
    BY <1>0, <1>2, <2>1, <2>2
  <2>3. ASSUME NEW r \in Own(e) PROVE Held(r)'
    <3>1. r \in Requests /\ rows[r].status = "AVAILABLE"
      BY DEF Own, OwnRows, WithStatus
    <3>2. rows'[r].status = "AVAILABLE" /\ rows'[r].stamp = e
      BY <1>0, <2>1, <2>3, <3>1 DEF Row
    <3> QED
      BY <2>1, <3>2 DEF Held
  <2> QED
    BY <2>1, <2>2, <2>3 DEF SettledSound
<1>8. CASE ClearStamps(e)
  <2>1. /\ settled' = settled \ RowsOf(exec[e].title) /\ exec'[e].owns = {}
        /\ \A r \in Requests \ RowsOf(exec[e].title) : rows'[r] = rows[r]
    BY <1>0, <1>i, <1>8 DEF ClearStamps, RowsOf
  <2>2. ASSUME NEW r \in settled' PROVE rows'[r].status = "GONE" \/ Held(r)'
    BY <1>0, <1>2, <2>1
  <2> QED
    BY <2>2 DEF SettledSound
<1> QED
  BY <1>3, <1>4, <1>5, <1>6, <1>7, <1>8 DEF ExecStep

\* No step of anybody takes a settled stamp away.
LEMMA SettledStep ==
  ASSUME TypeOK, CreatesUnused, SettledSound, [Next]_vars
  PROVE  SettledSound'
<1>1. CASE Removal
  BY <1>1, RemovalKeepsSettled
<1>2. CASE ~Removal
  <2>1. exec' = exec /\ settled' = settled
    BY <1>2 DEF Next, Sync, Churn, Webhook, Resync, Create, Decide, vars, removalVars
  <2>2. ASSUME NEW r \in settled PROVE rows'[r].status = "GONE" \/ Held(r)'
    <3>1. r \in Requests /\ None \notin Executes
      BY StoreAssumption DEF TypeOK, RemovalTypeOK
    <3>2. ~Restamped(r)
      BY <2>1 DEF Restamped
    <3>3. \/ rows'[r].status = "GONE"
          \/ /\ rows'[r].status = "AVAILABLE" /\ rows[r].status = "AVAILABLE"
             /\ rows'[r].stamp = rows[r].stamp
      BY <3>1, <3>2, SettledRowStep DEF SettledSound, Held
    <3> QED
      BY <2>1, <3>3 DEF SettledSound, Held
  <2> QED
    BY <2>1, <2>2 DEF SettledSound
<1> QED
  BY <1>1, <1>2

\* Together with the types it is an invariant.
LEMMA SettledAlwaysSound == Spec => [](TypeOK /\ CreatesUnused /\ SettledSound)
<1>1. Init => SettledSound
  BY DEF Init, RemovalInit, SettledSound
<1>2. TypeOK /\ CreatesUnused /\ SettledSound /\ [Next]_vars => SettledSound'
  BY SettledStep
<1> QED
  BY <1>1, <1>2, TypeCorrect, PTL DEF Spec

\* The stamp a completed removal left on an available request stays until an Add clears
\* it, whatever other executions, refused, unknown or lost, withdraw.
THEOREM StampSafe == Spec => []SettledKeepsStamp
<1>1. SettledSound => SettledKeepsStamp
  BY StoreAssumption DEF SettledSound, Held, SettledKeepsStamp
<1> QED
  BY <1>1, SettledAlwaysSound, PTL

\* So the sync never sends such a request back to be pushed again.
THEOREM SettledStays == Spec => SettledNotDemoted
<1>1. TypeOK /\ CreatesUnused /\ SettledSound /\ [Next]_vars
      => [\A r \in settled : rows[r].status = "AVAILABLE"
                             => rows'[r].status # "APPROVED"]_vars
  <2> SUFFICES ASSUME TypeOK, CreatesUnused, SettledSound, [Next]_vars,
                      NEW r \in settled, rows[r].status = "AVAILABLE"
               PROVE  rows'[r].status # "APPROVED"
    OBVIOUS
  <2>1. /\ r \in Requests /\ rows[r] \in Row /\ rows[r].stamp # None
    BY StoreAssumption DEF SettledSound, Held, TypeOK, StoreTypeOK, RemovalTypeOK
  <2>2. CASE Restamped(r)
    BY <2>1, <2>2 DEF Restamped, Row
  <2>3. CASE ~Restamped(r)
    BY <2>1, <2>3, SettledRowStep
  <2> QED
    BY <2>2, <2>3
<1> QED
  BY <1>1, SettledAlwaysSound, PTL DEF Spec, SettledNotDemoted

-----------------------------------------------------------------------------
(* The board *)

\* Whatever is available has been seen so, and so has what a desk is about to claim.
ReachedSound ==
    /\ \A r \in Requests : rows[r].status = "AVAILABLE" => r \in reached
    /\ \A a \in Desks : desk[a].pc = "claim" => desk[a].row \in reached

\* At first the available rows have been seen so, and no desk is claiming.
LEMMA ReachedInitially == Init => ReachedSound
BY DEF Init, DeskInit, IdleDesk, WithStatus, ReachedSound

\* Only making a row available by hand brings a desk to its claim.
LEMMA ReachedStep ==
  ASSUME TypeOK, CreatesUnused, ReachedSound, [Next]_vars
  PROVE  ReachedSound'
<1>0. /\ desk \in [Desks -> DeskType] /\ rows \in [Requests -> Row]
      /\ IdleDesk.pc = "idle"
  BY DEF TypeOK, StoreTypeOK, DeskTypeOK, IdleDesk
<1>1. reached \subseteq reached'
  BY DEF Next, vars
<1>2. \A r \in Requests : rows'[r].status = "AVAILABLE" => r \in reached'
  BY DEF Next, vars, storeVars, ReachedSound
<1>3. ASSUME NEW a \in Desks, desk'[a].pc = "claim" PROVE desk'[a].row \in reached'
  <2>1. CASE desk'[a] = desk[a]
    BY <1>1, <1>3, <2>1 DEF ReachedSound
  <2>2. CASE desk'[a] # desk[a]
    <3>1. Decide
      BY <2>2 DEF Next, Sync, Churn, Webhook, Resync, Create, Removal, vars, deskVars
    <3>2. PICK b \in Desks : DeskStep(b)
      BY <3>1 DEF Decide, DecisionStep
    <3>3. b = a
      BY <1>0, <2>2, <3>2 DEF DeskStep, Close, deskVars, Open, Approve, Decline, Reopen,
         MarkAvailable, ClaimByHand, TellByHand, Conflict, Push, Undo, Retry, Delete,
         Cancel, BatchApprove, BatchDecline, BatchRead, BatchPush, BatchUndo, DeskLost
    <3>4. ~Close(a)
      BY <1>0, <1>3 DEF Close
    <3>5. MarkAvailable(a)
      <4>1. ~Open(a)
        <5>1. SUFFICES ASSUME Open(a) PROVE FALSE
          OBVIOUS
        <5>2. PICK r \in Requests :
                desk' = [desk EXCEPT ![a] = [IdleDesk EXCEPT !.pc = "decide", !.row = r,
                                                             !.was = rows[r].status]]
          BY <5>1 DEF Open
        <5>3. desk'[a].pc = "decide"
          BY <1>0, <5>2 DEF IdleDesk
        <5> QED
          BY <1>3, <5>3
      <4>2. ~Approve(a)
        BY <1>0, <1>3 DEF Approve, DeskType
      <4>3. ~ClaimByHand(a)
        BY <1>0, <1>3, <3>4 DEF ClaimByHand, DeskType
      <4>4. ~Push(a)
        BY <1>0, <1>3, <3>4 DEF Push, DeskType
      <4>5. ~BatchApprove(a)
        <5>1. SUFFICES ASSUME BatchApprove(a) PROVE FALSE
          OBVIOUS
        <5>2. PICK S \in SUBSET Requests :
                desk' = [desk EXCEPT ![a] = [IdleDesk EXCEPT !.pc = "batchRead",
                                                             !.todo = Pending(S)]]
          BY <5>1 DEF BatchApprove
        <5>3. desk'[a].pc = "batchRead"
          BY <1>0, <5>2 DEF IdleDesk
        <5> QED
          BY <1>3, <5>3
      <4>6. ~BatchDecline(a)
        BY <2>2 DEF BatchDecline, deskVars
      <4>7. ~BatchRead(a)
        BY <1>0, <1>3 DEF BatchRead, DeskType
      <4>8. ~BatchPush(a)
        BY <1>0, <1>3 DEF BatchPush, DeskType
      <4> QED
        BY <3>2, <3>3, <3>4, <4>1, <4>2, <4>3, <4>4, <4>5, <4>6, <4>7, <4>8
           DEF DeskStep, Decline, Reopen, TellByHand, Conflict, Undo, Retry, Delete,
               Cancel, BatchUndo, DeskLost
    <3>6. desk[a].row \in Requests /\ desk'[a].row = desk[a].row
      BY <1>0, <3>5 DEF MarkAvailable, Deciding, DeskType, TypeOK, DeskTypeOK
    <3>7. rows'[desk[a].row].status = "AVAILABLE"
      BY <1>0, <3>5, <3>6 DEF MarkAvailable, Cas, Arrived, Row
    <3> QED
      BY <1>2, <3>6, <3>7
  <2> QED
    BY <2>1, <2>2
<1> QED
  BY <1>2, <1>3 DEF ReachedSound

\* Every statement moves a row along an edge of the board, and claims only what is or
\* becomes available.
LEMMA RowMoveEdges ==
  ASSUME NEW row \in Row, NEW new, RowMove(row, new)
  PROVE  /\ new.status = row.status \/ <<row.status, new.status>> \in Board!Edges
         /\ \/ new.notified = row.notified
            \/ new.notified /\ new.status = "AVAILABLE"
<1> USE DEF Row
<1> USE DEF Board!Edges
<1>1. CASE Markable(row) /\ new = Marked(row)
  BY <1>1 DEF Markable, Marked
<1>2. CASE row.status = "AVAILABLE" /\ ~row.notified /\ new = Announced(row)
  BY <1>2 DEF Announced
<1>3. CASE Forward(row) /\ new = Arrived(row)
  BY <1>3 DEF Forward, Arrived
<1>4. CASE Demotable(row) /\ new = Demoted(row)
  BY <1>4 DEF Demotable, Demoted
<1>5. CASE new = Disarmed(row)
  BY <1>5 DEF Disarmed
<1>6. CASE RollbackAllowed(row) /\ new = RolledBack(row)
  BY <1>6 DEF RollbackAllowed, RolledBack
<1>7. CASE row.status \in {"PENDING", "DECLINED"} /\ new = Approved(row)
  BY <1>7 DEF Approved, Approvable
<1>8. CASE /\ row.status \in {"PENDING", "APPROVED"}
           /\ \E permanent \in BOOLEAN : new = Declined(row, permanent)
  BY <1>8 DEF Declined
<1>9. CASE /\ row.status = "DECLINED"
           /\ new = [row EXCEPT !.status = "PENDING", !.banned = FALSE]
  BY <1>9
<1>10. CASE row.status = "DECLINED" /\ ~row.banned /\ new = Deleted(row)
  BY <1>10 DEF Deleted
<1>11. CASE new = row
  BY <1>11
<1> QED
  BY <1>1, <1>2, <1>3, <1>4, <1>5, <1>6, <1>7, <1>8, <1>9, <1>10, <1>11 DEF RowMove

\* A step of the lifecycle moves and claims each row as the board allows.
LEMMA RowStepOnBoard ==
  ASSUME TypeOK, CreatesUnused, RowsSound, ReachedSound, [Next]_vars, NEW r \in Requests
  PROVE  /\ \/ rows'[r].status = rows[r].status
            \/ <<rows[r].status, rows'[r].status>> \in Board!Edges
         /\ \/ rows'[r].notified = rows[r].notified
            \/ rows'[r].notified /\ r \in reached'
<1>1. /\ rows[r] \in Row /\ RowSound(rows[r])
      /\ RowMove(rows[r], rows'[r]) \/ Born(r) \/ AtDesk(r) \/ Restamped(r)
  BY TableStep DEF TableMoves, RowsSound, TypeOK, StoreTypeOK
<1>2. /\ reached \subseteq reached'
      /\ rows'[r].status = "AVAILABLE" => r \in reached'
  BY ReachedStep DEF Next, vars, ReachedSound
<1>3. CASE RowMove(rows[r], rows'[r])
  BY <1>1, <1>2, <1>3, RowMoveEdges
<1>4. CASE Born(r)
  <2>1. /\ rows[r].status = "NONE" /\ rows[r].notified = FALSE
        /\ rows'[r].status \in {"PENDING", "APPROVED", "AVAILABLE"}
        /\ rows'[r].notified = FALSE
    BY <1>1, <1>4 DEF Born, NewRows, NewRow, RowSound, Row
  <2> QED
    BY <2>1 DEF Board!Edges
<1>5. CASE AtDesk(r)
  <2>1. CASE rows'[r] = Deleted(rows[r])
    <3>1. /\ rows[r].status \in {"PENDING", "APPROVED", "DECLINED", "AVAILABLE"}
          /\ rows'[r].status = "GONE" /\ rows'[r].notified = rows[r].notified
      BY <1>1, <1>5, <2>1 DEF AtDesk, Exists, Deleted, Row, Statuses
    <3> QED
      BY <3>1 DEF Board!Edges
  <2>2. CASE rows'[r] # Deleted(rows[r])
    <3>1. PICK a \in Desks : /\ desk[a].row = r /\ desk[a].pc = "claim"
                             /\ rows'[r] = Announced(rows[r])
      BY <1>5, <2>2 DEF AtDesk
    <3>2. r \in reached
      BY <3>1 DEF ReachedSound
    <3>3. rows'[r].status = rows[r].status /\ rows'[r].notified
      BY <1>1, <3>1 DEF Announced, Row
    <3> QED
      BY <1>2, <3>2, <3>3
  <2> QED
    BY <2>1, <2>2
<1>6. CASE Restamped(r)
  BY <1>1, <1>6 DEF Restamped, Row
<1> QED
  BY <1>1, <1>3, <1>4, <1>5, <1>6

\* A step announces a row only if it was claimed and nobody was told.
LEMMA TellOnBoard ==
  ASSUME TypeOK, TicketsSound, [Next]_vars, NEW r \in Requests
  PROVE  \/ sent'[r] = sent[r]
         \/ rows[r].notified /\ sent[r] = 0 /\ sent'[r] = 1
<1>1. PICK x \in Agents : TicketStep(x)
  BY SomebodysStep
<1> QED
  BY <1>1 DEF TicketStep, TicketsSound

\* The request lifecycle implements the board, whatever the number of requests, titles,
\* handlers and executions: its first table is a board, and every step of it, by
\* whichever of the seven writers, is a step of the board or leaves it alone.
THEOREM Refinement == Spec => RefinesBoard
<1>1. Init => Board!BoardInit
  <2> SUFFICES ASSUME Init PROVE Board!BoardInit
    OBVIOUS
  <2>1. \A r \in Requests : /\ rows[r].status \in Board!States \ {"DECLINED", "GONE"}
                            /\ rows[r].notified = FALSE
    <3> TAKE r \in Requests
    <3>1. PICK s \in Start : rows[r] \in {NewRow(s, b) : b \in BOOLEAN}
      <4>1. rows \in [Requests -> {NewRow(s, s = "APPROVED") : s \in Start}]
        BY DEF Init, StoreInit
      <4> QED
        BY <4>1, Zenon
    <3> QED
      BY <3>1, FulfilmentAssumption DEF NewRow, Board!States
  <2>2. /\ sent = [r \in Requests |-> 0]
        /\ reached = {r \in Requests : rows[r].status = "AVAILABLE"}
    BY DEF Init, StoreInit, WithStatus
  <2> QED
    BY <2>1, <2>2 DEF Board!BoardInit
<1>2. TypeOK /\ CreatesUnused /\ RowsSound /\ TicketsSound /\ ReachedSound /\ [Next]_vars
      => [Board!BoardNext]_(Board!boardVars)
  <2> SUFFICES ASSUME TypeOK, CreatesUnused, RowsSound, TicketsSound, ReachedSound,
                      [Next]_vars
               PROVE  [Board!BoardNext]_(Board!boardVars)
    OBVIOUS
  <2>1. CASE UNCHANGED vars
    BY <2>1 DEF vars, storeVars, Board!boardVars
  <2>2. CASE Next
    <3>1. \A r \in Requests : Board!Move(r) /\ Board!Claim(r)
      BY RowStepOnBoard DEF Board!Move, Board!Claim
    <3>2. \A r \in Requests : Board!Tell(r)
      BY TellOnBoard DEF Board!Tell
    <3>3. reached' = reached \cup {r \in Requests : rows'[r].status = "AVAILABLE"}
      BY <2>2 DEF Next
    <3> QED
      BY <3>1, <3>2, <3>3 DEF Board!BoardNext
  <2> QED
    BY <2>1, <2>2
<1>3. Spec => []TicketsSound
  BY TicketsAlwaysSound, PTL
<1>4. Spec => []ReachedSound
  <2>1. Init => ReachedSound
    BY ReachedInitially
  <2>2. TypeOK /\ CreatesUnused /\ ReachedSound /\ [Next]_vars => ReachedSound'
    BY ReachedStep
  <2> QED
    BY <2>1, <2>2, TypeCorrect, PTL DEF Spec
<1> QED
  BY <1>1, <1>2, <1>3, <1>4, RowsAlwaysSound, PTL DEF Spec, RefinesBoard, Board!BoardSpec
=============================================================================
