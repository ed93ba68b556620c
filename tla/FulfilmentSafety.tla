-------------------------- MODULE FulfilmentSafety --------------------------
(***************************************************************************)
(* The safety of RequestFulfilment, proved for every value of the          *)
(* constants.                                                              *)
(*                                                                         *)
(* What a row promises by itself (RowSound) follows from TableStep: no     *)
(* statement of RowMove breaks it.  That a requester is told at most once  *)
(* relates the table to what every handler in flight remembers: the rows   *)
(* it has claimed and not announced yet are its tickets, and TicketsSound  *)
(* is the inductive invariant about them.                                  *)
(***************************************************************************)
EXTENDS FulfilmentTypes

\* What each row promises.
RowSound(row) ==
    /\ row.armed => \/ row.status = "APPROVED"
                    \/ row.status = "AVAILABLE" /\ row.notified
    /\ row.banned => row.status = "DECLINED"
    /\ row.status = "NONE" => ~row.notified

RowsSound == \A r \in Requests : RowSound(rows[r])

\* No statement breaks what a row promises, and none takes a claim back.
LEMMA RowMoveSound ==
  ASSUME NEW row \in Row, NEW new, RowMove(row, new), RowSound(row)
  PROVE  RowSound(new) /\ (row.notified => new.notified)
<1> USE DEF RowSound, Row
<1>1. CASE Markable(row) /\ new = Marked(row)
  BY <1>1 DEF Markable, Marked
<1>2. CASE row.status = "AVAILABLE" /\ ~row.notified /\ new = Announced(row)
  BY <1>2 DEF Announced
<1>3. CASE Forward(row) /\ new = Arrived(row)
  BY <1>3 DEF Forward, Arrived
<1>4. CASE Demotable(row) /\ new = Demoted(row)
  BY <1>4 DEF Demotable, Demoted
<1>5. CASE new = Disarmed(row)
  BY <1>5 DEF Disarmed
<1>6. CASE RollbackAllowed(row) /\ new = RolledBack(row)
  BY <1>6 DEF RollbackAllowed, RolledBack
<1>7. CASE row.status \in {"PENDING", "DECLINED"} /\ new = Approved(row)
  BY <1>7 DEF Approved, Approvable
<1>8. CASE \E permanent \in BOOLEAN : new = Declined(row, permanent)
  BY <1>8 DEF Declined
<1>9. CASE /\ row.status = "DECLINED"
           /\ new = [row EXCEPT !.status = "PENDING", !.banned = FALSE]
  BY <1>9
<1>10. CASE row.status = "DECLINED" /\ ~row.banned /\ new = Deleted(row)
  BY <1>10 DEF Deleted
<1>11. CASE new = row
  BY <1>11
<1> QED
  BY <1>1, <1>2, <1>3, <1>4, <1>5, <1>6, <1>7, <1>8, <1>9, <1>10, <1>11
     DEF RowMove

\* A claim (notifiedAvailable) once made is never taken back.
FlagsKept == \A r \in Requests : rows[r].notified => rows'[r].notified

\* Every step keeps what the rows promise, and the claims.
LEMMA RowsStep ==
  ASSUME TypeOK, CreatesUnused, RowsSound, [Next]_vars
  PROVE  RowsSound' /\ FlagsKept
<1> SUFFICES ASSUME NEW r \in Requests
             PROVE  RowSound(rows'[r]) /\ (rows[r].notified => rows'[r].notified)
  BY DEF RowsSound, FlagsKept
<1>1. /\ rows[r] \in Row /\ RowSound(rows[r])
      /\ RowMove(rows[r], rows'[r]) \/ Born(r) \/ AtDesk(r) \/ Restamped(r)
  BY TableStep DEF TableMoves, RowsSound, TypeOK, StoreTypeOK
<1>2. CASE RowMove(rows[r], rows'[r])
  BY <1>1, <1>2, RowMoveSound
<1>3. CASE Born(r)
  BY <1>1, <1>3 DEF Born, NewRows, NewRow, RowSound
<1>4. CASE AtDesk(r)
  <2>1. CASE rows'[r] = Announced(rows[r])
    BY <1>1, <1>4, <2>1 DEF AtDesk, Exists, Announced, RowSound, Row
  <2>2. CASE rows'[r] = Deleted(rows[r])
    BY <1>1, <1>4, <2>2 DEF AtDesk, Exists, Deleted, RowSound, Row
  <2> QED
    BY <1>4, <2>1, <2>2 DEF AtDesk
<1>5. CASE Restamped(r)
  BY <1>1, <1>5 DEF Restamped, RowSound, Row
<1> QED
  BY <1>1, <1>2, <1>3, <1>4, <1>5

\* The first rows keep it.
LEMMA RowsInitially == Init => RowsSound
<1> SUFFICES ASSUME Init, NEW r \in Requests PROVE RowSound(rows[r])
  BY DEF RowsSound
<1>1. PICK s \in Start : rows[r] = NewRow(s, s = "APPROVED")
  <2> DEFINE New == {NewRow(s, s = "APPROVED") : s \in Start}
  <2>1. rows \in [Requests -> New]
    BY DEF Init, StoreInit
  <2>2. rows[r] \in New
    BY <2>1
  <2> QED
    BY <2>2
<1>2. PICK b \in BOOLEAN : rows[r] = NewRow(s, b) /\ (b <=> s = "APPROVED")
  BY <1>1, Zenon
<1>3. /\ rows[r].status = s /\ rows[r].notified = FALSE /\ rows[r].banned = FALSE
      /\ rows[r].armed = b
  BY <1>2 DEF NewRow
<1> QED
  BY <1>2, <1>3 DEF RowSound

\* Together with the types it is an invariant.
LEMMA RowsAlwaysSound == Spec => [](TypeOK /\ CreatesUnused /\ RowsSound)
<1>1. Init => RowsSound
  BY RowsInitially
<1>2. TypeOK /\ CreatesUnused /\ RowsSound /\ [Next]_vars => RowsSound'
  BY RowsStep
<1> QED
  BY <1>1, <1>2, TypeCorrect, PTL DEF Spec

\* The backstop lives no longer than the approval that armed it.
THEOREM BackstopSafe == Spec => []BackstopOnlyOnLiveApproval
<1>1. RowsSound => BackstopOnlyOnLiveApproval
  BY DEF RowsSound, RowSound, BackstopOnlyOnLiveApproval
<1> QED
  BY <1>1, RowsAlwaysSound, PTL

\* A permanent decline marks only declined requests.
THEOREM BanSafe == Spec => []BanOnlyOnDeclined
<1>1. RowsSound => BanOnlyOnDeclined
  BY DEF RowsSound, RowSound, BanOnlyOnDeclined
<1> QED
  BY <1>1, RowsAlwaysSound, PTL

-----------------------------------------------------------------------------
(* Tickets: what has been claimed and not announced yet *)

RunAgent  == <<"run", None>>
Agents    == {RunAgent} \cup ({"hook"} \X Hooks) \cup ({"resync"} \X Resyncs)
                        \cup ({"desk"} \X Desks)

RunTickets ==
    IF run.pc \in {"firstDone", "secondDone", "libDone", "fallbackDone"}
    THEN run.won ELSE {}
HookTickets(h)   == IF hook[h].pc = "deliver" THEN hook[h].pending ELSE {}
ResyncTickets(s) == IF resync[s].pc = "finish" THEN resync[s].won ELSE {}
DeskTickets(a)   == IF desk[a].pc = "tell" THEN {desk[a].row} ELSE {}

Tickets(x) ==
    {r \in Requests :
       \/ x[1] = "run"    /\ r \in RunTickets
       \/ x[1] = "hook"   /\ r \in HookTickets(x[2])
       \/ x[1] = "resync" /\ r \in ResyncTickets(x[2])
       \/ x[1] = "desk"   /\ r \in DeskTickets(x[2])}

\* A row that somebody holds a ticket for is claimed and was never announced; no two
\* agents hold one for the same row; a row that was announced is claimed.
TicketsSound ==
    /\ \A x \in Agents : \A r \in Tickets(x) : rows[r].notified /\ sent[r] = 0
    /\ \A x, y \in Agents : x # y => Tickets(x) \cap Tickets(y) = {}
    /\ \A r \in Requests : sent[r] <= 1 /\ (sent[r] = 1 => rows[r].notified)

\* What a step of agent x may do: take tickets for the rows it claims, or turn tickets
\* it gives up into announcements.
TicketStep(x) ==
    /\ \A y \in Agents : y # x => Tickets(y)' \subseteq Tickets(y)
    /\ \A r \in Tickets(x)' : r \in Tickets(x) \/ (~rows[r].notified /\ rows'[r].notified)
    /\ \A r \in Requests : \/ sent'[r] = sent[r]
                           \/ /\ r \in Tickets(x) /\ r \notin Tickets(x)'
                              /\ sent'[r] = sent[r] + 1

\* Such a step keeps the tickets sound.
LEMMA TicketStepSound ==
  ASSUME TypeOK, FlagsKept, TicketsSound, NEW x \in Agents, TicketStep(x)
  PROVE  TicketsSound'
<1>0. /\ sent \in [Requests -> 0..2]
      /\ \A y : Tickets(y) \subseteq Requests /\ Tickets(y)' \subseteq Requests
  BY DEF TypeOK, StoreTypeOK, Tickets
<1>1. \A y \in Agents : \A r \in Tickets(y)' : rows'[r].notified /\ sent'[r] = 0
  <2> SUFFICES ASSUME NEW y \in Agents, NEW r \in Tickets(y)'
               PROVE  rows'[r].notified /\ sent'[r] = 0
    OBVIOUS
  <2>1. r \in Requests
    BY <1>0
  <2>2. CASE y # x
    BY <1>0, <2>1, <2>2 DEF TicketStep, TicketsSound, FlagsKept
  <2>3. CASE y = x
    BY <1>0, <2>1, <2>3 DEF TicketStep, TicketsSound, FlagsKept
  <2> QED
    BY <2>2, <2>3
<1>2. \A y, z \in Agents : y # z => Tickets(y)' \cap Tickets(z)' = {}
  <2>1. ASSUME NEW z \in Agents, z # x, NEW r \in Tickets(x)' \cap Tickets(z)' PROVE FALSE
    BY <1>0, <2>1 DEF TicketStep, TicketsSound
  <2>2. ASSUME NEW y \in Agents, NEW z \in Agents, y # x, z # x, y # z
        PROVE  Tickets(y)' \cap Tickets(z)' = {}
    BY <2>2 DEF TicketStep, TicketsSound
  <2> QED
    BY <2>1, <2>2
<1>3. \A r \in Requests : sent'[r] <= 1 /\ (sent'[r] = 1 => rows'[r].notified)
  BY <1>0 DEF TicketStep, TicketsSound, FlagsKept
<1> QED
  BY <1>1, <1>2, <1>3 DEF TicketsSound

\* An announcement goes to rows it is for, once.
LEMMA DeliverAnnounces ==
  ASSUME NEW S, Deliver(S), NEW r \in Requests
  PROVE  sent'[r] = sent[r] \/ (r \in S /\ sent'[r] = sent[r] + 1)
<1>1. sent'[r] = IF r \in S \ Disabled /\ sent[r] < 2 THEN sent[r] + 1 ELSE sent[r]
  BY DEF Deliver
<1> QED
  BY <1>1

\* A step of the hourly run is a step of its own tickets: each claim takes some, each
\* finishing statement announces them.
LEMMA SyncTickets == ASSUME TypeOK, Sync PROVE TicketStep(RunAgent)
<1> DEFINE Done == {"firstDone", "secondDone", "libDone", "fallbackDone"}
<1>0. /\ run \in RunType /\ rows \in [Requests -> Row] /\ sent \in [Requests -> 0..2]
      /\ RunAgent \in Agents
  BY DEF TypeOK, StoreTypeOK, SyncTypeOK, Agents
<1>i. IdleRun \in RunType /\ IdleRun.pc = "idle"
  BY DEF IdleRun, RunType, Stages, ArrStates
<1>1. \A y \in Agents : y # RunAgent => Tickets(y)' \subseteq Tickets(y)
  BY DEF Sync, Agents, RunAgent, Tickets, HookTickets, ResyncTickets, DeskTickets, deskVars
<1>2. /\ Tickets(RunAgent) = Requests \cap RunTickets
      /\ Tickets(RunAgent)' = Requests \cap RunTickets'
  BY DEF RunAgent, Tickets
<1>3. CASE sent' = sent /\ run'.pc \notin Done
  BY <1>1, <1>2, <1>3 DEF TicketStep, RunTickets
<1>4. CASE ClaimFirst \/ ClaimSecond \/ ClaimLibrary
  <2>1. /\ run'.won = {r \in run.cand : Markable(rows[r])} /\ sent' = sent
        /\ \A r \in Requests : r \in run.cand /\ Markable(rows[r])
                             => rows'[r] = Marked(rows[r])
    BY <1>0, <1>4 DEF ClaimFirst, ClaimSecond, ClaimLibrary, ClaimFor, ClaimMarking, RunType
  <2>2. \A r \in Requests : Markable(rows[r])
          => ~rows[r].notified /\ Marked(rows[r]).notified
    BY <1>0 DEF Markable, Marked, Row
  <2>3. RunTickets' \subseteq run'.won
    BY DEF RunTickets
  <2> QED
    BY <1>1, <1>2, <2>1, <2>2, <2>3 DEF TicketStep
<1>5. CASE ClaimFallback
  <2>1. /\ run'.won = {r \in run.cand : Announceable(rows[r])} /\ sent' = sent
        /\ \A r \in Requests : r \in run.cand /\ Announceable(rows[r])
                             => rows'[r] = Announced(rows[r])
    BY <1>5 DEF ClaimFallback, ClaimAnnouncing, IdleRun
  <2>2. \A r \in Requests : Announceable(rows[r])
          => ~rows[r].notified /\ Announced(rows[r]).notified
    BY <1>0 DEF Announceable, Announced, Row
  <2>3. RunTickets' \subseteq run'.won
    BY DEF RunTickets
  <2> QED
    BY <1>1, <1>2, <2>1, <2>2, <2>3 DEF TicketStep
<1>6. CASE FinishFirst \/ FinishSecond \/ FinishLibrary \/ SyncEnd
  <2>1. /\ run.pc \in Done /\ run'.pc \notin Done /\ Deliver(run.won)
    <3>1. CASE FinishFirst
      BY <1>0, <3>1 DEF FinishFirst, RunType
    <3>2. CASE FinishSecond
      BY <1>0, <3>2 DEF FinishSecond, RunType
    <3>3. CASE FinishLibrary
      BY <1>0, <3>3 DEF FinishLibrary, RunType
    <3>4. CASE SyncEnd
      BY <1>i, <3>4 DEF SyncEnd
    <3> QED
      BY <1>6, <3>1, <3>2, <3>3, <3>4
  <2>2. RunTickets = run.won /\ RunTickets' = {}
    BY <2>1 DEF RunTickets
  <2>3. \A r \in Requests :
          \/ sent'[r] = sent[r]
          \/ r \in run.won /\ sent'[r] = sent[r] + 1
    BY <2>1, DeliverAnnounces
  <2> QED
    BY <1>1, <1>2, <2>2, <2>3 DEF TicketStep
<1>7. ASSUME ~(ClaimFirst \/ ClaimSecond \/ ClaimLibrary), ~ClaimFallback,
             ~(FinishFirst \/ FinishSecond \/ FinishLibrary \/ SyncEnd)
      PROVE  sent' = sent /\ run'.pc \notin Done
  <2>1. CASE SyncBegin \/ SyncAbort
    <3>1. CASE SyncBegin
      BY <1>i, <3>1 DEF SyncBegin, RunType, storeVars
    <3>2. CASE SyncAbort
      BY <1>i, <3>2 DEF SyncAbort, storeVars
    <3> QED
      BY <2>1, <3>1, <3>2
  <2>2. CASE SnapAvailable \/ ReadFirst \/ FetchArr \/ WriteArr \/ ReadSecond
    BY <1>0, <2>2 DEF SnapAvailable, ReadFirst, FetchArr, WriteArr, ReadSecond, RunType,
                      storeVars
  <2>3. CASE SweepOverdue \/ ReadRepush \/ PushAgain \/ ReadInArr \/ LibrariesDone
    BY <1>0, <2>3 DEF SweepOverdue, ReadRepush, PushAgain, ReadInArr, LibrariesDone,
                      RunType, storeVars, tables
  <2>4. CASE FetchLibrary
    BY <1>0, <2>4 DEF FetchLibrary, RunType, storeVars
  <2>5. CASE Demote \/ SkipDemote \/ ReadStill \/ ReadHeld
    BY <1>0, <2>5 DEF Demote, SkipDemote, ReadStill, ReadHeld, RunType, storeVars
  <2>6. CASE ReadLibrary \/ LibraryPassesDone \/ ReadUnannounced
    BY <1>0, <2>6 DEF ReadLibrary, LibraryPassesDone, ReadUnannounced, RunType, storeVars
  <2> QED
    BY <1>7, <2>1, <2>2, <2>3, <2>4, <2>5, <2>6 DEF Sync, SyncStep, SyncProgress
<1> QED
  BY <1>3, <1>4, <1>5, <1>6, <1>7

\* Whoever sends nothing and takes no ticket makes a step of anybody's tickets.
LEMMA QuietStep ==
  ASSUME TypeOK, sent' = sent, \A x \in Agents : Tickets(x)' \subseteq Tickets(x)
  PROVE  RunAgent \in Agents /\ TicketStep(RunAgent)
<1>1. RunAgent \in Agents
  BY DEF Agents
<1> QED
  BY <1>1 DEF TicketStep

\* So do Radarr, Sonarr and the media servers, a creation and a removal.
LEMMA QuietTickets ==
  ASSUME TypeOK, Churn \/ Create \/ Removal \/ UNCHANGED vars
  PROVE  TicketStep(RunAgent)
<1>1. UNCHANGED <<sent, run, hook, resync, desk>>
  <2>1. CASE Churn
    BY <2>1 DEF Churn, Outside, ArrImport, ArrEpisode, ArrFileGone, ArrRemove,
                LibraryScans, LibraryDrops, LoseDelivery, tables, syncVars, deskVars
  <2>2. CASE Create
    BY <2>2 DEF Create, CreateStep, ReadForCreate, CreateRow, CreateRefused,
                CreatePush, CreateUndo, CreateLost, tables, storeVars, syncVars, deskVars
  <2>3. CASE Removal
    BY <2>3 DEF Removal, RemovalStep, ExecStep, Plan, ReadStampable, Stamp,
                DeleteAccepted, DeleteRefused, DeleteUnknown, Unstamp, ReadOwn,
                ReassertStamps, AddBack, ClearStamps, ExecLost, tables, storeVars,
                syncVars, deskVars
  <2>4. CASE UNCHANGED vars
    BY <2>4 DEF vars, storeVars, syncVars, deskVars
  <2> QED
    BY <2>1, <2>2, <2>3, <2>4
<1>2. \A x \in Agents : Tickets(x)' = Tickets(x)
  BY <1>1 DEF Tickets, RunTickets, HookTickets, ResyncTickets, DeskTickets
<1> QED
  BY <1>1, <1>2, QuietStep

\* A webhook handler's step is a step of its own tickets; an eviction is nobody's.
LEMMA HookStepTickets ==
  ASSUME TypeOK, Webhook
  PROVE  \E x \in Agents : TicketStep(x)
<1>0. /\ hook \in [Hooks -> HookType] /\ rows \in [Requests -> Row]
      /\ UNCHANGED <<run, resync, desk>>
  BY DEF TypeOK, StoreTypeOK, HookTypeOK, Webhook, syncVars, deskVars
<1>1. CASE EvictTitle
  <2>1. UNCHANGED <<sent, hook>>
    BY <1>1 DEF EvictTitle
  <2>2. \A x \in Agents : Tickets(x)' = Tickets(x)
    BY <1>0, <2>1 DEF Tickets, RunTickets, HookTickets, ResyncTickets, DeskTickets
  <2> QED
    BY <2>1, <2>2, QuietStep
<1>2. ASSUME NEW h \in Hooks, HookStep(h)
      PROVE  \E x \in Agents : TicketStep(x)
  <2> DEFINE me == <<"hook", h>>
  <2>0. me \in Agents
    BY DEF Agents
  <2>1. \A k \in Hooks : k # h => hook'[k] = hook[k]
    BY <1>0, <1>2 DEF HookStep, DownloadReceived, VerifyRefused, Verify, Flip, AfterScan,
         FlipLate, ReadPending, Poll, PollEnds, Notify, HookEnd, HookLost
  <2>2. \A y \in Agents : y # me => Tickets(y)' \subseteq Tickets(y)
    BY <1>0, <2>1 DEF Agents, RunAgent, Tickets, RunTickets, HookTickets, ResyncTickets,
         DeskTickets
  <2>3. /\ Tickets(me) = Requests \cap HookTickets(h)
        /\ Tickets(me)' = Requests \cap HookTickets(h)'
    BY DEF Tickets
  <2>4. CASE Notify(h)
    <3>1. /\ hook'[h].pending = {r \in hook[h].pending : Announceable(rows[r])}
          /\ sent' = sent
          /\ \A r \in Requests : r \in hook[h].pending /\ Announceable(rows[r])
                               => rows'[r] = Announced(rows[r])
      BY <1>0, <2>4 DEF Notify, ClaimAnnouncing, HookType
    <3>2. \A r \in Requests : Announceable(rows[r])
            => ~rows[r].notified /\ Announced(rows[r]).notified
      BY <1>0 DEF Announceable, Announced, Row
    <3>3. HookTickets(h)' \subseteq hook'[h].pending
      BY DEF HookTickets
    <3> QED
      BY <2>0, <2>2, <2>3, <3>1, <3>2, <3>3 DEF TicketStep
  <2>5. CASE HookEnd(h)
    <3>1. /\ hook[h].pc = "deliver" /\ hook'[h].pc = "idle" /\ Deliver(hook[h].pending)
      BY <1>0, <2>5 DEF HookEnd, IdleHook
    <3>2. HookTickets(h) = hook[h].pending /\ HookTickets(h)' = {}
      BY <3>1 DEF HookTickets
    <3>3. \A r \in Requests :
            \/ sent'[r] = sent[r]
            \/ r \in hook[h].pending /\ sent'[r] = sent[r] + 1
      BY <3>1, DeliverAnnounces
    <3> QED
      BY <2>0, <2>2, <2>3, <3>2, <3>3 DEF TicketStep
  <2>6. CASE ~Notify(h) /\ ~HookEnd(h)
    <3>1. sent' = sent
      BY <1>2, <2>6 DEF HookStep, DownloadReceived, VerifyRefused, Verify, Flip, AfterScan,
           FlipLate, FlipApproved, ReadPending, Poll, PollEnds, HookLost, tables, storeVars
    <3>2. hook'[h].pc # "deliver"
      <4>i. IdleHook \in HookType /\ IdleHook.pc = "idle"
        BY DEF IdleHook, HookType
      <4>1. CASE DownloadReceived(h)
        BY <1>0, <4>i, <4>1 DEF DownloadReceived, HookType
      <4>2. CASE VerifyRefused(h)
        BY <1>0, <4>i, <4>2 DEF VerifyRefused
      <4>3. CASE HookLost(h)
        BY <1>0, <4>i, <4>3 DEF HookLost
      <4>4. CASE Verify(h)
        BY <1>0, <4>4 DEF Verify, HookType
      <4>5. CASE Flip(h)
        BY <1>0, <4>5 DEF Flip, HookType
      <4>6. CASE FlipLate(h)
        BY <1>0, <4>6 DEF FlipLate, HookType
      <4>7. CASE AfterScan(h)
        BY <1>0, <4>i, <4>7 DEF AfterScan, HookType
      <4>8. CASE ReadPending(h)
        BY <1>0, <4>i, <4>8 DEF ReadPending, HookType
      <4>9. CASE Poll(h)
        BY <1>0, <4>9 DEF Poll, HookType
      <4>10. CASE PollEnds(h)
        BY <1>0, <4>10 DEF PollEnds, HookType
      <4> QED
        BY <1>2, <2>6, <4>1, <4>2, <4>3, <4>4, <4>5, <4>6, <4>7, <4>8, <4>9, <4>10 DEF HookStep
    <3> QED
      BY <2>0, <2>2, <2>3, <3>1, <3>2 DEF TicketStep, HookTickets
  <2> QED
    BY <2>4, <2>5, <2>6
<1> QED
  BY <1>1, <1>2 DEF Webhook, WebhookStep

\* A resync's step is a step of its own tickets.
LEMMA ResyncStepTickets ==
  ASSUME TypeOK, Resync
  PROVE  \E x \in Agents : TicketStep(x)
<1>0. /\ resync \in [Resyncs -> ResyncType] /\ rows \in [Requests -> Row]
      /\ UNCHANGED <<run, hook, desk>>
  BY DEF TypeOK, StoreTypeOK, ResyncTypeOK, Resync, syncVars, deskVars
<1>1. PICK s \in Resyncs : \/ ResyncFetch(s) \/ ResyncSnap(s) \/ ResyncHeld(s)
                           \/ ResyncClaim(s) \/ ResyncFinish(s) \/ ResyncLost(s)
  BY DEF Resync, ResyncStep
<1> DEFINE me == <<"resync", s>>
<1>2. me \in Agents
  BY DEF Agents
<1>3. \A k \in Resyncs : k # s => resync'[k] = resync[k]
  BY <1>0, <1>1 DEF ResyncFetch, ResyncSnap, ResyncHeld, ResyncClaim, ResyncFinish,
       ResyncLost
<1>4. \A y \in Agents : y # me => Tickets(y)' \subseteq Tickets(y)
  BY <1>0, <1>3 DEF Agents, RunAgent, Tickets, RunTickets, HookTickets, ResyncTickets,
       DeskTickets
<1>5. /\ Tickets(me) = Requests \cap ResyncTickets(s)
      /\ Tickets(me)' = Requests \cap ResyncTickets(s)'
  BY DEF Tickets
<1>6. CASE ResyncClaim(s)
  <2>1. /\ resync'[s].won = {r \in resync[s].cand : Markable(rows[r])} /\ sent' = sent
        /\ \A r \in Requests : r \in resync[s].cand /\ Markable(rows[r])
                             => rows'[r] = Marked(rows[r])
    BY <1>0, <1>6 DEF ResyncClaim, ClaimMarking, ResyncType
  <2>2. \A r \in Requests : Markable(rows[r])
          => ~rows[r].notified /\ Marked(rows[r]).notified
    BY <1>0 DEF Markable, Marked, Row
  <2>3. ResyncTickets(s)' \subseteq resync'[s].won
    BY DEF ResyncTickets
  <2> QED
    BY <1>2, <1>4, <1>5, <2>1, <2>2, <2>3 DEF TicketStep
<1>7. CASE ResyncFinish(s)
  <2>1. /\ resync[s].pc = "finish" /\ resync'[s].pc = "idle" /\ Deliver(resync[s].won)
    BY <1>0, <1>7 DEF ResyncFinish, IdleResync
  <2>2. ResyncTickets(s) = resync[s].won /\ ResyncTickets(s)' = {}
    BY <2>1 DEF ResyncTickets
  <2>3. \A r \in Requests :
          \/ sent'[r] = sent[r]
          \/ r \in resync[s].won /\ sent'[r] = sent[r] + 1
    BY <2>1, DeliverAnnounces
  <2> QED
    BY <1>2, <1>4, <1>5, <2>2, <2>3 DEF TicketStep
<1>8. CASE ResyncFetch(s) \/ ResyncSnap(s) \/ ResyncHeld(s) \/ ResyncLost(s)
  <2>1. sent' = sent
    BY <1>8 DEF ResyncFetch, ResyncSnap, ResyncHeld, ResyncLost, storeVars
  <2>2. resync'[s].pc # "finish"
    <3>i. IdleResync \in ResyncType /\ IdleResync.pc = "idle"
      BY DEF IdleResync, ResyncType
    <3>1. CASE ResyncFetch(s)
      BY <1>0, <3>i, <3>1 DEF ResyncFetch, ResyncType
    <3>2. CASE ResyncSnap(s)
      BY <1>0, <3>2 DEF ResyncSnap, ResyncType
    <3>3. CASE ResyncHeld(s)
      BY <1>0, <3>3 DEF ResyncHeld, ResyncType
    <3>4. CASE ResyncLost(s)
      BY <1>0, <3>i, <3>4 DEF ResyncLost
    <3> QED
      BY <1>8, <3>1, <3>2, <3>3, <3>4
  <2> QED
    BY <1>2, <1>4, <1>5, <2>1, <2>2 DEF TicketStep, ResyncTickets
<1> QED
  BY <1>1, <1>6, <1>7, <1>8

\* A desk's step is a step of its own tickets: an admin who makes a row available by
\* hand claims it, and then tells its requester.
LEMMA DeskStepTickets ==
  ASSUME TypeOK, Decide
  PROVE  \E x \in Agents : TicketStep(x)
<1>0. /\ desk \in [Desks -> DeskType] /\ rows \in [Requests -> Row]
      /\ UNCHANGED <<run, hook, resync>>
  BY DEF TypeOK, StoreTypeOK, DeskTypeOK, Decide, syncVars
<1>i. IdleDesk \in DeskType /\ IdleDesk.pc = "idle"
  BY DEF IdleDesk, DeskType, Statuses
<1>1. PICK a \in Desks : DeskStep(a)
  BY DEF Decide, DecisionStep
<1> DEFINE me == <<"desk", a>>
<1>2. me \in Agents
  BY DEF Agents
<1>3. \A k \in Desks : k # a => desk'[k] = desk[k]
  BY <1>0, <1>1 DEF DeskStep, Close, deskVars, Open, Approve, Decline, Reopen,
       MarkAvailable, ClaimByHand, TellByHand, Conflict, Push, Undo, Retry, Delete, Cancel,
       BatchApprove, BatchDecline, BatchRead, BatchPush, BatchUndo, DeskLost
<1>4. \A y \in Agents : y # me => Tickets(y)' \subseteq Tickets(y)
  BY <1>0, <1>3 DEF Agents, RunAgent, Tickets, RunTickets, HookTickets, ResyncTickets,
       DeskTickets
<1>5. /\ Tickets(me) = Requests \cap DeskTickets(a)
      /\ Tickets(me)' = Requests \cap DeskTickets(a)'
  BY DEF Tickets
<1>6. CASE ClaimByHand(a)
  <2>1. CASE Claimable(desk[a].row)
    <3>1. /\ desk[a].row \in Requests /\ ~rows[desk[a].row].notified /\ sent' = sent
          /\ rows' = [rows EXCEPT ![desk[a].row] = Announced(@)]
          /\ desk' = [desk EXCEPT ![a] = [@ EXCEPT !.pc = "tell"]]
      BY <1>6, <2>1 DEF ClaimByHand, Claimable, TypeOK, DeskTypeOK
    <3>2. DeskTickets(a)' = {desk[a].row}
      BY <1>0, <3>1 DEF DeskTickets, DeskType
    <3>3. rows'[desk[a].row].notified
      BY <1>0, <3>1 DEF Announced, Row
    <3> QED
      BY <1>2, <1>4, <1>5, <3>1, <3>2, <3>3 DEF TicketStep
  <2>2. CASE ~Claimable(desk[a].row)
    <3>1. desk'[a].pc = "idle" /\ sent' = sent
      BY <1>0, <1>i, <1>6, <2>2 DEF ClaimByHand, Close
    <3> QED
      BY <1>2, <1>4, <1>5, <3>1 DEF TicketStep, DeskTickets
  <2> QED
    BY <2>1, <2>2
<1>7. CASE TellByHand(a)
  <2>1. /\ desk[a].pc = "tell" /\ desk'[a].pc = "idle"
        /\ Deliver({desk[a].row}) \/ sent' = sent
    BY <1>0, <1>i, <1>7 DEF TellByHand, Close
  <2>2. DeskTickets(a) = {desk[a].row} /\ DeskTickets(a)' = {}
    BY <2>1 DEF DeskTickets
  <2>3. \A r \in Requests :
          \/ sent'[r] = sent[r]
          \/ r \in {desk[a].row} /\ sent'[r] = sent[r] + 1
    BY <2>1, DeliverAnnounces
  <2> QED
    BY <1>2, <1>4, <1>5, <2>2, <2>3 DEF TicketStep
<1>8. CASE ~ClaimByHand(a) /\ ~TellByHand(a)
  <2>1. sent' = sent
    BY <1>1, <1>8 DEF DeskStep, Open, Approve, Decline, Reopen, MarkAvailable, Conflict,
         Push, Undo, Retry, Delete, Cancel, BatchApprove, BatchDecline, BatchRead,
         BatchPush, BatchUndo, DeskLost, tables, storeVars
  <2>2. DeskTickets(a)' = {} \/ DeskTickets(a)' = DeskTickets(a)
    <3>1. CASE Open(a)
      BY <1>0, <1>i, <3>1 DEF Open, DeskType, DeskTickets
    <3>2. CASE Approve(a)
      BY <1>0, <3>2 DEF Approve, DeskType, DeskTickets
    <3>3. CASE Decline(a)
      BY <1>0, <1>i, <3>3 DEF Decline, Close, DeskTickets
    <3>4. CASE Reopen(a)
      BY <1>0, <1>i, <3>4 DEF Reopen, Close, DeskTickets
    <3>5. CASE MarkAvailable(a)
      BY <1>0, <3>5 DEF MarkAvailable, DeskType, DeskTickets
    <3>6. CASE Conflict(a)
      BY <1>0, <1>i, <3>6 DEF Conflict, Close, DeskTickets
    <3>7. CASE Push(a)
      BY <1>0, <1>i, <3>7 DEF Push, DeskType, Close, DeskTickets
    <3>8. CASE Undo(a)
      BY <1>0, <1>i, <3>8 DEF Undo, Close, DeskTickets
    <3>9. CASE Retry(a)
      BY <1>0, <1>i, <3>9 DEF Retry, Close, DeskTickets
    <3>10. CASE Delete(a)
      BY <1>0, <1>i, <3>10 DEF Delete, Close, DeskTickets
    <3>11. CASE Cancel(a)
      BY <1>0, <1>i, <3>11 DEF Cancel, Close, DeskTickets
    <3>12. CASE BatchApprove(a)
      BY <1>0, <1>i, <3>12 DEF BatchApprove, DeskType, DeskTickets
    <3>13. CASE BatchDecline(a)
      BY <1>0, <3>13 DEF BatchDecline, deskVars, DeskTickets
    <3>14. CASE BatchRead(a)
      BY <1>0, <3>14 DEF BatchRead, DeskType, DeskTickets
    <3>15. CASE BatchPush(a)
      BY <1>0, <3>15 DEF BatchPush, DeskType, DeskTickets
    <3>16. CASE BatchUndo(a)
      BY <1>0, <1>i, <3>16 DEF BatchUndo, Close, DeskTickets
    <3>17. CASE DeskLost(a)
      BY <1>0, <1>i, <3>17 DEF DeskLost, Close, DeskTickets
    <3> QED
      BY <1>1, <1>8, <3>1, <3>2, <3>3, <3>4, <3>5, <3>6, <3>7, <3>8, <3>9,
         <3>10, <3>11, <3>12, <3>13, <3>14, <3>15, <3>16, <3>17 DEF DeskStep
  <2> QED
    BY <1>2, <1>4, <1>5, <2>1, <2>2 DEF TicketStep
<1> QED
  BY <1>6, <1>7, <1>8

\* At first nothing is claimed and nobody has been told anything.
LEMMA TicketsInitially == Init => TicketsSound
<1> SUFFICES ASSUME Init PROVE TicketsSound
  OBVIOUS
<1>1. sent = [r \in Requests |-> 0]
  BY DEF Init, StoreInit
<1>2. \A x \in Agents : Tickets(x) = {}
  BY DEF Init, SyncInit, IdleRun, HookInit, IdleHook, ResyncInit, IdleResync, DeskInit,
         IdleDesk, Agents, RunAgent, Tickets, RunTickets, HookTickets, ResyncTickets,
         DeskTickets
<1> QED
  BY <1>1, <1>2 DEF TicketsSound

\* Every step is a step of somebody's tickets.
LEMMA SomebodysStep ==
  ASSUME TypeOK, [Next]_vars
  PROVE  \E x \in Agents : TicketStep(x)
<1>1. CASE Sync
  BY <1>1, SyncTickets DEF Agents
<1>2. CASE Churn \/ Create \/ Removal \/ UNCHANGED vars
  BY <1>2, QuietTickets DEF Agents
<1> QED
  BY <1>1, <1>2, HookStepTickets, ResyncStepTickets, DeskStepTickets DEF Next

\* No step breaks the tickets.
LEMMA TicketsStep ==
  ASSUME TypeOK, CreatesUnused, RowsSound, TicketsSound, [Next]_vars
  PROVE  TicketsSound'
BY RowsStep, SomebodysStep, TicketStepSound

\* The tickets are sound in every reachable state.
LEMMA TicketsAlwaysSound == Spec => []TicketsSound
<1>1. Init => TicketsSound
  BY TicketsInitially
<1>2. TypeOK /\ CreatesUnused /\ RowsSound /\ TicketsSound /\ [Next]_vars
      => TicketsSound'
  BY TicketsStep
<1> QED
  BY <1>1, <1>2, RowsAlwaysSound, PTL DEF Spec

\* Every requester is told at most once that a title has arrived, whatever the hourly
\* run, the webhooks, the resyncs and the admins do between each other's statements.
THEOREM NotifiedOnceSafe == Spec => []NotifiedAtMostOnce
<1>1. TicketsSound => NotifiedAtMostOnce
  BY DEF TicketsSound, NotifiedAtMostOnce
<1> QED
  BY <1>1, TicketsAlwaysSound, PTL
=============================================================================
