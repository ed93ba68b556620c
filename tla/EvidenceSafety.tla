--------------------------- MODULE EvidenceSafety ---------------------------
(***************************************************************************)
(* What the hourly run and the Resyncs remember between two statements is  *)
(* stale when it is used, and evidence all the same: what the observer of  *)
(* FulfilmentEvidence has seen since backs it.  Hence a demotion and a     *)
(* library mark are held to the evidence, proved for every value of the    *)
(* constants.                                                              *)
(***************************************************************************)
EXTENDS FulfilmentEvidence, FulfilmentTypes

-----------------------------------------------------------------------------
(* The invariant *)

BeforeLibraries == {"snap", "first", "firstClaim", "firstDone", "fetch", "write", "second",
                    "secondClaim", "secondDone", "sweep", "repush", "push", "inArr"}
AfterWrite == {"second", "secondClaim", "secondDone", "sweep", "repush", "push", "inArr"}
Reverting  == {"fetchLib", "demote"}
Marks      == {"libRead", "libClaim", "libDone"}

Lacked(s, t) == <<s, t>> \in lacking

\* The observer looks at every state of a run.
Watched == run.pc # "idle" => Lacking \subseteq lacking /\ Doubted \subseteq doubted

\* A media server counts as fetched after its whole library has been read.
FetchesSound ==
    /\ run.pc \in BeforeLibraries => run.sound = {}
    /\ run.pc = "fetchLib" => run.todo \cap run.sound = {}
    /\ run.pc \in Reverting =>
         \A s \in run.sound : \A t \in Titles \ run.seen[s] : Lacked(s, t)

\* A title of a refreshed instance is in hand, and goes on into the next thing the run
\* remembers; or it is doubted.
RefreshSound ==
    /\ run.pc = "write" => \A t \in run.fresh : run.fetched[t] = "complete" \/ t \in doubted
    /\ run.pc \in AfterWrite => run.fresh \subseteq avail \cup doubted
    /\ run.pc \in Reverting => run.fresh \subseteq run.inArr \cup doubted

\* Who is about to be marked was, when it was picked, not a series of the wanted table,
\* if the Sonarr arm had found the series' instance.
MarksSound ==
    /\ run.pc \in Marks => run.gated \ run.held \subseteq unlisted
    /\ run.pc \in {"libClaim", "libDone"} =>
         \A r \in run.cand \cup run.only : TitleOf[r] \notin run.held

ResyncSound(s) ==
    resync[s].pc \in {"claim", "finish"} =>
        \A r \in resync[s].cand \cup resync[s].only :
           TitleOf[r] \in Series => TitleOf[r] \in unlisted

EvidenceHeld ==
    /\ Watched /\ FetchesSound /\ RefreshSound /\ MarksSound
    /\ \A s \in Resyncs : ResyncSound(s)

-----------------------------------------------------------------------------
(* The observer *)

LEMMA Seen ==
  ASSUME Observe
  PROVE  /\ Watched'
         /\ run.pc # "idle" /\ run'.pc # "idle" => lacking \subseteq lacking' /\ doubted \subseteq doubted'
         /\ PassInFlight' => /\ unlisted \subseteq unlisted' /\ Titles \ wanted \subseteq unlisted'
BY DEF Observe, Watched

\* What the observer has seen in a run stays seen while it lasts.
LEMMA StillLacked ==
  ASSUME Observe, run.pc # "idle", run'.pc # "idle", NEW s, NEW t, Lacked(s, t)
  PROVE  Lacked(s, t)'
BY Seen DEF Lacked

LEMMA LibraryLacks ==
  ASSUME NEW s \in Sources, NEW t \in Titles, t \notin library[s], UNCHANGED library,
         Observe, run'.pc # "idle"
  PROVE  Lacked(s, t)'
<1>1. <<s, t>> \in Lacking'
  BY DEF Lacking
<1> QED
  BY <1>1, Seen DEF Watched, Lacked

-----------------------------------------------------------------------------
(* Who else moves *)

\* A title leaves the available table by the run's own write, or by the webhook of a
\* deletion, which was in the mail until then.
LEMMA EvictionDoubted ==
  ASSUME TypeOK, Webhook
  PROVE  avail \subseteq avail' \cup Doubted
<1>1. CASE EvictTitle
  <2>1. PICK e \in mail : e.type \in {"FileDelete", "Delete"} /\ avail' = avail \ {e.title}
    BY <1>1 DEF EvictTitle
  <2>2. e.title \in Titles /\ e.type # "Download"
    BY <2>1 DEF TypeOK, StoreTypeOK, Events
  <2>3. e.title \in Doubted
    BY <2>2 DEF Doubted
  <2> QED
    BY <2>1, <2>3
<1>2. ASSUME NEW h \in Hooks, HookStep(h)  PROVE avail \subseteq avail'
  <2>1. ASSUME NEW t, NEW confirmed, FlipApproved(t, confirmed)  PROVE avail \subseteq avail'
    BY <2>1 DEF FlipApproved
  <2>2. CASE Flip(h) \/ FlipLate(h)
    BY <2>1, <2>2 DEF Flip, FlipLate, storeVars
  <2>3. CASE ~(Flip(h) \/ FlipLate(h))
    <3>1. DownloadReceived(h) => avail' = avail
      BY DEF DownloadReceived, tables
    <3>2. VerifyRefused(h) \/ Verify(h) \/ HookLost(h) => avail' = avail
      BY Zenon DEF VerifyRefused, Verify, HookLost, storeVars
    <3>3. AfterScan(h) \/ ReadPending(h) => avail' = avail
      BY Zenon DEF AfterScan, ReadPending, storeVars
    <3>4. Poll(h) \/ PollEnds(h) => avail' = avail
      BY Zenon DEF Poll, PollEnds, storeVars
    <3>5. Notify(h) \/ HookEnd(h) => avail' = avail
      BY Zenon DEF Notify, HookEnd
    <3> QED
      BY <1>2, <2>3, <3>1, <3>2, <3>3, <3>4, <3>5 DEF HookStep
  <2> QED
    BY <2>2, <2>3
<1> QED
  BY <1>1, <1>2 DEF Webhook, WebhookStep

LEMMA OthersKeepAvail ==
  ASSUME Churn \/ Resync \/ Create \/ Decide \/ Removal
  PROVE  avail' = avail
<1>1. CASE Churn
  BY <1>1 DEF Churn, Outside, ArrImport, ArrEpisode, ArrFileGone, ArrRemove, LibraryScans,
              LibraryDrops, LoseDelivery, tables
<1>2. ASSUME NEW s \in Resyncs,
             \/ ResyncFetch(s) \/ ResyncSnap(s) \/ ResyncHeld(s)
             \/ ResyncClaim(s) \/ ResyncFinish(s) \/ ResyncLost(s)
      PROVE  avail' = avail
  BY <1>2, Zenon DEF ResyncFetch, ResyncSnap, ResyncHeld, ResyncClaim, ResyncFinish,
                     ResyncLost, storeVars
<1>3. ASSUME NEW r \in Requests,
             \/ ReadForCreate(r) \/ CreateRow(r) \/ CreateRefused(r)
             \/ CreatePush(r) \/ CreateUndo(r) \/ CreateLost(r)
      PROVE  avail' = avail
  BY <1>3 DEF ReadForCreate, CreateRow, CreateRefused, CreatePush, CreateUndo, CreateLost,
              storeVars, tables
<1>4. ASSUME NEW a \in Desks, DeskStep(a)  PROVE avail' = avail
  <2>1. Open(a) \/ Approve(a) \/ Decline(a) \/ Reopen(a) => avail' = avail
    BY Zenon DEF Open, Approve, Decline, Reopen, storeVars
  <2>2. MarkAvailable(a) \/ ClaimByHand(a) \/ TellByHand(a) \/ Conflict(a) => avail' = avail
    BY Zenon DEF MarkAvailable, ClaimByHand, TellByHand, Conflict, storeVars
  <2>3. Push(a) \/ Undo(a) \/ Retry(a) \/ Delete(a) \/ Cancel(a) => avail' = avail
    BY Zenon DEF Push, Undo, Retry, Delete, Cancel, tables
  <2>4. BatchApprove(a) \/ BatchDecline(a) \/ BatchRead(a) => avail' = avail
    BY Zenon DEF BatchApprove, BatchDecline, BatchRead, storeVars
  <2>5. BatchPush(a) \/ BatchUndo(a) \/ DeskLost(a) => avail' = avail
    BY Zenon DEF BatchPush, BatchUndo, DeskLost, storeVars, tables
  <2> QED
    BY <1>4, <2>1, <2>2, <2>3, <2>4, <2>5 DEF DeskStep
<1>5. ASSUME NEW e \in Executes, ExecStep(e)  PROVE avail' = avail
  <2>1. Plan(e) \/ ReadStampable(e) \/ Stamp(e) => avail' = avail
    BY Zenon DEF Plan, ReadStampable, Stamp, storeVars
  <2>2. DeleteAccepted(e) \/ DeleteRefused(e) \/ DeleteUnknown(e) => avail' = avail
    BY Zenon DEF DeleteAccepted, DeleteRefused, DeleteUnknown, storeVars, tables
  <2>3. Unstamp(e) \/ ReadOwn(e) \/ ReassertStamps(e) => avail' = avail
    BY Zenon DEF Unstamp, ReadOwn, ReassertStamps, storeVars
  <2>4. AddBack(e) \/ ClearStamps(e) \/ ExecLost(e) => avail' = avail
    BY Zenon DEF AddBack, ClearStamps, ExecLost, storeVars, tables
  <2> QED
    BY <1>5, <2>1, <2>2, <2>3, <2>4 DEF ExecStep
<1> QED
  BY <1>1, <1>2, <1>3, <1>4, <1>5
     DEF Resync, ResyncStep, Create, CreateStep, Decide, DecisionStep, Removal, RemovalStep

LEMMA OthersStep ==
  ASSUME TypeOK, Churn \/ Webhook \/ Resync \/ Create \/ Decide \/ Removal
  PROVE  run' = run /\ avail \subseteq avail' \cup Doubted
<1>1. run' = run
  BY DEF Churn, Webhook, Resync, Create, Decide, Removal, syncVars
<1> QED
  BY <1>1, EvictionDoubted, OthersKeepAvail

-----------------------------------------------------------------------------
(* The hourly run *)

\* Where a step of the run leads.
Early == \/ SyncBegin \/ SnapAvailable \/ ReadFirst \/ ClaimFirst \/ FinishFirst
Middle == \/ ReadSecond \/ ClaimSecond \/ FinishSecond \/ SweepOverdue \/ ReadRepush \/ PushAgain
Later == \/ Demote \/ SkipDemote \/ ReadStill \/ LibraryPassesDone
         \/ ReadUnannounced \/ ClaimFallback \/ SyncEnd \/ SyncAbort

LEMMA SyncCases ==
  Sync => \/ Early \/ FetchArr \/ WriteArr \/ Middle \/ ReadInArr \/ FetchLibrary
          \/ LibrariesDone \/ ReadHeld \/ ReadLibrary \/ ClaimLibrary \/ FinishLibrary \/ Later
BY DEF Sync, SyncStep, SyncProgress, Early, Middle, Later

LEMMA EarlySteps ==
  ASSUME run \in RunType, FetchesSound, Early
  PROVE  /\ run'.pc \in {"snap", "first", "firstClaim", "firstDone", "fetch"}
         /\ run'.sound = {}
<1>1. CASE SyncBegin
  BY <1>1 DEF SyncBegin, IdleRun
<1>2. CASE SnapAvailable
  BY <1>2 DEF SnapAvailable, FetchesSound, BeforeLibraries, RunType
<1>3. CASE ReadFirst
  BY <1>3 DEF ReadFirst, FetchesSound, BeforeLibraries, RunType
<1>4. CASE ClaimFirst
  BY <1>4 DEF ClaimFirst, ClaimFor, FetchesSound, BeforeLibraries, RunType
<1>5. CASE FinishFirst
  BY <1>5 DEF FinishFirst, FetchesSound, BeforeLibraries, RunType
<1> QED
  BY <1>1, <1>2, <1>3, <1>4, <1>5 DEF Early

LEMMA MiddleSteps ==
  ASSUME run \in RunType, Middle
  PROVE  /\ run.pc \in AfterWrite /\ run'.pc \in AfterWrite
         /\ run'.sound = run.sound /\ run'.fresh = run.fresh /\ avail' = avail
<1>1. CASE ReadSecond
  BY <1>1 DEF ReadSecond, AfterWrite, RunType, storeVars
<1>2. CASE ClaimSecond
  BY <1>2 DEF ClaimSecond, ClaimFor, AfterWrite, RunType
<1>3. CASE FinishSecond
  BY <1>3 DEF FinishSecond, AfterWrite, RunType
<1>4. CASE SweepOverdue
  BY <1>4 DEF SweepOverdue, AfterWrite, RunType
<1>5. CASE ReadRepush
  BY <1>5 DEF ReadRepush, AfterWrite, RunType, storeVars
<1>6. CASE PushAgain
  BY <1>6 DEF PushAgain, AfterWrite, RunType, tables
<1> QED
  BY <1>1, <1>2, <1>3, <1>4, <1>5, <1>6 DEF Middle

LEMMA LaterSteps ==
  ASSUME run \in RunType, Later
  PROVE  run'.pc \in {"idle", "still", "held", "fallback", "fallbackClaim", "fallbackDone"}
<1>1. CASE Demote \/ SkipDemote \/ ReadStill \/ LibraryPassesDone
  BY <1>1 DEF Demote, SkipDemote, ReadStill, LibraryPassesDone, RunType
<1>2. CASE ReadUnannounced
  BY <1>2 DEF ReadUnannounced, RunType
<1>3. CASE ClaimFallback
  BY <1>3 DEF ClaimFallback, IdleRun
<1>4. CASE SyncEnd \/ SyncAbort
  BY <1>4 DEF SyncEnd, SyncAbort, IdleRun
<1> QED
  BY <1>1, <1>2, <1>3, <1>4 DEF Later

\* The steps that refresh, fetch and mark.
LEMMA RefreshSteps ==
  ASSUME run \in RunType
  PROVE  /\ FetchArr => /\ run.pc = "fetch" /\ run'.pc = "write" /\ run'.sound = run.sound
                        /\ UNCHANGED <<arr, mail>>
                        /\ \A t \in run'.fresh : t \in Titles /\ run'.fetched[t] = arr[t]
         /\ WriteArr => /\ run.pc = "write" /\ run'.pc = "second"
                        /\ run'.sound = run.sound /\ run'.fresh = run.fresh
                        /\ \A t \in run.fresh : run.fetched[t] = "complete" => t \in avail'
         /\ ReadInArr => /\ run.pc = "inArr" /\ run'.pc = "fetchLib"
                         /\ run'.sound = run.sound /\ run'.fresh = run.fresh
                         /\ avail \subseteq run'.inArr
         /\ LibrariesDone => /\ run.pc = "fetchLib" /\ run'.pc = "demote"
                             /\ run'.sound = run.sound /\ run'.seen = run.seen
                             /\ run'.fresh = run.fresh /\ run'.inArr = run.inArr
<1>1. ASSUME FetchArr
      PROVE  /\ run.pc = "fetch" /\ run'.pc = "write" /\ run'.sound = run.sound
             /\ UNCHANGED <<arr, mail>>
             /\ \A t \in run'.fresh : t \in Titles /\ run'.fetched[t] = arr[t]
  <2>0. PICK alive \in SUBSET Titles : \E fresh \in SUBSET alive, gated \in {{}, Series} :
          run' = [run EXCEPT !.pc = "write", !.alive = alive, !.fresh = fresh,
                    !.gated = gated,
                    !.fetched = [t \in Titles |-> IF t \in fresh THEN arr[t] ELSE "absent"]]
    BY <1>1, Zenon DEF FetchArr
  <2>1. PICK fresh \in SUBSET alive, gated \in {{}, Series} :
          run' = [run EXCEPT !.pc = "write", !.alive = alive, !.fresh = fresh,
                    !.gated = gated,
                    !.fetched = [t \in Titles |-> IF t \in fresh THEN arr[t] ELSE "absent"]]
    BY <2>0, Zenon
  <2>2. UNCHANGED <<arr, mail>> /\ run.pc = "fetch"
    BY <1>1 DEF FetchArr, storeVars
  <2> QED
    BY <2>1, <2>2 DEF RunType
<1>2. ASSUME WriteArr
      PROVE  /\ run.pc = "write" /\ run'.pc = "second"
             /\ run'.sound = run.sound /\ run'.fresh = run.fresh
             /\ \A t \in run.fresh : run.fetched[t] = "complete" => t \in avail'
  BY <1>2 DEF WriteArr, FetchedAs, RunType
<1>3. ASSUME ReadInArr
      PROVE  /\ run.pc = "inArr" /\ run'.pc = "fetchLib"
             /\ run'.sound = run.sound /\ run'.fresh = run.fresh
             /\ avail \subseteq run'.inArr
  BY <1>3 DEF ReadInArr, RunType
<1>4. ASSUME LibrariesDone
      PROVE  /\ run.pc = "fetchLib" /\ run'.pc = "demote"
             /\ run'.sound = run.sound /\ run'.seen = run.seen
             /\ run'.fresh = run.fresh /\ run'.inArr = run.inArr
  BY <1>4 DEF LibrariesDone, RunType
<1> QED
  BY <1>1, <1>2, <1>3, <1>4

LEMMA FetchStep ==
  ASSUME run \in RunType, FetchLibrary
  PROVE  /\ run.pc = "fetchLib" /\ run'.pc = "fetchLib" /\ UNCHANGED library
         /\ run'.fresh = run.fresh /\ run'.inArr = run.inArr
         /\ \E s \in run.todo :
              /\ run'.todo = run.todo \ {s}
              /\ \A q \in Sources \ {s} : run'.seen[q] = run.seen[q]
              /\ \/ run'.sound = run.sound \cup {s} /\ run'.seen[s] = library[s]
                 \/ run'.sound = run.sound
<1> DEFINE Whole(s) == run' = [run EXCEPT !.todo = run.todo \ {s}, !.sound = run.sound \cup {s},
                                          !.seen = [run.seen EXCEPT ![s] = library[s]]]
           Some(s, part) == run' = [run EXCEPT !.todo = run.todo \ {s},
                                               !.seen = [run.seen EXCEPT ![s] = part]]
<1>1. PICK s \in run.todo : Whole(s) \/ \E part \in SUBSET library[s] : Some(s, part)
  BY Zenon DEF FetchLibrary
<1>2. s \in Sources /\ run.pc = "fetchLib" /\ UNCHANGED library
  BY <1>1 DEF RunType, FetchLibrary, storeVars
<1>3. ASSUME Whole(s)
      PROVE  /\ run'.pc = "fetchLib"
             /\ run'.fresh = run.fresh /\ run'.inArr = run.inArr
             /\ run'.todo = run.todo \ {s}
             /\ run'.sound = run.sound \cup {s} /\ run'.seen[s] = library[s]
             /\ \A q \in Sources \ {s} : run'.seen[q] = run.seen[q]
  BY <1>2, <1>3 DEF RunType
<1>4. ASSUME NEW part, Some(s, part)
      PROVE  /\ run'.pc = "fetchLib"
             /\ run'.fresh = run.fresh /\ run'.inArr = run.inArr
             /\ run'.todo = run.todo \ {s} /\ run'.sound = run.sound
             /\ \A q \in Sources \ {s} : run'.seen[q] = run.seen[q]
  BY <1>2, <1>4 DEF RunType
<1>5. Whole(s) \/ \E part : Some(s, part)
  <2> HIDE DEF Whole, Some
  <2> QED
    BY <1>1
<1> HIDE DEF Whole, Some
<1>6. CASE Whole(s)
  BY <1>1, <1>2, <1>3, <1>6
<1>7. CASE \E part : Some(s, part)
  BY <1>1, <1>2, <1>4, <1>7
<1> QED
  BY <1>5, <1>6, <1>7

LEMMA MarkSteps ==
  ASSUME run \in RunType
  PROVE  /\ ReadHeld => /\ run'.pc = "libRead" /\ run'.gated = run.gated
                        /\ run'.held = run.gated \cap wanted
         /\ ReadLibrary => /\ run.pc = "libRead" /\ run'.pc = "libClaim" /\ run'.held = run.held
                           /\ run'.gated = run.gated
                           /\ \A r \in run'.cand \cup run'.only : TitleOf[r] \notin run.held
         /\ ClaimLibrary => /\ run.pc = "libClaim" /\ run'.pc = "libDone" /\ run'.held = run.held
                            /\ run'.gated = run.gated
                            /\ run'.cand = run.cand /\ run'.only = run.only
         /\ FinishLibrary => /\ run.pc = "libDone" /\ run'.pc = "libRead" /\ run'.held = run.held
                             /\ run'.gated = run.gated
<1>1. ASSUME ReadHeld  PROVE run'.pc = "libRead" /\ run'.gated = run.gated
                                   /\ run'.held = run.gated \cap wanted
  BY <1>1 DEF ReadHeld, RunType
<1>2. ASSUME ReadLibrary
      PROVE  /\ run.pc = "libRead" /\ run'.pc = "libClaim" /\ run'.held = run.held
             /\ run'.gated = run.gated
             /\ \A r \in run'.cand \cup run'.only : TitleOf[r] \notin run.held
  BY <1>2 DEF ReadLibrary, MarkableBy, RunType
<1>3. ASSUME ClaimLibrary
      PROVE  /\ run.pc = "libClaim" /\ run'.pc = "libDone" /\ run'.held = run.held
             /\ run'.gated = run.gated
             /\ run'.cand = run.cand /\ run'.only = run.only
  BY <1>3 DEF ClaimLibrary, ClaimFor, RunType
<1>4. ASSUME FinishLibrary
      PROVE  /\ run.pc = "libDone" /\ run'.pc = "libRead" /\ run'.held = run.held
             /\ run'.gated = run.gated
  BY <1>4 DEF FinishLibrary, RunType
<1> QED
  BY <1>1, <1>2, <1>3, <1>4

-----------------------------------------------------------------------------
(* Every step keeps the invariant *)

LEMMA FetchesStep ==
  ASSUME run \in RunType, FetchesSound, Observe, Sync \/ run' = run
  PROVE  FetchesSound'
<1>a. ASSUME run'.pc \in BeforeLibraries, run'.sound = {}  PROVE FetchesSound'
  BY <1>a DEF FetchesSound, BeforeLibraries, Reverting
<1>b. ASSUME run'.pc \notin BeforeLibraries, run'.pc \notin Reverting  PROVE FetchesSound'
  BY <1>b DEF FetchesSound, Reverting
<1>1. CASE Early
  BY <1>a, <1>1, EarlySteps DEF BeforeLibraries
<1>2. CASE FetchArr \/ WriteArr \/ Middle
  BY <1>a, <1>2, RefreshSteps, MiddleSteps DEF FetchesSound, BeforeLibraries, AfterWrite
<1>3. CASE ReadInArr
  <2>1. run'.pc = "fetchLib" /\ run'.sound = {}
    BY <1>3, RefreshSteps DEF FetchesSound, BeforeLibraries
  <2> QED
    BY <2>1 DEF FetchesSound, BeforeLibraries, Reverting
<1>4. CASE FetchLibrary
  <2>1. /\ run.pc = "fetchLib" /\ run'.pc = "fetchLib" /\ UNCHANGED library
    BY <1>4, FetchStep
  <2>2. PICK s \in run.todo :
          /\ run'.todo = run.todo \ {s}
          /\ \A q \in Sources \ {s} : run'.seen[q] = run.seen[q]
          /\ \/ run'.sound = run.sound \cup {s} /\ run'.seen[s] = library[s]
             \/ run'.sound = run.sound
    BY <1>4, FetchStep
  <2>3. run.todo \cap run.sound = {} /\ run.todo \subseteq Sources /\ run.sound \subseteq Sources
    BY <2>1 DEF FetchesSound, RunType
  <2>4. ASSUME NEW q \in run'.sound, NEW t \in Titles \ run'.seen[q]  PROVE Lacked(q, t)'
    <3>1. CASE q \in run.sound
      <4>1. q # s /\ run'.seen[q] = run.seen[q]
        BY <2>2, <2>3, <3>1
      <4>2. Lacked(q, t)
        BY <2>1, <2>4, <3>1, <4>1 DEF FetchesSound, Reverting
      <4> QED
        BY <2>1, <4>2, StillLacked
    <3>2. CASE q \notin run.sound
      <4>1. q = s /\ run'.seen[q] = library[q] /\ q \in Sources
        BY <2>2, <2>3, <2>4, <3>2
      <4> QED
        BY <2>1, <2>4, <4>1, LibraryLacks
    <3> QED
      BY <3>1, <3>2
  <2>5. run'.todo \cap run'.sound = {}
    BY <2>2, <2>3
  <2> QED
    BY <2>1, <2>4, <2>5 DEF FetchesSound, BeforeLibraries
<1>5. CASE LibrariesDone \/ run' = run
  <2>1. CASE run.pc \in Reverting
    <3>1. /\ run'.pc \in Reverting /\ run'.sound = run.sound /\ run'.seen = run.seen
          /\ run'.pc = "fetchLib" => run' = run
      BY <1>5, <2>1, RefreshSteps DEF Reverting
    <3>2. ASSUME NEW q \in run'.sound, NEW t \in Titles \ run'.seen[q]  PROVE Lacked(q, t)'
      <4>1. Lacked(q, t)
        BY <2>1, <3>1, <3>2 DEF FetchesSound
      <4> QED
        BY <2>1, <3>1, <4>1, StillLacked DEF Reverting
    <3> QED
      BY <3>1, <3>2 DEF FetchesSound, BeforeLibraries, Reverting
  <2>2. CASE run.pc \notin Reverting
    <3>1. run' = run
      BY <1>5, <2>2, RefreshSteps DEF Reverting
    <3> QED
      BY <2>2, <3>1 DEF FetchesSound, Reverting
  <2> QED
    BY <2>1, <2>2
<1>6. CASE ReadHeld \/ ReadLibrary \/ ClaimLibrary \/ FinishLibrary \/ Later
  BY <1>b, <1>6, MarkSteps, LaterSteps DEF BeforeLibraries, Reverting
<1> QED
  BY <1>1, <1>2, <1>3, <1>4, <1>5, <1>6, SyncCases

LEMMA RefreshStep ==
  ASSUME TypeOK, Watched, FetchesSound, RefreshSound, Observe,
         \/ Sync
         \/ Churn \/ Webhook \/ Resync \/ Create \/ Decide \/ Removal
  PROVE  RefreshSound'
<1>0. run \in RunType
  BY DEF TypeOK, SyncTypeOK
<1>a. ASSUME run'.pc # "write", run'.pc \notin AfterWrite, run'.pc \notin Reverting
      PROVE  RefreshSound'
  BY <1>a DEF RefreshSound
<1>b. Watched' /\ (run.pc # "idle" /\ run'.pc # "idle" => doubted \subseteq doubted')
  BY Seen
<1>c. run.pc # "idle" => Doubted \subseteq doubted
  BY DEF Watched
<1>1. CASE Early
  BY <1>0, <1>a, <1>1, EarlySteps DEF AfterWrite, Reverting
<1>2. CASE FetchArr
  <2>1. /\ run'.pc = "write" /\ UNCHANGED <<arr, mail>>
        /\ \A t \in run'.fresh : t \in Titles /\ run'.fetched[t] = arr[t]
    BY <1>0, <1>2, RefreshSteps
  <2>2. ASSUME NEW t \in run'.fresh, run'.fetched[t] # "complete"  PROVE t \in doubted'
    <3>1. t \in Titles /\ arr'[t] # "complete"
      BY <2>1, <2>2
    <3>2. t \in Doubted'
      BY <3>1 DEF Doubted
    <3> QED
      BY <1>b, <2>1, <3>2 DEF Watched
  <2> QED
    BY <2>1, <2>2 DEF RefreshSound, AfterWrite, Reverting
<1>3. CASE WriteArr
  <2>1. /\ run.pc = "write" /\ run'.pc = "second" /\ run'.fresh = run.fresh
        /\ \A t \in run.fresh : run.fetched[t] = "complete" => t \in avail'
    BY <1>0, <1>3, RefreshSteps
  <2> QED
    BY <1>b, <2>1 DEF RefreshSound, Reverting
<1>4. CASE Middle
  <2>1. /\ run.pc \in AfterWrite /\ run'.pc \in AfterWrite
        /\ run'.fresh = run.fresh /\ avail' = avail
    BY <1>0, <1>4, MiddleSteps
  <2>2. run'.fresh \subseteq avail' \cup doubted'
    BY <1>b, <2>1 DEF RefreshSound, AfterWrite
  <2> QED
    BY <2>1, <2>2 DEF RefreshSound, AfterWrite, Reverting
<1>5. CASE ReadInArr \/ FetchLibrary \/ LibrariesDone
  <2>1. /\ run'.pc \in Reverting /\ run'.fresh = run.fresh
        /\ \/ run.pc = "inArr" /\ avail \subseteq run'.inArr
           \/ run.pc \in Reverting /\ run'.inArr = run.inArr
    BY <1>0, <1>5, RefreshSteps, FetchStep DEF Reverting
  <2>2. run'.fresh \subseteq run'.inArr \cup doubted'
    BY <1>b, <2>1 DEF RefreshSound, AfterWrite, Reverting
  <2> QED
    BY <2>1, <2>2 DEF RefreshSound, AfterWrite, Reverting
<1>6. CASE ReadHeld \/ ReadLibrary \/ ClaimLibrary \/ FinishLibrary \/ Later
  BY <1>0, <1>a, <1>6, MarkSteps, LaterSteps DEF AfterWrite, Reverting
<1>7. CASE Churn \/ Webhook \/ Resync \/ Create \/ Decide \/ Removal
  <2>1. run' = run /\ avail \subseteq avail' \cup Doubted
    BY <1>7, OthersStep
  <2> QED
    BY <1>b, <1>c, <2>1 DEF RefreshSound, AfterWrite, Reverting
<1> QED
  BY <1>1, <1>2, <1>3, <1>4, <1>5, <1>6, <1>7, SyncCases

LEMMA MarksStep ==
  ASSUME run \in RunType, FetchesSound, MarksSound, Observe, Sync \/ run' = run
  PROVE  MarksSound'
<1>a. run'.pc # "idle" => /\ unlisted \subseteq unlisted'
                          /\ Titles \ wanted \subseteq unlisted'
  BY Seen DEF PassInFlight
<1>b. ASSUME run'.pc \notin Marks  PROVE MarksSound'
  BY <1>b DEF MarksSound, Marks
<1>1. CASE Early \/ FetchArr \/ WriteArr \/ Middle \/ ReadInArr \/ FetchLibrary
           \/ LibrariesDone \/ Later
  BY <1>b, <1>1, EarlySteps, RefreshSteps, MiddleSteps, FetchStep, LaterSteps
     DEF Marks, AfterWrite
<1>2. CASE ReadHeld
  <2>1. /\ run'.pc = "libRead" /\ run'.gated = run.gated /\ run.gated \subseteq Titles
        /\ run'.held = run.gated \cap wanted
    BY <1>2, MarkSteps DEF RunType
  <2> QED
    BY <1>a, <2>1 DEF MarksSound, Marks
<1>3. CASE ReadLibrary \/ ClaimLibrary \/ FinishLibrary \/ run' = run
  <2>1. /\ run'.pc \in Marks => /\ run.pc \in Marks /\ run'.held = run.held
                                /\ run'.gated = run.gated
        /\ run'.pc \in {"libClaim", "libDone"} =>
             \A r \in run'.cand \cup run'.only : TitleOf[r] \notin run'.held
    BY <1>3, MarkSteps DEF MarksSound, Marks
  <2> QED
    BY <1>a, <2>1 DEF MarksSound, Marks
<1> QED
  BY <1>1, <1>2, <1>3, SyncCases

\* A Resync picks what it marks when it applies the gate, and keeps to it.
LEMMA ResyncsStep ==
  ASSUME ResyncTypeOK, \A s \in Resyncs : ResyncSound(s), Observe,
         ResyncStep \/ resync' = resync
  PROVE  \A s \in Resyncs : ResyncSound(s)'
<1> SUFFICES ASSUME NEW s \in Resyncs, resync'[s].pc \in {"claim", "finish"}
             PROVE  \A r \in resync'[s].cand \cup resync'[s].only :
                       TitleOf[r] \in Series => TitleOf[r] \in unlisted'
  BY DEF ResyncSound
<1>1. unlisted \subseteq unlisted' /\ Titles \ wanted \subseteq unlisted'
  BY Seen DEF PassInFlight
<1>2. ASSUME resync'[s] = resync[s]
      PROVE  \A r \in resync'[s].cand \cup resync'[s].only :
               TitleOf[r] \in Series => TitleOf[r] \in unlisted'
  BY <1>1, <1>2 DEF ResyncSound
<1>3. CASE resync' = resync
  BY <1>2, <1>3
<1>4. ASSUME NEW q \in Resyncs, q # s,
             \/ ResyncFetch(q) \/ ResyncSnap(q) \/ ResyncHeld(q)
             \/ ResyncClaim(q) \/ ResyncFinish(q) \/ ResyncLost(q)
      PROVE  resync'[s] = resync[s]
  BY <1>4, Zenon DEF ResyncFetch, ResyncSnap, ResyncHeld, ResyncClaim, ResyncFinish,
                     ResyncLost, ResyncTypeOK
<1>5. CASE ResyncHeld(s)
  <2> DEFINE kept == Kept(resync[s].still)
             new  == {r \in kept \ resync[s].told : Announces(s, r)}
  <2>1. resync' = [resync EXCEPT ![s] = [resync[s] EXCEPT !.pc = "claim", !.cand = new,
                                        !.only = kept \ new, !.still = {},
                                        !.told = {}, !.seen = {}]]
    BY <1>5 DEF ResyncHeld
  <2>2. resync[s] \in ResyncType /\ new \subseteq kept
    BY DEF ResyncTypeOK
  <2>3. resync'[s].cand \cup resync'[s].only \subseteq kept
    <3> HIDE DEF kept, new
    <3> QED
      BY <2>1, <2>2 DEF ResyncTypeOK, ResyncType
  <2>4. \A r \in kept : TitleOf[r] \in Series => TitleOf[r] \in Titles \ wanted
    BY StoreAssumption DEF Kept
  <2> QED
    BY <1>1, <2>3, <2>4
<1>6. CASE ResyncClaim(s)
  <2>1. /\ resync[s].pc = "claim"
        /\ resync' = [resync EXCEPT ![s] = [resync[s] EXCEPT !.pc = "finish", !.cand = {},
                                     !.won = {r \in resync[s].cand : Markable(rows[r])}]]
    BY <1>6 DEF ResyncClaim
  <2>2. resync'[s].cand = {} /\ resync'[s].only = resync[s].only
    BY <2>1 DEF ResyncTypeOK, ResyncType
  <2> QED
    BY <1>1, <2>1, <2>2 DEF ResyncSound
<1>7. CASE ResyncFetch(s) \/ ResyncSnap(s)
  <2>1. resync'[s].pc \in {"snap", "held"}
    BY <1>7 DEF ResyncFetch, ResyncSnap, ResyncTypeOK, ResyncType, IdleResync
  <2> QED
    BY <2>1
<1>8. CASE ResyncFinish(s) \/ ResyncLost(s)
  <2>1. resync'[s] = IdleResync
    BY <1>8, Zenon DEF ResyncFinish, ResyncLost, ResyncTypeOK
  <2> QED
    BY <2>1 DEF IdleResync
<1> QED
  BY <1>2, <1>3, <1>4, <1>5, <1>6, <1>7, <1>8 DEF ResyncStep

LEMMA EvidenceStep ==
  ASSUME TypeOK, EvidenceHeld, Next, Observe
  PROVE  EvidenceHeld'
<1>0. run \in RunType /\ ResyncTypeOK
  BY DEF TypeOK, SyncTypeOK
<1>1. Watched'
  BY Seen
<1>2. \/ Sync
      \/ Churn \/ Webhook \/ Resync \/ Create \/ Decide \/ Removal
  BY DEF Next
<1>3. Sync \/ run' = run
  BY <1>2, OthersStep
<1>4. ResyncStep \/ resync' = resync
  BY <1>2 DEF Sync, Churn, Webhook, Resync, Create, Decide, Removal
<1>5. FetchesSound' /\ MarksSound'
  BY <1>0, <1>3, FetchesStep, MarksStep DEF EvidenceHeld
<1>6. RefreshSound'
  BY <1>2, RefreshStep DEF EvidenceHeld
<1>7. \A s \in Resyncs : ResyncSound(s)'
  BY <1>0, <1>4, ResyncsStep DEF EvidenceHeld
<1> QED
  BY <1>1, <1>5, <1>6, <1>7 DEF EvidenceHeld

-----------------------------------------------------------------------------
(* What the evidence is for *)

LEMMA DemotionStep ==
  ASSUME TypeOK, CreatesUnused, EvidenceHeld, Next, NEW r \in Requests,
         rows[r].status = "AVAILABLE", rows'[r].status = "APPROVED"
  PROVE  /\ \A s \in Configured : <<s, TitleOf[r]>> \in lacking
         /\ TitleOf[r] \in doubted
<1>1. rows[r] \in Row /\ TitleOf[r] \in Titles
  BY StoreAssumption DEF TypeOK, StoreTypeOK
<1>2. run.pc = "demote" /\ run' # run
  <2>1. RowMove(rows[r], rows'[r]) \/ Born(r) \/ AtDesk(r) \/ Restamped(r)
    BY TableStep DEF TableMoves
  <2>2. ~Born(r) /\ ~Restamped(r) /\ ~AtDesk(r)
    BY <1>1 DEF Born, Restamped, AtDesk, Announced, Deleted, Row
  <2> QED
    BY <1>1, <2>1, <2>2
       DEF RowMove, Marked, Markable, Announced, Forward, Arrived, Disarmed,
           RollbackAllowed, RolledBack, Declined, Deleted, Row
<1>3. Demote
  <2>1. Sync
    BY <1>2, OthersStep DEF Next
  <2>2. ~UNCHANGED rows
    OBVIOUS
  <2>3. ~SkipDemote /\ ~SyncAbort
    BY <2>2 DEF SkipDemote, SyncAbort, storeVars, tables
  <2> QED
    BY <1>2, <2>1, <2>3
       DEF Sync, SyncStep, SyncProgress, SyncBegin, SnapAvailable, ReadFirst, ClaimFirst,
           FinishFirst, FetchArr, WriteArr, ReadSecond, ClaimSecond, FinishSecond,
           SweepOverdue, ReadRepush, PushAgain, ReadInArr, FetchLibrary, LibrariesDone,
           ReadStill, ReadHeld, ReadLibrary, ClaimLibrary, FinishLibrary,
           LibraryPassesDone, ReadUnannounced, ClaimFallback, SyncEnd
<1>4. GoneEverywhere(r)
  BY <1>3 DEF Demote
<1>5. \A s \in Configured : Lacked(s, TitleOf[r])
  BY <1>1, <1>2, <1>4 DEF GoneEverywhere, EvidenceHeld, FetchesSound, Reverting
<1>6. TitleOf[r] \in doubted
  BY <1>2, <1>4 DEF GoneEverywhere, EvidenceHeld, RefreshSound, Reverting
<1> QED
  BY <1>5, <1>6 DEF Lacked

LEMMA MarkStep ==
  ASSUME TypeOK, EvidenceHeld, Next, NEW r \in LibraryMarks, TitleOf[r] \in Series,
         run' # run => TitleOf[r] \in run.gated
  PROVE  TitleOf[r] \in unlisted
<1>1. /\ r \in Requests /\ rows[r] \in Row
      /\ rows[r].status \in {"PENDING", "APPROVED"} /\ rows'[r].status = "AVAILABLE"
      /\ ~UNCHANGED rows
  BY DEF LibraryMarks, TypeOK, StoreTypeOK
<1>2. Disarmed(rows[r]).status = rows[r].status
  BY <1>1 DEF Disarmed, Row
<1>3. CASE run.pc \in {"libClaim", "libDone"} /\ run' # run
  <2>1. Sync
    BY <1>3, OthersStep DEF Next
  <2>2. ~SyncAbort
    BY <1>1 DEF SyncAbort, storeVars, tables
  <2>3. ClaimLibrary \/ FinishLibrary
    BY <1>3, <2>1, <2>2
       DEF Sync, SyncStep, SyncProgress, SyncBegin, SnapAvailable, ReadFirst, ClaimFirst,
           FinishFirst, FetchArr, WriteArr, ReadSecond, ClaimSecond, FinishSecond,
           SweepOverdue, ReadRepush, PushAgain, ReadInArr, FetchLibrary, LibrariesDone,
           Demote, SkipDemote, ReadStill, ReadHeld, ReadLibrary, LibraryPassesDone,
           ReadUnannounced, ClaimFallback, SyncEnd
  <2>4. r \in run.cand \cup run.only
    <3>1. CASE ClaimLibrary
      BY <1>1, <3>1 DEF ClaimLibrary, ClaimFor, ClaimMarking
    <3>2. CASE FinishLibrary
      BY <1>1, <1>2, <3>2 DEF FinishLibrary
    <3> QED
      BY <2>3, <3>1, <3>2
  <2> QED
    BY <1>3, <2>4 DEF EvidenceHeld, MarksSound, Marks
<1>4. ASSUME NEW s \in Resyncs, resync[s].pc \in {"claim", "finish"}, resync'[s] # resync[s]
      PROVE  TitleOf[r] \in unlisted
  <2>1. PICK q \in Resyncs : \/ ResyncFetch(q) \/ ResyncSnap(q) \/ ResyncHeld(q)
                             \/ ResyncClaim(q) \/ ResyncFinish(q) \/ ResyncLost(q)
    BY <1>4 DEF Next, Sync, Churn, Webhook, Resync, Create, Decide, Removal, ResyncStep
  <2>2. resync \in [Resyncs -> ResyncType]
    BY DEF TypeOK, ResyncTypeOK
  <2>3. q = s
    BY <1>4, <2>1, <2>2, Zenon DEF ResyncFetch, ResyncSnap, ResyncHeld, ResyncClaim,
                                   ResyncFinish, ResyncLost
  <2>4. ResyncClaim(s) \/ ResyncFinish(s)
    <3>1. ~ResyncLost(s)
      BY <1>1 DEF ResyncLost, storeVars, tables
    <3>2. ~ResyncFetch(s) /\ ~ResyncSnap(s) /\ ~ResyncHeld(s)
      BY <1>4 DEF ResyncFetch, ResyncSnap, ResyncHeld
    <3> QED
      BY <2>1, <2>3, <3>1, <3>2
  <2>5. r \in resync[s].cand \cup resync[s].only
    <3>1. CASE ResyncClaim(s)
      BY <1>1, <3>1 DEF ResyncClaim, ClaimMarking
    <3>2. CASE ResyncFinish(s)
      BY <1>1, <1>2, <3>2 DEF ResyncFinish
    <3> QED
      BY <2>4, <3>1, <3>2
  <2> QED
    BY <1>4, <2>5 DEF EvidenceHeld, ResyncSound
<1> QED
  BY <1>3, <1>4 DEF LibraryMarks

\* The observer only watches: what holds of the lifecycle holds under observation, and
\* so does the backing of what the runs remember.
LEMMA EvidenceInvariant ==
  EvidenceSpec => [](TypeOK /\ CreatesUnused /\ EvidenceHeld)
<1>1. Init /\ EvidenceInit => TypeOK /\ CreatesUnused /\ EvidenceHeld
  <2> SUFFICES ASSUME Init, EvidenceInit PROVE EvidenceHeld
    BY TypesInitially
  <2>1. run.pc = "idle"
    BY DEF Init, SyncInit, IdleRun
  <2>2. \A s \in Resyncs : resync[s].pc = "idle"
    BY DEF Init, ResyncInit, IdleResync
  <2> QED
    BY <2>1, <2>2 DEF EvidenceHeld, Watched, FetchesSound, RefreshSound, MarksSound,
                      ResyncSound, BeforeLibraries, AfterWrite, Reverting, Marks
<1>2. TypeOK /\ CreatesUnused /\ EvidenceHeld /\ [Next /\ Observe]_<<vars, evidence>>
      => (TypeOK /\ CreatesUnused /\ EvidenceHeld)'
  <2> SUFFICES ASSUME TypeOK, CreatesUnused, EvidenceHeld,
                      [Next /\ Observe]_<<vars, evidence>>
               PROVE  (TypeOK /\ CreatesUnused /\ EvidenceHeld)'
    OBVIOUS
  <2>1. [Next]_vars
    OBVIOUS
  <2>2. TypeOK' /\ CreatesUnused'
    BY <2>1, TypesStep, UnusedStep
  <2>3. CASE UNCHANGED <<vars, evidence>>
    <3>1. /\ run' = run /\ resync' = resync /\ wanted' = wanted /\ avail' = avail
          /\ arr' = arr /\ mail' = mail /\ library' = library
          /\ lacking' = lacking /\ doubted' = doubted /\ unlisted' = unlisted
      BY <2>3 DEF vars, evidence, storeVars, tables, outside, syncVars
    <3>2. Lacking' = Lacking /\ Doubted' = Doubted
      BY <3>1 DEF Lacking, Doubted
    <3>3. Watched' /\ FetchesSound' /\ RefreshSound' /\ MarksSound'
      BY <3>1, <3>2 DEF EvidenceHeld, Watched, FetchesSound, RefreshSound, MarksSound, Lacked
    <3>4. \A s \in Resyncs : ResyncSound(s)'
      BY <3>1 DEF EvidenceHeld, ResyncSound
    <3> QED
      BY <2>2, <3>3, <3>4 DEF EvidenceHeld
  <2> QED
    BY <2>2, <2>3, EvidenceStep
<1> QED
  BY <1>1, <1>2, PTL DEF EvidenceSpec

\* The hourly run demotes nothing on a failed fetch, a stale cache or a half-read
\* library: each configured server lacked the title at some moment of the run, and
\* Radarr/Sonarr did not hold all of it or had told of its deletion (DemotionNeedsEvidence),
\* for any number of servers, titles and writers in between.
THEOREM DemotionEvidence == EvidenceSpec => DemotionNeedsEvidence
<1>1. TypeOK /\ CreatesUnused /\ EvidenceHeld /\ [Next /\ Observe]_<<vars, evidence>>
      => [\A r \in Requests :
            rows[r].status = "AVAILABLE" /\ rows'[r].status = "APPROVED"
            => /\ \A s \in Configured : <<s, TitleOf[r]>> \in lacking
               /\ TitleOf[r] \in doubted]_<<vars, evidence>>
  BY DemotionStep
<1> QED
  BY <1>1, EvidenceInvariant, PTL DEF EvidenceSpec, DemotionNeedsEvidence

\* No marking pass, hourly or per source, marks a series that the wanted table has
\* listed ever since the passes in flight began (ListedSeriesIsHeld), an hourly run
\* whose Sonarr arm was skipped aside: the gate is read once per pass, and its staleness
\* never reaches back further than that.
THEOREM ListedSeriesHeld == EvidenceSpec => ListedSeriesIsHeld
<1>1. TypeOK /\ EvidenceHeld /\ [Next /\ Observe]_<<vars, evidence>>
      => [\A r \in LibraryMarks :
            /\ TitleOf[r] \in Series
            /\ run' # run => TitleOf[r] \in run.gated
            => TitleOf[r] \in unlisted]_<<vars, evidence>>
  BY MarkStep
<1> QED
  BY <1>1, EvidenceInvariant, PTL DEF EvidenceSpec, ListedSeriesIsHeld

=============================================================================
