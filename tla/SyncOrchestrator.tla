-------------------------- MODULE SyncOrchestrator --------------------------
(***************************************************************************)
(* One run of the hourly sync (POST /api/sync), from its two snapshots of  *)
(* the table to the notification fallback.  withAdvisoryLock admits one    *)
(* run at a time.  Every step of the run is one statement or transaction;  *)
(* reads made back to back whose results are only combined are one step.   *)
(* What the run remembers between two steps is stale when it is used: that *)
(* is what the guards of RequestStore are there for.                       *)
(*                                                                         *)
(* Abstracted: media-server visibility grants (no server is restricted),   *)
(* deletion votes, cache reaping, policies and everything after the        *)
(* notification fallback.  Sonarr is configured.  Its arm may be skipped   *)
(* all the same (the feature is off, its instances cannot be read, the     *)
(* advisory lock has timed out): like a failed fetch that keeps the cache  *)
(* rows, but then the gate of the library passes stays open (gated).       *)
(***************************************************************************)
EXTENDS RequestStore

CONSTANT MaxAborts   \* bound: runs cut short by an exception or a restart

ASSUME AbortAssumption == MaxAborts \in Nat

VARIABLES run, aborts

syncVars == <<run, aborts>>

Stages == {"idle", "snap", "first", "firstClaim", "firstDone", "fetch",
           "write", "second", "secondClaim", "secondDone", "sweep", "repush",
           "push", "inArr", "fetchLib", "demote", "still", "held", "libRead",
           "libClaim", "libDone", "fallback", "fallbackClaim", "fallbackDone"}

RunType ==
    [pc        : Stages,
     approved  : SUBSET Requests,   \* snapshot: APPROVED at the start
     due       : SUBSET Requests,   \* of those, the backstop was overdue
     available : SUBSET Requests,   \* snapshot: AVAILABLE at the start
     cand      : SUBSET Requests,   \* the rows the next claim will try
     only      : SUBSET Requests,   \* to flip without announcing
     won       : SUBSET Requests,   \* the rows the last claim flipped
     told      : SUBSET Requests,   \* announced by the first pass
     known     : SUBSET Titles,     \* seen in the available cache this run
     fetched   : [Titles -> ArrStates],
     gated     : SUBSET Titles,     \* series whose Sonarr instance the arm has found
     alive     : SUBSET Titles,     \* their service's refresh did not fail
     fresh     : SUBSET Titles,     \* their own instance was refreshed
     repush    : SUBSET Titles,
     inArr     : SUBSET Titles,
     todo      : SUBSET Sources,    \* media servers still to fetch or to mark
     seen      : [Sources -> SUBSET Titles],
     sound     : SUBSET Sources,    \* every instance fetched and written
     reverted  : SUBSET Requests,
     still     : SUBSET Requests,   \* snapshot: PENDING or APPROVED
     held      : SUBSET Titles]     \* series Sonarr lists as wanted

IdleRun ==
    [pc |-> "idle", approved |-> {}, due |-> {}, available |-> {}, cand |-> {},
     only |-> {}, won |-> {}, told |-> {}, known |-> {},
     fetched |-> [t \in Titles |-> "absent"], gated |-> {}, alive |-> {},
     fresh |-> {}, repush |-> {}, inArr |-> {}, todo |-> {},
     seen |-> [s \in Sources |-> {}], sound |-> {}, reverted |-> {},
     still |-> {}, held |-> {}]

SyncTypeOK == run \in RunType /\ aborts \in 0..MaxAborts

SyncInit == run = IdleRun /\ aborts = 0

-----------------------------------------------------------------------------
(* The two snapshots and the first *arr pass *)

\* An armed backstop is overdue or not, as the clock says.
SyncBegin ==
    /\ run.pc = "idle"
    /\ \E due \in SUBSET {r \in WithStatus({"APPROVED"}) : rows[r].armed} :
         run' = [IdleRun EXCEPT !.pc = "snap", !.due = due,
                                !.approved = WithStatus({"APPROVED"})]
    /\ UNCHANGED <<storeVars, aborts>>

SnapAvailable ==
    /\ run.pc = "snap"
    /\ run' = [run EXCEPT !.pc = "first",
                          !.available = WithStatus({"AVAILABLE"})]
    /\ UNCHANGED <<storeVars, aborts>>

\* Requesters pinned to a media server wait for that server's library pass.
Unpinned(S) == {r \in S : Pin[r] = "any"}

ReadFirst ==
    /\ run.pc = "first"
    /\ run' = [run EXCEPT !.pc = "firstClaim",
                 !.known = avail \cap {TitleOf[r] : r \in run.approved},
                 !.cand  = Unpinned({r \in run.approved : TitleOf[r] \in avail})]
    /\ UNCHANGED <<storeVars, aborts>>

\* A claim of rows for marking: one UPDATE ... RETURNING.
ClaimFor(next) ==
    /\ ClaimMarking(run.cand)
    /\ run' = [run EXCEPT !.pc = next,
                          !.won = {r \in run.cand : Markable(rows[r])}]
    /\ UNCHANGED <<sent, wanted, avail, outside, aborts>>

ClaimFirst == run.pc = "firstClaim" /\ ClaimFor("firstDone")

\* The claim leaves pendingNotifyAt: a second statement clears it.  The rows the
\* claim did not win are flipped if they were announced in an earlier life.
FinishFirst ==
    /\ run.pc = "firstDone"
    /\ rows' = [r \in Requests |->
                  CASE r \in run.won -> Disarmed(rows[r])
                    [] /\ r \in run.cand \ run.won
                       /\ rows[r].notified /\ Forward(rows[r]) -> Arrived(rows[r])
                    [] OTHER -> rows[r]]
    /\ Deliver(run.won)
    /\ run' = [run EXCEPT !.pc = "fetch", !.told = run.won \ Disabled,
                          !.won = {}, !.cand = {}]
    /\ UNCHANGED <<wanted, avail, outside, aborts>>

-----------------------------------------------------------------------------
(* Refreshing the *arr caches, and the second pass over them *)

\* Nothing is locked while Radarr and Sonarr answer.  An instance that fails
\* keeps its cache rows; a default instance that fails stops its service.  An arm
\* that is skipped refreshes nothing, and Sonarr's also leaves the gate open.
FetchArr ==
    /\ run.pc = "fetch"
    /\ \E alive \in SUBSET Titles : \E fresh \in SUBSET alive : \E gated \in {{}, Series} :
       /\ alive \cap Series \subseteq gated
       /\ run' = [run EXCEPT !.pc = "write", !.alive = alive, !.fresh = fresh,
                   !.gated = gated,
                   !.fetched = [t \in Titles |-> IF t \in fresh THEN arr[t]
                                                 ELSE "absent"]]
    /\ UNCHANGED <<storeVars, aborts>>

\* Mutated form: the filter on hasFile inverted.
FetchedUnlike(state) == {t \in run.fresh : run.fetched[t] # state}

FetchedAs(state) == {t \in run.fresh : run.fetched[t] = state}

\* The delete-and-replace transaction under advisory lock 1001.
WriteArr ==
    /\ run.pc = "write"
    /\ wanted' = (wanted \ run.fresh) \cup FetchedAs("wanted")
    /\ avail'  = (avail \ run.fresh) \cup FetchedAs("complete")
    /\ run' = [run EXCEPT !.pc = "second",
                          !.fetched = [t \in Titles |-> "absent"]]
    /\ UNCHANGED <<rows, sent, outside, aborts>>

ReadSecond ==
    /\ run.pc = "second"
    /\ LET hit == {r \in run.approved \ run.told :
                     TitleOf[r] \in avail \cap run.alive}
       IN run' = [run EXCEPT !.pc = "secondClaim", !.cand = Unpinned(hit),
                    !.known = @ \cup {TitleOf[r] : r \in hit}]
    /\ UNCHANGED <<storeVars, aborts>>

ClaimSecond == run.pc = "secondClaim" /\ ClaimFor("secondDone")

FinishSecond ==
    /\ run.pc = "secondDone"
    /\ rows' = [r \in Requests |->
                  IF r \in run.won THEN Disarmed(rows[r]) ELSE rows[r]]
    /\ Deliver(run.won)
    /\ run' = [run EXCEPT !.pc = "sweep", !.won = {}, !.cand = {}]
    /\ UNCHANGED <<wanted, avail, outside, aborts>>

\* The overdue backstops: each check asks Radarr/Sonarr, then consumes the row's
\* backstop with a compare-and-swap, or leaves it to the next run.
Overdue == {r \in run.due \ run.told : TitleOf[r] \notin run.known}

SweepOverdue ==
    /\ run.pc = "sweep"
    /\ \E S \in SUBSET Overdue :
         rows' = [r \in Requests |-> IF r \in S /\ Consumable(rows[r])
                                     THEN Disarmed(rows[r]) ELSE rows[r]]
    /\ run' = [run EXCEPT !.pc = "repush", !.due = {}, !.told = {}, !.known = {}]
    /\ UNCHANGED <<sent, wanted, avail, outside, aborts>>

\* A title of a row still APPROVED that a refreshed instance does not hold.
\* The 24-hour backoff lets any subset of them through.
ReadRepush ==
    /\ run.pc = "repush"
    /\ \E ripe \in SUBSET {r \in run.approved : rows[r].status = "APPROVED"} :
         run' = [run EXCEPT !.pc = "push", !.approved = {},
                   !.repush = {TitleOf[r] : r \in ripe}
                                \cap (run.fresh \ (wanted \cup avail))]
    /\ UNCHANGED <<storeVars, aborts>>

\* Radarr/Sonarr may refuse any of them.
PushAgain ==
    /\ run.pc = "push"
    /\ \E T \in SUBSET run.repush :
         arr' = [t \in Titles |-> IF t \in T /\ arr[t] = "absent"
                                  THEN "wanted" ELSE arr[t]]
    /\ run' = [run EXCEPT !.pc = "inArr", !.repush = {}]
    /\ UNCHANGED <<tables, library, mail, aborts>>

-----------------------------------------------------------------------------
(* The libraries, and the demotion of what is nowhere any more *)

ReadInArr ==
    /\ run.pc = "inArr"
    /\ run' = [run EXCEPT !.pc = "fetchLib", !.inArr = wanted \cup avail,
                          !.todo = Configured]
    /\ UNCHANGED <<storeVars, aborts>>

\* One media server: complete (sound), or some of its instances only, or none.
FetchLibrary ==
    /\ run.pc = "fetchLib"
    /\ \E s \in run.todo :
         \/ run' = [run EXCEPT !.todo = @ \ {s}, !.sound = @ \cup {s},
                               !.seen = [@ EXCEPT ![s] = library[s]]]
         \/ \E part \in SUBSET library[s] :
              run' = [run EXCEPT !.todo = @ \ {s},
                                 !.seen = [@ EXCEPT ![s] = part]]
    /\ UNCHANGED <<storeVars, aborts>>

LibrariesDone ==
    /\ run.pc = "fetchLib"
    /\ run.todo = {}
    /\ run' = [run EXCEPT !.pc = "demote"]
    /\ UNCHANGED <<storeVars, aborts>>

\* Mutated form: absence concluded from a server that did not answer.
GoneFromUnsound(r) ==
    /\ TitleOf[r] \in run.fresh
    /\ TitleOf[r] \notin run.inArr
    /\ \A s \in run.sound : TitleOf[r] \notin run.seen[s]

GoneEverywhere(r) ==
    /\ TitleOf[r] \in run.fresh
    /\ Configured \subseteq run.sound
    /\ TitleOf[r] \notin run.inArr
    /\ \A s \in run.sound : TitleOf[r] \notin run.seen[s]

Demote ==
    /\ run.pc = "demote"
    /\ LET toRevert == {r \in run.available : GoneEverywhere(r)} IN
         /\ rows' = [r \in Requests |-> IF r \in toRevert /\ Demotable(rows[r])
                                        THEN Demoted(rows[r]) ELSE rows[r]]
         /\ run' = [run EXCEPT !.pc = "still", !.reverted = toRevert,
                               !.available = {}, !.inArr = {}]
    /\ UNCHANGED <<sent, wanted, avail, outside, aborts>>

\* A registered server without connection details still holds library rows:
\* absence cannot be proven and nothing is demoted.
SkipDemote ==
    /\ run.pc = "demote"
    /\ run' = [run EXCEPT !.pc = "still", !.available = {}, !.inArr = {}]
    /\ UNCHANGED <<storeVars, aborts>>

-----------------------------------------------------------------------------
(* Marking what the libraries hold *)

ReadStill ==
    /\ run.pc = "still"
    /\ run' = [run EXCEPT !.pc = "held", !.reverted = {}, !.fresh = {},
                 !.alive = {},
                 !.still = WithStatus({"PENDING", "APPROVED"}) \ run.reverted]
    /\ UNCHANGED <<storeVars, aborts>>

\* sonarrIncompleteKeys, of the instances the Sonarr arm has found: of none, when
\* it was skipped.
ReadHeld ==
    /\ run.pc = "held"
    /\ run' = [run EXCEPT !.pc = "libRead", !.held = run.gated \cap wanted,
                          !.todo = Sources]
    /\ UNCHANGED <<storeVars, aborts>>

\* Plex first, then Jellyfin.
Marking == IF "plex" \in run.todo THEN "plex" ELSE "jellyfin"

\* Rows of the snapshot whose title the server holds and Sonarr does not hold back.
MarkableBy(s) == {r \in run.still : TitleOf[r] \in run.seen[s] \ run.held}

ReadLibrary ==
    /\ run.pc = "libRead"
    /\ run.todo # {}
    /\ LET s   == Marking
           new == {r \in MarkableBy(s) : ~rows[r].notified}
       IN run' = [run EXCEPT !.pc = "libClaim",
                    !.cand = {r \in new : Announces(s, r)},
                    !.only = {r \in MarkableBy(s) :
                                rows[r].notified \/ ~Announces(s, r)}]
    /\ UNCHANGED <<storeVars, aborts>>

ClaimLibrary == run.pc = "libClaim" /\ ClaimFor("libDone")

FinishLibrary ==
    /\ run.pc = "libDone"
    /\ rows' = [r \in Requests |->
                  CASE r \in run.won -> Disarmed(rows[r])
                    [] r \in run.only /\ Forward(rows[r]) -> Arrived(rows[r])
                    [] OTHER -> rows[r]]
    /\ Deliver(run.won)
    /\ run' = [run EXCEPT !.pc = "libRead", !.cand = {}, !.only = {}, !.won = {},
                          !.todo = @ \ {Marking}]
    /\ UNCHANGED <<wanted, avail, outside, aborts>>

LibraryPassesDone ==
    /\ run.pc = "libRead"
    /\ run.todo = {}
    /\ run' = [run EXCEPT !.pc = "fallback", !.still = {}, !.held = {}, !.gated = {}]
    /\ UNCHANGED <<storeVars, aborts>>

-----------------------------------------------------------------------------
(* The notification fallback, over a live read *)

\* A server is unusable when it is not configured, or when it failed in this run
\* and has not synced for 24 hours.
ReadUnannounced ==
    /\ run.pc = "fallback"
    /\ \E unusable \in SUBSET (Sources \ run.sound) :
         /\ Sources \ Configured \subseteq unusable
         /\ run' = [run EXCEPT !.pc = "fallbackClaim",
              !.cand = {r \in Requests :
                          /\ Announceable(rows[r])
                          /\ ShouldNotify(r, {s \in Sources :
                                                TitleOf[r] \in run.seen[s]},
                                          unusable)}]
    /\ UNCHANGED <<storeVars, aborts>>

ClaimFallback ==
    /\ run.pc = "fallbackClaim"
    /\ ClaimAnnouncing(run.cand)
    /\ run' = [IdleRun EXCEPT !.pc = "fallbackDone",
                 !.won = {r \in run.cand : Announceable(rows[r])}]
    /\ UNCHANGED <<sent, wanted, avail, outside, aborts>>

SyncEnd ==
    /\ run.pc = "fallbackDone"
    /\ Deliver(run.won)
    /\ run' = IdleRun
    /\ UNCHANGED <<rows, wanted, avail, outside, aborts>>

\* An exception or a restart: what the run remembered is lost.
SyncAbort ==
    /\ run.pc # "idle"
    /\ aborts < MaxAborts
    /\ aborts' = aborts + 1
    /\ run' = IdleRun
    /\ UNCHANGED storeVars

\* Every step of a run but the ones that cut it short.
SyncProgress ==
    \/ SyncBegin \/ SnapAvailable
    \/ ReadFirst \/ ClaimFirst \/ FinishFirst
    \/ FetchArr \/ WriteArr \/ ReadSecond \/ ClaimSecond \/ FinishSecond
    \/ SweepOverdue \/ ReadRepush \/ PushAgain
    \/ ReadInArr \/ FetchLibrary \/ LibrariesDone \/ Demote \/ SkipDemote
    \/ ReadStill \/ ReadHeld
    \/ ReadLibrary \/ ClaimLibrary \/ FinishLibrary \/ LibraryPassesDone
    \/ ReadUnannounced \/ ClaimFallback \/ SyncEnd

SyncStep == SyncProgress \/ SyncAbort
=============================================================================
