---------------------------- MODULE ArrWebhooks ----------------------------
(***************************************************************************)
(* Radarr and Sonarr (external), their webhook deliveries, and the two     *)
(* webhook routes that handle them.  A Download delivery is handled by a   *)
(* hook: verify, flip in one transaction, then the deferred task (scan,    *)
(* re-check, poll the media servers, announce).  The deletions are one     *)
(* transaction.                                                            *)
(*                                                                         *)
(* A delivery may be lost or late and deliveries may overtake each other;  *)
(* a delivery seen twice is refused before it reaches the handler, so none *)
(* is duplicated here.  Grab bookkeeping and the manual-interaction marker *)
(* are not modelled.                                                       *)
(***************************************************************************)
EXTENDS RequestStore

CONSTANT Hooks    \* handlers that may run at once

VARIABLE hook

HookType ==
    [pc      : {"idle", "verify", "flip", "scan", "flipLate", "read", "poll",
                "notify", "deliver"},
     title   : Titles \cup {None},
     verdict : {"downloaded", "incomplete", "unknown"},
     moved   : BOOLEAN,             \* the flip moved a row
     pending : SUBSET Requests,     \* AVAILABLE and unannounced when read
     seen    : SUBSET Sources]      \* servers a poll has seen holding the title

IdleHook == [pc |-> "idle", title |-> None, verdict |-> "unknown",
             moved |-> FALSE, pending |-> {}, seen |-> {}]

HookTypeOK ==
    /\ hook \in [Hooks -> HookType]
    /\ \A h \in Hooks : hook[h].pc # "idle" => hook[h].title \in Titles

HookInit == hook = [h \in Hooks |-> IdleHook]

-----------------------------------------------------------------------------
(* Radarr, Sonarr and the media servers: external *)

Send(type, t) == mail' = mail \cup {[type |-> type, title |-> t]}

\* The title (of a series: its last missing episode) is imported.
ArrImport(t) ==
    /\ arr[t] = "wanted"
    /\ arr' = [arr EXCEPT ![t] = "complete"]
    /\ Send("Download", t)
    /\ UNCHANGED <<tables, library>>

\* One episode of an incomplete series is imported.
ArrEpisode(t) ==
    /\ t \in Series
    /\ arr[t] = "wanted"
    /\ Send("Download", t)
    /\ UNCHANGED <<tables, arr, library>>

\* A file is deleted (not for an upgrade), or a new episode has aired.
ArrFileGone(t) ==
    /\ arr[t] = "complete"
    /\ arr' = [arr EXCEPT ![t] = "wanted"]
    /\ IF t \in Series THEN UNCHANGED mail ELSE Send("FileDelete", t)
    /\ UNCHANGED <<tables, library>>

\* Somebody removes the title in Radarr/Sonarr itself.
ArrRemove(t) ==
    /\ arr[t] # "absent"
    /\ arr' = [arr EXCEPT ![t] = "absent"]
    /\ Send("Delete", t)
    /\ UNCHANGED <<tables, library>>

LibraryScans(s, t) ==
    /\ t \notin library[s]
    /\ library' = [library EXCEPT ![s] = @ \cup {t}]
    /\ UNCHANGED <<tables, arr, mail>>

LibraryDrops(s, t) ==
    /\ t \in library[s]
    /\ library' = [library EXCEPT ![s] = @ \ {t}]
    /\ UNCHANGED <<tables, arr, mail>>

LoseDelivery ==
    /\ \E e \in mail : mail' = mail \ {e}
    /\ UNCHANGED <<tables, arr, library>>

Outside ==
    \/ \E t \in Titles : \/ ArrImport(t) \/ ArrEpisode(t)
                         \/ ArrFileGone(t) \/ ArrRemove(t)
    \/ \E s \in Configured, t \in Titles : LibraryScans(s, t) \/ LibraryDrops(s, t)
    \/ LoseDelivery

-----------------------------------------------------------------------------
(* Deletions evict the cache rows, under the lock of the sync's writer *)

EvictTitle ==
    /\ \E e \in mail :
         /\ e.type \in {"FileDelete", "Delete"}
         /\ mail' = mail \ {e}
         /\ avail' = avail \ {e.title}
         /\ wanted' = IF e.type = "Delete" THEN wanted \ {e.title}
                                           ELSE wanted \cup {e.title}
    /\ UNCHANGED <<rows, sent, arr, library, hook>>

-----------------------------------------------------------------------------
(* A Download delivery *)

DownloadReceived(h) ==
    /\ hook[h].pc = "idle"
    /\ \E t \in Titles :
         /\ [type |-> "Download", title |-> t] \in mail
         /\ mail' = mail \ {[type |-> "Download", title |-> t]}
         /\ hook' = [hook EXCEPT ![h] = [IdleHook EXCEPT !.pc = "verify",
                                                         !.title = t]]
    /\ UNCHANGED <<tables, arr, library>>

\* What Radarr/Sonarr answer when the handler asks whether the title is there.
\* "unknown": unreachable, or the instance is not configured.
Verdicts(t) ==
    {"unknown"} \cup (IF arr[t] = "complete" THEN {"downloaded"} ELSE {})
                \cup (IF arr[t] = "wanted" /\ t \in Series
                      THEN {"incomplete"} ELSE {})

\* A movie without a file, or a series that is not there, is refused.
VerifyRefused(h) ==
    /\ hook[h].pc = "verify"
    /\ arr[hook[h].title] # "complete"
    /\ ~(arr[hook[h].title] = "wanted" /\ hook[h].title \in Series)
    /\ hook' = [hook EXCEPT ![h] = IdleHook]
    /\ UNCHANGED storeVars

Verify(h) ==
    /\ hook[h].pc = "verify"
    /\ \E v \in Verdicts(hook[h].title) :
         hook' = [hook EXCEPT ![h] = [@ EXCEPT !.pc = "flip", !.verdict = v]]
    /\ UNCHANGED storeVars

Moves(t) == \E r \in RowsOf(t) : Imported(rows[r])

\* APPROVED -> AVAILABLE for every request of the title, in one transaction with
\* the cache rows: never wanted any more, available when confirmed.
FlipApproved(t, confirmed) ==
    /\ rows' = [r \in Requests |->
                  IF TitleOf[r] = t /\ Imported(rows[r]) THEN Arrived(rows[r])
                                                         ELSE rows[r]]
    /\ wanted' = wanted \ {t}
    /\ avail' = IF confirmed THEN avail \cup {t} ELSE avail
    /\ UNCHANGED <<sent, outside>>

\* A movie is flipped optimistically when Radarr cannot answer; a series never.
MayFlip(t, v) == v = "downloaded" \/ (v = "unknown" /\ t \notin Series)

Flip(h) ==
    /\ hook[h].pc = "flip"
    /\ IF MayFlip(hook[h].title, hook[h].verdict)
       THEN FlipApproved(hook[h].title, hook[h].verdict = "downloaded")
       ELSE UNCHANGED storeVars
    /\ hook' = [hook EXCEPT ![h] = [@ EXCEPT !.pc = "scan",
                                   !.moved = Moves(hook[h].title)]]

\* The deferred task, once the library scan has settled.  A series still
\* incomplete has nothing to announce; one that could not be verified is asked
\* about again.
AfterScan(h) ==
    /\ hook[h].pc = "scan"
    /\ \/ /\ MayFlip(hook[h].title, hook[h].verdict)
          /\ hook' = [hook EXCEPT ![h] = [@ EXCEPT !.pc = "read"]]
       \/ /\ hook[h].verdict = "unknown" /\ hook[h].title \in Series
          /\ arr[hook[h].title] = "complete"
          /\ hook' = [hook EXCEPT ![h] = [@ EXCEPT !.pc = "flipLate"]]
       \/ /\ ~MayFlip(hook[h].title, hook[h].verdict)
          /\ hook' = [hook EXCEPT ![h] = IdleHook]
    /\ UNCHANGED storeVars

FlipLate(h) ==
    /\ hook[h].pc = "flipLate"
    /\ FlipApproved(hook[h].title, TRUE)
    /\ hook' = [hook EXCEPT ![h] = [@ EXCEPT !.pc = "read",
                                   !.moved = Moves(hook[h].title)]]

\* The rows to announce.  A series' hook looks only if its flip moved a row.
ReadPending(h) ==
    /\ hook[h].pc = "read"
    /\ LET pending == IF hook[h].title \in Series /\ ~hook[h].moved THEN {}
                      ELSE {r \in RowsOf(hook[h].title) : Announceable(rows[r])}
       IN hook' = [hook EXCEPT ![h] =
                     IF pending = {} THEN IdleHook
                     ELSE [@ EXCEPT !.pc = "poll", !.pending = pending]]
    /\ UNCHANGED storeVars

\* Two polls in flight for the same rows share one loop: the second claim would
\* find nothing.  Up to 24 rounds, each asking the servers not yet seen.
Poll(h) ==
    /\ hook[h].pc = "poll"
    /\ \E s \in Configured \ hook[h].seen :
         /\ hook[h].title \in library[s]
         /\ hook' = [hook EXCEPT ![h] = [@ EXCEPT !.seen = hook[h].seen \cup {s}]]
    /\ UNCHANGED storeVars

PollEnds(h) ==
    /\ hook[h].pc = "poll"
    /\ hook' = [hook EXCEPT ![h] = [@ EXCEPT !.pc = "notify",
         !.pending = {r \in hook[h].pending :
                        ShouldNotify(r, hook[h].seen, Sources \ Configured)}]]
    /\ UNCHANGED storeVars

Notify(h) ==
    /\ hook[h].pc = "notify"
    /\ ClaimAnnouncing(hook[h].pending)
    /\ hook' = [hook EXCEPT ![h] = [@ EXCEPT !.pc = "deliver",
                                   !.pending = {r \in hook[h].pending : Announceable(rows[r])}]]
    /\ UNCHANGED <<sent, wanted, avail, outside>>

HookEnd(h) ==
    /\ hook[h].pc = "deliver"
    /\ Deliver(hook[h].pending)
    /\ hook' = [hook EXCEPT ![h] = IdleHook]
    /\ UNCHANGED <<rows, wanted, avail, outside>>

\* A restart: the deferred task is only in memory.
HookLost(h) ==
    /\ hook[h].pc # "idle"
    /\ hook' = [hook EXCEPT ![h] = IdleHook]
    /\ UNCHANGED storeVars

HookStep(h) ==
    \/ DownloadReceived(h) \/ VerifyRefused(h) \/ Verify(h) \/ Flip(h)
    \/ AfterScan(h) \/ FlipLate(h) \/ ReadPending(h)
    \/ Poll(h) \/ PollEnds(h) \/ Notify(h) \/ HookEnd(h) \/ HookLost(h)

WebhookStep == EvictTitle \/ \E h \in Hooks : HookStep(h)
=============================================================================
