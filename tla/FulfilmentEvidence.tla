------------------------- MODULE FulfilmentEvidence -------------------------
(***************************************************************************)
(* RequestFulfilment watched by an observer who remembers what could be    *)
(* known since a run began: the evidence a demotion or a library mark is   *)
(* held to.  The observer changes nothing.                                 *)
(***************************************************************************)
EXTENDS RequestFulfilment

VARIABLES
    lacking,   \* <<server, title>> absent at some moment of the hourly run
    doubted,   \* titles not complete, or being deleted, at such a moment
    unlisted   \* titles off the wanted table while a marking pass is in flight

evidence == <<lacking, doubted, unlisted>>

Lacking == {x \in Sources \X Titles : x[2] \notin library[x[1]]}

Doubted == {t \in Titles : \/ arr[t] # "complete"
                           \/ \E e \in mail : e.title = t /\ e.type # "Download"}

PassInFlight == run.pc # "idle" \/ \E s \in Resyncs : resync[s].pc # "idle"

EvidenceInit == lacking = {} /\ doubted = {} /\ unlisted = {}

Observe ==
    /\ lacking' = IF run'.pc = "idle" THEN {}
                  ELSE Lacking' \cup (IF run.pc = "idle" THEN {} ELSE lacking)
    /\ doubted' = IF run'.pc = "idle" THEN {}
                  ELSE Doubted' \cup (IF run.pc = "idle" THEN {} ELSE doubted)
    /\ unlisted' = IF PassInFlight' THEN unlisted \cup (Titles \ wanted')
                                            \cup (Titles \ wanted)
                   ELSE {}

EvidenceSpec == /\ Init /\ EvidenceInit
                /\ [][Next /\ Observe]_<<vars, evidence>>

\* The sync takes an AVAILABLE request back to APPROVED (and will ask Radarr/Sonarr
\* for it again) only if, at some moment since the run began, each configured media
\* server lacked the title, and Radarr/Sonarr did not hold all of it or had told of
\* its deletion: no failed fetch, stale cache or half-read library is evidence.
DemotionNeedsEvidence ==
    [][\A r \in Requests :
         rows[r].status = "AVAILABLE" /\ rows'[r].status = "APPROVED"
         => /\ \A s \in Configured : <<s, TitleOf[r]>> \in lacking
            /\ TitleOf[r] \in doubted]_<<vars, evidence>>

\* A series that Sonarr's wanted table has listed ever since the marking passes in
\* flight began is marked by none of them: presence of its first episodes in a
\* library does not make it available (guardrail 14a).  That is so of every Resync,
\* and of an hourly run whose Sonarr arm was not skipped: a run that has not found
\* Sonarr's instances asks nobody.
ListedSeriesIsHeld ==
    [][\A r \in LibraryMarks :
         /\ TitleOf[r] \in Series
         /\ run' # run => TitleOf[r] \in run.gated
         => TitleOf[r] \in unlisted]_<<vars, evidence>>
=============================================================================
