---------------------------- MODULE RequestStore ----------------------------
(***************************************************************************)
(* The state every part of Summonarr's request fulfilment shares:          *)
(*                                                                         *)
(*  - the MediaRequest table, one row per request;                         *)
(*  - the Radarr/Sonarr cache tables (wanted and available);               *)
(*  - what Radarr/Sonarr and Plex/Jellyfin really hold (external), and the *)
(*    webhook deliveries Radarr/Sonarr have sent and nobody has handled.   *)
(*                                                                         *)
(* A title stands for one key (tmdbId, mediaType, arrInstance).  A step of *)
(* a route is one SQL statement or one transaction: Postgres serialises    *)
(* those, and everything between two awaits of one handler is one step.    *)
(*                                                                         *)
(* The guards of the statements that write a row are operators of their    *)
(* own, so that every route that issues the statement uses the same one.   *)
(***************************************************************************)
EXTENDS Integers, FiniteSets

CONSTANTS
    Requests,    \* ids of MediaRequest rows, never reused
    Titles,      \* (tmdbId, mediaType, arrInstance) keys
    TitleOf,     \* the title of each request
    Series,      \* the titles that are TV
    Pin,         \* the requester's mediaServer preference, "any" for null
    Disabled,    \* the requests whose requester's account is deactivated
    Configured,  \* the media servers that are enabled and connected
    Executes,    \* Library-cleanup executions: the stamps they write
    None

Sources == {"plex", "jellyfin"}

ASSUME StoreAssumption ==
    /\ TitleOf \in [Requests -> Titles]
    /\ Series \subseteq Titles
    /\ Pin \in [Requests -> Sources \cup {"any"}]
    /\ Disabled \subseteq Requests
    /\ Configured \subseteq Sources
    /\ None \notin Executes

VARIABLES
    rows,      \* the MediaRequest table
    sent,      \* per request, the "now available" notifications sent so far
    wanted,    \* titles with a row in RadarrWantedItem / SonarrWantedItem
    avail,     \* titles with a row in RadarrAvailableItem / SonarrAvailableItem
    arr,       \* what Radarr/Sonarr really hold of each title
    library,   \* what each media server really holds
    mail       \* webhook deliveries sent and not yet handled

tables   == <<rows, sent, wanted, avail>>
outside  == <<arr, library, mail>>
storeVars == <<rows, sent, wanted, avail, arr, library, mail>>

-----------------------------------------------------------------------------
(* Types *)

\* "NONE": not created yet.  "GONE": deleted.
Statuses == {"NONE", "PENDING", "APPROVED", "DECLINED", "AVAILABLE", "GONE"}

Row == [status   : Statuses,
        notified : BOOLEAN,            \* notifiedAvailable
        armed    : BOOLEAN,            \* pendingNotifyAt is not null
        banned   : BOOLEAN,            \* permanentlyDeclined
        stamp    : Executes \cup {None}]  \* cleanedUpAt

\* For a series "wanted" is Sonarr's incomplete series: part of it may be on disk.
ArrStates == {"absent", "wanted", "complete"}

Events == [type : {"Download", "FileDelete", "Delete"}, title : Titles]

NewRow(status, armed) == [status |-> status, notified |-> FALSE, armed |-> armed,
                          banned |-> FALSE, stamp |-> None]

\* A deleted row is remembered for the flag it had.
Deleted(row) == [row EXCEPT !.status = "GONE", !.armed = FALSE, !.banned = FALSE,
                            !.stamp = None]

StoreTypeOK ==
    /\ rows \in [Requests -> Row]
    /\ sent \in [Requests -> 0..2]
    /\ wanted \subseteq Titles
    /\ avail \subseteq Titles
    /\ arr \in [Titles -> ArrStates]
    /\ library \in [Sources -> SUBSET Titles]
    /\ mail \subseteq Events

\* A table of fresh rows with statuses of S (an approval arms the backstop), before
\* the first sync, whatever Radarr/Sonarr and the media servers hold.
StoreInit(S) ==
    /\ rows \in [Requests -> {NewRow(s, s = "APPROVED") : s \in S}]
    /\ sent = [r \in Requests |-> 0]
    /\ wanted = {} /\ avail = {} /\ mail = {}
    /\ arr \in [Titles -> ArrStates]
    /\ library \in [Sources -> SUBSET Titles]
    /\ \A s \in Sources \ Configured : library[s] = {}

-----------------------------------------------------------------------------
(* Reading the table *)

WithStatus(S) == {r \in Requests : rows[r].status \in S}
RowsOf(t)     == {r \in Requests : TitleOf[r] = t}
Exists(r)     == rows[r].status \notin {"NONE", "GONE"}

\* mediaServer preference: is s the server that may announce r's title?
Announces(s, r) == Pin[r] \in {"any", s}

\* Mutated form: a requester without a preference waits for every server.
ToldByEvery(r, seen, unusable) == seen = Sources

\* Should r's requester be told, given the servers seen to hold the title and
\* the servers that cannot prove presence either way?
ShouldNotify(r, seen, unusable) ==
    CASE Pin[r] = "any"      -> seen # {} \/ unusable = Sources
      [] Pin[r] = "plex"     -> \/ "plex" \in seen
                                \/ "plex" \in unusable
                                   /\ ("jellyfin" \in seen \cup unusable)
      [] Pin[r] = "jellyfin" -> \/ "jellyfin" \in seen
                                \/ "jellyfin" \in unusable
                                   /\ ("plex" \in seen \cup unusable)

-----------------------------------------------------------------------------
(* Guards of the statements, and the statements *)

\* Mutated forms of the guards below: each drops one conjunct of a WHERE.
MarkableWithoutFlag(row)    == row.status \in {"PENDING", "APPROVED"}
DemotableDespiteStamp(row)  == row.status = "AVAILABLE"
ArrivedStillArmed(row)      == [row EXCEPT !.status = "AVAILABLE"]
AnnounceableTwice(row)      == row.status = "AVAILABLE"
ArrivedAsImported(row)      == [row EXCEPT !.status = "IMPORTED", !.armed = FALSE]

\* The claim of claimAvailableNotifications with markAvailable.
Markable(row) == ~row.notified /\ row.status \in {"PENDING", "APPROVED"}
Marked(row)   == [row EXCEPT !.status = "AVAILABLE", !.notified = TRUE]

\* The claim with requireStatusAvailable.
Announceable(row) == ~row.notified /\ row.status = "AVAILABLE"
Announced(row)    == [row EXCEPT !.notified = TRUE]

\* The flips that announce nothing: toMarkOnly, alreadyNotified, catch-up.
Forward(row)  == row.status \in {"PENDING", "APPROVED"}
Arrived(row)  == [row EXCEPT !.status = "AVAILABLE", !.armed = FALSE]

\* The webhook's flip.
Imported(row) == row.status = "APPROVED"

\* The AVAILABLE -> APPROVED demotion.
Demotable(row) == row.status = "AVAILABLE" /\ row.stamp = None
Demoted(row)   == [row EXCEPT !.status = "APPROVED", !.armed = FALSE]

\* runDownloadCheck consumes the 90-second backstop.
Consumable(row) == row.status = "APPROVED" /\ row.armed
Disarmed(row)   == [row EXCEPT !.armed = FALSE]

\* The rollback of an approval whose push failed.
RollbackAllowed(row) == row.status = "APPROVED"
RolledBack(row)      == [row EXCEPT !.status = "PENDING", !.armed = FALSE]

\* The statement clearing the stamps one cleanup execution wrote.
UnstampOwn(e, row) == row.stamp = e

\* Requesters whose account is disabled keep the claim and get no message.
Deliver(S) == sent' = [r \in Requests |->
                          IF r \in S \ Disabled /\ sent[r] < 2
                          THEN sent[r] + 1 ELSE sent[r]]

\* claimAvailableNotifications(S, {markAvailable: true})
ClaimMarking(S) ==
    rows' = [r \in Requests |->
               IF r \in S /\ Markable(rows[r]) THEN Marked(rows[r]) ELSE rows[r]]

\* claimAvailableNotifications(S, {requireStatusAvailable: true})
ClaimAnnouncing(S) ==
    rows' = [r \in Requests |->
               IF r \in S /\ Announceable(rows[r])
               THEN Announced(rows[r]) ELSE rows[r]]
=============================================================================
