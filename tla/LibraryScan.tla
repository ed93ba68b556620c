----------------------------- MODULE LibraryScan -----------------------------
(***************************************************************************)
(* The coalescing of library scans of one media type.  Whoever wants a     *)
(* scan waits for the running one, or joins the pending one and puts its   *)
(* timer back, or makes a new entry.  When the timer fires, runScan asks   *)
(* Radarr/Sonarr whether the download is still in the queue, puts the scan *)
(* off a bounded number of times, and then scans and answers everybody.    *)
(*                                                                         *)
(* A timer's handle is a number no live timer or waiting runScan has; a    *)
(* bound: no timer is set while none is left, and a burst leaves one.      *)
(* Which title or instance the queue check asks about only tunes its       *)
(* answer, which is any answer here.                                       *)
(***************************************************************************)
EXTENDS Integers, FiniteSets

CONSTANTS
    Callers,      \* those who wait for a scan they asked for
    MaxRetries,   \* times a scan is put off
    Handles,      \* handles of timers
    NoEntry

\* A pending scan; late once it is older than the longest wait.
ScanEntry == [timer : Handles, retries : 0..MaxRetries, late : BOOLEAN]

ASSUME ScanAssumption ==
    /\ MaxRetries \in Nat
    /\ Handles \subseteq Nat
    /\ NoEntry \notin ScanEntry

VARIABLES
    entry,      \* the pending scan, or NoEntry
    live,       \* timers that have not fired
    checking,   \* handles of the timers whose runScan waits for the queue check
    inFlight,   \* does a running scan answer for new callers?
    scans,      \* scans running on the media servers
    caller,
    bursts      \* has anybody else asked for a scan? (calls nobody waits for)

scanVars == <<entry, live, checking, inFlight, scans, caller, bursts>>

ScanTypeOK ==
    /\ entry \in ScanEntry \cup {NoEntry}
    /\ live \subseteq Handles
    /\ checking \subseteq Handles
    /\ inFlight \in BOOLEAN
    /\ scans \in Nat
    /\ caller \in [Callers -> {"off", "booked", "ready", "entry", "scan", "served"}]
    /\ bursts \in BOOLEAN

\* B: do calls nobody waits for come?
ScanInit(B) ==
    /\ entry = NoEntry /\ live = {} /\ checking = {} /\ inFlight = FALSE /\ scans = 0
    /\ caller = [c \in Callers |-> "off"]
    /\ bursts = B

-----------------------------------------------------------------------------
(* scheduleLibraryScan *)

Unused == Handles \ (live \cup checking
                     \cup (IF entry = NoEntry THEN {} ELSE {entry.timer}))
Handle == CHOOSE h \in Unused : \A i \in Unused : h <= i

\* Mutated form: a running scan is not noticed.
NeverRunning == FALSE

Running == inFlight

\* Whom the caller's promise belongs to: the running scan, or the entry.
JoinRunning == Running /\ UNCHANGED <<entry, live>>

\* Past the longest wait the running timer is left alone.
JoinPending ==
    /\ ~Running /\ entry # NoEntry /\ Unused # {}
    /\ IF entry.late THEN UNCHANGED <<entry, live>>
       ELSE /\ live' = (live \ {entry.timer}) \cup {Handle}
            /\ entry' = [entry EXCEPT !.timer = Handle]

NewEntry ==
    /\ ~Running /\ entry = NoEntry /\ Unused # {}
    /\ live' = live \cup {Handle}
    /\ entry' = [timer |-> Handle, retries |-> 0, late |-> FALSE]

\* A webhook defers the task that wants a scan; it begins after the response.
Book(c) == caller' = [caller EXCEPT ![c] = "booked"]
Wake(c) == caller' = [caller EXCEPT ![c] = IF @ = "booked" THEN "ready" ELSE @]

AskScan(c) ==
    /\ caller[c] = "ready"
    /\ \/ JoinRunning /\ caller' = [caller EXCEPT ![c] = "scan"]
       \/ (JoinPending \/ NewEntry) /\ caller' = [caller EXCEPT ![c] = "entry"]
    /\ UNCHANGED <<checking, inFlight, scans, bursts>>

\* One more webhook of a burst.
Burst ==
    /\ bursts /\ \E h \in Unused : h # Handle
    /\ JoinPending \/ NewEntry
    /\ UNCHANGED <<checking, inFlight, scans, caller, bursts>>

\* The entry is older than the longest wait.
Late ==
    /\ entry # NoEntry /\ ~entry.late
    /\ entry' = [entry EXCEPT !.late = TRUE]
    /\ UNCHANGED <<live, checking, inFlight, scans, caller, bursts>>

-----------------------------------------------------------------------------
(* runScan *)

\* The entry exists whenever one of its timers fires, or it was scanned already.
TimerFires(h) ==
    /\ h \in live
    /\ live' = live \ {h}
    /\ checking' = IF entry = NoEntry THEN checking ELSE checking \cup {entry.timer}
    /\ UNCHANGED <<entry, inFlight, scans, caller, bursts>>

\* Ownership, on the timer: a schedule during the check has armed another one.
Owns(h) == entry # NoEntry /\ entry.timer = h

StandDown(h) ==
    /\ h \in checking /\ ~Owns(h)
    /\ checking' = checking \ {h}
    /\ UNCHANGED <<entry, live, inFlight, scans, caller, bursts>>

\* Mutated form: an unreadable queue puts the scan off again and again.
PutOffForever == TRUE

MayPutOff == entry.retries < MaxRetries

\* Still in the queue, or the queue cannot be read.
PutOff(h) ==
    /\ h \in checking /\ Owns(h)
    /\ MayPutOff /\ Unused # {}
    /\ live' = (live \ {entry.timer}) \cup {Handle}
    /\ entry' = [entry EXCEPT !.timer = Handle,
                              !.retries = IF @ < MaxRetries THEN @ + 1 ELSE @]
    /\ checking' = checking \ {h}
    /\ UNCHANGED <<inFlight, scans, caller, bursts>>

\* The scan starts: those waiting for the entry now wait for the scan.
StartScan(h) ==
    /\ h \in checking /\ Owns(h)
    /\ checking' = checking \ {h}
    /\ scans' = scans + 1
    /\ inFlight' = TRUE
    /\ entry' = NoEntry
    /\ caller' = [c \in Callers |-> IF caller[c] = "entry" THEN "scan" ELSE caller[c]]
    /\ UNCHANGED <<live, bursts>>

\* The media servers answered or failed: everybody is answered.
EndScan ==
    /\ scans > 0
    /\ scans' = scans - 1
    /\ inFlight' = FALSE
    /\ caller' = [c \in Callers |-> IF caller[c] = "scan" THEN "served" ELSE caller[c]]
    /\ UNCHANGED <<entry, live, checking, bursts>>

\* A restart: nobody waits any more.
LoseScans ==
    /\ entry' = NoEntry /\ live' = {} /\ checking' = {} /\ inFlight' = FALSE /\ scans' = 0
    /\ caller' = [c \in Callers |-> "off"]
    /\ UNCHANGED bursts

ScanStep ==
    \/ \E c \in Callers : AskScan(c)
    \/ Burst \/ Late \/ EndScan
    \/ \E h \in Handles : TimerFires(h) \/ StandDown(h) \/ PutOff(h) \/ StartScan(h)

ScanNext ==
    \/ ScanStep \/ LoseScans
    \/ \E c \in Callers : /\ Book(c) \/ Wake(c)
                          /\ UNCHANGED <<entry, live, checking, inFlight, scans, bursts>>

ScanSpec == (\E B \in BOOLEAN : ScanInit(B)) /\ [][ScanNext]_scanVars

-----------------------------------------------------------------------------

\* One scan of a media type runs at a time, although a schedule during the queue
\* check arms a second timer on the same entry and two runs of runScan overlap.
OneScan == scans <= 1

\* Every caller who asked for a scan is answered by one, although the queue may
\* never read as empty and webhooks may go on putting the timer back.
CallersServed == \A c \in Callers : caller[c] = "ready" ~> caller[c] \notin {"ready", "entry", "scan"}
=============================================================================
