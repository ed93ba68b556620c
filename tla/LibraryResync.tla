--------------------------- MODULE LibraryResync ---------------------------
(***************************************************************************)
(* The per-source Resync (POST /api/sync/plex and /api/sync/jellyfin): one *)
(* media server's library is fetched and stored, then the requests it      *)
(* holds are marked.  Nothing keeps it apart from the hourly run; the      *)
(* completeness gate and the claim are the only things they share.         *)
(*                                                                         *)
(* One resync per source at a time is modelled.  Unlike the hourly run it  *)
(* decides who was already told from its first snapshot.                   *)
(***************************************************************************)
EXTENDS RequestStore

CONSTANT Resyncs    \* the sources whose Resync somebody uses

ASSUME ResyncAssumption == Resyncs \subseteq Sources

VARIABLE resync

ResyncType ==
    [pc    : {"idle", "snap", "held", "claim", "finish"},
     seen  : SUBSET Titles,
     still : SUBSET Requests,    \* PENDING or APPROVED when read
     told  : SUBSET Requests,    \* of those, announced already
     cand  : SUBSET Requests,
     only  : SUBSET Requests,
     won   : SUBSET Requests]

IdleResync == [pc |-> "idle", seen |-> {}, still |-> {}, told |-> {},
               cand |-> {}, only |-> {}, won |-> {}]

ResyncTypeOK == resync \in [Resyncs -> ResyncType]

ResyncInit == resync = [s \in Resyncs |-> IdleResync]

\* One instance of the server, which may be one of several.
ResyncFetch(s) ==
    /\ resync[s].pc = "idle"
    /\ s \in Configured
    /\ \E part \in SUBSET library[s] :
         resync' = [resync EXCEPT ![s] = [IdleResync EXCEPT !.pc = "snap",
                                                            !.seen = part]]
    /\ UNCHANGED storeVars

ResyncSnap(s) ==
    /\ resync[s].pc = "snap"
    /\ LET still == {r \in WithStatus({"PENDING", "APPROVED"}) :
                       TitleOf[r] \in resync[s].seen}
       IN resync' = [resync EXCEPT ![s] = [@ EXCEPT !.pc = "held", !.still = still,
                                        !.told = {r \in still : rows[r].notified}]]
    /\ UNCHANGED storeVars

\* Mutated form: the gate read but not applied.
KeptUngated(S) == S

\* What Sonarr lists as wanted is held back, before the claim.
Kept(S) == {r \in S : TitleOf[r] \notin Series \cap wanted}

ResyncHeld(s) ==
    /\ resync[s].pc = "held"
    /\ LET kept == Kept(resync[s].still)
           new  == {r \in kept \ resync[s].told : Announces(s, r)}
       IN resync' = [resync EXCEPT ![s] = [@ EXCEPT !.pc = "claim", !.cand = new,
                                        !.only = kept \ new, !.still = {},
                                        !.told = {}, !.seen = {}]]
    /\ UNCHANGED storeVars

ResyncClaim(s) ==
    /\ resync[s].pc = "claim"
    /\ ClaimMarking(resync[s].cand)
    /\ resync' = [resync EXCEPT ![s] = [@ EXCEPT !.pc = "finish", !.cand = {},
                                     !.won = {r \in resync[s].cand : Markable(rows[r])}]]
    /\ UNCHANGED <<sent, wanted, avail, outside>>

ResyncFinish(s) ==
    /\ resync[s].pc = "finish"
    /\ rows' = [r \in Requests |->
                  CASE r \in resync[s].won -> Disarmed(rows[r])
                    [] r \in resync[s].only /\ Forward(rows[r]) -> Arrived(rows[r])
                    [] OTHER -> rows[r]]
    /\ Deliver(resync[s].won)
    /\ resync' = [resync EXCEPT ![s] = IdleResync]
    /\ UNCHANGED <<wanted, avail, outside>>

ResyncLost(s) ==
    /\ resync[s].pc # "idle"
    /\ resync' = [resync EXCEPT ![s] = IdleResync]
    /\ UNCHANGED storeVars

ResyncStep ==
    \E s \in Resyncs : \/ ResyncFetch(s) \/ ResyncSnap(s) \/ ResyncHeld(s)
                       \/ ResyncClaim(s) \/ ResyncFinish(s) \/ ResyncLost(s)
=============================================================================
