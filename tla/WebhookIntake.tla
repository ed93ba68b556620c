---------------------------- MODULE WebhookIntake ----------------------------
(***************************************************************************)
(* How a Download delivery of Radarr or Sonarr is let in: its digest is    *)
(* recorded before the handler runs (insert, or renew if the old record    *)
(* has expired), and withdrawn when the handler throws, so that the        *)
(* sender's retry is handled.  Inside, the handler flips the requests      *)
(* (ArrWebhooks models that) and goes through the grab.                    *)
(*                                                                         *)
(* A payload is one digest; the deliveries of one payload are a delivery   *)
(* and its retries.  Payloads are recorded for a day, far longer than any  *)
(* handler runs.                                                           *)
(***************************************************************************)
EXTENDS GrabNotices

CONSTANTS Payloads, Payload   \* the payload of each delivery

ASSUME IntakeAssumption == Payload \in [Deliveries -> Payloads]

VARIABLES
    ledger,   \* the WebhookReplay table
    post,     \* the handler of each delivery
    handled   \* history: handlings since the payload was last recorded anew

intakeVars == <<ledger, post, handled>>

Inside == {"flip", "grabs", "undo"}

IntakeTypeOK ==
    /\ ledger \in [Payloads -> {"none", "live", "expired"}]
    /\ post \in [Deliveries -> Inside \cup {"off", "ready", "renew", "ok", "failed",
                                            "refused", "lost"}]
    /\ handled \in [Payloads -> Nat]

\* The deliveries of D are about to be posted; a payload of P may have been posted before.
IntakeInit(D, P) ==
    /\ ledger \in {l \in [Payloads -> {"none", "expired"}] :
                     \A p \in Payloads : l[p] = "expired" => p \in P}
    /\ post = [d \in Deliveries |-> IF d \in D THEN "ready" ELSE "off"]
    /\ handled = [p \in Payloads |-> 0]

Goes(d, pc) == post' = [post EXCEPT ![d] = pc]

-----------------------------------------------------------------------------
(* checkAndRecordDigest *)

\* The insert either makes the row or finds it.
Record(d) ==
    LET p == Payload[d] IN
    /\ post[d] = "ready"
    /\ IF ledger[p] = "none"
       THEN ledger' = [ledger EXCEPT ![p] = "live"] /\ Goes(d, "flip")
       ELSE Goes(d, "renew") /\ UNCHANGED ledger
    /\ UNCHANGED handled

\* Mutated form: the update renews any record.
RenewableAnyway(p) == ledger[p] # "none"

Renewable(p) == ledger[p] = "expired"

\* updateMany({where: {digest, expiresAt: {lte: now}}}): no row, no handling.
Renew(d) ==
    LET p == Payload[d] IN
    /\ post[d] = "renew"
    /\ IF Renewable(p)
       THEN ledger' = [ledger EXCEPT ![p] = "live"] /\ Goes(d, "flip")
       ELSE Goes(d, "refused") /\ UNCHANGED ledger
    /\ UNCHANGED handled

\* A day has passed since the record was made.
ExpireRecord(p) ==
    /\ ledger[p] = "live"
    /\ \A d \in Deliveries : Payload[d] = p => post[d] \notin Inside
    /\ ledger' = [ledger EXCEPT ![p] = "expired"]
    /\ handled' = [handled EXCEPT ![p] = 0]
    /\ UNCHANGED post

\* Any delivery let in may delete the records that have expired.
Reap ==
    /\ \E d \in Deliveries : post[d] \in Inside
    /\ \E p \in Payloads : ledger[p] = "expired"
    /\ ledger' = [p \in Payloads |-> IF ledger[p] = "expired" THEN "none" ELSE ledger[p]]
    /\ UNCHANGED <<post, handled>>

-----------------------------------------------------------------------------
(* The handler *)

Flip(d) ==
    /\ post[d] = "flip"
    /\ Goes(d, "grabs")
    /\ UNCHANGED <<ledger, handled>>

AtGrab(d) ==
    /\ post[d] = "grabs"
    /\ GrabStep(d)

Answer(d) ==
    /\ post[d] = "grabs" /\ carrier[d] = "done"
    /\ Goes(d, "ok")
    /\ handled' = [handled EXCEPT ![Payload[d]] = @ + 1]
    /\ UNCHANGED ledger

\* A statement of the handler throws: the digest is to be withdrawn.
Throw(d) ==
    /\ post[d] \in {"flip", "grabs"}
    /\ Goes(d, "undo")
    /\ UNCHANGED <<ledger, handled>>

Withdraw(d) == ledger' = [ledger EXCEPT ![Payload[d]] = "none"]

\* clearWebhookReplayDigestJson; the delete may fail too, and is only logged.
Undo(d) ==
    /\ post[d] = "undo"
    /\ Withdraw(d) \/ UNCHANGED ledger
    /\ Goes(d, "failed")
    /\ UNCHANGED handled

\* A restart: what a lost handler recorded stays recorded.
LosePosts ==
    /\ post' = [d \in Deliveries |-> IF post[d] \in Inside \cup {"renew"} THEN "lost"
                                     ELSE post[d]]
    /\ UNCHANGED <<ledger, handled>>

-----------------------------------------------------------------------------

HandlersOf(p) == {d \in Deliveries : Payload[d] = p /\ post[d] \in Inside}

\* Within a day one payload is handled once: by the delivery or by one of its
\* retries, never by two at once and never again after it was handled, however
\* inserts, renewals, withdrawals and restarts interleave.
HandledOnce ==
    \A p \in Payloads :
       /\ handled[p] <= 1
       /\ \A d, e \in HandlersOf(p) : d = e /\ handled[p] = 0
=============================================================================
