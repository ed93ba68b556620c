---------------------------- MODULE RequestBoard ----------------------------
(***************************************************************************)
(* What Summonarr promises about a request, whoever moves it:              *)
(*                                                                         *)
(*  - it moves along the edges below and no other.  In particular a        *)
(*    declined request becomes AVAILABLE only through an admin, and an     *)
(*    AVAILABLE one is never declined or sent back to the queue;           *)
(*  - its requester is told that it is available at most once, only after  *)
(*    somebody claimed the right to say so, and nobody claims it for a     *)
(*    request that never was available.                                    *)
(*                                                                         *)
(* A statement may move several requests at once.                          *)
(***************************************************************************)
EXTENDS Integers

CONSTANT Requests

VARIABLES status, claimed, told, reached

boardVars == <<status, claimed, told, reached>>

States == {"NONE", "PENDING", "APPROVED", "DECLINED", "AVAILABLE", "GONE"}

Edges ==
    {<<"NONE", "PENDING">>, <<"NONE", "APPROVED">>, <<"NONE", "AVAILABLE">>,
     <<"PENDING", "APPROVED">>, <<"PENDING", "DECLINED">>,
     <<"PENDING", "AVAILABLE">>, <<"PENDING", "GONE">>,
     <<"APPROVED", "PENDING">>, <<"APPROVED", "DECLINED">>,
     <<"APPROVED", "AVAILABLE">>, <<"APPROVED", "GONE">>,
     <<"DECLINED", "PENDING">>, <<"DECLINED", "APPROVED">>, <<"DECLINED", "GONE">>,
     <<"AVAILABLE", "APPROVED">>, <<"AVAILABLE", "GONE">>}

BoardInit ==
    /\ status \in [Requests -> States \ {"DECLINED", "GONE"}]
    /\ claimed = [r \in Requests |-> FALSE]
    /\ told = [r \in Requests |-> 0]
    /\ reached = {r \in Requests : status[r] = "AVAILABLE"}

Move(r) == status'[r] = status[r] \/ <<status[r], status'[r]>> \in Edges

\* Nobody gives a claim back.
Claim(r) == \/ claimed'[r] = claimed[r]
            \/ claimed'[r] /\ r \in reached'

Tell(r) == \/ told'[r] = told[r]
           \/ claimed[r] /\ told[r] = 0 /\ told'[r] = 1

BoardNext ==
    /\ \A r \in Requests : Move(r) /\ Claim(r) /\ Tell(r)
    /\ reached' = reached \cup {r \in Requests : status'[r] = "AVAILABLE"}

BoardSpec == BoardInit /\ [][BoardNext]_boardVars
=============================================================================
