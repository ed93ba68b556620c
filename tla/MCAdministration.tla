-------------------------- MODULE MCAdministration --------------------------
(* Small casts of RequestFulfilment in one run: who is not in the cast never moves. *)
EXTENDS MCRequestFulfilment

CONSTANTS a1, a2

VARIABLE cast

\* Two admins decide on one request, from its creation on, beside the hourly run.
Colleagues == [creates |-> {r2}, desks |-> {a1, a2}, syncs |-> TRUE]

\* One requester creates two requests of one title, one of them approved at once, and
\* an admin decides.
Twins == [creates |-> {r1, r2}, desks |-> {a1}, syncs |-> FALSE]

CastInit == Init /\ cast \in {Colleagues, Twins}

CastNext ==
    /\ Next
    /\ \A r \in Requests \ cast.creates : intake'[r] = intake[r]
    /\ \A a \in Desks \ cast.desks : desk'[a] = desk[a]
    /\ cast.syncs \/ run' = run
    /\ UNCHANGED cast

CastSpec == CastInit /\ [][CastNext]_<<vars, cast>>

AnyPin == [r \in Requests |-> "any"]
=============================================================================
