------------------------ MODULE MCFulfilmentLiveness ------------------------
(* The instances of MCRequestFulfilment under fairness, with one requester more. *)
EXTENDS MCRequestFulfilment, FulfilmentLiveness

CONSTANT r3

\* No preferred server; Plex; Jellyfin, which no instance configures.
EachPin ==
    [r \in Requests |-> CASE r = r1 -> "any" [] r = r2 -> "plex" [] OTHER -> "jellyfin"]
=============================================================================
