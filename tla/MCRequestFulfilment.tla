------------------------ MODULE MCRequestFulfilment ------------------------
(* Small instances of RequestFulfilment: at most two requests of one title. *)
EXTENDS RequestFulfilment, TLC

CONSTANTS r1, r2, t1

OneTitle == [r \in Requests |-> t1]

\* The first requester has no preferred server, the second prefers Plex,
\* or Jellyfin, which no instance configures: the fallback tells them from Plex.
AnyAndPlex == [r \in Requests |-> IF r = r1 THEN "any" ELSE "plex"]

AnyAndJellyfin == [r \in Requests |-> IF r = r1 THEN "any" ELSE "jellyfin"]

\* Each request has a requester of its own, or one requester made them all.
OwnOwner  == [r \in Requests |-> r]
SameOwner == [r \in Requests |-> r1]

\* Two handlers, or two executions, differ in nothing but their name.
OneExecOrOther == Permutations(Executes)
OneDeskOrOther == Permutations(Desks)
=============================================================================
