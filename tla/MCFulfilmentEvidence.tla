------------------------ MODULE MCFulfilmentEvidence ------------------------
(* The instances of MCRequestFulfilment with the observer. *)
EXTENDS MCRequestFulfilment, FulfilmentEvidence
=============================================================================
