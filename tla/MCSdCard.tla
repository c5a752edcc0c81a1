------------------------------ MODULE MCSdCard ------------------------------
(* Instances of SdCard: two cards that can be exchanged for one another.   *)
EXTENDS SdCard
=============================================================================
