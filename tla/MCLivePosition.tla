--------------------------- MODULE MCLivePosition ---------------------------
(***************************************************************************)
(* Three ways to run a live position: SmartHodler under refusals and       *)
(* failed transactions; a strategy without scale-ins whose stops may fill  *)
(* in the middle of a tick; and every kind of fault together.              *)
(***************************************************************************)
EXTENDS LivePosition

MCProfiles ==
    { [scaleIns |-> 2, max |-> 3,
       faults |-> {"place", "balance", "reject", "trigger", "persist", "cleanup"}],
      [scaleIns |-> 0, max |-> 3,
       faults |-> {"race", "place", "status", "balance", "reject"}],
      [scaleIns |-> 2, max |-> 2, faults |-> FaultKinds] }

ASSUME TheoremsApply == NoDust /\ Cooldown /\ ScaleInsForeseen
=============================================================================
