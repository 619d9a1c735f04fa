---------------------------- MODULE MCSlsWriter ----------------------------
(***************************************************************************)
(* Instances of SlsWriter for TLC, on which deadlock is checked: the sink  *)
(* may stop only when its layer, its handle and its writer are all done.   *)
(***************************************************************************)
EXTENDS SlsWriter

Finished ==
    /\ layer = "dropped"
    /\ handle \in {"returned", "dropped"}
    /\ writer = "gone"
    /\ UNCHANGED vars

MCSpec == Init /\ [][Next \/ Finished]_vars

MCFairSpec == MCSpec /\ Fairness
============================================================================
