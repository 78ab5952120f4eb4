--------------------------- MODULE MCCometDStreams ---------------------------
(* Instances of CometDStreams for TLC.  Orgs, managers and requests are      *)
(* interchangeable.                                                          *)
EXTENDS CometDStreams, TLC

StreamSymmetry == Permutations(Org) \cup Permutations(Mgr) \cup Permutations(Req)
============================================================================
