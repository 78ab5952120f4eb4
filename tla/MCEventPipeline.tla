-------------------------- MODULE MCEventPipeline --------------------------
(* Instances of EventPipeline for TLC.  Transactions, jobs and cancel       *)
(* requests are interchangeable.                                           *)
EXTENDS EventPipeline, TLC

Symmetry == Permutations(Tx) \cup Permutations(Job) \cup Permutations(Call)
============================================================================
