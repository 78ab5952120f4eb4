------------------------------ MODULE Delivery ------------------------------
(***************************************************************************)
(* What the event pipeline promises while the process stays up: every      *)
(* arrival and every reprocess request grants a transaction one delivery   *)
(* to Salesforce; deliveries happen only while the transaction is open;    *)
(* once it settles nothing happens to it until it is admitted again.       *)
(***************************************************************************)
EXTENDS Naturals

CONSTANT Tx

VARIABLES phase, granted, delivered

TypeOK ==
    /\ phase \in [Tx -> {"unknown", "open", "settled"}]
    /\ granted \in [Tx -> Nat]
    /\ delivered \in [Tx -> Nat]

Init ==
    /\ phase = [t \in Tx |-> "unknown"]
    /\ granted = [t \in Tx |-> 0]
    /\ delivered = [t \in Tx |-> 0]

Admit(t) ==
    /\ phase' = [phase EXCEPT ![t] = "open"]
    /\ granted' = [granted EXCEPT ![t] = @ + 1]
    /\ UNCHANGED delivered

Deliver(t) ==
    /\ phase[t] = "open"
    /\ delivered[t] < granted[t]
    /\ delivered' = [delivered EXCEPT ![t] = @ + 1]
    /\ UNCHANGED <<phase, granted>>

(* A crash of the in-process broker settles every open transaction at once. *)
Settle(T) ==
    /\ T # {} /\ \A t \in T : phase[t] = "open"
    /\ phase' = [t \in Tx |-> IF t \in T THEN "settled" ELSE phase[t]]
    /\ UNCHANGED <<granted, delivered>>

Next ==
    \/ \E t \in Tx : Admit(t) \/ Deliver(t)
    \/ \E T \in SUBSET Tx : Settle(T)

Spec == Init /\ [][Next]_<<phase, granted, delivered>>
=============================================================================
