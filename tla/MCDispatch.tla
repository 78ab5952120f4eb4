------------------------------ MODULE MCDispatch ------------------------------
(* Instances of Dispatch for TLC.                                              *)
EXTENDS Dispatch, TLC

CONSTANTS s1, s2, a1, o1, k1

SinkOf(trigger, alertOnly) ==
    [enabled |-> TRUE, alertOnly |-> alertOnly, trigger |-> trigger, known |-> TRUE,
     org |-> o1, project |-> None, secret |-> k1, last |-> None]
RuleOf(scope, target) ==
    [enabled |-> TRUE, scope |-> scope, trigger |-> "on_failure", sink |-> target, org |-> None,
     project |-> None, last |-> None]

SinkRows == {SinkOf("always", FALSE), SinkOf("on_failure", FALSE),
             [SinkOf("on_success", FALSE) EXCEPT !.enabled = FALSE]}
AlertRows == {RuleOf("transaction", s1), RuleOf("integration_failed", s2)}

(* One sink that fails until its circuit opens, with many dispatches; or two,  *)
(* of which the second hears of failures and delivers the alert, and an        *)
(* administrator.                                                              *)
Systems ==
    {[sinks |-> (s1 :> SinkOf("always", FALSE)) @@ (s2 :> None),
      rules |-> (a1 :> None), budget |-> 0, jobs |-> 4],
     [sinks |-> (s1 :> SinkOf("always", FALSE)) @@ (s2 :> None),
      rules |-> (a1 :> None), budget |-> 1, jobs |-> 1],
     [sinks |-> (s1 :> SinkOf("always", FALSE)) @@ (s2 :> SinkOf("on_failure", FALSE)),
      rules |-> (a1 :> RuleOf("integration_failed", s2)), budget |-> 1, jobs |-> 1],
     [sinks |-> (s1 :> SinkOf("always", FALSE)) @@ (s2 :> SinkOf("on_failure", FALSE)),
      rules |-> (a1 :> RuleOf("integration_failed", s2)), budget |-> 0, jobs |-> 2]}

Tx(status) == [status |-> status, error |-> status = "failed", org |-> o1, project |-> None]
Jobs == {[tx |-> Tx("failed"), route |-> {}, alerts |-> None],
         [tx |-> Tx("published"), route |-> None, alerts |-> {a1}]}

=============================================================================
