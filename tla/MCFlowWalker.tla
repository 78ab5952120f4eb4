----------------------------- MODULE MCFlowWalker -----------------------------
(* Instances of FlowWalker for TLC.                                            *)
EXTENDS FlowWalker

CONSTANTS v0, v1, v2, v3, v4

(* Below the node v1 there is a diamond with an isolated side, a back edge and  *)
(* the handles of an if, under every choice of types from the kinds given.     *)
Types(A, B, C, D) ==
    {f \in [Node -> A \cup B \cup C \cup D \cup {"source"}] :
       f[v0] = "source" /\ f[v1] \in A /\ f[v2] \in B /\ f[v3] \in C /\ f[v4] \in D}
Diamond(side) ==
    {<<v0, "plain", v1>>, <<v1, "true", v2>>, <<v1, side, v3>>,
     <<v2, "plain", v4>>, <<v3, "plain", v4>>, <<v4, "plain", v1>>}
Graphs(types, sides) ==
    {[type |-> f, edge |-> Diamond(h), start |-> v0] : f \in types, h \in sides}

(* One pipeline, with every kind of node.                                      *)
Wide == Graphs(Types({"processor", "transform", "if", "switch", "effect"},
                     {"processor", "transform", "publishMap", "stop"},
                     {"transform", "processor", "rule", "schema"},
                     {"publish", "publishMap", "processor", "stop"}),
               {"isolated", "default", "plain"})
(* Two pipelines, one after the other.                                         *)
Narrow == Graphs(Types({"processor", "rule"}, {"transform"}, {"effect"}, {"publish"}),
                 {"isolated"})

Walked == {<<g>> : g \in Wide} \cup {<<g, h>> : g \in Narrow, h \in Narrow}
=============================================================================
