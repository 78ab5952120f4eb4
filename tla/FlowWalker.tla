------------------------------ MODULE FlowWalker ------------------------------
(* flow_walker.run_flow_graph: the depth-first walk of a saved Event Flow      *)
(* graph, and the part of the inbound worker that runs one walk per enabled    *)
(* pipeline (worker.py 529-605).                                               *)
(*                                                                             *)
(* A result is named by the node that produced it (None: no result yet), a     *)
(* published body by the publishMap node that mapped it and the result it was  *)
(* made of.  Which branch, gate answer or failure a node meets is any the code *)
(* allows.  The recursion of visit() is the variable stack; integration and    *)
(* alert nodes are "effect", which reads the context and leaves it alone.      *)
EXTENDS Naturals, Sequences, FiniteSets, SequencesExt

CONSTANTS
    None,       \* no result, no body, no request
    Node,       \* the node ids of the graphs
    Events,     \* the sequences of graphs an event may have to run
    MaxPipes,   \* bound: pipelines of one event
    MaxCancels, \* bound: cancel requests
    Faults      \* {"broker"} when the broker may refuse a message

Type == {"source", "schema", "rule", "processor", "transform", "publishMap",
         "if", "switch", "effect", "publish", "stop"}
Handle == {"plain", "isolated", "true", "false", "default"}

(* type: the type of each node; edge: triples source, handle, target (several  *)
(* edges of one kind between two nodes are one); start: the source node.       *)
Graph == [type : [Node -> Type], edge : SUBSET (Node \X Handle \X Node),
          start : Node]

ASSUME EventsAssumption ==
    /\ MaxPipes \in Nat /\ MaxCancels \in Nat
    /\ None \notin Node
    /\ \A e \in Events : /\ e \in Seq(Graph)
                         /\ Len(e) \in 1..MaxPipes

VARIABLES
    pipes,  \* the graphs to run, in order
    at,     \* 0: the message waits; 1..Len(pipes): the walk that runs; then over
    lost,   \* the handler ended with an exception
    ctx,    \* the context of the running walk
    stack,  \* the activations of visit() and run_isolated(), the last on top
    rows,   \* transactions: 0 the event's, i the child of pipeline i
    kids,   \* transactions of the isolated branches of the running walk
    out,    \* what was handed to the outbound publisher
    ask,    \* a cancel request between its read and its write
    cancels \* cancel requests so far

vars == <<pipes, at, lost, ctx, stack, rows, kids, out, ask, cancels>>
asking == <<ask, cancels>>

Status == {"absent", "queued", "processing", "processed", "failed", "skipped",
           "cancelled"}
Value == Node \cup {None}
Body == [map : Value, of : Value]

-----------------------------------------------------------------------------
(* The graph of the running walk.                                            *)
G == pipes[at]
Is(n, t) == G.type[n] = t
Out(n, handles) == {m \in Node : \E h \in handles : <<n, h, m>> \in G.edge}
Publishes(ns) == {m \in ns : Is(m, "publish")}

(* The transaction the running walk belongs to: the event's own when there   *)
(* is one pipeline.                                                          *)
Tx == IF Len(pipes) = 1 THEN 0 ELSE at

(* _WALK_RANK, with 6 for the types it does not name.                        *)
Rank(n) ==
    LET rank == [source |-> 6, schema |-> 0, rule |-> 1, processor |-> 2,
                 transform |-> 3, publishMap |-> 4, if |-> 5, switch |-> 5,
                 effect |-> 8, publish |-> 9, stop |-> 10]
    IN rank[G.type[n]]
(* The targets that _ordered may put first: ties keep the order in which the *)
(* edges were drawn, which may be any.                                       *)
First(ns) == {n \in ns : \A m \in ns : Rank(n) <= Rank(m)}

(* An activation.  "loop": the edges at the end of visit(), todo the         *)
(* continuing ones and side the isolated ones.  "transform" and "child":     *)
(* a scope that gives the result back when it ends.  "branch": the chosen    *)
(* edges of an if or switch, in any order.                                   *)
Frame == [kind : {"loop", "branch", "transform", "child"}, node : Value,
          todo : SUBSET Node, side : SUBSET Node, saved : Value, kid : Nat]
Loop(n, todo, side) ==
    [kind |-> "loop", node |-> n, todo |-> todo, side |-> side,
     saved |-> None, kid |-> 0]
(* The scopes among some activations, and those that are running.            *)
Within(frames) == {<<frames[i].node, frames[i].kid>> :
    i \in {j \in DOMAIN frames : frames[j].kind \in {"transform", "child"}}}
Scopes == Within(stack)

(* The context of a walk, three of its fields history: executions of a node, *)
(* the edges it followed, the scopes its result was made in.                 *)
Context == [result : Value, body : Body \cup {None}, aborted : BOOLEAN,
            stopped : BOOLEAN, deferred : SUBSET Node, done : SUBSET Node,
            visited : SUBSET Node, busy : Value, runs : [Node -> Nat],
            took : [Node -> SUBSET Node], scope : [Node -> SUBSET (Value \X Nat)]]
Fresh ==
    [result |-> None, body |-> None, aborted |-> FALSE, stopped |-> FALSE,
     deferred |-> {}, done |-> {}, visited |-> {}, busy |-> None,
     runs |-> [n \in Node |-> 0], took |-> [n \in Node |-> {}],
     scope |-> [n \in Node |-> {}]]

Table == [0..MaxPipes -> [status : Status, result : Value, cancel : BOOLEAN]]

TypeOK ==
    /\ pipes \in Seq(Graph) /\ Len(pipes) \in 1..MaxPipes
    /\ at \in 0..(Len(pipes) + 1) /\ lost \in BOOLEAN
    /\ ctx \in Context
    /\ stack \in Seq(Frame)
    /\ rows \in Table
    /\ kids \in Seq({"processing", "processed", "failed"})
    /\ out \subseteq [tx : 0..MaxPipes, node : Node, body : Body]
    /\ ask \in [tx : 0..MaxPipes, saw : {"queued", "running"}] \cup {None}
    /\ cancels \in 0..MaxCancels

Init ==
    /\ pipes \in Events
    /\ at = 0 /\ lost = FALSE
    /\ ctx = Fresh /\ stack = <<>> /\ kids = <<>> /\ out = {}
    /\ rows = [t \in 0..MaxPipes |->
                 [status |-> IF t = 0 THEN "queued" ELSE "absent",
                  result |-> None, cancel |-> FALSE]]
    /\ ask = None /\ cancels = 0

-----------------------------------------------------------------------------
(* The inbound handler (worker.py 529-605).                                  *)

Walks == at \in 1..Len(pipes) /\ ~lost

(* The walk of pipeline i begins with visit(start); several pipelines get a  *)
(* child transaction each.                                                   *)
Walk(i, table) ==
    /\ at' = i
    /\ ctx' = Fresh
    /\ stack' = IF i > Len(pipes) THEN <<>>
                ELSE <<[Loop(None, {pipes[i].start}, {}) EXCEPT !.kind = "branch"]>>
    /\ kids' = <<>>
    /\ rows' = IF i > Len(pipes) \/ Len(pipes) = 1 THEN table
               ELSE [table EXCEPT ![i].status = "queued"]

Take ==
    /\ at = 0
    /\ IF rows[0].status = "cancelled" THEN Walk(Len(pipes) + 1, rows)
       ELSE Walk(1, IF Len(pipes) = 1 THEN rows
                    ELSE [rows EXCEPT ![0].status = "processed"])
    /\ UNCHANGED <<pipes, lost, out, asking>>

-----------------------------------------------------------------------------
(* visit(): a node is executed when it is the next target of the activation  *)
(* on top, the walk is not aborted and the node was not visited before.      *)

Top == stack[Len(stack)]

(* Faulty: visited nodes are visited again.                                  *)
FaultyPending(f) == IF ctx.aborted THEN {} ELSE f.todo
(* The targets that visit() will not return from at once.                    *)
Pending(f) == IF ctx.aborted THEN {} ELSE f.todo \ ctx.visited

Visits(n, t) ==
    /\ Walks /\ stack # <<>> /\ ctx.busy = None
    /\ n \in IF Top.kind = "branch" THEN Pending(Top) ELSE First(Pending(Top))
    /\ Is(n, t)

Rest(n) == [stack EXCEPT ![Len(stack)].todo = @ \ {n}]
Visited(n, c) == [c EXCEPT !.visited = @ \cup {n}, !.runs[n] = @ + 1]
Made(n, c, scopes) == [c EXCEPT !.result = n, !.scope[n] = scopes]
Aborted(c) == [c EXCEPT !.aborted = TRUE]
Write(status) == [rows EXCEPT ![Tx].status = status]

(* The end of visit(): Publish targets are put off, whatever their edge; the *)
(* others are visited, isolated ones as child transactions.                  *)
Follow(n, c, base) ==
    LET plain == Out(n, Handle \ {"isolated"})
        apart == Out(n, {"isolated"})
        puts == Publishes(plain \cup apart)
    IN /\ ctx' = [c EXCEPT !.deferred = @ \cup puts,
                           !.took[n] = plain \cup apart]
       /\ stack' = Append(base, Loop(n, plain \ puts, apart \ puts))

(* source, and every node whose execution leaves the context alone.          *)
Pass(n) ==
    /\ \E t \in {"source", "effect", "schema", "rule"} : Visits(n, t)
    /\ Follow(n, Visited(n, ctx), Rest(n))
    /\ UNCHANGED <<pipes, at, lost, rows, kids, out, asking>>

(* A schema in mode reject, or the rule gate, refuses the payload.           *)
Refuse(n, status) ==
    /\ \/ Visits(n, "schema") /\ status = "failed"
       \/ Visits(n, "rule") /\ status \in {"failed", "skipped"}
    /\ ctx' = Aborted(Visited(n, ctx))
    /\ stack' = Rest(n)
    /\ rows' = IF status = "failed" THEN Write(status)
               ELSE [Write(status) EXCEPT ![Tx].result = n]
    /\ UNCHANGED <<pipes, at, lost, kids, out, asking>>

Process(n) ==
    /\ Visits(n, "processor")
    /\ ctx' = [Visited(n, ctx) EXCEPT !.busy = n]
    /\ stack' = Rest(n)
    /\ rows' = Write("processing")
    /\ UNCHANGED <<pipes, at, lost, kids, out, asking>>

Processed(n) ==
    /\ Walks /\ ctx.busy = n /\ n \in Node
    /\ Follow(n, [Made(n, ctx, Scopes) EXCEPT !.busy = None], stack)
    /\ rows' = [Write("processed") EXCEPT ![Tx].result = n]
    /\ UNCHANGED <<pipes, at, lost, kids, out, asking>>

(* Faulty: the walk goes on after a processor that raised.                   *)
FaultyProcessFailed(n) ==
    /\ Walks /\ ctx.busy = n /\ n \in Node
    /\ Follow(n, [ctx EXCEPT !.busy = None], stack)
    /\ rows' = Write("failed")
    /\ UNCHANGED <<pipes, at, lost, kids, out, asking>>

ProcessFailed(n) ==
    /\ Walks /\ ctx.busy = n /\ n \in Node
    /\ ctx' = [Aborted(ctx) EXCEPT !.busy = None]
    /\ rows' = Write("failed")
    /\ UNCHANGED <<pipes, at, lost, stack, kids, out, asking>>

(* A transform is a scope: the result it renders holds for the nodes below   *)
(* it.  Without a template, or without a result, it renders nothing new.     *)
Transform(n, renders) ==
    /\ Visits(n, "transform")
    /\ renders => ctx.result # None
    /\ LET targets == Out(n, Handle)
           inner == Append(Rest(n), [Loop(n, targets, {}) EXCEPT
                        !.kind = "transform", !.saved = ctx.result])
           c == [Visited(n, ctx) EXCEPT !.took[n] = targets]
       IN /\ stack' = inner
          /\ ctx' = IF renders THEN Made(n, c, Scopes \cup {<<n, 0>>}) ELSE c
          /\ rows' = [rows EXCEPT ![Tx].result = IF renders THEN n ELSE ctx.result]
    /\ UNCHANGED <<pipes, at, lost, kids, out, asking>>

(* A template that fails ends its branch and nothing else.                   *)
TransformFailed(n) ==
    /\ Visits(n, "transform")
    /\ ctx.result # None
    /\ ctx' = Visited(n, ctx)
    /\ stack' = Rest(n)
    /\ UNCHANGED <<pipes, at, lost, rows, kids, out, asking>>

Plain(value) == IF value = None THEN None ELSE [map |-> None, of |-> value]

(* The publish payload: the mapped result, or the result itself without a    *)
(* map or when mapping fails.                                                *)
MapPublish(n, maps) ==
    /\ Visits(n, "publishMap")
    /\ Follow(n, [Visited(n, ctx) EXCEPT
                    !.body = IF maps THEN [map |-> n, of |-> ctx.result]
                             ELSE Plain(ctx.result)], Rest(n))
    /\ UNCHANGED <<pipes, at, lost, rows, kids, out, asking>>

Stop(n) ==
    /\ Visits(n, "stop")
    /\ ctx' = [Aborted(Visited(n, ctx)) EXCEPT !.stopped = TRUE]
    /\ stack' = Rest(n)
    /\ rows' = IF rows[Tx].status \notin {"queued", "processing"} THEN rows
               ELSE [Write("skipped") EXCEPT ![Tx].result = ctx.result]
    /\ UNCHANGED <<pipes, at, lost, kids, out, asking>>

(* The targets an if or a switch may choose: an unmatched switch takes its   *)
(* default edges.                                                            *)
Targets(n) ==
    IF Is(n, "if") THEN {Out(n, {"true", "plain"}), Out(n, {"false"})}
    ELSE {IF Out(n, {h}) = {} THEN Out(n, {"default"}) ELSE Out(n, {h}) : h \in Handle}

Branch(n) ==
    /\ Visits(n, "if") \/ Visits(n, "switch")
    /\ \E targets \in Targets(n) :
          /\ ctx' = [Visited(n, ctx) EXCEPT !.took[n] = targets]
          /\ stack' = Append(Rest(n), [Loop(n, targets, {}) EXCEPT !.kind = "branch"])
    /\ UNCHANGED <<pipes, at, lost, rows, kids, out, asking>>

(* Faulty: a publish node reached by visit() itself is passed over.            *)
FaultyDefer(n) ==
    /\ Visits(n, "publish")
    /\ stack' = Rest(n)
    /\ UNCHANGED <<pipes, at, lost, ctx, rows, kids, out, asking>>

(* A publish node reached by visit() itself waits for the end of the walk.   *)
Defer(n) ==
    /\ Visits(n, "publish")
    /\ ctx' = [ctx EXCEPT !.deferred = @ \cup {n}]
    /\ stack' = Rest(n)
    /\ UNCHANGED <<pipes, at, lost, rows, kids, out, asking>>

-----------------------------------------------------------------------------
(* run_isolated(): the branch of an isolated edge, aborted or not.           *)
Isolate(n) ==
    /\ Walks /\ stack # <<>> /\ ctx.busy = None
    /\ Pending(Top) = {}
    /\ n \in First(Top.side)
    /\ kids' = Append(kids, "processing")
    /\ stack' = Append([stack EXCEPT ![Len(stack)].side = @ \ {n}],
                       [Loop(n, {n}, {}) EXCEPT !.kind = "child",
                           !.saved = ctx.result, !.kid = Len(kids) + 1])
    /\ UNCHANGED <<pipes, at, lost, ctx, rows, out, asking>>

(* Faulty: a scope that ends does not give the result back.                  *)
FaultyReturn ==
    /\ Walks /\ stack # <<>> /\ ctx.busy = None
    /\ Pending(Top) = {} /\ Top.side = {}
    /\ stack' = Front(stack)
    /\ kids' = IF Top.kind # "child" THEN kids
               ELSE [kids EXCEPT ![Top.kid] =
                       IF ctx.aborted /\ ~ctx.stopped THEN "failed" ELSE "processed"]
    /\ UNCHANGED <<pipes, at, lost, ctx, rows, out, asking>>

(* An activation that has no target left ends.  A transform restores the     *)
(* result, in the transaction too; an isolated branch closes its transaction *)
(* and restores it in the context.                                           *)
Return ==
    /\ Walks /\ stack # <<>> /\ ctx.busy = None
    /\ Pending(Top) = {} /\ Top.side = {}
    /\ stack' = Front(stack)
    /\ ctx' = IF Top.kind \in {"transform", "child"}
              THEN [ctx EXCEPT !.result = Top.saved] ELSE ctx
    /\ rows' = IF Top.kind = "transform"
               THEN [rows EXCEPT ![Tx].result = Top.saved] ELSE rows
    /\ kids' = IF Top.kind # "child" THEN kids
               ELSE [kids EXCEPT ![Top.kid] =
                       IF ctx.aborted /\ ~ctx.stopped THEN "failed" ELSE "processed"]
    /\ UNCHANGED <<pipes, at, lost, out, asking>>

-----------------------------------------------------------------------------
(* After the walk: the deferred publishes, then the last status.             *)

Ends == Walks /\ stack = <<>>
Offers(n) == Ends /\ ~ctx.aborted /\ n \in ctx.deferred \ ctx.done
Handled(n) == [ctx EXCEPT !.done = @ \cup {n}]

(* Faulty: a body is published only if a publishMap made one.                  *)
FaultyPublish(n) ==
    /\ Offers(n)
    /\ ctx' = Handled(n)
    /\ out' = out \cup {[tx |-> Tx, node |-> n, body |-> ctx.body]}
    /\ UNCHANGED <<pipes, at, lost, stack, rows, kids, asking>>

(* publish_channel hands a new transaction to the outbound publisher.        *)
Publish(n) ==
    /\ Offers(n)
    /\ ctx' = Handled(n)
    /\ out' = out \cup {[tx |-> Tx, node |-> n,
                         body |-> IF ctx.body # None THEN ctx.body
                                  ELSE [map |-> None, of |-> ctx.result]]}
    /\ UNCHANGED <<pipes, at, lost, stack, rows, kids, asking>>

(* The channel of the node is not set, disabled or not a publish channel.    *)
Unroutable(n) ==
    /\ Offers(n)
    /\ ctx' = Handled(n)
    /\ UNCHANGED <<pipes, at, lost, stack, rows, kids, out, asking>>

(* The broker refuses the message: the exception ends the handler, and the   *)
(* message counts as consumed.                                               *)
BrokerDown(n) ==
    /\ "broker" \in Faults
    /\ Offers(n)
    /\ lost' = TRUE
    /\ UNCHANGED <<pipes, at, ctx, stack, rows, kids, out, asking>>

(* Faulty: a row that no processor touched is forgotten.                       *)
FaultyFinalRow ==
    LET open == rows[Tx].status = "processing"
    IN [rows EXCEPT ![Tx].status = IF ~open THEN @
                                   ELSE IF ctx.stopped THEN "skipped" ELSE "processed",
                    ![Tx].result = IF open \/ ctx.result # None THEN ctx.result ELSE @]

(* The row keeps a status that some node or a cancel request gave it.        *)
FinalRow ==
    LET open == rows[Tx].status \in {"queued", "processing"}
        status == IF ~open THEN rows[Tx].status
                  ELSE IF ctx.stopped THEN "skipped" ELSE "processed"
    IN [rows EXCEPT ![Tx].status = status,
                    ![Tx].result = IF open \/ ctx.result # None THEN ctx.result ELSE @]

(* Faulty: the end waits for the publishes of an aborted walk.                 *)
FaultyFinish ==
    /\ Ends
    /\ ctx.deferred \subseteq ctx.done
    /\ Walk(at + 1, FinalRow)
    /\ UNCHANGED <<pipes, lost, out, asking>>

Finish ==
    /\ Ends
    /\ ctx.aborted \/ ctx.deferred \subseteq ctx.done
    /\ Walk(at + 1, FinalRow)
    /\ UNCHANGED <<pipes, lost, out, asking>>

-----------------------------------------------------------------------------
(* The cancel endpoint reads the row in one step and writes it in another.   *)
CancelRead(t) ==
    /\ ask = None /\ cancels < MaxCancels
    /\ rows[t].status \in {"queued", "processing", "processed"}
    /\ ask' = [tx |-> t, saw |-> IF rows[t].status = "queued" THEN "queued" ELSE "running"]
    /\ cancels' = cancels + 1
    /\ UNCHANGED <<pipes, at, lost, ctx, stack, rows, kids, out>>

CancelWrite ==
    /\ ask # None
    /\ rows' = IF ask.saw = "queued" THEN [rows EXCEPT ![ask.tx].status = "cancelled"]
               ELSE [rows EXCEPT ![ask.tx].cancel = TRUE]
    /\ ask' = None
    /\ UNCHANGED <<pipes, at, lost, ctx, stack, kids, out, cancels>>

Visit(n) ==
    \/ Pass(n) \/ Process(n) \/ Processed(n) \/ ProcessFailed(n)
    \/ TransformFailed(n) \/ Branch(n) \/ Stop(n) \/ Defer(n) \/ Isolate(n)
    \/ \E status \in {"failed", "skipped"} : Refuse(n, status)
    \/ \E b \in BOOLEAN : Transform(n, b) \/ MapPublish(n, b)

Work ==
    \/ Take \/ Return \/ Finish
    \/ \E n \in Node : Visit(n) \/ Publish(n) \/ Unroutable(n) \/ BrokerDown(n)

Next == Work \/ CancelWrite \/ \E t \in 0..MaxPipes : CancelRead(t)

Spec == Init /\ [][Next]_vars

(* Every await of the walk returns: the processor, the gate and the sinks    *)
(* have time limits, the broker accepts or refuses.                          *)
FairSpec == Spec /\ WF_vars(Work)

-----------------------------------------------------------------------------
Over == lost \/ at = Len(pipes) + 1

(* A diamond, a cycle or two edges to one node do not run it twice.          *)
RunsOnce == \A n \in Node : ctx.runs[n] <= 1

(* flow_walker.py:268: "Only nodes downstream of this transform see the new  *)
(* result": what a node produced inside transforms or isolated branches is   *)
(* the result only as long as all of them are still running.                 *)
Scoped == ctx.result # None => ctx.scope[ctx.result] \subseteq Scopes

(* A node that refuses or fails, or a stop, comes before every publish of    *)
(* its pipeline: a row that says failed or skipped has published nothing.    *)
AbortPublishesNothing ==
    \A o \in out : rows[o.tx].status \notin {"failed", "skipped"}

(* A walk that was not aborted has executed or put off every node to which   *)
(* an executed node leads: deferred publishes, isolated branches and nodes   *)
(* reached from several sides included.                                      *)
Complete ==
    Ends /\ ~ctx.aborted =>
        \A n \in ctx.visited : ctx.took[n] \subseteq ctx.visited \cup ctx.deferred

(* When a walk ends with its status written, no transaction of it is left    *)
(* running: neither the row of its pipeline nor one of an isolated branch.   *)
Settles ==
    /\ \A t \in 0..MaxPipes :
          t < at /\ at \in 2..(Len(pipes) + 1) /\ rows[t].status # "absent"
            => rows[t].status \notin {"queued", "processing"}
    /\ Ends => \A i \in DOMAIN kids : kids[i] # "processing"

(* Cyclic or not, every flow of an event comes to its end.                   *)
Terminates == <>Over
=============================================================================
