--------------------------- MODULE FlowWalkerProofs ---------------------------
(* Theorems about the walk of a flow graph, for every set of graphs and every  *)
(* number of pipelines.                                                        *)
EXTENDS FlowWalker, SequenceTheorems, TLAPS

-----------------------------------------------------------------------------
(* The helpers keep the types.                                               *)

(* Nothing is visited that was visited before, and nothing while aborted.    *)
LEMMA VisitsFacts ==
    ASSUME TypeOK, NEW n, NEW t, Visits(n, t)
    PROVE  /\ n \in Node /\ n \notin ctx.visited /\ ~ctx.aborted
           /\ stack # <<>> /\ ctx.busy = None
           /\ at \in 1..Len(pipes) /\ ~lost
           /\ G \in Graph /\ Tx \in 0..MaxPipes
<1>1. /\ Walks /\ stack # <<>> /\ ctx.busy = None
      /\ n \in Pending(Top)
  BY DEF Visits, First
<1>2. Top \in Frame
  BY <1>1 DEF TypeOK, Top
<1>3. at \in 1..Len(pipes) /\ ~lost
  BY <1>1 DEF Walks
<1>4. pipes \in Seq(Graph) /\ Len(pipes) \in 1..MaxPipes
  BY DEF TypeOK
<1>5. G \in Graph
  BY <1>3, <1>4 DEF G
<1>6. Tx \in 0..MaxPipes
  BY <1>3, <1>4, EventsAssumption DEF Tx
<1> QED
  BY <1>1, <1>2, <1>3, <1>5, <1>6 DEF Pending, Frame

(* Taking a target from the activation on top changes nothing else of it.    *)
LEMMA RestFacts ==
    ASSUME TypeOK, stack # <<>>, NEW n
    PROVE  /\ Rest(n) \in Seq(Frame)
           /\ Rest(n) # <<>>
           /\ Len(Rest(n)) = Len(stack)
           /\ \A i \in 1..Len(stack) :
                 /\ Rest(n)[i].kind = stack[i].kind
                 /\ Rest(n)[i].node = stack[i].node
                 /\ Rest(n)[i].saved = stack[i].saved
                 /\ Rest(n)[i].kid = stack[i].kid
<1> DEFINE f == stack[Len(stack)]
           g == [f EXCEPT !.todo = f.todo \ {n}]
<1>1. f \in Frame /\ Len(stack) \in 1..Len(stack)
  BY DEF TypeOK
<1>2. g \in Frame
  BY <1>1 DEF Frame
<1>3. g.kind = f.kind /\ g.node = f.node /\ g.saved = f.saved /\ g.kid = f.kid
  BY <1>1 DEF Frame
<1>4. Rest(n) = [stack EXCEPT ![Len(stack)] = g]
  BY DEF Rest
<1> HIDE DEF f, g
<1>5. Rest(n) \in Seq(Frame) /\ Len(Rest(n)) = Len(stack)
  BY <1>1, <1>2, <1>4 DEF TypeOK
<1>6. \A i \in 1..Len(stack) : Rest(n)[i] = IF i = Len(stack) THEN g ELSE stack[i]
  BY <1>1, <1>4 DEF TypeOK
<1>7. f = stack[Len(stack)]
  BY DEF f
<1>8. Rest(n) # <<>>
  BY <1>5, <1>1
<1> QED
  BY <1>3, <1>5, <1>6, <1>7, <1>8

(* And it takes that one only.                                               *)
LEMMA RestTargets ==
    ASSUME TypeOK, stack # <<>>, NEW n
    PROVE  \A i \in 1..Len(stack) :
              /\ stack[i].todo \subseteq Rest(n)[i].todo \cup {n}
              /\ Rest(n)[i].side = stack[i].side
<1> DEFINE f == stack[Len(stack)]
           g == [f EXCEPT !.todo = f.todo \ {n}]
<1>1. f \in Frame /\ Len(stack) \in 1..Len(stack)
  BY DEF TypeOK
<1>2. f.todo \subseteq g.todo \cup {n} /\ g.side = f.side
  BY <1>1 DEF Frame
<1>3. Rest(n) = [stack EXCEPT ![Len(stack)] = g] /\ f = stack[Len(stack)]
  BY DEF Rest
<1> HIDE DEF f, g
<1>4. \A i \in 1..Len(stack) : Rest(n)[i] = IF i = Len(stack) THEN g ELSE stack[i]
  BY <1>1, <1>3 DEF TypeOK
<1> QED
  BY <1>2, <1>3, <1>4

LEMMA LoopType ==
    ASSUME NEW n \in Value, NEW todo \in SUBSET Node, NEW side \in SUBSET Node
    PROVE  Loop(n, todo, side) \in Frame
  BY DEF Loop, Frame, Value

LEMMA ScopesType ==
    ASSUME NEW frames \in Seq(Frame)
    PROVE  Within(frames) \in SUBSET (Value \X Nat)
<1>1. \A i \in DOMAIN frames : frames[i] \in Frame
  OBVIOUS
<1>2. \A i \in DOMAIN frames : <<frames[i].node, frames[i].kid>> \in Value \X Nat
  BY <1>1 DEF Frame
<1> QED
  BY <1>2 DEF Within

LEMMA VisitedType ==
    ASSUME NEW n \in Node, NEW c \in Context
    PROVE  Visited(n, c) \in Context
<1>1. [c EXCEPT !.visited = c.visited \cup {n}] \in Context
  BY DEF Context
<1>2. c.runs[n] + 1 \in Nat /\ c.runs \in [Node -> Nat]
  BY DEF Context
<1>3. [c.runs EXCEPT ![n] = c.runs[n] + 1] \in [Node -> Nat]
  BY <1>2
<1> DEFINE d == [c EXCEPT !.visited = c.visited \cup {n}]
<1>4. d.runs = c.runs
  BY DEF Context
<1>5. Visited(n, c) = [d EXCEPT !.runs = [c.runs EXCEPT ![n] = c.runs[n] + 1]]
  BY <1>4 DEF Visited, Context
<1> HIDE DEF d
<1>6. d \in Context
  BY <1>1 DEF d
<1>7. [d EXCEPT !.runs = [c.runs EXCEPT ![n] = c.runs[n] + 1]] \in Context
  BY <1>3, <1>6 DEF Context
<1> QED
  BY <1>5, <1>7

LEMMA MadeType ==
    ASSUME NEW n \in Node, NEW c \in Context, NEW scopes \in SUBSET (Value \X Nat)
    PROVE  /\ Made(n, c, scopes) \in Context
           /\ Made(n, c, scopes).result = n
           /\ Made(n, c, scopes).scope = [c.scope EXCEPT ![n] = scopes]
<1> DEFINE d == [c EXCEPT !.result = n]
           new == [c.scope EXCEPT ![n] = scopes]
<1>1. d \in Context /\ d.scope = c.scope /\ d.result = n
  BY DEF Context, Value
<1>2. new \in [Node -> SUBSET (Value \X Nat)]
  BY DEF Context
<1>3. Made(n, c, scopes) = [d EXCEPT !.scope = new]
  BY <1>1 DEF Made, Context
<1> HIDE DEF d, new
<1>4. [d EXCEPT !.scope = new] \in Context
  BY <1>1, <1>2 DEF Context
<1>5. [d EXCEPT !.scope = new].scope = new /\ [d EXCEPT !.scope = new].result = n
  BY <1>1 DEF Context
<1>6. new = [c.scope EXCEPT ![n] = scopes]
  BY DEF new
<1> QED
  BY <1>3, <1>4, <1>5, <1>6

(* What the end of visit() does to the context and the stack.                *)
LEMMA FollowFacts ==
    ASSUME NEW n \in Node, NEW c \in Context, NEW base \in Seq(Frame),
           Follow(n, c, base)
    PROVE  /\ ctx' \in Context
           /\ ctx'.result = c.result /\ ctx'.scope = c.scope
           /\ ctx'.visited = c.visited /\ ctx'.runs = c.runs
           /\ ctx'.busy = c.busy
           /\ ctx'.aborted = c.aborted /\ ctx'.stopped = c.stopped
           /\ \E todo \in SUBSET Node, side \in SUBSET Node :
                 stack' = Append(base, Loop(n, todo, side))
<1> DEFINE plain == Out(n, Handle \ {"isolated"})
           apart == Out(n, {"isolated"})
           puts == Publishes(plain \cup apart)
           d == [c EXCEPT !.deferred = c.deferred \cup puts]
           new == [c.took EXCEPT ![n] = plain \cup apart]
<1>1. plain \in SUBSET Node /\ apart \in SUBSET Node
  BY DEF Out
<1>2. puts \in SUBSET Node
  BY <1>1 DEF Publishes
<1>3. /\ ctx' = [c EXCEPT !.deferred = c.deferred \cup puts,
                         !.took[n] = plain \cup apart]
      /\ stack' = Append(base, Loop(n, plain \ puts, apart \ puts))
  BY DEF Follow
<1> HIDE DEF plain, apart, puts
<1>4. d \in Context
  BY <1>2 DEF Context
<1>5. new \in [Node -> SUBSET Node]
  BY <1>1 DEF Context
<1>6. ctx' = [d EXCEPT !.took = new]
  BY <1>3 DEF Context
<1>7. ctx' \in Context
  BY <1>4, <1>5, <1>6 DEF Context
<1>8. /\ ctx'.result = c.result /\ ctx'.scope = c.scope
      /\ ctx'.visited = c.visited /\ ctx'.runs = c.runs
      /\ ctx'.busy = c.busy
      /\ ctx'.aborted = c.aborted /\ ctx'.stopped = c.stopped
  BY <1>3 DEF Context
<1> QED
  BY <1>1, <1>3, <1>7, <1>8

LEMMA TableType ==
    ASSUME NEW table \in Table, NEW t \in 0..MaxPipes,
           NEW status \in Status, NEW value \in Value
    PROVE  /\ [table EXCEPT ![t].status = status] \in Table
           /\ [table EXCEPT ![t].result = value] \in Table
           /\ [table EXCEPT ![t].cancel = TRUE] \in Table
  BY DEF Table

(* A walk that begins has a typed context, stack and table.                  *)
LEMMA WalkType ==
    ASSUME TypeOK, NEW i \in 1..(Len(pipes) + 1), NEW table \in Table,
           Walk(i, table)
    PROVE  /\ at' \in 0..(Len(pipes) + 1)
           /\ ctx' \in Context
           /\ stack' \in Seq(Frame)
           /\ rows' \in Table
           /\ kids' \in Seq({"processing", "processed", "failed"})
<1>1. Fresh \in Context
  BY DEF Fresh, Context, Value
<1>2. ASSUME i <= Len(pipes)
      PROVE  [Loop(None, {pipes[i].start}, {}) EXCEPT !.kind = "branch"] \in Frame
  <2>1. pipes[i] \in Graph
    BY <1>2 DEF TypeOK
  <2>2. pipes[i].start \in Node
    BY <2>1 DEF Graph
  <2> QED
    BY <2>2 DEF Loop, Frame, Value
<1>3. stack' \in Seq(Frame)
  <2>1. CASE i > Len(pipes)
    BY <2>1 DEF Walk
  <2>2. CASE i <= Len(pipes)
    <3> DEFINE f == [Loop(None, {pipes[i].start}, {}) EXCEPT !.kind = "branch"]
    <3>a. ~(i > Len(pipes))
      BY <2>2 DEF TypeOK
    <3>1. stack' = <<f>>
      BY <3>a DEF Walk
    <3>2. f \in Frame
      BY <1>2, <2>2
    <3> HIDE DEF f
    <3> QED
      BY <3>1, <3>2
  <2> QED
    BY <2>1, <2>2 DEF TypeOK
<1>4. rows' \in Table
  <2>1. CASE i > Len(pipes) \/ Len(pipes) = 1
    BY <2>1 DEF Walk
  <2>2. CASE ~(i > Len(pipes) \/ Len(pipes) = 1)
    <3>1. i \in 0..MaxPipes
      BY <2>2, EventsAssumption DEF TypeOK
    <3>2. "queued" \in Status
      BY DEF Status
    <3>3. rows' = [table EXCEPT ![i].status = "queued"]
      BY <2>2 DEF Walk
    <3> QED
      BY <3>1, <3>2, <3>3, TableType DEF Value
  <2> QED
    BY <2>1, <2>2
<1> QED
  BY <1>1, <1>3, <1>4 DEF Walk

-----------------------------------------------------------------------------
(* Every step keeps the types.                                               *)

LEMMA TypeVisit ==
    ASSUME TypeOK, NEW n \in Node, Visit(n)
    PROVE  TypeOK'
<1>. USE DEF asking
<1>1. CASE Pass(n)
  <2>1. PICK t : Visits(n, t)
    BY <1>1 DEF Pass
  <2>2. /\ stack # <<>> /\ ctx \in Context
    BY <2>1, VisitsFacts DEF TypeOK
  <2>3. Follow(n, Visited(n, ctx), Rest(n))
    BY <1>1 DEF Pass
  <2>4. /\ ctx' \in Context
        /\ \E todo \in SUBSET Node, side \in SUBSET Node :
              stack' = Append(Rest(n), Loop(n, todo, side))
    BY <2>2, <2>3, FollowFacts, VisitedType, RestFacts
  <2>5. stack' \in Seq(Frame)
    BY <2>2, <2>4, RestFacts, LoopType DEF Value
  <2> QED
    BY <1>1, <2>4, <2>5 DEF Pass, TypeOK
<1>2. CASE Process(n)
  <2>1. Visits(n, "processor")
    BY <1>2 DEF Process
  <2>2. /\ stack # <<>> /\ ctx \in Context /\ Tx \in 0..MaxPipes
    BY <2>1, VisitsFacts DEF TypeOK
  <2>3. stack' \in Seq(Frame)
    BY <1>2, <2>2, RestFacts DEF Process
  <2>4. [Visited(n, ctx) EXCEPT !.busy = n] \in Context
    <3> DEFINE c == Visited(n, ctx)
    <3>1. c \in Context
      BY <2>2, VisitedType
    <3> HIDE DEF c
    <3>2. [c EXCEPT !.busy = n] \in Context
      BY <3>1 DEF Context, Value
    <3> QED
      BY <3>2 DEF c
  <2>5. Write("processing") \in Table
    BY <2>2, TableType DEF TypeOK, Write, Status, Value
  <2> QED
    BY <1>2, <2>3, <2>4, <2>5 DEF Process, TypeOK
<1>3. CASE Processed(n)
  <2>1. /\ at \in 1..Len(pipes) /\ ctx \in Context /\ stack \in Seq(Frame)
    BY <1>3 DEF Processed, Walks, TypeOK
  <2>2. Tx \in 0..MaxPipes
    BY <2>1, EventsAssumption DEF TypeOK, Tx
  <2> DEFINE c == Made(n, ctx, Scopes)
             d == [c EXCEPT !.busy = None]
  <2>3. c \in Context
    BY <2>1, MadeType, ScopesType DEF Scopes
  <2>4. d \in Context
    <3> HIDE DEF c
    <3> QED
      BY <2>3 DEF Context, Value
  <2>5. Follow(n, d, stack)
    BY <1>3 DEF Processed
  <2> HIDE DEF c, d
  <2>6. /\ ctx' \in Context
        /\ \E todo \in SUBSET Node, side \in SUBSET Node :
              stack' = Append(stack, Loop(n, todo, side))
    BY <2>1, <2>4, <2>5, FollowFacts
  <2>7. stack' \in Seq(Frame)
    BY <2>1, <2>6, LoopType DEF Value
  <2>8. rows' \in Table
    <3>1. Write("processed") \in Table
      BY <2>2, TableType DEF TypeOK, Write, Status, Value
    <3>2. rows' = [Write("processed") EXCEPT ![Tx].result = n]
      BY <1>3 DEF Processed
    <3>3. "processed" \in Status /\ n \in Value
      BY DEF Status, Value
    <3> QED
      BY <2>2, <3>1, <3>2, <3>3, TableType
  <2> QED
    BY <1>3, <2>6, <2>7, <2>8 DEF Processed, TypeOK
<1>4. CASE ProcessFailed(n)
  <2>1. /\ at \in 1..Len(pipes) /\ ctx \in Context
    BY <1>4 DEF ProcessFailed, Walks, TypeOK
  <2>2. Tx \in 0..MaxPipes
    BY <2>1, EventsAssumption DEF TypeOK, Tx
  <2>3. ctx' \in Context
    BY <1>4, <2>1 DEF ProcessFailed, Aborted, Context, Value
  <2>4. Write("failed") \in Table
    BY <2>2, TableType DEF TypeOK, Write, Status, Value
  <2> QED
    BY <1>4, <2>3, <2>4 DEF ProcessFailed, TypeOK
<1>5. CASE TransformFailed(n)
  <2>1. Visits(n, "transform")
    BY <1>5 DEF TransformFailed
  <2>2. stack # <<>> /\ ctx \in Context
    BY <2>1, VisitsFacts DEF TypeOK
  <2> QED
    BY <1>5, <2>2, VisitedType, RestFacts DEF TransformFailed, TypeOK
<1>6. CASE Branch(n)
  <2>1. PICK t : Visits(n, t)
    BY <1>6 DEF Branch
  <2>2. stack # <<>> /\ ctx \in Context
    BY <2>1, VisitsFacts DEF TypeOK
  <2>3. PICK targets \in Targets(n) :
          /\ ctx' = [Visited(n, ctx) EXCEPT !.took[n] = targets]
          /\ stack' = Append(Rest(n), [Loop(n, targets, {}) EXCEPT !.kind = "branch"])
    BY <1>6 DEF Branch
  <2>4. targets \in SUBSET Node
    BY DEF Targets, Out
  <2>5. [Loop(n, targets, {}) EXCEPT !.kind = "branch"] \in Frame
    BY <2>4 DEF Loop, Frame, Value
  <2>6. stack' \in Seq(Frame)
    BY <2>2, <2>3, <2>5, RestFacts
  <2>7. ctx' \in Context
    <3> DEFINE c == Visited(n, ctx)
    <3>1. c \in Context
      BY <2>2, VisitedType
    <3> HIDE DEF c
    <3>2. [c EXCEPT !.took[n] = targets] \in Context
      BY <2>4, <3>1 DEF Context
    <3> QED
      BY <2>3, <3>2 DEF c
  <2> QED
    BY <1>6, <2>6, <2>7 DEF Branch, TypeOK
<1>7. CASE Stop(n)
  <2>1. Visits(n, "stop")
    BY <1>7 DEF Stop
  <2>2. /\ stack # <<>> /\ ctx \in Context /\ Tx \in 0..MaxPipes
    BY <2>1, VisitsFacts DEF TypeOK
  <2>3. ctx' \in Context
    <3> DEFINE c == Visited(n, ctx)
    <3>1. c \in Context
      BY <2>2, VisitedType
    <3> HIDE DEF c
    <3>2. [Aborted(c) EXCEPT !.stopped = TRUE] \in Context
      BY <3>1 DEF Aborted, Context
    <3> QED
      BY <1>7, <3>2 DEF c, Stop
  <2>4. rows' \in Table
    <3>1. Write("skipped") \in Table
      BY <2>2, TableType DEF TypeOK, Write, Status, Value
    <3>2. ctx.result \in Value /\ "skipped" \in Status
      BY <2>2 DEF Context, Status
    <3>3. [Write("skipped") EXCEPT ![Tx].result = ctx.result] \in Table
      BY <2>2, <3>1, <3>2, TableType
    <3> QED
      BY <1>7, <3>3 DEF Stop, TypeOK
  <2> QED
    BY <1>7, <2>2, <2>3, <2>4, RestFacts DEF Stop, TypeOK
<1>8. CASE Defer(n)
  <2>1. Visits(n, "publish")
    BY <1>8 DEF Defer
  <2>2. stack # <<>> /\ ctx \in Context
    BY <2>1, VisitsFacts DEF TypeOK
  <2>3. ctx' \in Context
    BY <1>8, <2>2 DEF Defer, Context
  <2> QED
    BY <1>8, <2>2, <2>3, RestFacts DEF Defer, TypeOK
<1>9. CASE Isolate(n)
  <2>1. stack # <<>> /\ ctx \in Context /\ stack \in Seq(Frame)
    BY <1>9 DEF Isolate, TypeOK
  <2> DEFINE f == stack[Len(stack)]
             g == [f EXCEPT !.side = f.side \ {n}]
             h == [Loop(n, {n}, {}) EXCEPT !.kind = "child",
                      !.saved = ctx.result, !.kid = Len(kids) + 1]
  <2>2. f \in Frame
    BY <2>1
  <2>3. g \in Frame
    BY <2>2 DEF Frame
  <2>4. Len(kids) + 1 \in Nat /\ ctx.result \in Value
    BY <2>1 DEF TypeOK, Context
  <2>5. h \in Frame
    BY <2>4 DEF Loop, Frame, Value
  <2>6. stack' = Append([stack EXCEPT ![Len(stack)] = g], h)
    BY <1>9 DEF Isolate
  <2> HIDE DEF f, g, h
  <2>7. stack' \in Seq(Frame)
    BY <2>1, <2>3, <2>5, <2>6
  <2>8. kids' \in Seq({"processing", "processed", "failed"})
    BY <1>9 DEF Isolate, TypeOK
  <2> QED
    BY <1>9, <2>7, <2>8 DEF Isolate, TypeOK
<1>10. CASE \E status \in {"failed", "skipped"} : Refuse(n, status)
  <2>1. PICK status \in {"failed", "skipped"} : Refuse(n, status)
    BY <1>10
  <2>2. PICK t : Visits(n, t)
    BY <2>1 DEF Refuse
  <2>3. /\ stack # <<>> /\ ctx \in Context /\ Tx \in 0..MaxPipes
    BY <2>2, VisitsFacts DEF TypeOK
  <2>4. ctx' \in Context
    <3> DEFINE c == Visited(n, ctx)
    <3>1. c \in Context
      BY <2>3, VisitedType
    <3> HIDE DEF c
    <3>2. Aborted(c) \in Context
      BY <3>1 DEF Aborted, Context
    <3> QED
      BY <2>1, <3>2 DEF c, Refuse
  <2>5. rows' \in Table
    <3>1. status \in Status /\ n \in Value
      BY <2>1 DEF Status, Value
    <3>2. Write(status) \in Table
      BY <2>3, <3>1, TableType DEF TypeOK, Write
    <3>3. [Write(status) EXCEPT ![Tx].result = n] \in Table
      BY <2>3, <3>1, <3>2, TableType
    <3> QED
      BY <2>1, <3>2, <3>3 DEF Refuse
  <2> QED
    BY <2>1, <2>3, <2>4, <2>5, RestFacts DEF Refuse, TypeOK
<1>11. CASE \E b \in BOOLEAN : Transform(n, b)
  <2>1. PICK b \in BOOLEAN : Transform(n, b)
    BY <1>11
  <2>2. Visits(n, "transform")
    BY <2>1 DEF Transform
  <2>3. /\ stack # <<>> /\ ctx \in Context /\ Tx \in 0..MaxPipes
        /\ stack \in Seq(Frame)
    BY <2>2, VisitsFacts DEF TypeOK
  <2> DEFINE targets == Out(n, Handle)
             f == [Loop(n, targets, {}) EXCEPT !.kind = "transform", !.saved = ctx.result]
             c == [Visited(n, ctx) EXCEPT !.took[n] = targets]
             v == Visited(n, ctx)
  <2>4. targets \in SUBSET Node /\ ctx.result \in Value
    BY <2>3 DEF Out, Context
  <2>5. f \in Frame
    BY <2>4 DEF Loop, Frame, Value
  <2>6. v \in Context
    BY <2>3, VisitedType
  <2>7. c \in Context
    <3> HIDE DEF v, targets
    <3>1. [v EXCEPT !.took[n] = targets] \in Context
      BY <2>4, <2>6 DEF Context
    <3> QED
      BY <3>1 DEF v
  <2>8. /\ stack' = Append(Rest(n), f)
        /\ ctx' = IF b THEN Made(n, c, Scopes \cup {<<n, 0>>}) ELSE c
        /\ rows' = [rows EXCEPT ![Tx].result = IF b THEN n ELSE ctx.result]
    BY <2>1 DEF Transform
  <2> HIDE DEF f, c, v, targets
  <2>9. Scopes \cup {<<n, 0>>} \in SUBSET (Value \X Nat)
    BY <2>3, ScopesType DEF Scopes, Value
  <2>10. ctx' \in Context
    BY <2>7, <2>8, <2>9, MadeType
  <2>11. stack' \in Seq(Frame)
    BY <2>3, <2>5, <2>8, RestFacts
  <2>12. (IF b THEN n ELSE ctx.result) \in Value /\ "failed" \in Status
    BY <2>4 DEF Value, Status
  <2>13. rows' \in Table
    BY <2>3, <2>8, <2>12, TableType DEF TypeOK
  <2> QED
    BY <2>1, <2>10, <2>11, <2>13 DEF Transform, TypeOK
<1>12. CASE \E b \in BOOLEAN : MapPublish(n, b)
  <2>1. PICK b \in BOOLEAN : MapPublish(n, b)
    BY <1>12
  <2>2. Visits(n, "publishMap")
    BY <2>1 DEF MapPublish
  <2>3. stack # <<>> /\ ctx \in Context
    BY <2>2, VisitsFacts DEF TypeOK
  <2> DEFINE body == IF b THEN [map |-> n, of |-> ctx.result] ELSE Plain(ctx.result)
             v == Visited(n, ctx)
             c == [v EXCEPT !.body = body]
  <2>4. body \in Body \cup {None}
    BY <2>3 DEF Context, Body, Plain, Value
  <2>5. v \in Context
    BY <2>3, VisitedType
  <2>6. c \in Context
    <3> HIDE DEF v, body
    <3> QED
      BY <2>4, <2>5 DEF Context
  <2>7. Follow(n, c, Rest(n))
    BY <2>1 DEF MapPublish
  <2> HIDE DEF c, v, body
  <2>8. /\ ctx' \in Context
        /\ \E todo \in SUBSET Node, side \in SUBSET Node :
              stack' = Append(Rest(n), Loop(n, todo, side))
    BY <2>3, <2>6, <2>7, FollowFacts, RestFacts
  <2>9. stack' \in Seq(Frame)
    BY <2>3, <2>8, RestFacts, LoopType DEF Value
  <2> QED
    BY <2>1, <2>8, <2>9 DEF MapPublish, TypeOK
<1> QED
  BY <1>1, <1>2, <1>3, <1>4, <1>5, <1>6, <1>7, <1>8, <1>9, <1>10, <1>11, <1>12
  DEF Visit

(* The last status is of the walk's own row, and skipped only after a stop.  *)
LEMMA FinalRowType ==
    ASSUME TypeOK, at \in 1..Len(pipes)
    PROVE  /\ Tx \in 0..MaxPipes
           /\ FinalRow \in Table
           /\ \A t \in 0..MaxPipes : t # Tx => FinalRow[t] = rows[t]
           /\ FinalRow[Tx].status = rows[Tx].status
                \/ FinalRow[Tx].status = "processed"
                \/ ctx.stopped
<1> DEFINE open == rows[Tx].status \in {"queued", "processing"}
           status == IF ~open THEN rows[Tx].status
                     ELSE IF ctx.stopped THEN "skipped" ELSE "processed"
           result == IF open \/ ctx.result # None THEN ctx.result ELSE rows[Tx].result
           first == [rows EXCEPT ![Tx].status = status]
<1>1. Tx \in 0..MaxPipes
  BY EventsAssumption DEF TypeOK, Tx
<1>2. rows \in Table /\ ctx \in Context
  BY DEF TypeOK
<1>3. status \in Status /\ result \in Value
  BY <1>1, <1>2 DEF Table, Status, Context
<1>4. FinalRow = [rows EXCEPT ![Tx].status = status, ![Tx].result = result]
  BY <1>1, <1>2 DEF FinalRow, Table
<1>5. status = rows[Tx].status \/ status = "processed" \/ ctx.stopped
  OBVIOUS
<1> HIDE DEF status, result
<1>6. first \in Table
  BY <1>1, <1>2, <1>3, TableType
<1>7. FinalRow = [first EXCEPT ![Tx].result = result]
  BY <1>1, <1>2, <1>4 DEF Table
<1>8. first[Tx].status = status /\ (\A t \in 0..MaxPipes : t # Tx => first[t] = rows[t])
  BY <1>1, <1>2 DEF Table
<1> HIDE DEF first
<1>9. FinalRow \in Table
  BY <1>1, <1>3, <1>6, <1>7, TableType
<1>10. /\ FinalRow[Tx].status = first[Tx].status
       /\ \A t \in 0..MaxPipes : t # Tx => FinalRow[t] = first[t]
  BY <1>1, <1>6, <1>7 DEF Table
<1> QED
  BY <1>1, <1>5, <1>8, <1>9, <1>10

LEMMA TypeReturn ==
    ASSUME TypeOK, Return
    PROVE  TypeOK'
<1> DEFINE status == IF ctx.aborted /\ ~ctx.stopped THEN "failed" ELSE "processed"
<1>1. /\ stack \in Seq(Frame) /\ stack # <<>> /\ ctx \in Context
      /\ Top = stack[Len(stack)] /\ at \in 1..Len(pipes)
  BY DEF TypeOK, Return, Top, Walks
<1>2. Top \in Frame /\ Tx \in 0..MaxPipes
  BY <1>1, EventsAssumption DEF TypeOK, Tx
<1>3. Top.saved \in Value
  BY <1>2 DEF Frame
<1>4. stack' \in Seq(Frame)
  <2>1. stack' = SubSeq(stack, 1, Len(stack) - 1)
    BY DEF Return, Front
  <2> QED
    BY <1>1, <2>1
<1>5. ctx' \in Context
  BY <1>1, <1>3 DEF Return, Context
<1>6. rows' \in Table
  <2>1. "failed" \in Status
    BY DEF Status
  <2>2. [rows EXCEPT ![Tx].result = Top.saved] \in Table
    BY <1>2, <1>3, <2>1, TableType DEF TypeOK
  <2> QED
    BY <2>2 DEF Return, TypeOK
<1>7. kids' \in Seq({"processing", "processed", "failed"})
  BY DEF Return, TypeOK
<1> QED
  BY <1>4, <1>5, <1>6, <1>7 DEF Return, TypeOK, asking

LEMMA TypeOffer ==
    ASSUME TypeOK, NEW n \in Node, Publish(n) \/ Unroutable(n) \/ BrokerDown(n)
    PROVE  TypeOK'
<1>. USE DEF asking
<1>1. at \in 1..Len(pipes) /\ ctx \in Context
  BY DEF Publish, Unroutable, BrokerDown, Offers, Ends, Walks, TypeOK
<1>2. Handled(n) \in Context
  BY <1>1 DEF Handled, Context
<1>3. CASE Publish(n)
  <2>1. Tx \in 0..MaxPipes
    BY <1>1, EventsAssumption DEF TypeOK, Tx
  <2>2. (IF ctx.body # None THEN ctx.body ELSE [map |-> None, of |-> ctx.result]) \in Body
    BY <1>1 DEF Context, Body, Value
  <2>3. out' \subseteq [tx : 0..MaxPipes, node : Node, body : Body]
    BY <1>3, <2>1, <2>2 DEF Publish, TypeOK
  <2> QED
    BY <1>2, <1>3, <2>3 DEF Publish, TypeOK
<1>4. CASE Unroutable(n)
  BY <1>2, <1>4 DEF Unroutable, TypeOK
<1>5. CASE BrokerDown(n)
  BY <1>5 DEF BrokerDown, TypeOK
<1> QED
  BY <1>3, <1>4, <1>5

LEMMA TypeStep ==
    ASSUME TypeOK, [Next]_vars
    PROVE  TypeOK'
<1>. USE DEF asking
<1>1. CASE Take
  <2> DEFINE marked == [rows EXCEPT ![0].status = "processed"]
  <2>1. rows \in Table /\ marked \in Table
    <3>1. rows \in Table /\ 0 \in 0..MaxPipes
      BY EventsAssumption DEF TypeOK
    <3>2. "processed" \in Status /\ None \in Value
      BY DEF Status, Value
    <3> QED
      BY <3>1, <3>2, TableType
  <2>2. PICK i \in 1..(Len(pipes) + 1), table \in Table : Walk(i, table)
    <3>1. 1 \in 1..(Len(pipes) + 1) /\ Len(pipes) + 1 \in 1..(Len(pipes) + 1)
      BY DEF TypeOK
    <3>2. \/ Walk(Len(pipes) + 1, rows) \/ Walk(1, rows) \/ Walk(1, marked)
      BY <1>1 DEF Take
    <3> HIDE DEF marked
    <3> QED
      BY <2>1, <3>1, <3>2
  <2>3. /\ at' \in 0..(Len(pipes) + 1) /\ ctx' \in Context
        /\ stack' \in Seq(Frame) /\ rows' \in Table
        /\ kids' \in Seq({"processing", "processed", "failed"})
    BY <2>2, WalkType
  <2> QED
    BY <1>1, <2>3 DEF Take, TypeOK
<1>2. CASE Finish
  <2>1. at \in 1..Len(pipes) /\ at + 1 \in 1..(Len(pipes) + 1)
    BY <1>2 DEF Finish, Ends, Walks, TypeOK
  <2>2. Walk(at + 1, FinalRow) /\ FinalRow \in Table
    BY <1>2, <2>1, FinalRowType DEF Finish
  <2>3. /\ at' \in 0..(Len(pipes) + 1) /\ ctx' \in Context
        /\ stack' \in Seq(Frame) /\ rows' \in Table
        /\ kids' \in Seq({"processing", "processed", "failed"})
    BY <2>1, <2>2, WalkType
  <2> QED
    BY <1>2, <2>3 DEF Finish, TypeOK
<1>3. CASE Return
  BY <1>3, TypeReturn
<1>4. ASSUME NEW n \in Node, Visit(n)
      PROVE  TypeOK'
  BY <1>4, TypeVisit
<1>5. ASSUME NEW n \in Node, Publish(n) \/ Unroutable(n) \/ BrokerDown(n)
      PROVE  TypeOK'
  BY <1>5, TypeOffer
<1>6. ASSUME NEW t \in 0..MaxPipes, CancelRead(t)
      PROVE  TypeOK'
  <2>1. cancels' \in 0..MaxCancels
    BY <1>6, EventsAssumption DEF CancelRead, TypeOK
  <2>2. ask' \in [tx : 0..MaxPipes, saw : {"queued", "running"}] \cup {None}
    BY <1>6 DEF CancelRead
  <2> QED
    BY <1>6, <2>1, <2>2 DEF CancelRead, TypeOK
<1>7. CASE CancelWrite
  <2>1. ask \in [tx : 0..MaxPipes, saw : {"queued", "running"}]
    BY <1>7 DEF CancelWrite, TypeOK
  <2>2. ask.tx \in 0..MaxPipes /\ "cancelled" \in Status /\ None \in Value
    BY <2>1 DEF Status, Value
  <2>3. rows' \in Table
    BY <1>7, <2>2, TableType DEF CancelWrite, TypeOK
  <2> QED
    BY <1>7, <2>3 DEF CancelWrite, TypeOK
<1>8. CASE UNCHANGED vars
  BY <1>8 DEF vars, TypeOK
<1> QED
  BY <1>1, <1>2, <1>3, <1>4, <1>5, <1>6, <1>7, <1>8 DEF Next, Work

LEMMA TypeInit == Init => TypeOK
<1> SUFFICES ASSUME Init PROVE TypeOK
  OBVIOUS
<1>1. Fresh \in Context
  BY DEF Fresh, Context, Value
<1>2. rows \in Table
  BY DEF Init, Table, Status, Value
<1>3. pipes \in Seq(Graph) /\ Len(pipes) \in 1..MaxPipes
  BY EventsAssumption DEF Init
<1>4. /\ at \in 0..(Len(pipes) + 1) /\ lost \in BOOLEAN
      /\ cancels \in 0..MaxCancels
  BY <1>3, EventsAssumption DEF Init
<1>5. /\ stack \in Seq(Frame)
      /\ kids \in Seq({"processing", "processed", "failed"})
  BY DEF Init
<1>6. /\ out \subseteq [tx : 0..MaxPipes, node : Node, body : Body]
      /\ ask \in [tx : 0..MaxPipes, saw : {"queued", "running"}] \cup {None}
      /\ ctx \in Context
  BY <1>1 DEF Init
<1> QED
  BY <1>2, <1>3, <1>4, <1>5, <1>6 DEF TypeOK

(* Every variable keeps its type: worker.py 529-605 and flow_walker.py       *)
(* 122-377 for any graphs.                                                   *)
THEOREM TypeCorrect == Spec => []TypeOK
<1>1. Init => TypeOK
  BY TypeInit
<1>2. TypeOK /\ [Next]_vars => TypeOK'
  BY TypeStep
<1> QED
  BY <1>1, <1>2, PTL DEF Spec

-----------------------------------------------------------------------------
(* A node runs once, and an aborted pipeline publishes nothing.              *)

LEMMA VisitedFields ==
    ASSUME NEW n \in Node, NEW c \in Context
    PROVE  /\ Visited(n, c).visited = c.visited \cup {n}
           /\ Visited(n, c).runs = [c.runs EXCEPT ![n] = c.runs[n] + 1]
           /\ Visited(n, c).busy = c.busy
           /\ Visited(n, c).aborted = c.aborted
           /\ Visited(n, c).stopped = c.stopped
           /\ Visited(n, c).result = c.result
           /\ Visited(n, c).scope = c.scope
           /\ Visited(n, c).took = c.took
           /\ Visited(n, c).deferred = c.deferred
<1> DEFINE d == [c EXCEPT !.visited = c.visited \cup {n}]
           more == [c.runs EXCEPT ![n] = c.runs[n] + 1]
<1>1. /\ d \in Context /\ d.visited = c.visited \cup {n} /\ d.runs = c.runs
      /\ d.busy = c.busy /\ d.aborted = c.aborted /\ d.stopped = c.stopped
      /\ d.result = c.result /\ d.scope = c.scope
      /\ d.took = c.took /\ d.deferred = c.deferred
  BY DEF Context
<1>2. Visited(n, c) = [d EXCEPT !.runs = more]
  BY <1>1 DEF Visited, Context
<1>3. more = [c.runs EXCEPT ![n] = c.runs[n] + 1]
  OBVIOUS
<1> HIDE DEF d, more
<1>4. /\ [d EXCEPT !.runs = more].runs = more
      /\ [d EXCEPT !.runs = more].visited = d.visited
      /\ [d EXCEPT !.runs = more].busy = d.busy
      /\ [d EXCEPT !.runs = more].aborted = d.aborted
      /\ [d EXCEPT !.runs = more].stopped = d.stopped
      /\ [d EXCEPT !.runs = more].result = d.result
      /\ [d EXCEPT !.runs = more].scope = d.scope
      /\ [d EXCEPT !.runs = more].took = d.took
      /\ [d EXCEPT !.runs = more].deferred = d.deferred
  BY <1>1 DEF Context
<1> QED
  BY <1>1, <1>2, <1>3, <1>4

(* The executions are counted as the nodes are marked, old the context       *)
(* before and new the one after.                                             *)
Counts(old, new) ==
    \/ new.visited = old.visited /\ new.runs = old.runs
    \/ \E n \in Node \ old.visited :
          /\ new.visited = old.visited \cup {n}
          /\ new.runs = [old.runs EXCEPT ![n] = old.runs[n] + 1]

(* What the steps of a walk have in common before its publishes.             *)
Walking ==
    /\ at' = at /\ pipes' = pipes /\ out' = out
    /\ at \in 1..Len(pipes)
    /\ stack # <<>> \/ ctx.busy # None
    /\ stack # <<>> /\ ctx'.busy # None => stack' # <<>>
    /\ (ctx.stopped => ctx.aborted) => (ctx'.stopped => ctx'.aborted)
    /\ ctx.aborted => ctx'.aborted
    /\ \A t \in 0..MaxPipes : t # Tx => rows'[t] = rows[t]
    /\ \/ ctx'.aborted
       \/ rows'[Tx].status \in {rows[Tx].status, "processing", "processed"}
    /\ Counts(ctx, ctx')

LEMMA WriteFacts ==
    ASSUME TypeOK, at \in 1..Len(pipes), NEW status, NEW value
    PROVE  /\ \A t \in 0..MaxPipes : t # Tx =>
                 /\ Write(status)[t] = rows[t]
                 /\ [Write(status) EXCEPT ![Tx].result = value][t] = rows[t]
                 /\ [rows EXCEPT ![Tx].result = value][t] = rows[t]
           /\ Write(status)[Tx].status = status
           /\ [Write(status) EXCEPT ![Tx].result = value][Tx].status = status
           /\ [rows EXCEPT ![Tx].result = value][Tx].status = rows[Tx].status
<1>1. Tx \in 0..MaxPipes
  BY EventsAssumption DEF TypeOK, Tx
<1>2. rows \in Table
  BY DEF TypeOK
<1> DEFINE w == Write(status)
<1>3. /\ w \in [0..MaxPipes -> [status : {status} \cup Status, result : Value,
                                cancel : BOOLEAN]]
      /\ \A t \in 0..MaxPipes : t # Tx => w[t] = rows[t]
      /\ w[Tx].status = status
  BY <1>1, <1>2 DEF Table, Write
<1> HIDE DEF w
<1>4. /\ \A t \in 0..MaxPipes : t # Tx =>
            [w EXCEPT ![Tx].result = value][t] = w[t]
      /\ [w EXCEPT ![Tx].result = value][Tx].status = w[Tx].status
  BY <1>1, <1>3
<1>5. /\ \A t \in 0..MaxPipes : t # Tx =>
            [rows EXCEPT ![Tx].result = value][t] = rows[t]
      /\ [rows EXCEPT ![Tx].result = value][Tx].status = rows[Tx].status
  BY <1>1, <1>2 DEF Table
<1> QED
  BY <1>3, <1>4, <1>5 DEF w

LEMMA WalkingVisit ==
    ASSUME TypeOK, NEW n \in Node, Visit(n)
    PROVE  Walking
<1>. USE DEF Walking
<1> DEFINE v == Visited(n, ctx)
<1>0. ctx \in Context /\ stack \in Seq(Frame) /\ rows \in Table
  BY DEF TypeOK
<1>1. v \in Context
  BY <1>0, VisitedType
<1>2. /\ v.busy = ctx.busy /\ v.aborted = ctx.aborted /\ v.stopped = ctx.stopped
      /\ v.visited = ctx.visited \cup {n}
      /\ v.runs = [ctx.runs EXCEPT ![n] = ctx.runs[n] + 1]
  BY <1>0, VisitedFields
<1>3. ASSUME NEW t, Visits(n, t)
      PROVE  /\ n \notin ctx.visited /\ ~ctx.aborted /\ stack # <<>>
             /\ at \in 1..Len(pipes) /\ ctx.busy = None /\ Rest(n) # <<>>
             /\ Rest(n) \in Seq(Frame)
             /\ \A f : Append(Rest(n), f) # <<>>
  <2>1. /\ n \notin ctx.visited /\ ~ctx.aborted /\ stack # <<>>
        /\ at \in 1..Len(pipes) /\ ctx.busy = None
    BY <1>3, VisitsFacts
  <2>2. Rest(n) # <<>> /\ Rest(n) \in Seq(Frame)
    BY <2>1, RestFacts
  <2> QED
    BY <2>1, <2>2
<1> HIDE DEF v
<1>4. CASE Pass(n)
  <2>1. PICK t : Visits(n, t)
    BY <1>4 DEF Pass
  <2>2. Follow(n, v, Rest(n))
    BY <1>4 DEF Pass, v
  <2>3. /\ ctx'.visited = v.visited /\ ctx'.runs = v.runs /\ ctx'.busy = v.busy
        /\ ctx'.aborted = v.aborted /\ ctx'.stopped = v.stopped
        /\ stack' # <<>>
    BY <1>1, <1>3, <2>1, <2>2, FollowFacts
  <2>4. Counts(ctx, ctx')
    BY <1>2, <1>3, <2>1, <2>3 DEF Counts
  <2> QED
    BY <1>2, <1>3, <1>4, <2>1, <2>3, <2>4 DEF Pass
<1>5. CASE Process(n)
  <2>1. Visits(n, "processor") /\ ctx' = [v EXCEPT !.busy = n]
    BY <1>5 DEF Process, v
  <2>2. /\ ctx'.visited = v.visited /\ ctx'.runs = v.runs
        /\ ctx'.aborted = v.aborted /\ ctx'.stopped = v.stopped
    BY <1>1, <2>1 DEF Context
  <2>3. Counts(ctx, ctx')
    BY <1>2, <1>3, <2>1, <2>2 DEF Counts
  <2> QED
    BY <1>2, <1>3, <1>5, <2>1, <2>2, <2>3, WriteFacts DEF Process
<1>6. CASE Processed(n)
  <2> DEFINE c == Made(n, ctx, Scopes)
             d == [c EXCEPT !.busy = None]
  <2>1. Follow(n, d, stack)
    BY <1>6 DEF Processed
  <2>2. c \in Context
    BY <1>0, MadeType, ScopesType DEF Scopes
  <2>3. /\ c.visited = ctx.visited /\ c.runs = ctx.runs
        /\ c.aborted = ctx.aborted /\ c.stopped = ctx.stopped
    BY <1>0 DEF Made, Context
  <2> HIDE DEF c
  <2>4. /\ d \in Context /\ d.visited = c.visited /\ d.runs = c.runs
        /\ d.aborted = c.aborted /\ d.stopped = c.stopped /\ d.busy = None
    BY <2>2 DEF Context, Value
  <2> HIDE DEF d
  <2>5. /\ ctx'.visited = ctx.visited /\ ctx'.runs = ctx.runs /\ ctx'.busy = None
        /\ ctx'.aborted = ctx.aborted /\ ctx'.stopped = ctx.stopped
    BY <1>0, <2>1, <2>3, <2>4, FollowFacts
  <2>6. at \in 1..Len(pipes) /\ ctx.busy # None
    BY <1>6, EventsAssumption DEF Processed, Walks
  <2> QED
    BY <1>6, <2>5, <2>6, WriteFacts DEF Processed, Counts
<1>7. CASE ProcessFailed(n)
  <2>1. /\ ctx' = [Aborted(ctx) EXCEPT !.busy = None]
        /\ stack' = stack /\ at \in 1..Len(pipes) /\ ctx.busy # None
    BY <1>7, EventsAssumption DEF ProcessFailed, Walks
  <2>2. /\ ctx'.visited = ctx.visited /\ ctx'.runs = ctx.runs
    BY <1>0, <2>1 DEF Aborted, Context
  <2>3. ctx'.aborted
    BY <1>0, <2>1 DEF Aborted, Context
  <2> QED
    BY <1>7, <2>1, <2>2, <2>3, WriteFacts DEF ProcessFailed, Counts
<1>8. CASE TransformFailed(n)
  <2>1. Visits(n, "transform") /\ ctx' = v /\ stack' = Rest(n)
    BY <1>8 DEF TransformFailed, v
  <2>2. Counts(ctx, ctx')
    BY <1>2, <1>3, <2>1 DEF Counts
  <2> QED
    BY <1>2, <1>3, <1>8, <2>1, <2>2 DEF TransformFailed
<1>9. CASE Branch(n)
  <2>1. PICK t : Visits(n, t)
    BY <1>9 DEF Branch
  <2>2. PICK targets \in Targets(n) :
          /\ ctx' = [v EXCEPT !.took[n] = targets]
          /\ stack' = Append(Rest(n), [Loop(n, targets, {}) EXCEPT !.kind = "branch"])
    BY <1>9 DEF Branch, v
  <2>3. /\ ctx'.visited = v.visited /\ ctx'.runs = v.runs /\ ctx'.busy = v.busy
        /\ ctx'.aborted = v.aborted /\ ctx'.stopped = v.stopped
    BY <1>1, <2>2 DEF Context
  <2>4. Counts(ctx, ctx')
    BY <1>2, <1>3, <2>1, <2>3 DEF Counts
  <2>5. stack' # <<>>
    BY <1>3, <2>1, <2>2
  <2> QED
    BY <1>2, <1>3, <1>9, <2>1, <2>3, <2>4, <2>5 DEF Branch
<1>10. CASE Stop(n)
  <2>1. /\ Visits(n, "stop") /\ stack' = Rest(n)
        /\ ctx' = [Aborted(v) EXCEPT !.stopped = TRUE]
    BY <1>10 DEF Stop, v
  <2>2. /\ ctx'.visited = v.visited /\ ctx'.runs = v.runs /\ ctx'.busy = v.busy
    BY <1>1, <2>1 DEF Aborted, Context
  <2>3. ctx'.aborted
    BY <1>1, <2>1 DEF Aborted, Context
  <2>4. Counts(ctx, ctx')
    BY <1>2, <1>3, <2>1, <2>2 DEF Counts
  <2>5. \A t \in 0..MaxPipes : t # Tx => rows'[t] = rows[t]
    BY <1>3, <1>10, <2>1, WriteFacts DEF Stop
  <2> QED
    BY <1>2, <1>3, <1>10, <2>1, <2>2, <2>3, <2>4, <2>5 DEF Stop
<1>11. CASE Defer(n)
  <2>1. /\ Visits(n, "publish") /\ stack' = Rest(n)
        /\ ctx' = [ctx EXCEPT !.deferred = ctx.deferred \cup {n}]
    BY <1>11 DEF Defer
  <2>2. /\ ctx'.visited = ctx.visited /\ ctx'.runs = ctx.runs /\ ctx'.busy = ctx.busy
        /\ ctx'.aborted = ctx.aborted /\ ctx'.stopped = ctx.stopped
    BY <1>0, <2>1 DEF Context
  <2> QED
    BY <1>3, <1>11, <2>1, <2>2 DEF Defer, Counts
<1>12. CASE Isolate(n)
  <2>1. stack # <<>> /\ at \in 1..Len(pipes) /\ ctx' = ctx
    BY <1>12 DEF Isolate, Walks
  <2>2. stack' # <<>>
    BY <1>0, <2>1, <1>12 DEF Isolate
  <2> QED
    BY <1>12, <2>1, <2>2 DEF Isolate, Counts
<1>13. CASE \E status \in {"failed", "skipped"} : Refuse(n, status)
  <2>1. PICK status \in {"failed", "skipped"} : Refuse(n, status)
    BY <1>13
  <2>2. PICK t : Visits(n, t)
    BY <2>1 DEF Refuse
  <2>3. ctx' = Aborted(v) /\ stack' = Rest(n)
    BY <2>1 DEF Refuse, v
  <2>4. /\ ctx'.visited = v.visited /\ ctx'.runs = v.runs /\ ctx'.busy = v.busy
    BY <1>1, <2>3 DEF Aborted, Context
  <2>5. ctx'.aborted
    BY <1>1, <2>3 DEF Aborted, Context
  <2>6. Counts(ctx, ctx')
    BY <1>2, <1>3, <2>2, <2>4 DEF Counts
  <2>7. \A i \in 0..MaxPipes : i # Tx => rows'[i] = rows[i]
    BY <1>3, <2>1, <2>2, WriteFacts DEF Refuse
  <2> QED
    BY <1>2, <1>3, <2>1, <2>2, <2>3, <2>4, <2>5, <2>6, <2>7 DEF Refuse
<1>14. CASE \E b \in BOOLEAN : Transform(n, b)
  <2>1. PICK b \in BOOLEAN : Transform(n, b)
    BY <1>14
  <2> DEFINE targets == Out(n, Handle)
             f == [Loop(n, targets, {}) EXCEPT !.kind = "transform",
                                               !.saved = ctx.result]
             c == [v EXCEPT !.took[n] = targets]
             s == Scopes \cup {<<n, 0>>}
  <2>2. /\ Visits(n, "transform") /\ stack' = Append(Rest(n), f)
        /\ ctx' = IF b THEN Made(n, c, s) ELSE c
        /\ rows' = [rows EXCEPT ![Tx].result = IF b THEN n ELSE ctx.result]
    BY <2>1 DEF Transform, v
  <2>3. /\ c.visited = v.visited /\ c.runs = v.runs /\ c.busy = v.busy
        /\ c.aborted = v.aborted /\ c.stopped = v.stopped
    BY <1>1 DEF Context
  <2>4. c \in Context
    <3> HIDE DEF targets
    <3>1. targets \in SUBSET Node
      BY DEF Out, targets
    <3> QED
      BY <1>1, <3>1 DEF Context
  <2> HIDE DEF f, c, s, targets
  <2>5. /\ Made(n, c, s).visited = c.visited /\ Made(n, c, s).runs = c.runs
        /\ Made(n, c, s).busy = c.busy /\ Made(n, c, s).aborted = c.aborted
        /\ Made(n, c, s).stopped = c.stopped
    BY <2>4 DEF Made, Context
  <2>6. /\ ctx'.visited = v.visited /\ ctx'.runs = v.runs /\ ctx'.busy = v.busy
        /\ ctx'.aborted = v.aborted /\ ctx'.stopped = v.stopped
    BY <2>2, <2>3, <2>5
  <2>7. Counts(ctx, ctx')
    BY <1>2, <1>3, <2>2, <2>6 DEF Counts
  <2>8. /\ \A t \in 0..MaxPipes : t # Tx => rows'[t] = rows[t]
        /\ rows'[Tx].status = rows[Tx].status
    BY <1>3, <2>2, WriteFacts
  <2>9. stack' # <<>>
    BY <1>3, <2>2
  <2> QED
    BY <1>2, <1>3, <2>1, <2>2, <2>6, <2>7, <2>8, <2>9 DEF Transform
<1>15. CASE \E b \in BOOLEAN : MapPublish(n, b)
  <2>1. PICK b \in BOOLEAN : MapPublish(n, b)
    BY <1>15
  <2> DEFINE body == IF b THEN [map |-> n, of |-> ctx.result] ELSE Plain(ctx.result)
             c == [v EXCEPT !.body = body]
  <2>2. Visits(n, "publishMap") /\ Follow(n, c, Rest(n))
    BY <2>1 DEF MapPublish, v
  <2>3. body \in Body \cup {None}
    BY <1>0 DEF Context, Body, Plain, Value
  <2>4. /\ c \in Context /\ c.visited = v.visited /\ c.runs = v.runs
        /\ c.busy = v.busy /\ c.aborted = v.aborted /\ c.stopped = v.stopped
    <3> HIDE DEF body
    <3> QED
      BY <1>1, <2>3 DEF Context
  <2> HIDE DEF c, body
  <2>5. /\ ctx'.visited = v.visited /\ ctx'.runs = v.runs /\ ctx'.busy = v.busy
        /\ ctx'.aborted = v.aborted /\ ctx'.stopped = v.stopped
        /\ stack' # <<>>
    BY <1>3, <2>2, <2>4, FollowFacts
  <2>6. Counts(ctx, ctx')
    BY <1>2, <1>3, <2>2, <2>5 DEF Counts
  <2> QED
    BY <1>2, <1>3, <2>1, <2>2, <2>5, <2>6 DEF MapPublish
<1> QED
  BY <1>4, <1>5, <1>6, <1>7, <1>8, <1>9, <1>10, <1>11, <1>12, <1>13, <1>14, <1>15
  DEF Visit

(* The context as run_flow_graph and the other steps leave it.               *)
LEMMA FreshFacts ==
    /\ Fresh.busy = None /\ Fresh.stopped = FALSE /\ Fresh.aborted = FALSE
    /\ Fresh.visited = {} /\ Fresh.runs = [n \in Node |-> 0]
    /\ Fresh.result = None
  BY DEF Fresh

(* The steps that neither walk nor begin a walk leave the counts alone.      *)
LEMMA OtherCounts ==
    ASSUME TypeOK,
           \/ Return \/ CancelWrite \/ UNCHANGED vars
           \/ \E n \in Node : Publish(n) \/ Unroutable(n) \/ BrokerDown(n)
           \/ \E t \in 0..MaxPipes : CancelRead(t)
    PROVE  /\ ctx'.visited = ctx.visited /\ ctx'.runs = ctx.runs
           /\ ctx'.busy = ctx.busy
           /\ ctx'.aborted = ctx.aborted /\ ctx'.stopped = ctx.stopped
<1>1. ctx \in Context
  BY DEF TypeOK
<1>2. CASE Return
  BY <1>1, <1>2 DEF Return, Context
<1>3. CASE \E n \in Node : Publish(n) \/ Unroutable(n) \/ BrokerDown(n)
  BY <1>1, <1>3 DEF Publish, Unroutable, BrokerDown, Handled, Context
<1>4. CASE \E t \in 0..MaxPipes : CancelRead(t)
  BY <1>4 DEF CancelRead
<1>5. CASE CancelWrite \/ UNCHANGED vars
  BY <1>5 DEF CancelWrite, vars
<1> QED
  BY <1>2, <1>3, <1>4, <1>5

Counted == \A n \in Node : ctx.runs[n] = IF n \in ctx.visited THEN 1 ELSE 0

(* A diamond, a cycle or two edges to one node do not run it twice: the      *)
(* guard of visit() (flow_walker.py:192-197), as the count of executions of  *)
(* a node is what its mark says.                                             *)
THEOREM RunsOnceHolds == Spec => []RunsOnce
<1>1. Init => Counted
  BY FreshFacts DEF Init, Counted
<1>2. TypeOK /\ Counted /\ [Next]_vars => Counted'
  <2> SUFFICES ASSUME TypeOK, Counted, [Next]_vars
               PROVE  Counted'
    OBVIOUS
  <2>1. ASSUME NEW n \in Node, Visit(n)
        PROVE  Counted'
    <3>1. Counts(ctx, ctx')
      BY <2>1, WalkingVisit DEF Walking
    <3>2. ctx.runs \in [Node -> Nat]
      BY DEF TypeOK, Context
    <3>3. CASE ctx'.visited = ctx.visited /\ ctx'.runs = ctx.runs
      BY <3>3 DEF Counted
    <3>4. ASSUME NEW m \in Node \ ctx.visited,
                 ctx'.visited = ctx.visited \cup {m},
                 ctx'.runs = [ctx.runs EXCEPT ![m] = ctx.runs[m] + 1]
          PROVE  Counted'
      <4>1. ctx.runs[m] = 0
        BY DEF Counted
      <4>2. ctx'.runs = [ctx.runs EXCEPT ![m] = 1]
        BY <3>4, <4>1
      <4> QED
        BY <3>2, <3>4, <4>2 DEF Counted
    <3> QED
      BY <3>1, <3>3, <3>4 DEF Counts
  <2>2. CASE Take \/ Finish
    BY <2>2, FreshFacts DEF Take, Finish, Walk, Counted
  <2>3. CASE \/ Return \/ CancelWrite \/ UNCHANGED vars
             \/ \E n \in Node : Publish(n) \/ Unroutable(n) \/ BrokerDown(n)
             \/ \E t \in 0..MaxPipes : CancelRead(t)
    BY <2>3, OtherCounts DEF Counted
  <2> QED
    BY <2>1, <2>2, <2>3 DEF Next, Work
<1>3. Counted => RunsOnce
  BY DEF Counted, RunsOnce
<1> QED
  BY <1>1, <1>2, <1>3, TypeCorrect, PTL DEF Spec

-----------------------------------------------------------------------------
(* A walk publishes when it is at its end and not aborted, its row has not   *)
(* failed and nothing can abort it then; a later walk writes another row.    *)
Silent ==
    /\ ctx.busy # None => stack # <<>>
    /\ ctx.stopped => ctx.aborted
    /\ at = 0 => out = {} /\ rows[0].status \notin {"failed", "skipped"}
    /\ at \in 1..Len(pipes) /\ ~ctx.aborted
          => rows[Tx].status \notin {"failed", "skipped"}
    /\ \A o \in out :
          /\ o.tx <= at
          /\ IF Len(pipes) = 1 THEN o.tx = 0 ELSE o.tx >= 1
          /\ rows[o.tx].status \notin {"failed", "skipped"}
          /\ at <= Len(pipes) /\ o.tx = Tx => stack = <<>> /\ ~ctx.aborted

LEMMA SilentVisit ==
    ASSUME TypeOK, Silent, NEW n \in Node, Visit(n)
    PROVE  Silent'
<1>1. Walking
  BY WalkingVisit
<1>2. stack # <<>>
  BY <1>1 DEF Walking, Silent
<1>3. \A o \in out : o.tx \in 0..MaxPipes /\ o.tx # Tx
  BY <1>1, <1>2 DEF Walking, Silent, TypeOK
<1>4. Tx' = Tx
  BY <1>1 DEF Walking, Tx
<1>5. at # 0
  BY <1>1 DEF Walking, TypeOK
<1> QED
  BY <1>1, <1>2, <1>3, <1>4, <1>5 DEF Walking, Silent

(* The end of one walk is the beginning of the next.                         *)
LEMMA SilentFinish ==
    ASSUME TypeOK, Silent, Finish
    PROVE  Silent'
<1>1. at \in 1..Len(pipes) /\ Walk(at + 1, FinalRow)
  BY DEF Finish, Ends, Walks
<1>2. at \in Nat /\ Len(pipes) \in Nat /\ at' = at + 1 /\ out' = out /\ pipes' = pipes
  BY <1>1 DEF TypeOK, Finish, Walk
<1>3. ctx' = Fresh
  BY <1>1 DEF Walk
<1>4. FinalRow \in Table
  BY <1>1, FinalRowType
<1>5. ASSUME NEW o \in out
      PROVE  /\ o.tx \in 0..MaxPipes
             /\ FinalRow[o.tx].status \notin {"failed", "skipped"}
             /\ rows'[o.tx] = FinalRow[o.tx]
  <2>1. o.tx \in 0..MaxPipes /\ o.tx <= at
    BY <1>5 DEF TypeOK, Silent
  <2>2. o.tx = Tx => ~ctx.stopped
    BY <1>1, <1>5 DEF Silent, TypeOK
  <2>3. FinalRow[o.tx].status \notin {"failed", "skipped"}
    BY <1>1, <1>5, <2>1, <2>2, FinalRowType DEF Silent
  <2>4. rows'[o.tx] = FinalRow[o.tx]
    BY <1>1, <1>2, <1>4, <2>1 DEF Walk, Table
  <2> QED
    BY <2>1, <2>3, <2>4
<1>6. ASSUME at' <= Len(pipes)
      PROVE  /\ Tx' = at + 1 /\ at + 1 \in 1..MaxPipes
             /\ Len(pipes) # 1 /\ at + 1 <= Len(pipes)
  <2>1. /\ at >= 1 /\ at + 1 <= Len(pipes) /\ Len(pipes) <= MaxPipes
        /\ at \in Nat /\ Len(pipes) \in Nat /\ MaxPipes \in Nat
    BY <1>1, <1>2, <1>6, EventsAssumption DEF TypeOK
  <2>2. Len(pipes) # 1
    <3>1. Len(pipes) = 1 => at + 1 <= 1
      BY <2>1
    <3> QED
      BY <2>1, <3>1
  <2>3. at + 1 \in 1..MaxPipes
    BY <2>1
  <2>4. Tx' = IF Len(pipes) = 1 THEN 0 ELSE at + 1
    BY <1>2 DEF Tx
  <2> QED
    BY <2>1, <2>2, <2>3, <2>4
<1>7. ASSUME at' <= Len(pipes)
      PROVE  rows'[Tx'].status \notin {"failed", "skipped"}
  <2>1. ~(at + 1 > Len(pipes) \/ Len(pipes) = 1)
    BY <1>2, <1>6, <1>7
  <2>2. rows' = [FinalRow EXCEPT ![at + 1].status = "queued"]
    BY <1>1, <2>1 DEF Walk
  <2>3. rows'[at + 1].status = "queued"
    BY <1>2, <1>4, <1>6, <1>7, <2>2, EventsAssumption DEF Table
  <2> QED
    BY <1>6, <1>7, <2>3
<1>8. \A o \in out : o.tx <= at'
  BY <1>2, <1>5, EventsAssumption DEF Silent
<1>9. ASSUME NEW o \in out, at' <= Len(pipes)
      PROVE  o.tx # Tx'
  <2>1. o.tx <= at /\ o.tx \in Nat
    BY <1>5, <1>9, EventsAssumption DEF Silent
  <2> QED
    BY <1>2, <1>6, <1>9, <2>1
<1> QED
  BY <1>2, <1>3, <1>5, <1>7, <1>8, <1>9, FreshFacts DEF Silent

(* A node that refuses or fails, or a stop, comes before every publish of    *)
(* its pipeline, in an isolated branch as anywhere else: the publishes are   *)
(* put off to the end of run_flow_graph and an aborted walk makes none       *)
(* (flow_walker.py:351-359), so a row that says failed or skipped has        *)
(* published nothing.                                                        *)
THEOREM AbortPublishesNothingHolds == Spec => []AbortPublishesNothing
<1>1. Init => Silent
  <2> SUFFICES ASSUME Init PROVE Silent
    OBVIOUS
  <2>1. 0 \in 0..MaxPipes
    BY EventsAssumption
  <2>2. rows[0].status = "queued"
    BY <2>1 DEF Init
  <2>3. ctx = Fresh /\ at = 0 /\ out = {}
    BY DEF Init
  <2> QED
    BY <2>2, <2>3, FreshFacts DEF Silent
<1>2. TypeOK /\ Silent /\ [Next]_vars => Silent'
  <2> SUFFICES ASSUME TypeOK, Silent, [Next]_vars
               PROVE  Silent'
    OBVIOUS
  <2>1. ASSUME NEW n \in Node, Visit(n)
        PROVE  Silent'
    BY <2>1, SilentVisit
  <2>2. CASE Finish
    BY <2>2, SilentFinish
  <2>3. CASE Take
    <3>1. out = {} /\ out' = {} /\ ctx' = Fresh /\ at' # 0 /\ pipes' = pipes
      BY <2>3 DEF Take, Walk, Silent, TypeOK
    <3>2. ASSUME at' \in 1..Len(pipes)
          PROVE  rows'[Tx'].status \notin {"failed", "skipped"}
      <4>1. at' = 1 /\ rows[0].status \notin {"failed", "skipped"}
        BY <2>3, <3>2 DEF Take, Walk, Silent, TypeOK
      <4>2. Tx' = IF Len(pipes) = 1 THEN 0 ELSE 1
        BY <3>1, <4>1 DEF Tx
      <4>3. CASE Len(pipes) = 1
        BY <2>3, <3>2, <4>1, <4>2, <4>3 DEF Take, Walk, TypeOK
      <4>4. CASE Len(pipes) # 1
        <5>1. 1 \in 0..MaxPipes /\ ~(1 > Len(pipes))
          BY EventsAssumption DEF TypeOK
        <5>2. rows[0].status # "cancelled"
          <6>1. rows[0].status = "cancelled" => at' = Len(pipes) + 1
            BY <2>3 DEF Take, Walk
          <6> QED
            BY <3>2, <6>1 DEF TypeOK
        <5>3. Walk(1, [rows EXCEPT ![0].status = "processed"])
          BY <2>3, <4>4, <5>2 DEF Take
        <5>4. rows' = [[rows EXCEPT ![0].status = "processed"]
                         EXCEPT ![1].status = "queued"]
          BY <4>4, <5>1, <5>3 DEF Walk
        <5> QED
          BY <4>2, <4>4, <5>1, <5>4 DEF TypeOK, Table
      <4> QED
        BY <4>3, <4>4
    <3> QED
      BY <3>1, <3>2, FreshFacts DEF Silent
  <2>4. CASE Return
    <3>1. /\ stack # <<>> /\ ctx.busy = None /\ at \in 1..Len(pipes)
          /\ at' = at /\ pipes' = pipes /\ out' = out
      BY <2>4 DEF Return, Walks
    <3>2. ctx'.busy = None /\ (ctx'.stopped => ctx'.aborted)
      BY <2>4, <3>1, OtherCounts DEF Silent
    <3>3. \A o \in out : o.tx \in 0..MaxPipes /\ o.tx # Tx
      BY <3>1 DEF Silent, TypeOK
    <3>4. /\ \A t \in 0..MaxPipes : t # Tx => rows'[t] = rows[t]
          /\ rows'[Tx].status = rows[Tx].status
          /\ ctx'.aborted = ctx.aborted
      BY <2>4, <3>1, WriteFacts, OtherCounts DEF Return
    <3>5. Tx' = Tx /\ at # 0
      BY <3>1 DEF Tx, TypeOK
    <3> QED
      BY <3>1, <3>2, <3>3, <3>4, <3>5 DEF Silent
  <2>5. ASSUME NEW n \in Node, Publish(n) \/ Unroutable(n) \/ BrokerDown(n)
        PROVE  Silent'
    <3>1. /\ stack = <<>> /\ ~ctx.aborted /\ at \in 1..Len(pipes)
          /\ at' = at /\ pipes' = pipes /\ stack' = stack /\ rows' = rows
      BY <2>5 DEF Publish, Unroutable, BrokerDown, Offers, Ends, Walks
    <3>2. /\ ctx'.busy = ctx.busy /\ ~ctx'.aborted
          /\ (ctx'.stopped => ctx'.aborted)
      BY <2>5, <3>1, OtherCounts DEF Silent
    <3>3. Tx' = Tx /\ at # 0 /\ Tx <= at
      BY <3>1 DEF Tx, TypeOK
    <3>4. rows[Tx].status \notin {"failed", "skipped"}
      BY <3>1 DEF Silent
    <3>5. \A o \in out' : o \in out \/ o.tx = Tx
      BY <2>5 DEF Publish, Unroutable, BrokerDown
    <3>6. Len(pipes) = 1 => Tx = 0
      BY DEF Tx
    <3>7. Len(pipes) # 1 => Tx >= 1
      BY <3>1 DEF Tx, TypeOK
    <3> QED
      BY <3>1, <3>2, <3>3, <3>4, <3>5, <3>6, <3>7 DEF Silent
  <2>6. CASE CancelWrite
    BY <2>6 DEF CancelWrite, Silent, TypeOK, Table, Tx
  <2>7. CASE \E t \in 0..MaxPipes : CancelRead(t)
    BY <2>7 DEF CancelRead, Silent, Tx
  <2>8. CASE UNCHANGED vars
    BY <2>8 DEF vars, Silent, Tx
  <2> QED
    BY <2>1, <2>2, <2>3, <2>4, <2>5, <2>6, <2>7, <2>8 DEF Next, Work
<1>3. Silent => AbortPublishesNothing
  BY DEF Silent, AbortPublishesNothing
<1> QED
  BY <1>1, <1>2, <1>3, TypeCorrect, PTL DEF Spec

-----------------------------------------------------------------------------
(* What was produced inside a transform or an isolated branch stays there.   *)

(* The scopes among the first k activations of s.                            *)
Below(s, k) == {<<s[i].node, s[i].kid>> :
    i \in {j \in 1..k : s[j].kind \in {"transform", "child"}}}

(* The nodes whose result is known, so that no later step changes it.        *)
Live(c) == c.visited \ {c.busy}

(* The result was made in scopes that run, and the result an activation will *)
(* give back was made in scopes below it.                                    *)
Holds(c, s) ==
    /\ c.busy # None => c.busy \in c.visited
    /\ c.result # None => /\ c.result \in Live(c)
                          /\ c.scope[c.result] \subseteq Below(s, Len(s))
    /\ \A i \in 1..Len(s) :
          s[i].kind \in {"transform", "child"} /\ s[i].saved # None
            => /\ s[i].saved \in Live(c)
               /\ c.scope[s[i].saved] \subseteq Below(s, i - 1)

LEMMA BelowWithin ==
    ASSUME NEW s \in Seq(Frame)
    PROVE  Within(s) = Below(s, Len(s))
  BY DEF Within, Below

(* Activations that differ in their targets only have the same scopes.       *)
LEMMA HoldsLike ==
    ASSUME NEW c, NEW s \in Seq(Frame), NEW t \in Seq(Frame), Holds(c, s),
           Len(t) = Len(s),
           \A i \in 1..Len(s) : /\ t[i].kind = s[i].kind /\ t[i].node = s[i].node
                                /\ t[i].saved = s[i].saved /\ t[i].kid = s[i].kid
    PROVE  Holds(c, t)
<1>1. ASSUME NEW k \in 0..Len(s)
      PROVE  Below(t, k) = Below(s, k)
  <2>1. 1..k \subseteq 1..Len(s)
    OBVIOUS
  <2>2. {j \in 1..k : t[j].kind \in {"transform", "child"}}
          = {j \in 1..k : s[j].kind \in {"transform", "child"}}
    BY <2>1
  <2> QED
    BY <2>1, <2>2 DEF Below
<1>2. Len(s) \in 0..Len(s) /\ \A i \in 1..Len(s) : i - 1 \in 0..Len(s)
  OBVIOUS
<1> QED
  BY <1>1, <1>2 DEF Holds

LEMMA BelowAppend ==
    ASSUME NEW s \in Seq(Frame), NEW f \in Frame
    PROVE  /\ \A k \in 0..Len(s) : Below(Append(s, f), k) = Below(s, k)
           /\ Below(Append(s, f), Len(s) + 1) =
                IF f.kind \in {"transform", "child"}
                THEN Below(s, Len(s)) \cup {<<f.node, f.kid>>}
                ELSE Below(s, Len(s))
<1> DEFINE t == Append(s, f)
<1>1. /\ t[Len(s) + 1] = f /\ \A i \in 1..Len(s) : t[i] = s[i]
  OBVIOUS
<1> HIDE DEF t
<1>2. \A k \in 0..Len(s) : 1..k \subseteq 1..Len(s)
  OBVIOUS
<1>3. ASSUME NEW k \in 0..Len(s)
      PROVE  Below(t, k) = Below(s, k)
  <2>1. {j \in 1..k : t[j].kind \in {"transform", "child"}}
          = {j \in 1..k : s[j].kind \in {"transform", "child"}}
    BY <1>1, <1>2
  <2> QED
    BY <1>1, <1>2, <2>1 DEF Below
<1>4. 1..(Len(s) + 1) = 1..Len(s) \cup {Len(s) + 1}
  OBVIOUS
<1>5. {j \in 1..(Len(s) + 1) : t[j].kind \in {"transform", "child"}}
        = {j \in 1..Len(s) : t[j].kind \in {"transform", "child"}}
            \cup IF f.kind \in {"transform", "child"} THEN {Len(s) + 1} ELSE {}
  BY <1>1, <1>4
<1>6. Below(t, Len(s) + 1) = Below(t, Len(s))
        \cup IF f.kind \in {"transform", "child"} THEN {<<f.node, f.kid>>} ELSE {}
  BY <1>1, <1>5 DEF Below
<1>7. Below(t, Len(s)) = Below(s, Len(s))
  BY <1>3
<1> QED
  BY <1>3, <1>6, <1>7 DEF t

(* An activation begins: a scope among them saves the result as it is.       *)
LEMMA HoldsAppend ==
    ASSUME NEW c, NEW s \in Seq(Frame), NEW f \in Frame, Holds(c, s),
           f.kind \in {"transform", "child"} => f.saved = c.result
    PROVE  Holds(c, Append(s, f))
<1> DEFINE t == Append(s, f)
<1>1. /\ t \in Seq(Frame) /\ Len(t) = Len(s) + 1
      /\ t[Len(s) + 1] = f /\ \A i \in 1..Len(s) : t[i] = s[i]
  OBVIOUS
<1>2. /\ \A k \in 0..Len(s) : Below(t, k) = Below(s, k)
      /\ Below(s, Len(s)) \subseteq Below(t, Len(s) + 1)
  BY BelowAppend
<1> HIDE DEF t
<1>3. ASSUME NEW i \in 1..Len(t),
             t[i].kind \in {"transform", "child"}, t[i].saved # None
      PROVE  /\ t[i].saved \in Live(c)
             /\ c.scope[t[i].saved] \subseteq Below(t, i - 1)
  <2>1. CASE i \in 1..Len(s)
    <3>1. i - 1 \in 0..Len(s)
      BY <2>1
    <3> QED
      BY <1>1, <1>2, <1>3, <2>1, <3>1 DEF Holds
  <2>2. CASE i = Len(s) + 1
    <3>1. i - 1 = Len(s) /\ Len(s) \in 0..Len(s)
      BY <2>2
    <3> QED
      BY <1>1, <1>2, <1>3, <2>2, <3>1 DEF Holds
  <2> QED
    BY <1>1, <2>1, <2>2
<1> QED
  BY <1>1, <1>2, <1>3 DEF Holds, t

(* The result and its scopes stay, and no known result is forgotten.         *)
LEMMA HoldsKept ==
    ASSUME NEW c, NEW d, NEW s, Holds(c, s),
           d.result = c.result, d.scope = c.scope,
           Live(c) \subseteq Live(d), d.busy # None => d.busy \in d.visited
    PROVE  Holds(d, s)
  BY DEF Holds

(* A new result of a node whose result was not known.                        *)
LEMMA HoldsMade ==
    ASSUME NEW n \in Node, NEW c \in Context, NEW d, NEW s \in Seq(Frame),
           Holds(c, s), n \notin Live(c), n \in Live(d),
           Live(c) \subseteq Live(d), d.busy # None => d.busy \in d.visited,
           d.result = n, d.scope = [c.scope EXCEPT ![n] = Within(s)]
    PROVE  Holds(d, s)
<1>1. d.scope[n] = Below(s, Len(s)) /\ \A m \in Node \ {n} : d.scope[m] = c.scope[m]
  BY BelowWithin DEF Context
<1>2. Live(c) \subseteq Node \ {n}
  BY DEF Live, Context
<1> QED
  BY <1>1, <1>2 DEF Holds

(* The activations below the last one.                                       *)
LEMMA FrontFacts ==
    ASSUME NEW s \in Seq(Frame), s # <<>>
    PROVE  /\ s[Len(s)] \in Frame /\ Len(s) \in Nat \ {0}
           /\ Front(s) \in Seq(Frame) /\ Len(Front(s)) = Len(s) - 1
           /\ \A i \in 1..Len(Front(s)) : Front(s)[i] = s[i]
<1> DEFINE t == Front(s)
           m == Len(s) - 1
<1>1. Len(s) \in Nat \ {0} /\ s[Len(s)] \in Frame
  <2>1. Len(s) \in Nat /\ Len(s) # 0
    OBVIOUS
  <2> QED
    BY <2>1
<1>2. m \in Nat /\ 1 \in Int /\ m \in Int /\ \A i \in 1..m : s[i] \in Frame
  BY <1>1
<1>3. t = SubSeq(s, 1, m)
  BY DEF Front
<1> HIDE DEF t, m
<1>4. /\ t \in Seq(Frame) /\ Len(t) = IF 1 <= m THEN m - 1 + 1 ELSE 0
      /\ \A i \in 1..(m - 1 + 1) : t[i] = s[1 + i - 1]
  BY <1>2, <1>3, SubSeqProperties
<1>5. Len(t) = m
  BY <1>2, <1>4
<1>6. \A i \in 1..m : t[i] = s[i]
  BY <1>2, <1>4
<1> QED
  BY <1>1, <1>4, <1>5, <1>6 DEF m, t

(* An activation ends, and a scope gives back what it saved.                 *)
LEMMA HoldsFront ==
    ASSUME NEW c, NEW d, NEW s \in Seq(Frame), s # <<>>, Holds(c, s),
           d.visited = c.visited, d.busy = c.busy, d.scope = c.scope,
           d.result = IF s[Len(s)].kind \in {"transform", "child"}
                      THEN s[Len(s)].saved ELSE c.result
    PROVE  Holds(d, Front(s))
<1> DEFINE t == Front(s)
           f == s[Len(s)]
<1>1. /\ f \in Frame /\ Len(s) \in Nat \ {0} /\ t \in Seq(Frame)
      /\ Len(t) = Len(s) - 1 /\ \A i \in 1..Len(t) : t[i] = s[i]
  BY FrontFacts
<1> HIDE DEF t
<1>2. /\ \A k \in 0..Len(t) : 1..k \subseteq 1..Len(t)
      /\ \A i \in 1..Len(t) : i \in 1..Len(s) /\ i - 1 \in 0..Len(t)
      /\ Len(t) \in 0..Len(t) /\ Len(s) \in 1..Len(s)
      /\ 1..Len(s) = 1..Len(t) \cup {Len(s)}
  BY <1>1
<1>3. ASSUME NEW k \in 0..Len(t)
      PROVE  Below(s, k) = Below(t, k)
  <2> DEFINE js == {j \in 1..k : s[j].kind \in {"transform", "child"}}
  <2>1. \A j \in 1..k : t[j] = s[j]
    BY <1>1, <1>2
  <2>2. js = {j \in 1..k : t[j].kind \in {"transform", "child"}}
    BY <2>1
  <2>3. \A j \in js : t[j] = s[j]
    BY <2>1
  <2>4. Below(s, k) = {<<s[i].node, s[i].kid>> : i \in js}
    BY DEF Below
  <2>5. Below(t, k) = {<<t[i].node, t[i].kid>> : i \in js}
    BY <2>2 DEF Below
  <2> HIDE DEF js
  <2> QED
    BY <2>3, <2>4, <2>5
<1>4. ASSUME f.kind \notin {"transform", "child"}
      PROVE  Below(s, Len(s)) = Below(s, Len(t))
  <2>1. {j \in 1..Len(s) : s[j].kind \in {"transform", "child"}}
          = {j \in 1..Len(t) : s[j].kind \in {"transform", "child"}}
    BY <1>2, <1>4
  <2> QED
    BY <2>1 DEF Below
<1>5. Live(d) = Live(c)
  BY DEF Live
<1>6. ASSUME NEW i \in 1..Len(t),
             t[i].kind \in {"transform", "child"}, t[i].saved # None
      PROVE  /\ t[i].saved \in Live(d)
             /\ d.scope[t[i].saved] \subseteq Below(t, i - 1)
  BY <1>1, <1>2, <1>3, <1>5, <1>6 DEF Holds
<1>7. ASSUME d.result # None
      PROVE  /\ d.result \in Live(d)
             /\ d.scope[d.result] \subseteq Below(t, Len(t))
  <2>1. CASE f.kind \in {"transform", "child"}
    <3>1. Below(s, Len(s) - 1) = Below(t, Len(t))
      BY <1>1, <1>2, <1>3
    <3> QED
      BY <1>1, <1>2, <1>5, <1>7, <2>1, <3>1 DEF Holds
  <2>2. CASE f.kind \notin {"transform", "child"}
    BY <1>2, <1>3, <1>4, <1>5, <1>7, <2>2 DEF Holds
  <2> QED
    BY <2>1, <2>2
<1> QED
  BY <1>6, <1>7 DEF Holds, t

LEMMA HoldsVisit ==
    ASSUME TypeOK, Holds(ctx, stack), NEW n \in Node, Visit(n)
    PROVE  Holds(ctx, stack)'
<1> DEFINE v == Visited(n, ctx)
<1>0. ctx \in Context /\ stack \in Seq(Frame)
  BY DEF TypeOK
<1>1. v \in Context
  BY <1>0, VisitedType
<1>2. /\ v.visited = ctx.visited \cup {n} /\ v.busy = ctx.busy
      /\ v.result = ctx.result /\ v.scope = ctx.scope
  BY <1>0, VisitedFields
<1> HIDE DEF v
<1>3. ASSUME NEW t, Visits(n, t)
      PROVE  /\ n \notin ctx.visited /\ ctx.busy = None /\ stack # <<>>
             /\ Rest(n) \in Seq(Frame)
             /\ Holds(ctx, Rest(n)) /\ Holds(v, Rest(n))
             /\ Live(ctx) \subseteq Live(v) /\ Live(ctx) = ctx.visited
             /\ Within(Rest(n)) = Scopes
  <2>1. n \notin ctx.visited /\ ctx.busy = None /\ stack # <<>>
    BY <1>3, VisitsFacts
  <2>2. Rest(n) \in Seq(Frame) /\ Holds(ctx, Rest(n))
    BY <1>0, <2>1, RestFacts, HoldsLike
  <2>3. Live(ctx) \subseteq Live(v) /\ Live(ctx) = ctx.visited
    BY <1>0, <1>2, <2>1, EventsAssumption DEF Live, Context
  <2>4. Holds(v, Rest(n))
    BY <1>2, <2>1, <2>2, <2>3, HoldsKept
  <2>5. Within(Rest(n)) = Scopes
    <3> DEFINE r == Rest(n)
    <3>1. /\ Len(r) = Len(stack) /\ r \in Seq(Frame)
          /\ \A i \in 1..Len(stack) : /\ r[i].kind = stack[i].kind
                                      /\ r[i].node = stack[i].node
                                      /\ r[i].kid = stack[i].kid
      BY <2>1, RestFacts
    <3> HIDE DEF r
    <3>2. DOMAIN r = 1..Len(stack) /\ DOMAIN stack = 1..Len(stack)
      BY <1>0, <3>1
    <3>3. {j \in DOMAIN r : r[j].kind \in {"transform", "child"}}
            = {j \in DOMAIN stack : stack[j].kind \in {"transform", "child"}}
      BY <3>1, <3>2
    <3>4. Within(r) = Within(stack)
      BY <3>1, <3>2, <3>3 DEF Within
    <3> QED
      BY <3>4 DEF r, Scopes
  <2> QED
    BY <2>1, <2>2, <2>3, <2>4, <2>5
(* The nodes that go on with Follow.                                         *)
<1>4. ASSUME NEW c \in Context, NEW base \in Seq(Frame), Holds(c, base),
             Follow(n, c, base)
      PROVE  Holds(ctx', stack')
  <2>1. PICK todo \in SUBSET Node, side \in SUBSET Node :
           stack' = Append(base, Loop(n, todo, side))
    BY <1>4, FollowFacts
  <2>2. Loop(n, todo, side) \in Frame /\ Loop(n, todo, side).kind = "loop"
    BY LoopType DEF Value, Loop
  <2>3. Holds(c, stack')
    BY <1>4, <2>1, <2>2, HoldsAppend
  <2>4. /\ ctx'.result = c.result /\ ctx'.scope = c.scope
        /\ ctx'.visited = c.visited /\ ctx'.busy = c.busy
    BY <1>4, FollowFacts
  <2>5. c.busy # None => c.busy \in c.visited
    BY <1>4 DEF Holds
  <2> QED
    BY <2>3, <2>4, <2>5, HoldsKept DEF Live
<1>5. CASE Pass(n)
  <2>1. PICK t : Visits(n, t)
    BY <1>5 DEF Pass
  <2>2. Follow(n, v, Rest(n))
    BY <1>5 DEF Pass, v
  <2> QED
    BY <1>1, <1>3, <1>4, <2>1, <2>2
<1>6. CASE Process(n)
  <2>1. /\ Visits(n, "processor") /\ stack' = Rest(n)
        /\ ctx' = [v EXCEPT !.busy = n]
    BY <1>6 DEF Process, v
  <2>2. /\ ctx'.result = v.result /\ ctx'.scope = v.scope
        /\ ctx'.visited = v.visited /\ ctx'.busy = n
    BY <1>1, <2>1 DEF Context
  <2>3. Live(ctx) \subseteq Live(ctx') /\ ctx'.busy \in ctx'.visited
    BY <1>2, <1>3, <2>1, <2>2 DEF Live
  <2> QED
    BY <1>2, <1>3, <2>1, <2>2, <2>3, HoldsKept
<1>7. CASE Processed(n)
  <2> DEFINE c == Made(n, ctx, Scopes)
             d == [c EXCEPT !.busy = None]
  <2>1. Follow(n, d, stack) /\ ctx.busy = n
    BY <1>7 DEF Processed
  <2>2. c \in Context /\ c.result = n /\ c.scope = [ctx.scope EXCEPT ![n] = Scopes]
    BY <1>0, MadeType, ScopesType DEF Scopes
  <2>3. c.visited = ctx.visited
    BY <1>0 DEF Made, Context
  <2> HIDE DEF c
  <2>4. /\ d \in Context /\ d.visited = c.visited /\ d.busy = None
        /\ d.result = c.result /\ d.scope = c.scope
    BY <2>2 DEF Context, Value
  <2> HIDE DEF d
  <2>5. /\ n \notin Live(ctx) /\ n \in Live(d) /\ Live(ctx) \subseteq Live(d)
    <3>1. n \in ctx.visited /\ n # None
      BY <2>1, EventsAssumption DEF Holds
    <3>2. ctx.visited \subseteq Node
      BY <1>0 DEF Context
    <3> QED
      BY <2>1, <2>3, <2>4, <3>1, <3>2, EventsAssumption DEF Live
  <2>6. Holds(d, stack)
    BY <1>0, <2>2, <2>4, <2>5, HoldsMade DEF Scopes
  <2> QED
    BY <1>0, <1>4, <2>1, <2>4, <2>6
<1>8. CASE ProcessFailed(n)
  <2>1. /\ ctx' = [Aborted(ctx) EXCEPT !.busy = None] /\ stack' = stack
    BY <1>8 DEF ProcessFailed
  <2>2. /\ ctx'.result = ctx.result /\ ctx'.scope = ctx.scope
        /\ ctx'.visited = ctx.visited /\ ctx'.busy = None
    BY <1>0, <2>1 DEF Aborted, Context
  <2>3. Live(ctx) \subseteq Live(ctx')
    BY <1>0, <2>2, EventsAssumption DEF Live, Context
  <2> QED
    BY <2>1, <2>2, <2>3, HoldsKept
<1>9. CASE TransformFailed(n)
  <2>1. Visits(n, "transform") /\ ctx' = v /\ stack' = Rest(n)
    BY <1>9 DEF TransformFailed, v
  <2> QED
    BY <1>3, <2>1
<1>10. CASE Branch(n)
  <2>1. PICK t : Visits(n, t)
    BY <1>10 DEF Branch
  <2>2. PICK targets \in Targets(n) :
          /\ ctx' = [v EXCEPT !.took[n] = targets]
          /\ stack' = Append(Rest(n), [Loop(n, targets, {}) EXCEPT !.kind = "branch"])
    BY <1>10 DEF Branch, v
  <2> DEFINE f == [Loop(n, targets, {}) EXCEPT !.kind = "branch"]
  <2>3. f \in Frame /\ f.kind = "branch"
    <3>1. targets \in SUBSET Node
      BY DEF Targets, Out
    <3> QED
      BY <3>1 DEF Loop, Frame, Value
  <2>4. stack' = Append(Rest(n), f)
    BY <2>2
  <2> HIDE DEF f
  <2>5. Holds(v, stack')
    BY <1>1, <1>3, <2>1, <2>3, <2>4, HoldsAppend
  <2>6. /\ ctx'.result = v.result /\ ctx'.scope = v.scope
        /\ ctx'.visited = v.visited /\ ctx'.busy = v.busy
    BY <1>1, <2>2 DEF Context
  <2>7. Live(v) \subseteq Live(ctx') /\ (ctx'.busy # None => ctx'.busy \in ctx'.visited)
    BY <1>2, <1>3, <2>1, <2>6 DEF Live
  <2> QED
    BY <2>5, <2>6, <2>7, HoldsKept
<1>11. CASE Stop(n) \/ \E status \in {"failed", "skipped"} : Refuse(n, status)
  <2>1. PICK t : Visits(n, t)
    BY <1>11 DEF Stop, Refuse
  <2>2. /\ stack' = Rest(n)
        /\ ctx' \in {Aborted(v), [Aborted(v) EXCEPT !.stopped = TRUE]}
    BY <1>11 DEF Stop, Refuse, v
  <2>3. /\ ctx'.result = v.result /\ ctx'.scope = v.scope
        /\ ctx'.visited = v.visited /\ ctx'.busy = v.busy
    BY <1>1, <2>2 DEF Aborted, Context
  <2>4. Live(v) \subseteq Live(ctx') /\ (ctx'.busy # None => ctx'.busy \in ctx'.visited)
    BY <1>2, <1>3, <2>1, <2>3 DEF Live
  <2> QED
    BY <1>3, <2>1, <2>2, <2>3, <2>4, HoldsKept
<1>12. CASE Defer(n)
  <2>1. /\ Visits(n, "publish") /\ stack' = Rest(n)
        /\ ctx' = [ctx EXCEPT !.deferred = ctx.deferred \cup {n}]
    BY <1>12 DEF Defer
  <2>2. /\ ctx'.result = ctx.result /\ ctx'.scope = ctx.scope
        /\ ctx'.visited = ctx.visited /\ ctx'.busy = ctx.busy
    BY <1>0, <2>1 DEF Context
  <2>3. Live(ctx) \subseteq Live(ctx') /\ (ctx'.busy # None => ctx'.busy \in ctx'.visited)
    BY <1>3, <2>1, <2>2 DEF Live
  <2> QED
    BY <1>3, <2>1, <2>2, <2>3, HoldsKept
<1>13. CASE Isolate(n)
  <2> DEFINE f == stack[Len(stack)]
             g == [f EXCEPT !.side = f.side \ {n}]
             s == [stack EXCEPT ![Len(stack)] = g]
             h == [Loop(n, {n}, {}) EXCEPT !.kind = "child",
                      !.saved = ctx.result, !.kid = Len(kids) + 1]
  <2>1. stack # <<>> /\ ctx' = ctx /\ stack' = Append(s, h)
    BY <1>13 DEF Isolate
  <2>2. f \in Frame /\ Len(stack) \in 1..Len(stack)
    BY <1>0, <2>1
  <2>3. /\ g \in Frame /\ g.kind = f.kind /\ g.node = f.node
        /\ g.saved = f.saved /\ g.kid = f.kid
    BY <2>2 DEF Frame
  <2>4. Len(kids) + 1 \in Nat /\ ctx.result \in Value
    BY <1>0 DEF TypeOK, Context
  <2>5. h \in Frame /\ h.saved = ctx.result
    BY <2>4 DEF Loop, Frame, Value
  <2>6. f = stack[Len(stack)]
    OBVIOUS
  <2> HIDE DEF f, g, h
  <2>7. /\ s \in Seq(Frame) /\ Len(s) = Len(stack)
        /\ \A i \in 1..Len(stack) : s[i] = IF i = Len(stack) THEN g ELSE stack[i]
    BY <1>0, <2>2, <2>3
  <2> HIDE DEF s
  <2>8. Holds(ctx, s)
    <3>1. \A i \in 1..Len(stack) :
             /\ s[i].kind = stack[i].kind /\ s[i].node = stack[i].node
             /\ s[i].saved = stack[i].saved /\ s[i].kid = stack[i].kid
      BY <2>3, <2>6, <2>7
    <3> QED
      BY <1>0, <2>7, <3>1, HoldsLike
  <2> QED
    BY <2>1, <2>5, <2>7, <2>8, HoldsAppend
<1>14. CASE \E b \in BOOLEAN : Transform(n, b)
  <2>1. PICK b \in BOOLEAN : Transform(n, b)
    BY <1>14
  <2> DEFINE targets == Out(n, Handle)
             f == [Loop(n, targets, {}) EXCEPT !.kind = "transform",
                                               !.saved = ctx.result]
             c == [v EXCEPT !.took[n] = targets]
             s == Append(Rest(n), f)
             inner == Scopes \cup {<<n, 0>>}
             d == Made(n, c, inner)
  <2>2. /\ Visits(n, "transform") /\ stack' = s
        /\ ctx' = IF b THEN d ELSE c
    BY <2>1 DEF Transform, v
  <2>3. targets \in SUBSET Node /\ ctx.result \in Value
    BY <1>0 DEF Out, Context
  <2>4. /\ f \in Frame /\ f.kind = "transform" /\ f.saved = ctx.result
        /\ f.node = n /\ f.kid = 0
    BY <2>3 DEF Loop, Frame, Value
  <2>5. /\ c \in Context /\ c.visited = v.visited /\ c.busy = v.busy
        /\ c.result = v.result /\ c.scope = v.scope
    <3> HIDE DEF targets
    <3> QED
      BY <1>1, <2>3 DEF Context
  <2>6. inner \in SUBSET (Value \X Nat)
    BY <1>0, ScopesType DEF Scopes, Value
  <2> HIDE DEF targets, f, c, inner
  <2>7. s \in Seq(Frame) /\ Within(s) = inner
    <3>1. s \in Seq(Frame) /\ Len(s) = Len(Rest(n)) + 1
      BY <1>3, <2>2, <2>4
    <3>2. Below(s, Len(Rest(n)) + 1)
            = Below(Rest(n), Len(Rest(n))) \cup {<<f.node, f.kid>>}
      BY <1>3, <2>2, <2>4, BelowAppend
    <3>3. Within(s) = Below(s, Len(s)) /\ Scopes = Below(Rest(n), Len(Rest(n)))
      BY <1>3, <2>2, <3>1, BelowWithin
    <3> QED
      BY <2>4, <3>1, <3>2, <3>3 DEF inner
  <2>8. Holds(ctx, s)
    BY <1>3, <2>2, <2>4, HoldsAppend
  <2>9. /\ d.result = n /\ d.scope = [c.scope EXCEPT ![n] = inner]
        /\ d.visited = c.visited /\ d.busy = c.busy
    <3>1. d.visited = c.visited /\ d.busy = c.busy
      BY <2>5 DEF Made, Context
    <3> QED
      BY <2>5, <2>6, <3>1, MadeType
  <2>10. Live(ctx) \subseteq Live(c) /\ c.busy = None
    BY <1>2, <1>3, <2>2, <2>5 DEF Live
  <2> HIDE DEF s, d
  <2>11. CASE b
    <3>1. /\ n \notin Live(ctx) /\ n \in Live(d) /\ Live(ctx) \subseteq Live(d)
      BY <1>2, <1>3, <2>2, <2>5, <2>9, <2>10, EventsAssumption DEF Live
    <3> QED
      BY <1>0, <1>2, <2>2, <2>5, <2>7, <2>8, <2>9, <2>10, <2>11, <3>1, HoldsMade
  <2>12. CASE ~b
    BY <1>2, <2>2, <2>5, <2>8, <2>10, <2>12, HoldsKept
  <2> QED
    BY <2>11, <2>12
<1>15. CASE \E b \in BOOLEAN : MapPublish(n, b)
  <2>1. PICK b \in BOOLEAN : MapPublish(n, b)
    BY <1>15
  <2> DEFINE body == IF b THEN [map |-> n, of |-> ctx.result] ELSE Plain(ctx.result)
             c == [v EXCEPT !.body = body]
  <2>2. Visits(n, "publishMap") /\ Follow(n, c, Rest(n))
    BY <2>1 DEF MapPublish, v
  <2>3. body \in Body \cup {None}
    BY <1>0 DEF Context, Body, Plain, Value
  <2>4. /\ c \in Context /\ c.visited = v.visited /\ c.busy = v.busy
        /\ c.result = v.result /\ c.scope = v.scope
    <3> HIDE DEF body
    <3> QED
      BY <1>1, <2>3 DEF Context
  <2> HIDE DEF c, body
  <2>5. Holds(c, Rest(n))
    <3>1. Live(v) \subseteq Live(c) /\ (c.busy # None => c.busy \in c.visited)
      BY <1>2, <1>3, <2>2, <2>4 DEF Live
    <3> QED
      BY <1>3, <2>2, <2>4, <3>1, HoldsKept
  <2> QED
    BY <1>3, <1>4, <2>2, <2>4, <2>5
<1> QED
  BY <1>5, <1>6, <1>7, <1>8, <1>9, <1>10, <1>11, <1>12, <1>13, <1>14, <1>15
  DEF Visit

(* flow_walker.py:268: what a node produced inside transforms or isolated    *)
(* branches is the result only while all of them are still running: each     *)
(* activation saves a result of the scopes below it (256, 340) and gives it  *)
(* back when it ends (276, 349).                                             *)
THEOREM ScopedHolds == Spec => []Scoped
<1>1. Init => Holds(ctx, stack)
  BY FreshFacts DEF Init, Holds
<1>2. TypeOK /\ Holds(ctx, stack) /\ [Next]_vars => Holds(ctx, stack)'
  <2> SUFFICES ASSUME TypeOK, Holds(ctx, stack), [Next]_vars
               PROVE  Holds(ctx, stack)'
    OBVIOUS
  <2>0. ctx \in Context /\ stack \in Seq(Frame)
    BY DEF TypeOK
  <2>1. ASSUME NEW n \in Node, Visit(n)
        PROVE  Holds(ctx, stack)'
    BY <2>1, HoldsVisit
  <2>2. CASE Take \/ Finish
    <3>1. /\ ctx' = Fresh
          /\ \/ stack' = <<>>
             \/ \E todo : stack' = <<[Loop(None, todo, {}) EXCEPT !.kind = "branch"]>>
      BY <2>2 DEF Take, Finish, Walk
    <3>2. CASE stack' = <<>>
      BY <3>1, <3>2, FreshFacts DEF Holds
    <3>3. CASE stack' # <<>>
      <4>1. PICK todo : stack' = <<[Loop(None, todo, {}) EXCEPT !.kind = "branch"]>>
        BY <3>1, <3>3
      <4> DEFINE f == [Loop(None, todo, {}) EXCEPT !.kind = "branch"]
      <4>2. f.kind = "branch"
        BY DEF Loop
      <4>3. stack' = <<f>>
        BY <4>1
      <4> HIDE DEF f
      <4>4. \A i \in 1..Len(stack') : stack'[i].kind = "branch"
        BY <4>2, <4>3
      <4> QED
        BY <3>1, <4>4, FreshFacts DEF Holds
    <3> QED
      BY <3>2, <3>3
  <2>3. CASE Return
    <3>1. /\ stack # <<>> /\ stack' = Front(stack)
          /\ Top = stack[Len(stack)]
          /\ ctx' = IF Top.kind \in {"transform", "child"}
                    THEN [ctx EXCEPT !.result = Top.saved] ELSE ctx
      BY <2>3 DEF Return, Top
    <3>2. /\ ctx'.visited = ctx.visited /\ ctx'.busy = ctx.busy
          /\ ctx'.scope = ctx.scope
          /\ ctx'.result = IF stack[Len(stack)].kind \in {"transform", "child"}
                           THEN stack[Len(stack)].saved ELSE ctx.result
      BY <2>0, <3>1 DEF Context
    <3> QED
      BY <2>0, <3>1, <3>2, HoldsFront
  <2>4. CASE \/ CancelWrite \/ UNCHANGED vars
             \/ \E n \in Node : Publish(n) \/ Unroutable(n) \/ BrokerDown(n)
             \/ \E t \in 0..MaxPipes : CancelRead(t)
    <3>1. stack' = stack
      BY <2>4 DEF CancelWrite, vars, Publish, Unroutable, BrokerDown, CancelRead
    <3>2. ctx' = ctx \/ \E n \in Node : ctx' = Handled(n)
      BY <2>4 DEF CancelWrite, vars, Publish, Unroutable, BrokerDown, CancelRead
    <3>3. /\ ctx'.visited = ctx.visited /\ ctx'.busy = ctx.busy
          /\ ctx'.scope = ctx.scope /\ ctx'.result = ctx.result
      BY <2>0, <3>2 DEF Handled, Context
    <3>4. ctx.busy # None => ctx.busy \in ctx.visited
      BY DEF Holds
    <3> QED
      BY <3>1, <3>3, <3>4, HoldsKept DEF Live
  <2> QED
    BY <2>1, <2>2, <2>3, <2>4 DEF Next, Work
<1>3. TypeOK /\ Holds(ctx, stack) => Scoped
  BY BelowWithin DEF TypeOK, Holds, Scoped, Scopes
<1> QED
  BY <1>1, <1>2, <1>3, TypeCorrect, PTL DEF Spec

-----------------------------------------------------------------------------
(* A walk that ends leaves no transaction of its own running.                *)

(* The walk whose row is t is over, or will never begin.                     *)
Left(t) == IF t = 0 THEN at > 1 \/ (at = 1 /\ Len(pipes) # 1)
           ELSE at = 0 \/ Len(pipes) = 1 \/ t < at

Closed == \A t \in 0..MaxPipes :
             Left(t) => rows[t].status \notin {"queued", "processing"}

(* The steps of a walk write its own row, which is not left yet.             *)
LEMMA TxNotLeft ==
    ASSUME TypeOK, at \in 1..Len(pipes)
    PROVE  /\ Tx \in 0..MaxPipes /\ ~Left(Tx)
           /\ \A t \in 0..MaxPipes :
                 IF t = 0 THEN at + 1 > 1 => Left(t) \/ t = Tx
                 ELSE Len(pipes) = 1 \/ t < at + 1 => Left(t) \/ t = Tx
<1>1. /\ at \in Nat /\ at >= 1 /\ at <= Len(pipes) /\ Len(pipes) \in Nat
      /\ Len(pipes) <= MaxPipes /\ MaxPipes \in Nat
  BY EventsAssumption DEF TypeOK
<1>2. CASE Len(pipes) = 1
  BY <1>1, <1>2 DEF Tx, Left
<1>3. CASE Len(pipes) # 1
  BY <1>1, <1>3 DEF Tx, Left
<1> QED
  BY <1>2, <1>3

LEMMA ClosedSame ==
    ASSUME TypeOK, Closed, at \in 1..Len(pipes), at' = at, pipes' = pipes,
           \A t \in 0..MaxPipes : t # Tx => rows'[t] = rows[t]
    PROVE  Closed'
<1>1. \A t \in 0..MaxPipes : Left(t)' = Left(t)
  BY DEF Left
<1> QED
  BY <1>1, TxNotLeft DEF Closed

(* After the last write of a walk its row is not open.                       *)
LEMMA FinalRowCloses ==
    ASSUME TypeOK, at \in 1..Len(pipes)
    PROVE  FinalRow[Tx].status \notin {"queued", "processing"}
<1> DEFINE open == rows[Tx].status \in {"queued", "processing"}
           status == IF ~open THEN rows[Tx].status
                     ELSE IF ctx.stopped THEN "skipped" ELSE "processed"
           result == IF open \/ ctx.result # None THEN ctx.result ELSE rows[Tx].result
<1>1. Tx \in 0..MaxPipes /\ rows \in Table
  BY TxNotLeft DEF TypeOK
<1>2. FinalRow = [rows EXCEPT ![Tx].status = status, ![Tx].result = result]
  BY <1>1 DEF FinalRow, Table
<1>3. status \notin {"queued", "processing"}
  OBVIOUS
<1> HIDE DEF status, result
<1>4. FinalRow[Tx].status = status
  BY <1>1, <1>2 DEF Table
<1> QED
  BY <1>3, <1>4

LEMMA ClosedFinish ==
    ASSUME TypeOK, Closed, Finish
    PROVE  Closed'
<1>1. /\ at \in 1..Len(pipes) /\ Walk(at + 1, FinalRow) /\ pipes' = pipes
  BY DEF Finish, Ends, Walks
<1>2. /\ at \in Nat /\ Len(pipes) \in Nat /\ at >= 1 /\ at' = at + 1
      /\ MaxPipes \in Nat
  BY <1>1, EventsAssumption DEF TypeOK, Walk
<1>3. FinalRow \in Table
  BY <1>1, FinalRowType
<1>4. ASSUME NEW t \in 0..MaxPipes, Left(t)'
      PROVE  rows'[t].status \notin {"queued", "processing"}
  <2>1. Left(t) \/ t = Tx
    <3>1. CASE t = 0
      BY <1>1, <1>2, <3>1, TxNotLeft
    <3>2. CASE t # 0
      <4>1. Len(pipes) = 1 \/ t < at + 1
        BY <1>1, <1>2, <1>4, <3>2 DEF Left
      <4> QED
        BY <1>1, <3>2, <4>1, TxNotLeft
    <3> QED
      BY <3>1, <3>2
  <2>2. FinalRow[t].status \notin {"queued", "processing"}
    BY <1>1, <2>1, FinalRowType, FinalRowCloses DEF Closed
  <2>3. rows'[t] = FinalRow[t]
    <3>1. CASE at + 1 > Len(pipes) \/ Len(pipes) = 1
      BY <1>1, <3>1 DEF Walk
    <3>2. CASE ~(at + 1 > Len(pipes) \/ Len(pipes) = 1)
      <4>1. t # at + 1
        BY <1>1, <1>2, <1>4, <3>2 DEF Left
      <4>2. rows' = [FinalRow EXCEPT ![at + 1].status = "queued"]
        BY <1>1, <3>2 DEF Walk
      <4> QED
        BY <1>3, <4>1, <4>2 DEF Table
    <3> QED
      BY <3>1, <3>2
  <2> QED
    BY <2>2, <2>3
<1> QED
  BY <1>4 DEF Closed

LEMMA ClosedTake ==
    ASSUME TypeOK, Closed, Take
    PROVE  Closed'
<1>1. /\ at = 0 /\ pipes' = pipes /\ rows \in Table /\ MaxPipes \in Nat
      /\ Len(pipes) \in Nat /\ Len(pipes) >= 1 /\ 0 \in 0..MaxPipes
      /\ Len(pipes) <= MaxPipes
  BY EventsAssumption DEF Take, TypeOK
<1>2. \A t \in 0..MaxPipes : t # 0 => rows[t].status \notin {"queued", "processing"}
  BY <1>1 DEF Closed, Left
<1>3. CASE rows[0].status = "cancelled"
  <2>1. rows' = rows
    BY <1>1, <1>3 DEF Take, Walk
  <2> QED
    BY <1>2, <1>3, <2>1 DEF Closed
<1>4. CASE rows[0].status # "cancelled" /\ Len(pipes) = 1
  <2>1. rows' = rows /\ at' = 1
    BY <1>1, <1>4 DEF Take, Walk
  <2> QED
    BY <1>1, <1>2, <1>4, <2>1 DEF Closed, Left
<1>5. CASE rows[0].status # "cancelled" /\ Len(pipes) # 1
  <2> DEFINE marked == [rows EXCEPT ![0].status = "processed"]
  <2>1. Walk(1, marked)
    BY <1>5 DEF Take
  <2>2. marked[0].status = "processed" /\ marked \in Table
        /\ \A t \in 0..MaxPipes : t # 0 => marked[t] = rows[t]
    BY <1>1 DEF Table, Status
  <2> HIDE DEF marked
  <2>3. rows' = [marked EXCEPT ![1].status = "queued"] /\ at' = 1
    BY <1>1, <1>5, <2>1 DEF Walk
  <2>4. \A t \in 0..MaxPipes : t # 1 => rows'[t] = marked[t]
    BY <2>2, <2>3 DEF Table
  <2>5. \A t \in 0..MaxPipes : Left(t)' => t # 1
    BY <1>1, <1>5, <2>3 DEF Left
  <2> QED
    BY <1>2, <2>2, <2>4, <2>5 DEF Closed
<1> QED
  BY <1>3, <1>4, <1>5

LEMMA ClosedCancel ==
    ASSUME TypeOK, Closed, CancelWrite
    PROVE  Closed'
<1>1. /\ ask.tx \in 0..MaxPipes /\ rows \in Table /\ at' = at /\ pipes' = pipes
  BY DEF CancelWrite, TypeOK
<1>2. \A t \in 0..MaxPipes : rows'[t].status \in {rows[t].status, "cancelled"}
  <2> DEFINE a == ask.tx
  <2>1. a \in 0..MaxPipes
    BY <1>1
  <2>2. \/ rows' = [rows EXCEPT ![a].status = "cancelled"]
        \/ rows' = [rows EXCEPT ![a].cancel = TRUE]
    BY DEF CancelWrite
  <2> HIDE DEF a
  <2>3. /\ DOMAIN rows = 0..MaxPipes
        /\ \A t \in 0..MaxPipes : "status" \in DOMAIN rows[t]
    BY <1>1 DEF Table
  <2>4. \A t \in 0..MaxPipes :
           /\ [rows EXCEPT ![a].status = "cancelled"][t].status
                \in {rows[t].status, "cancelled"}
           /\ [rows EXCEPT ![a].cancel = TRUE][t].status = rows[t].status
    BY <2>1, <2>3
  <2> QED
    BY <2>2, <2>4
<1>3. \A t \in 0..MaxPipes : Left(t)' = Left(t)
  BY <1>1 DEF Left
<1> QED
  BY <1>2, <1>3 DEF Closed
(* An isolated branch that runs has its activation on the stack.             *)
Opened(i, s) == \E j \in 1..Len(s) : s[j].kind = "child" /\ s[j].kid = i
Branches == \A i \in 1..Len(kids) : kids[i] = "processing" => Opened(i, stack)

LEMMA OpenedAppend ==
    ASSUME NEW s \in Seq(Frame), NEW f \in Frame, NEW i, Opened(i, s)
    PROVE  Opened(i, Append(s, f))
<1>1. PICK j \in 1..Len(s) : s[j].kind = "child" /\ s[j].kid = i
  BY DEF Opened
<1>2. j \in 1..Len(Append(s, f)) /\ Append(s, f)[j] = s[j]
  OBVIOUS
<1> QED
  BY <1>1, <1>2 DEF Opened

LEMMA OpenedRest ==
    ASSUME TypeOK, stack # <<>>, NEW n, NEW i, Opened(i, stack)
    PROVE  Opened(i, Rest(n))
<1>1. PICK j \in 1..Len(stack) : stack[j].kind = "child" /\ stack[j].kid = i
  BY DEF Opened
<1>2. /\ Len(Rest(n)) = Len(stack)
      /\ Rest(n)[j].kind = stack[j].kind /\ Rest(n)[j].kid = stack[j].kid
  BY RestFacts
<1> QED
  BY <1>1, <1>2 DEF Opened

(* A branch whose activation is not the one that ends goes on.               *)
LEMMA OpenedFront ==
    ASSUME NEW s \in Seq(Frame), s # <<>>, NEW i, Opened(i, s),
           s[Len(s)].kind = "child" => s[Len(s)].kid # i
    PROVE  Opened(i, Front(s))
<1>1. PICK j \in 1..Len(s) : s[j].kind = "child" /\ s[j].kid = i
  BY DEF Opened
<1>2. j # Len(s)
  BY <1>1
<1>3. j \in 1..Len(Front(s)) /\ Front(s)[j] = s[j]
  BY <1>2, FrontFacts
<1> QED
  BY <1>1, <1>3 DEF Opened

(* Taking an isolated target from the activation on top.                     *)
Aside(n) == [stack EXCEPT ![Len(stack)].side = @ \ {n}]

LEMMA SideFacts ==
    ASSUME TypeOK, stack # <<>>, NEW n, NEW s, s = Aside(n)
    PROVE  /\ s \in Seq(Frame) /\ Len(s) = Len(stack)
           /\ \A i \in 1..Len(stack) :
                 /\ s[i].kind = stack[i].kind /\ s[i].kid = stack[i].kid
                 /\ s[i].todo = stack[i].todo
                 /\ stack[i].side \subseteq s[i].side \cup {n}
<1> DEFINE f == stack[Len(stack)]
           g == [f EXCEPT !.side = f.side \ {n}]
<1>1. f \in Frame /\ Len(stack) \in 1..Len(stack) /\ stack \in Seq(Frame)
  BY DEF TypeOK
<1>2. /\ g \in Frame /\ g.kind = f.kind /\ g.kid = f.kid /\ g.todo = f.todo
      /\ f.side \subseteq g.side \cup {n}
  BY <1>1 DEF Frame
<1>3. s = [stack EXCEPT ![Len(stack)] = g] /\ f = stack[Len(stack)]
  BY DEF Aside
<1> HIDE DEF f, g
<1>4. s \in Seq(Frame) /\ Len(s) = Len(stack)
  BY <1>1, <1>2, <1>3
<1>5. \A i \in 1..Len(stack) : s[i] = IF i = Len(stack) THEN g ELSE stack[i]
  BY <1>1, <1>3
<1> QED
  BY <1>2, <1>3, <1>4, <1>5

LEMMA OpenedSide ==
    ASSUME TypeOK, stack # <<>>, NEW n, NEW s, NEW i, Opened(i, stack),
           s = Aside(n)
    PROVE  Opened(i, s)
<1>1. PICK j \in 1..Len(stack) : stack[j].kind = "child" /\ stack[j].kid = i
  BY DEF Opened
<1>2. Len(s) = Len(stack) /\ s[j].kind = stack[j].kind /\ s[j].kid = stack[j].kid
  BY SideFacts
<1> QED
  BY <1>1, <1>2 DEF Opened

(* What a node does to the activations of isolated branches.                 *)
LEMMA VisitOpened ==
    ASSUME TypeOK, NEW n \in Node, Visit(n), NEW i, Opened(i, stack)
    PROVE  Opened(i, stack')
<1>0. ctx \in Context /\ stack \in Seq(Frame)
  BY DEF TypeOK
<1>1. ASSUME NEW t, Visits(n, t)
      PROVE  Rest(n) \in Seq(Frame) /\ Opened(i, Rest(n)) /\ stack # <<>>
  BY <1>1, VisitsFacts, RestFacts, OpenedRest
<1>2. ASSUME NEW c \in Context, NEW base \in Seq(Frame), Opened(i, base),
             Follow(n, c, base)
      PROVE  Opened(i, stack')
  <2>1. PICK todo \in SUBSET Node, side \in SUBSET Node :
           stack' = Append(base, Loop(n, todo, side))
    BY <1>2, FollowFacts
  <2> QED
    BY <1>2, <2>1, LoopType, OpenedAppend DEF Value
<1>3. CASE Pass(n)
  <2>1. PICK t : Visits(n, t)
    BY <1>3 DEF Pass
  <2>2. Follow(n, Visited(n, ctx), Rest(n))
    BY <1>3 DEF Pass
  <2> QED
    BY <1>0, <1>1, <1>2, <2>1, <2>2, VisitedType
<1>4. CASE Processed(n)
  <2> DEFINE c == Made(n, ctx, Scopes)
             d == [c EXCEPT !.busy = None]
  <2>1. c \in Context
    BY <1>0, MadeType, ScopesType DEF Scopes
  <2>2. d \in Context
    <3> HIDE DEF c
    <3> QED
      BY <2>1 DEF Context, Value
  <2>3. Follow(n, d, stack)
    BY <1>4 DEF Processed
  <2> HIDE DEF c, d
  <2> QED
    BY <1>0, <1>2, <2>2, <2>3
<1>5. CASE \E b \in BOOLEAN : MapPublish(n, b)
  <2>1. PICK b \in BOOLEAN : MapPublish(n, b)
    BY <1>5
  <2> DEFINE body == IF b THEN [map |-> n, of |-> ctx.result] ELSE Plain(ctx.result)
             v == Visited(n, ctx)
             c == [v EXCEPT !.body = body]
  <2>2. Visits(n, "publishMap") /\ Follow(n, c, Rest(n))
    BY <2>1 DEF MapPublish
  <2>3. body \in Body \cup {None} /\ v \in Context
    BY <1>0, VisitedType DEF Context, Body, Plain, Value
  <2>4. c \in Context
    <3> HIDE DEF body, v
    <3> QED
      BY <2>3 DEF Context
  <2> HIDE DEF c, body, v
  <2> QED
    BY <1>1, <1>2, <2>2, <2>4
<1>6. CASE ProcessFailed(n)
  BY <1>6 DEF ProcessFailed
<1>7. CASE Process(n)
  BY <1>1, <1>7 DEF Process
<1>8. CASE TransformFailed(n)
  BY <1>1, <1>8 DEF TransformFailed
<1>9. CASE Stop(n)
  BY <1>1, <1>9 DEF Stop
<1>10. CASE Defer(n)
  BY <1>1, <1>10 DEF Defer
<1>11. CASE \E status \in {"failed", "skipped"} : Refuse(n, status)
  BY <1>1, <1>11 DEF Refuse
<1>12. CASE Branch(n)
  <2>1. PICK t : Visits(n, t)
    BY <1>12 DEF Branch
  <2>2. PICK targets \in Targets(n) :
          stack' = Append(Rest(n), [Loop(n, targets, {}) EXCEPT !.kind = "branch"])
    BY <1>12 DEF Branch
  <2>3. [Loop(n, targets, {}) EXCEPT !.kind = "branch"] \in Frame
    <3>1. targets \in SUBSET Node
      BY DEF Targets, Out
    <3> QED
      BY <3>1 DEF Loop, Frame, Value
  <2> QED
    BY <1>1, <2>1, <2>2, <2>3, OpenedAppend
<1>13. CASE \E b \in BOOLEAN : Transform(n, b)
  <2> DEFINE f == [Loop(n, Out(n, Handle), {}) EXCEPT !.kind = "transform",
                                                      !.saved = ctx.result]
  <2>1. Visits(n, "transform") /\ stack' = Append(Rest(n), f)
    BY <1>13 DEF Transform
  <2>2. f \in Frame
    <3>1. Out(n, Handle) \in SUBSET Node /\ ctx.result \in Value
      BY <1>0 DEF Out, Context
    <3> QED
      BY <3>1 DEF Loop, Frame, Value
  <2> HIDE DEF f
  <2> QED
    BY <1>1, <2>1, <2>2, OpenedAppend
<1>14. CASE Isolate(n)
  <2> DEFINE s == Aside(n)
             h == [Loop(n, {n}, {}) EXCEPT !.kind = "child",
                      !.saved = ctx.result, !.kid = Len(kids) + 1]
  <2>1. stack' = Append(s, h) /\ stack # <<>>
    BY <1>14 DEF Isolate, Aside
  <2>2. h \in Frame
    <3>1. Len(kids) + 1 \in Nat /\ ctx.result \in Value
      BY <1>0 DEF TypeOK, Context
    <3> QED
      BY <3>1 DEF Loop, Frame, Value
  <2>3. s \in Seq(Frame) /\ Opened(i, s)
    BY <2>1, SideFacts, OpenedSide
  <2> HIDE DEF s, h
  <2> QED
    BY <2>1, <2>2, <2>3, OpenedAppend
<1> QED
  BY <1>3, <1>4, <1>5, <1>6, <1>7, <1>8, <1>9, <1>10, <1>11, <1>12, <1>13, <1>14
  DEF Visit

LEMMA BranchesVisit ==
    ASSUME TypeOK, Branches, NEW n \in Node, Visit(n)
    PROVE  Branches'
<1>1. \A i : Opened(i, stack) => Opened(i, stack')
  BY VisitOpened
<1>2. CASE kids' = kids
  BY <1>1, <1>2 DEF Branches
<1>3. CASE kids' # kids
  <2>1. Isolate(n)
    BY <1>3 DEF Visit, Pass, Process, Processed, ProcessFailed, TransformFailed,
      Branch, Stop, Defer, Refuse, Transform, MapPublish
  <2> DEFINE s == Aside(n)
             h == [Loop(n, {n}, {}) EXCEPT !.kind = "child",
                      !.saved = ctx.result, !.kid = Len(kids) + 1]
  <2>2. /\ stack # <<>> /\ stack' = Append(s, h)
        /\ kids' = Append(kids, "processing")
    BY <2>1 DEF Isolate, Aside
  <2>3. h.kind = "child" /\ h.kid = Len(kids) + 1
    BY DEF Loop
  <2>4. s \in Seq(Frame)
    BY <2>2, SideFacts
  <2> HIDE DEF s, h
  <2>5. Len(stack') = Len(s) + 1 /\ stack'[Len(s) + 1] = h /\ Len(s) \in Nat
    BY <2>2, <2>4
  <2>6. Opened(Len(kids) + 1, stack')
    BY <2>3, <2>5 DEF Opened
  <2>7. /\ Len(kids') = Len(kids) + 1 /\ Len(kids) \in Nat
        /\ \A i \in 1..Len(kids) : kids'[i] = kids[i]
    BY <2>2 DEF TypeOK
  <2> QED
    BY <1>1, <2>6, <2>7 DEF Branches
<1> QED
  BY <1>2, <1>3

LEMMA BranchesReturn ==
    ASSUME TypeOK, Branches, Return
    PROVE  Branches'
<1> DEFINE f == stack[Len(stack)]
           status == IF ctx.aborted /\ ~ctx.stopped THEN "failed" ELSE "processed"
<1>1. /\ stack # <<>> /\ stack' = Front(stack) /\ stack \in Seq(Frame)
      /\ kids' = IF f.kind # "child" THEN kids ELSE [kids EXCEPT ![f.kid] = status]
  BY DEF Return, Top, TypeOK
<1>2. status # "processing"
  OBVIOUS
<1> HIDE DEF status
<1>3. /\ Len(kids') = Len(kids)
      /\ \A i \in 1..Len(kids) : kids'[i] = "processing" =>
            kids[i] = "processing" /\ (f.kind = "child" => f.kid # i)
  BY <1>1, <1>2 DEF TypeOK
<1> QED
  BY <1>1, <1>3, OpenedFront DEF Branches

(* When a walk ends with its status written, none of its transactions is     *)
(* left running: worker.py:575-605 closes the row whose status no node wrote *)
(* and run_isolated (flow_walker.py:324-349) closes the transaction of every *)
(* branch it began, aborted or not.                                          *)
THEOREM SettlesHolds == Spec => []Settles
<1>1. Init => Closed /\ Branches
  BY EventsAssumption DEF Init, Closed, Left, Branches
<1>2. TypeOK /\ Closed /\ Branches /\ [Next]_vars => (Closed /\ Branches)'
  <2> SUFFICES ASSUME TypeOK, Closed, Branches, [Next]_vars
               PROVE  (Closed /\ Branches)'
    OBVIOUS
  <2>1. ASSUME NEW n \in Node, Visit(n)
        PROVE  (Closed /\ Branches)'
    BY <2>1, WalkingVisit, ClosedSame, BranchesVisit DEF Walking
  <2>2. CASE Return
    <3>1. at \in 1..Len(pipes) /\ at' = at /\ pipes' = pipes
      BY <2>2 DEF Return, Walks
    <3>2. \A t \in 0..MaxPipes : t # Tx => rows'[t] = rows[t]
      BY <2>2, <3>1, WriteFacts DEF Return
    <3> QED
      BY <2>2, <3>1, <3>2, ClosedSame, BranchesReturn
  <2>3. CASE Take \/ Finish
    <3>1. kids' = <<>>
      BY <2>3 DEF Take, Finish, Walk
    <3> QED
      BY <2>3, <3>1, ClosedTake, ClosedFinish DEF Branches
  <2>4. CASE CancelWrite
    BY <2>4, ClosedCancel DEF CancelWrite, Branches
  <2>5. CASE \/ UNCHANGED vars
             \/ \E n \in Node : Publish(n) \/ Unroutable(n) \/ BrokerDown(n)
             \/ \E t \in 0..MaxPipes : CancelRead(t)
    <3>1. /\ at' = at /\ pipes' = pipes /\ rows' = rows /\ kids' = kids
          /\ stack' = stack
      BY <2>5 DEF vars, Publish, Unroutable, BrokerDown, CancelRead
    <3>2. \A t : Left(t)' = Left(t)
      BY <3>1 DEF Left
    <3> QED
      BY <3>1, <3>2 DEF Closed, Branches
  <2> QED
    BY <2>1, <2>2, <2>3, <2>4, <2>5 DEF Next, Work
<1>3. TypeOK /\ Closed /\ Branches => Settles
  <2> SUFFICES ASSUME TypeOK, Closed, Branches PROVE Settles
    OBVIOUS
  <2>1. ASSUME NEW t \in 0..MaxPipes, t < at, at \in 2..(Len(pipes) + 1)
        PROVE  Left(t)
    BY <2>1, EventsAssumption DEF Left, TypeOK
  <2>2. ASSUME stack = <<>>, NEW i \in DOMAIN kids
        PROVE  kids[i] # "processing"
    <3>1. ~Opened(i, stack)
      BY <2>2 DEF Opened
    <3>2. i \in 1..Len(kids)
      BY <2>2 DEF TypeOK
    <3> QED
      BY <3>1, <3>2 DEF Branches
  <2> QED
    BY <2>1, <2>2 DEF Settles, Closed, Ends
<1> QED
  BY <1>1, <1>2, <1>3, TypeCorrect, PTL DEF Spec

-----------------------------------------------------------------------------
(* Every edge that an executed node took leads somewhere.                    *)

(* The targets that some activation still has to visit.                      *)
Awaited(s) == UNION {s[i].todo \cup s[i].side : i \in 1..Len(s)}

(* A target taken is visited, put off or awaited, unless the walk aborts.    *)
Covers(c, s) ==
    c.aborted \/ \A m \in Node :
        c.took[m] \subseteq c.visited \cup c.deferred \cup Awaited(s)

LEMMA AwaitedAppend ==
    ASSUME NEW s \in Seq(Frame), NEW f \in Frame
    PROVE  Awaited(Append(s, f)) = Awaited(s) \cup f.todo \cup f.side
<1> DEFINE t == Append(s, f)
<1>1. /\ Len(t) = Len(s) + 1 /\ Len(s) \in Nat
      /\ t[Len(s) + 1] = f /\ \A i \in 1..Len(s) : t[i] = s[i]
  OBVIOUS
<1> HIDE DEF t
<1>2. ASSUME NEW m, m \in Awaited(t)
      PROVE  m \in Awaited(s) \cup f.todo \cup f.side
  <2>1. PICK i \in 1..Len(t) : m \in t[i].todo \cup t[i].side
    BY <1>2 DEF Awaited
  <2>2. i \in 1..Len(s) \/ i = Len(s) + 1
    BY <1>1
  <2> QED
    BY <1>1, <2>1, <2>2 DEF Awaited
<1>3. ASSUME NEW m, m \in Awaited(s)
      PROVE  m \in Awaited(t)
  <2>1. PICK i \in 1..Len(s) : m \in s[i].todo \cup s[i].side
    BY <1>3 DEF Awaited
  <2>2. i \in 1..Len(t) /\ t[i] = s[i]
    BY <1>1
  <2> QED
    BY <2>1, <2>2 DEF Awaited
<1>4. ASSUME NEW m \in f.todo \cup f.side
      PROVE  m \in Awaited(t)
  <2>1. Len(s) + 1 \in 1..Len(t)
    BY <1>1
  <2> QED
    BY <1>1, <2>1 DEF Awaited
<1> QED
  BY <1>2, <1>3, <1>4 DEF t

(* Taking a target, or an isolated one, awaits it no more.                   *)
LEMMA AwaitedLess ==
    ASSUME TypeOK, stack # <<>>, NEW n, NEW s, s = Rest(n) \/ s = Aside(n)
    PROVE  Awaited(stack) \subseteq Awaited(s) \cup {n}
<1>1. /\ Len(s) = Len(stack)
      /\ \A i \in 1..Len(stack) :
            stack[i].todo \cup stack[i].side \subseteq s[i].todo \cup s[i].side \cup {n}
  <2>1. CASE s = Rest(n)
    <3>1. \A i \in 1..Len(stack) : /\ stack[i].todo \subseteq s[i].todo \cup {n}
                                   /\ s[i].side = stack[i].side
      BY <2>1, RestTargets
    <3> QED
      BY <2>1, <3>1, RestFacts
  <2>2. CASE s = Aside(n)
    BY <2>2, SideFacts
  <2> QED
    BY <2>1, <2>2
<1>2. ASSUME NEW m, m \in Awaited(stack)
      PROVE  m \in Awaited(s) \cup {n}
  <2>1. PICK i \in 1..Len(stack) : m \in stack[i].todo \cup stack[i].side
    BY <1>2 DEF Awaited
  <2>2. m \in s[i].todo \cup s[i].side \cup {n}
    BY <1>1, <2>1
  <2> QED
    BY <1>1, <2>2 DEF Awaited
<1> QED
  BY <1>2

LEMMA AwaitedFront ==
    ASSUME NEW s \in Seq(Frame), s # <<>>
    PROVE  Awaited(s) = Awaited(Front(s)) \cup s[Len(s)].todo \cup s[Len(s)].side
<1> DEFINE t == Front(s)
           f == s[Len(s)]
<1>1. /\ f \in Frame /\ t \in Seq(Frame)
  BY FrontFacts
<1>2. s = Append(t, f)
  BY FrontFacts
<1> HIDE DEF t, f
<1>3. Awaited(Append(t, f)) = Awaited(t) \cup f.todo \cup f.side
  BY <1>1, AwaitedAppend
<1> QED
  BY <1>2, <1>3 DEF t, f

(* What is awaited no more has been visited or put off.                      *)
LEMMA CoversKept ==
    ASSUME NEW c, NEW d, NEW s, NEW t, Covers(c, s),
           c.aborted => d.aborted, d.took = c.took,
           c.visited \cup c.deferred \cup Awaited(s)
             \subseteq d.visited \cup d.deferred \cup Awaited(t)
    PROVE  Covers(d, t)
  BY DEF Covers

(* The targets of a node go to an activation, or are put off.                *)
LEMMA CoversTook ==
    ASSUME NEW c \in Context, NEW s \in Seq(Frame), Covers(c, s),
           NEW n \in Node, NEW f \in Frame, NEW targets, NEW d,
           d.aborted = c.aborted, d.visited = c.visited,
           c.deferred \subseteq d.deferred,
           d.took = [c.took EXCEPT ![n] = targets],
           targets \subseteq d.deferred \cup f.todo \cup f.side
    PROVE  Covers(d, Append(s, f))
<1>1. c.took \in [Node -> SUBSET Node]
  BY DEF Context
<1> DEFINE a == Awaited(Append(s, f))
<1>2. a = Awaited(s) \cup f.todo \cup f.side
  BY AwaitedAppend
<1> HIDE DEF a
<1>3. ASSUME ~c.aborted, NEW m \in Node
      PROVE  d.took[m] \subseteq d.visited \cup d.deferred \cup a
  <2>1. c.took[m] \subseteq c.visited \cup c.deferred \cup Awaited(s)
    BY <1>3 DEF Covers
  <2>2. d.took[m] = IF m = n THEN targets ELSE c.took[m]
    BY <1>1
  <2> QED
    BY <1>2, <2>1, <2>2
<1> QED
  BY <1>3 DEF Covers, a

LEMMA CoversFollow ==
    ASSUME NEW n \in Node, NEW c \in Context, NEW base \in Seq(Frame),
           Covers(c, base), Follow(n, c, base)
    PROVE  Covers(ctx', stack')
<1> DEFINE plain == Out(n, Handle \ {"isolated"})
           apart == Out(n, {"isolated"})
           puts == Publishes(plain \cup apart)
           f == Loop(n, plain \ puts, apart \ puts)
<1>1. plain \in SUBSET Node /\ apart \in SUBSET Node
  BY DEF Out
<1>2. /\ ctx' = [c EXCEPT !.deferred = c.deferred \cup puts,
                         !.took[n] = plain \cup apart]
      /\ stack' = Append(base, f)
  BY DEF Follow
<1>3. f \in Frame /\ f.todo = plain \ puts /\ f.side = apart \ puts
  BY <1>1, LoopType DEF Loop, Value
<1> HIDE DEF plain, apart, puts, f
<1>4. /\ ctx'.aborted = c.aborted /\ ctx'.visited = c.visited
      /\ ctx'.deferred = c.deferred \cup puts
      /\ ctx'.took = [c.took EXCEPT ![n] = plain \cup apart]
  BY <1>2 DEF Context
<1> DEFINE targets == plain \cup apart
           d == ctx'
<1>5. targets \subseteq d.deferred \cup f.todo \cup f.side
  BY <1>3, <1>4
<1>6. /\ d.aborted = c.aborted /\ d.visited = c.visited
      /\ c.deferred \subseteq d.deferred
      /\ d.took = [c.took EXCEPT ![n] = targets]
  BY <1>4
<1> HIDE DEF targets, d
<1>7. Covers(d, Append(base, f))
  BY <1>3, <1>5, <1>6, CoversTook
<1> QED
  BY <1>2, <1>7 DEF d
LEMMA CoversVisit ==
    ASSUME TypeOK, Covers(ctx, stack), NEW n \in Node, Visit(n)
    PROVE  Covers(ctx, stack)'
<1> DEFINE v == Visited(n, ctx)
<1>0. ctx \in Context /\ stack \in Seq(Frame)
  BY DEF TypeOK
<1>1. v \in Context
  BY <1>0, VisitedType
<1>2. /\ v.visited = ctx.visited \cup {n} /\ v.aborted = ctx.aborted
      /\ v.took = ctx.took /\ v.deferred = ctx.deferred
  BY <1>0, VisitedFields
<1> HIDE DEF v
<1>3. ASSUME NEW t, Visits(n, t)
      PROVE  /\ Rest(n) \in Seq(Frame) /\ stack # <<>> /\ Covers(v, Rest(n))
             /\ Awaited(stack) \subseteq Awaited(Rest(n)) \cup {n}
  <2>1. stack # <<>> /\ Rest(n) \in Seq(Frame)
    BY <1>3, VisitsFacts, RestFacts
  <2>2. Awaited(stack) \subseteq Awaited(Rest(n)) \cup {n}
    BY <2>1, AwaitedLess
  <2> QED
    BY <1>2, <2>1, <2>2, CoversKept
<1>4. CASE Pass(n)
  <2>1. PICK t : Visits(n, t)
    BY <1>4 DEF Pass
  <2>2. Follow(n, v, Rest(n))
    BY <1>4 DEF Pass, v
  <2> QED
    BY <1>1, <1>3, <2>1, <2>2, CoversFollow
<1>5. CASE Process(n)
  <2>1. Visits(n, "processor") /\ stack' = Rest(n) /\ ctx' = [v EXCEPT !.busy = n]
    BY <1>5 DEF Process, v
  <2>2. /\ ctx'.visited = v.visited /\ ctx'.aborted = v.aborted
        /\ ctx'.took = v.took /\ ctx'.deferred = v.deferred
    BY <1>1, <2>1 DEF Context
  <2> QED
    BY <1>3, <2>1, <2>2 DEF Covers
<1>6. CASE Processed(n)
  <2> DEFINE c == Made(n, ctx, Scopes)
             d == [c EXCEPT !.busy = None]
  <2>1. Follow(n, d, stack)
    BY <1>6 DEF Processed
  <2>2. c \in Context
    BY <1>0, MadeType, ScopesType DEF Scopes
  <2>3. /\ c.visited = ctx.visited /\ c.aborted = ctx.aborted
        /\ c.took = ctx.took /\ c.deferred = ctx.deferred
    BY <1>0 DEF Made, Context
  <2> HIDE DEF c
  <2>4. /\ d \in Context /\ d.visited = c.visited /\ d.aborted = c.aborted
        /\ d.took = c.took /\ d.deferred = c.deferred
    BY <2>2 DEF Context, Value
  <2> HIDE DEF d
  <2>5. Covers(d, stack)
    BY <2>3, <2>4 DEF Covers
  <2> QED
    BY <1>0, <2>1, <2>4, <2>5, CoversFollow
<1>7. CASE TransformFailed(n)
  BY <1>3, <1>7 DEF TransformFailed, v
<1>8. CASE ProcessFailed(n) \/ Stop(n)
           \/ \E status \in {"failed", "skipped"} : Refuse(n, status)
  <2>1. ctx' \in {[Aborted(ctx) EXCEPT !.busy = None], Aborted(v),
                  [Aborted(v) EXCEPT !.stopped = TRUE]}
    BY <1>8 DEF ProcessFailed, Stop, Refuse, v
  <2>2. ctx'.aborted
    BY <1>0, <1>1, <2>1 DEF Aborted, Context
  <2> QED
    BY <2>2 DEF Covers
<1>9. CASE Branch(n)
  <2>1. PICK t : Visits(n, t)
    BY <1>9 DEF Branch
  <2>2. PICK targets \in Targets(n) :
          /\ ctx' = [v EXCEPT !.took[n] = targets]
          /\ stack' = Append(Rest(n), [Loop(n, targets, {}) EXCEPT !.kind = "branch"])
    BY <1>9 DEF Branch, v
  <2> DEFINE f == [Loop(n, targets, {}) EXCEPT !.kind = "branch"]
             d == [v EXCEPT !.took[n] = targets]
  <2>3. f \in Frame /\ f.todo = targets
    <3>1. targets \in SUBSET Node
      BY DEF Targets, Out
    <3> QED
      BY <3>1 DEF Loop, Frame, Value
  <2>4. /\ d.aborted = v.aborted /\ d.visited = v.visited
        /\ v.deferred \subseteq d.deferred /\ d.took = [v.took EXCEPT ![n] = targets]
    BY <1>1 DEF Context
  <2>5. stack' = Append(Rest(n), f) /\ ctx' = d
    BY <2>2
  <2> HIDE DEF f, d
  <2>6. targets \subseteq d.deferred \cup f.todo \cup f.side
    BY <2>3
  <2>7. Rest(n) \in Seq(Frame) /\ Covers(v, Rest(n))
    BY <1>3, <2>1
  <2>8. Covers(d, Append(Rest(n), f))
    BY <1>1, <2>3, <2>4, <2>6, <2>7, CoversTook
  <2> QED
    BY <2>5, <2>8
<1>10. CASE \E b \in BOOLEAN : Transform(n, b)
  <2>1. PICK b \in BOOLEAN : Transform(n, b)
    BY <1>10
  <2> DEFINE targets == Out(n, Handle)
             f == [Loop(n, targets, {}) EXCEPT !.kind = "transform",
                                               !.saved = ctx.result]
             c == [v EXCEPT !.took[n] = targets]
             s == Scopes \cup {<<n, 0>>}
  <2>2. /\ Visits(n, "transform") /\ stack' = Append(Rest(n), f)
        /\ ctx' = IF b THEN Made(n, c, s) ELSE c
    BY <2>1 DEF Transform, v
  <2>3. targets \in SUBSET Node /\ ctx.result \in Value
    BY <1>0 DEF Out, Context
  <2>4. f \in Frame /\ f.todo = targets
    BY <2>3 DEF Loop, Frame, Value
  <2>5. /\ c \in Context /\ c.aborted = v.aborted /\ c.visited = v.visited
        /\ v.deferred \subseteq c.deferred /\ c.took = [v.took EXCEPT ![n] = targets]
    <3> HIDE DEF targets
    <3> QED
      BY <1>1, <2>3 DEF Context
  <2> HIDE DEF targets, f, c, s
  <2>6. targets \subseteq c.deferred \cup f.todo \cup f.side
    BY <2>4
  <2>7. Rest(n) \in Seq(Frame) /\ Covers(v, Rest(n))
    BY <1>3, <2>2
  <2>8. Covers(c, Append(Rest(n), f))
    BY <1>1, <2>4, <2>5, <2>6, <2>7, CoversTook
  <2>9. /\ Made(n, c, s).aborted = c.aborted /\ Made(n, c, s).visited = c.visited
        /\ Made(n, c, s).took = c.took /\ Made(n, c, s).deferred = c.deferred
    BY <2>5 DEF Made, Context
  <2>10. Covers(Made(n, c, s), Append(Rest(n), f))
    BY <2>8, <2>9 DEF Covers
  <2> QED
    BY <2>2, <2>8, <2>10
<1>11. CASE \E b \in BOOLEAN : MapPublish(n, b)
  <2>1. PICK b \in BOOLEAN : MapPublish(n, b)
    BY <1>11
  <2> DEFINE body == IF b THEN [map |-> n, of |-> ctx.result] ELSE Plain(ctx.result)
             c == [v EXCEPT !.body = body]
  <2>2. Visits(n, "publishMap") /\ Follow(n, c, Rest(n))
    BY <2>1 DEF MapPublish, v
  <2>3. body \in Body \cup {None}
    BY <1>0 DEF Context, Body, Plain, Value
  <2>4. /\ c \in Context /\ c.aborted = v.aborted /\ c.visited = v.visited
        /\ c.deferred = v.deferred /\ c.took = v.took
    <3> HIDE DEF body
    <3> QED
      BY <1>1, <2>3 DEF Context
  <2> HIDE DEF c, body
  <2>5. Covers(c, Rest(n))
    BY <1>3, <2>2, <2>4 DEF Covers
  <2> QED
    BY <1>3, <2>2, <2>4, <2>5, CoversFollow
<1>12. CASE Defer(n)
  <2>1. /\ Visits(n, "publish") /\ stack' = Rest(n)
        /\ ctx' = [ctx EXCEPT !.deferred = ctx.deferred \cup {n}]
    BY <1>12 DEF Defer
  <2>2. /\ ctx'.visited = ctx.visited /\ ctx'.aborted = ctx.aborted
        /\ ctx'.took = ctx.took /\ ctx'.deferred = ctx.deferred \cup {n}
    BY <1>0, <2>1 DEF Context
  <2> QED
    BY <1>3, <2>1, <2>2, CoversKept
<1>13. CASE Isolate(n)
  <2> DEFINE h == [Loop(n, {n}, {}) EXCEPT !.kind = "child",
                      !.saved = ctx.result, !.kid = Len(kids) + 1]
             s == Aside(n)
  <2>1. stack # <<>> /\ ctx' = ctx /\ stack' = Append(s, h)
    BY <1>13 DEF Isolate, Aside
  <2>2. h \in Frame /\ h.todo = {n}
    <3>1. Len(kids) + 1 \in Nat /\ ctx.result \in Value
      BY <1>0 DEF TypeOK, Context
    <3> QED
      BY <3>1 DEF Loop, Frame, Value
  <2>3. s \in Seq(Frame) /\ Awaited(stack) \subseteq Awaited(s) \cup {n}
    BY <2>1, SideFacts, AwaitedLess
  <2> HIDE DEF s, h
  <2>4. Awaited(stack) \subseteq Awaited(stack')
    BY <2>1, <2>2, <2>3, AwaitedAppend
  <2> QED
    BY <2>1, <2>4, CoversKept
<1> QED
  BY <1>4, <1>5, <1>6, <1>7, <1>8, <1>9, <1>10, <1>11, <1>12, <1>13 DEF Visit

(* An activation ends when no target of it is left that was not visited.     *)
LEMMA CoversReturn ==
    ASSUME TypeOK, Covers(ctx, stack), Return
    PROVE  Covers(ctx, stack)'
<1> DEFINE f == stack[Len(stack)]
<1>1. /\ stack # <<>> /\ stack' = Front(stack) /\ stack \in Seq(Frame)
      /\ ctx \in Context /\ f.side = {}
      /\ ctx.aborted \/ f.todo \subseteq ctx.visited
      /\ ctx' = IF f.kind \in {"transform", "child"}
                THEN [ctx EXCEPT !.result = f.saved] ELSE ctx
  BY DEF Return, Top, Pending, TypeOK
<1>2. /\ ctx'.visited = ctx.visited /\ ctx'.aborted = ctx.aborted
      /\ ctx'.took = ctx.took /\ ctx'.deferred = ctx.deferred
  BY <1>1 DEF Context
<1>3. Awaited(stack) = Awaited(stack') \cup f.todo \cup f.side
  BY <1>1, AwaitedFront
<1>4. ctx.aborted \/ Awaited(stack) \subseteq Awaited(stack') \cup ctx.visited
  BY <1>1, <1>3
<1> QED
  BY <1>2, <1>4 DEF Covers

(* A walk that was not aborted leaves nothing out: every target of a node it *)
(* executed was executed, or put off to the publishes of its end, through    *)
(* transforms, isolated branches, diamonds and back edges (flow_walker.py    *)
(* 192-349).  What an activation has not visited yet is on the stack, and    *)
(* the stack is empty when the walk ends.                                    *)
THEOREM CompleteHolds == Spec => []Complete
<1>1. Init => Covers(ctx, stack)
  BY DEF Init, Covers, Fresh
<1>2. TypeOK /\ Covers(ctx, stack) /\ [Next]_vars => Covers(ctx, stack)'
  <2> SUFFICES ASSUME TypeOK, Covers(ctx, stack), [Next]_vars
               PROVE  Covers(ctx, stack)'
    OBVIOUS
  <2>1. ASSUME NEW n \in Node, Visit(n)
        PROVE  Covers(ctx, stack)'
    BY <2>1, CoversVisit
  <2>2. CASE Return
    BY <2>2, CoversReturn
  <2>3. CASE Take \/ Finish
    <3>1. ctx' = Fresh
      BY <2>3 DEF Take, Finish, Walk
    <3> QED
      BY <3>1 DEF Covers, Fresh
  <2>4. CASE \/ CancelWrite \/ UNCHANGED vars
             \/ \E n \in Node : Publish(n) \/ Unroutable(n) \/ BrokerDown(n)
             \/ \E t \in 0..MaxPipes : CancelRead(t)
    <3>1. stack' = stack
      BY <2>4 DEF CancelWrite, vars, Publish, Unroutable, BrokerDown, CancelRead
    <3>2. ctx' = ctx \/ \E n \in Node : ctx' = Handled(n)
      BY <2>4 DEF CancelWrite, vars, Publish, Unroutable, BrokerDown, CancelRead
    <3>3. /\ ctx'.visited = ctx.visited /\ ctx'.aborted = ctx.aborted
          /\ ctx'.took = ctx.took /\ ctx'.deferred = ctx.deferred
      BY <3>2 DEF Handled, TypeOK, Context
    <3> QED
      BY <3>1, <3>3 DEF Covers
  <2> QED
    BY <2>1, <2>2, <2>3, <2>4 DEF Next, Work
<1>3. TypeOK /\ Covers(ctx, stack) => Complete
  <2> SUFFICES ASSUME TypeOK, Covers(ctx, stack), stack = <<>>, ~ctx.aborted,
                      NEW n \in ctx.visited
               PROVE  ctx.took[n] \subseteq ctx.visited \cup ctx.deferred
    BY DEF Complete, Ends
  <2>1. n \in Node
    BY DEF TypeOK, Context
  <2>2. Awaited(stack) = {}
    BY DEF Awaited
  <2> QED
    BY <2>1, <2>2 DEF Covers
<1> QED
  BY <1>1, <1>2, <1>3, TypeCorrect, PTL DEF Spec
============================================================================
