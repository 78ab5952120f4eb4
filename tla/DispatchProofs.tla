----------------------------- MODULE DispatchProofs -----------------------------
(* A circuit opens only after enough failures, and a dispatch comes to every   *)
(* sink that is to hear of it: for any number of sinks, rules and threads.     *)
EXTENDS Dispatch, TLAPS

(***************************************************************************)
(* The invariant                                                            *)
(***************************************************************************)

Item == [id : Sink, row : SinkRow]
Note == [id : Rule, row : AlertRow]

TaskRow ==
    [pc : Pc, job : Job \cup {None}, todo : SUBSET Item, sink : Item \cup {None}, read : Nat,
     live : BOOLEAN, tell : SUBSET Note, next : {"idle", "sinks", "done"},
     owed : SUBSET Sink, tried : SUBSET Sink]

(* Where a thread has a sink at hand.                                          *)
Busy == {"reset", "close", "send", "sent", "failed", "count", "check", "open", "ok", "error", "fire"}

IdsOf(items) == {item.id : item \in items}

(* Who is to hear of the transaction has been tried, or is still to be; only   *)
(* the loop over the sinks has somebody still to try.                          *)
Sound(task) ==
    /\ task.pc \in Busy => task.sink \in Item
    /\ task.pc = "sinks" => task.next = "sinks"
    /\ task.pc = "done" => task.next # "sinks"
    /\ task.next = "sinks" => task.owed \subseteq task.tried \cup IdsOf(task.todo)
    /\ task.next # "sinks" => task.owed \subseteq task.tried

(* A thread that holds the present dictionary of its sink has read no more     *)
(* failures than were recorded there, and opens it only if they were enough.   *)
Counts(task, recorded) ==
    /\ task.pc = "count" /\ task.live => task.read <= recorded[task.sink.id]
    /\ task.pc = "open" /\ task.live => Threshold <= recorded[task.sink.id]

TablesOK == sinks \in [Sink -> SinkRow \cup {None}] /\ rules \in [Rule -> AlertRow \cup {None}]

WriteOK(write) ==
    /\ write.table = "sinks" => write.id \in Sink /\ (write.how # "remove" => write.row \in SinkRow)
    /\ write.table # "sinks" => write.id \in Rule /\ (write.how # "remove" => write.row \in AlertRow)

PendingOK ==
    /\ pending = [q \in Req |-> pending[q]]
    /\ \A q \in Req : pending[q] # None => WriteOK(pending[q])

BoundsOK == budget \in Nat /\ jobs \in Nat

CircuitOK ==
    /\ circuit \in [Sink -> [fails : Nat, opened : BOOLEAN]]
    /\ streak \in [Sink -> Nat]
    /\ \A s \in Sink : /\ circuit[s].fails <= streak[s]
                       /\ circuit[s].opened => Threshold <= streak[s]

WorkOK ==
    /\ work \in [Worker -> TaskRow]
    /\ \A w \in Worker : Sound(work[w]) /\ Counts(work[w], streak)

Inv == TablesOK /\ PendingOK /\ BoundsOK /\ CircuitOK /\ WorkOK

(***************************************************************************)
(* Tasks                                                                    *)
(***************************************************************************)

LEMMA TaskIs ==
    ASSUME Inv, NEW w \in Worker
    PROVE  work[w] \in TaskRow /\ Sound(work[w]) /\ Counts(work[w], streak)
BY DEF Inv, WorkOK

LEMMA NewTask ==
    ASSUME NEW pc \in Pc, NEW job \in Job \cup {None}, NEW todo \in SUBSET Item, NEW sink \in Item \cup {None},
           NEW next \in {"idle", "sinks", "done"}, NEW owed \in SUBSET Sink
    PROVE  LET t == Task(pc, job, todo, sink, next, owed) IN
           /\ t \in TaskRow
           /\ t.pc = pc /\ t.todo = todo /\ t.sink = sink /\ t.next = next /\ t.owed = owed /\ t.tried = {}
           /\ t.live = FALSE /\ t.read = 0
BY DEF Task, TaskRow

(* A task that keeps what it has been asked to do.                             *)
Same(t, task) == t.next = task.next /\ t.owed = task.owed /\ t.tried = task.tried /\ t.todo = task.todo

LEMMA SetPc ==
    ASSUME NEW task \in TaskRow, NEW pc \in Pc
    PROVE  LET t == [task EXCEPT !.pc = pc] IN
           /\ t \in TaskRow /\ t.pc = pc /\ t.live = task.live /\ t.read = task.read /\ t.sink = task.sink
           /\ Same(t, task)
BY DEF TaskRow, Same

LEMMA SetLive ==
    ASSUME NEW task \in TaskRow, NEW live \in BOOLEAN
    PROVE  LET t == [task EXCEPT !.live = live] IN
           /\ t \in TaskRow /\ t.live = live /\ t.pc = task.pc /\ t.read = task.read /\ t.sink = task.sink
           /\ Same(t, task)
BY DEF TaskRow, Same

LEMMA SetRead ==
    ASSUME NEW task \in TaskRow, NEW read \in Nat
    PROVE  LET t == [task EXCEPT !.read = read] IN
           /\ t \in TaskRow /\ t.read = read /\ t.pc = task.pc /\ t.live = task.live /\ t.sink = task.sink
           /\ Same(t, task)
BY DEF TaskRow, Same

LEMMA SetSink ==
    ASSUME NEW task \in TaskRow, NEW sink \in Item \cup {None}
    PROVE  LET t == [task EXCEPT !.sink = sink] IN
           /\ t \in TaskRow /\ t.sink = sink /\ t.pc = task.pc /\ t.live = task.live /\ t.read = task.read
           /\ Same(t, task)
BY DEF TaskRow, Same

LEMMA SetTell ==
    ASSUME NEW task \in TaskRow, NEW tell \in SUBSET Note
    PROVE  LET t == [task EXCEPT !.tell = tell] IN
           /\ t \in TaskRow /\ t.pc = task.pc /\ t.live = task.live /\ t.read = task.read /\ t.sink = task.sink
           /\ Same(t, task)
BY DEF TaskRow, Same

LEMMA SetNext ==
    ASSUME NEW task \in TaskRow, NEW next \in {"idle", "sinks", "done"}
    PROVE  LET t == [task EXCEPT !.next = next] IN
           /\ t \in TaskRow /\ t.next = next /\ t.pc = task.pc /\ t.live = task.live /\ t.sink = task.sink
           /\ t.owed = task.owed /\ t.tried = task.tried /\ t.todo = task.todo
BY DEF TaskRow

LEMMA HoldIs ==
    ASSUME NEW task \in TaskRow, NEW pc \in Pc, NEW live \in BOOLEAN, NEW read \in Nat
    PROVE  LET t == Hold(task, pc, live, read) IN
           /\ t \in TaskRow /\ t.pc = pc /\ t.live = live /\ t.read = read /\ t.sink = task.sink
           /\ Same(t, task)
<1> DEFINE a == [task EXCEPT !.pc = pc]
           b == [a EXCEPT !.live = live]
           c == [b EXCEPT !.read = read]
<1>1. a \in TaskRow /\ a.pc = pc /\ a.sink = task.sink /\ Same(a, task)
  BY SetPc
<1> HIDE DEF a
<1>2. b \in TaskRow /\ b.pc = pc /\ b.live = live /\ b.sink = a.sink /\ Same(b, a)
  BY <1>1, SetLive
<1> HIDE DEF b
<1>3. c \in TaskRow /\ c.pc = pc /\ c.live = live /\ c.read = read /\ c.sink = b.sink /\ Same(c, b)
  BY <1>2, SetRead
<1>4. Hold(task, pc, live, read) = c
  BY DEF Hold, a, b
<1> HIDE DEF c
<1>5. QED
  BY <1>1, <1>2, <1>3, <1>4 DEF Same

LEMMA TellingIs ==
    ASSUME TablesOK, NEW task \in TaskRow, NEW chosen \in SUBSET Rule, \A a \in chosen : rules[a] # None,
           NEW next \in {"idle", "sinks", "done"}
    PROVE  LET t == Telling(task, chosen, next) IN
           /\ t \in TaskRow /\ t.pc = "tell" /\ t.next = next
           /\ t.owed = task.owed /\ t.tried = task.tried /\ t.todo = task.todo
<1> DEFINE snapshot == {[id |-> a, row |-> rules[a]] : a \in chosen}
           x == [task EXCEPT !.tell = snapshot]
           y == [x EXCEPT !.next = next]
           z == [y EXCEPT !.pc = "tell"]
<1>1. snapshot \in SUBSET Note
  BY DEF TablesOK, Note
<1> HIDE DEF snapshot
<1>2. x \in TaskRow /\ Same(x, task)
  BY <1>1, SetTell
<1> HIDE DEF x
<1>3. y \in TaskRow /\ y.next = next /\ y.owed = x.owed /\ y.tried = x.tried /\ y.todo = x.todo
  BY <1>2, SetNext
<1> HIDE DEF y
<1>4. z \in TaskRow /\ z.pc = "tell" /\ Same(z, y)
  BY <1>3, SetPc DEF Pc
<1>5. Telling(task, chosen, next) = z
  BY DEF Telling, snapshot, x, y
<1> HIDE DEF z
<1>6. QED
  BY <1>2, <1>3, <1>4, <1>5 DEF Same

LEMMA OnwardIs ==
    ASSUME NEW task \in TaskRow, Sound(task)
    PROVE  Onward(task) \in TaskRow /\ Sound(Onward(task)) /\ Onward(task).pc \in {"sinks", "done"}
<1>1. CASE task.next = "sinks"
  <2> DEFINE a == [task EXCEPT !.sink = None]
             b == [a EXCEPT !.pc = "sinks"]
  <2>1. a \in TaskRow /\ Same(a, task)
    BY SetSink
  <2> HIDE DEF a
  <2>2. b \in TaskRow /\ b.pc = "sinks" /\ Same(b, a)
    BY <2>1, SetPc DEF Pc
  <2>3. Onward(task) = b
    BY <1>1 DEF Onward, a
  <2> HIDE DEF b
  <2>4. b.next = "sinks" /\ b.owed = task.owed /\ b.tried = task.tried /\ b.todo = task.todo
    BY <1>1, <2>1, <2>2 DEF Same
  <2>5. Sound(b)
    BY <1>1, <2>2, <2>4 DEF Sound, Busy
  <2>6. QED
    BY <2>2, <2>3, <2>5
<1>2. CASE task.next # "sinks"
  <2> DEFINE a == Task("done", None, {}, None, "idle", task.owed)
             b == [a EXCEPT !.tried = task.tried]
  <2>1. task.owed \in SUBSET Sink /\ task.tried \in SUBSET Sink /\ task.owed \subseteq task.tried
    BY <1>2 DEF TaskRow, Sound
  <2>2. a \in TaskRow /\ a.pc = "done" /\ a.next = "idle" /\ a.owed = task.owed
    BY <2>1 DEF Task, TaskRow, Pc
  <2> HIDE DEF a
  <2>3. b \in TaskRow /\ b.pc = "done" /\ b.next = "idle" /\ b.owed = task.owed /\ b.tried = task.tried
    BY <2>1, <2>2 DEF TaskRow
  <2>4. Onward(task) = b
    BY <1>2 DEF Onward, a
  <2> HIDE DEF b
  <2>5. QED
    BY <2>1, <2>3, <2>4 DEF Sound, Busy
<1>3. QED
  BY <1>1, <1>2

(* A task that is not about to count or to open counts nothing.                *)
LEMMA CountsNothing ==
    ASSUME NEW task, NEW recorded, task.pc \notin {"count", "open"} PROVE Counts(task, recorded)
BY DEF Counts

(* One task moves, the circuits stay.                                          *)
LEMMA WorkMoves ==
    ASSUME Inv, NEW w \in Worker, NEW task \in TaskRow, Sound(task), Counts(task, streak),
           work' = [work EXCEPT ![w] = task], UNCHANGED streak
    PROVE  WorkOK'
<1>1. work' \in [Worker -> TaskRow]
  BY DEF Inv, WorkOK
<1>2. ASSUME NEW v \in Worker PROVE Sound(work'[v]) /\ Counts(work'[v], streak)
  <2>1. CASE v = w
    <3>1. work'[v] = task
      BY <2>1 DEF Inv, WorkOK
    <3>2. QED
      BY <3>1
  <2>2. CASE v # w
    <3>1. work'[v] = work[v]
      BY <2>2 DEF Inv, WorkOK
    <3>2. QED
      BY <3>1, TaskIs
  <2>3. QED
    BY <2>1, <2>2
<1>3. \A v \in Worker : Counts(work'[v], streak')
  BY <1>2
<1>4. QED
  BY <1>1, <1>2, <1>3 DEF WorkOK

(* A step of a thread that leaves the tables and the circuits alone.           *)
LEMMA ThreadMoves ==
    ASSUME Inv, UNCHANGED <<sinks, rules, pending, circuit, streak>>, BoundsOK', WorkOK'
    PROVE  Inv'
BY DEF Inv, TablesOK, PendingOK, CircuitOK

(* ... and only has another program counter, at which it counts nothing.       *)
LEMMA GotoIs ==
    ASSUME Inv, NEW w \in Worker, NEW pc \in Pc, pc \notin {"count", "open", "sinks", "done"},
           pc \in Busy => work[w].pc \in Busy, UNCHANGED streak, Goto(w, pc)
    PROVE  WorkOK'
<1> DEFINE task == [work[w] EXCEPT !.pc = pc]
<1>1. work[w] \in TaskRow /\ Sound(work[w])
  BY TaskIs
<1>2. task \in TaskRow /\ task.pc = pc /\ task.sink = work[w].sink /\ Same(task, work[w])
  BY <1>1, SetPc
<1>3. work' = [work EXCEPT ![w] = task]
  BY DEF Goto
<1> HIDE DEF task
<1>4. Sound(task)
  BY <1>1, <1>2 DEF Sound, Same
<1>5. QED
  BY <1>2, <1>3, <1>4, CountsNothing, WorkMoves

LEMMA ResumeIs ==
    ASSUME Inv, NEW w \in Worker, UNCHANGED streak, Resume(w) PROVE WorkOK'
<1> DEFINE task == Onward(work[w])
<1>1. task \in TaskRow /\ Sound(task) /\ task.pc \in {"sinks", "done"}
  BY TaskIs, OnwardIs
<1>2. work' = [work EXCEPT ![w] = task]
  BY DEF Resume
<1> HIDE DEF task
<1>3. QED
  BY <1>1, <1>2, CountsNothing, WorkMoves

(***************************************************************************)
(* Which sinks                                                              *)
(***************************************************************************)

LEMMA TodoIs == ASSUME TablesOK, NEW job \in Job PROVE Todo(job) \in SUBSET Item /\ Owed(job) \in SUBSET Sink
<1>1. ASSUME NEW s \in Chosen(job) PROVE s \in Sink /\ sinks[s] \in SinkRow
  BY <1>1 DEF Chosen, TablesOK
<1>2. QED
  BY <1>1 DEF Todo, Item, Owed

(* Who is owed the transaction is in the list: a failure goes to whoever asked *)
(* for failures, routed or not; anything else goes where the channel routes.   *)
LEMMA OwedIsTodo == ASSUME NEW job PROVE Owed(job) \subseteq IdsOf(Todo(job))
<1>1. SUFFICES ASSUME NEW s \in Owed(job) PROVE s \in IdsOf(Todo(job))
  OBVIOUS
<1> DEFINE candidate == /\ s \in Sink /\ sinks[s] # None /\ sinks[s].enabled
                        /\ ~sinks[s].alertOnly /\ InScope(sinks[s], job.tx)
<1>2. /\ candidate /\ sinks[s].known /\ MatchesTrigger(sinks[s].trigger, job.tx.status)
      /\ job.tx.status = "failed" \/ job.route = None \/ s \in job.route
  BY <1>1 DEF Owed
<1>3. job.tx.status = "failed" => sinks[s].trigger \in {"on_failure", "always"}
  BY <1>2 DEF MatchesTrigger
<1>4. s \in Chosen(job)
  BY <1>2, <1>3 DEF Chosen
<1>5. [id |-> s, row |-> sinks[s]] \in Todo(job)
  BY <1>2, <1>4 DEF Todo
<1>6. QED
  BY <1>5 DEF IdsOf

(***************************************************************************)
(* The tables                                                               *)
(***************************************************************************)

LEMMA TablesMove ==
    ASSUME Inv, UNCHANGED <<circuit, work, jobs, streak>>, TablesOK', PendingOK', budget' \in Nat
    PROVE  Inv'
BY DEF Inv, BoundsOK, CircuitOK, WorkOK

LEMMA DecideKeeps ==
    ASSUME Inv, NEW q \in Req, NEW write, WriteOK(write), Decide(q, write) PROVE Inv'
<1>1. UNCHANGED <<sinks, rules, circuit, work, jobs, streak>> /\ budget' \in Nat
      /\ pending' = [pending EXCEPT ![q] = write]
  BY DEF Decide, Inv, BoundsOK
<1>2. pending' = [p \in Req |-> IF p = q THEN write ELSE pending[p]]
  BY <1>1 DEF Inv, PendingOK
<1>3. \A p \in Req : pending'[p] # None => WriteOK(pending'[p])
  BY <1>2 DEF Inv, PendingOK
<1>4. PendingOK'
  BY <1>2, <1>3 DEF PendingOK, WriteOK
<1>5. TablesOK'
  BY <1>1 DEF Inv, TablesOK
<1>6. QED
  BY <1>1, <1>4, <1>5, TablesMove

LEMMA WrittenSink ==
    ASSUME NEW old \in SinkRow \cup {None}, NEW write, WriteOK(write), write.table = "sinks"
    PROVE  Written(old, write) \in SinkRow \cup {None}
<1>1. write.how # "remove" => write.row \in SinkRow
  BY DEF WriteOK
<1>2. ASSUME write.how # "remove", old # None
      PROVE  [write.row EXCEPT !.last = old.last] \in SinkRow
             /\ [[write.row EXCEPT !.last = old.last] EXCEPT !.secret = old.secret] \in SinkRow
  <2>1. write.row \in SinkRow /\ old \in SinkRow
    BY <1>1, <1>2
  <2> DEFINE row == write.row
             a == [row EXCEPT !.last = old.last]
  <2>2. a \in SinkRow
    BY <2>1 DEF SinkRow
  <2> HIDE DEF a
  <2>3. [a EXCEPT !.secret = old.secret] \in SinkRow
    BY <2>1, <2>2 DEF SinkRow
  <2>4. QED
    BY <2>2, <2>3 DEF a
<1>3. QED
  BY <1>1, <1>2 DEF Written, Changed

LEMMA WrittenRule ==
    ASSUME NEW old \in AlertRow \cup {None}, NEW write, WriteOK(write), write.table # "sinks"
    PROVE  Written(old, write) \in AlertRow \cup {None}
<1>1. write.how # "remove" => write.row \in AlertRow
  BY DEF WriteOK
<1>2. ASSUME write.how # "remove", old # None PROVE [write.row EXCEPT !.last = old.last] \in AlertRow
  <2>1. write.row \in AlertRow /\ old \in AlertRow
    BY <1>1, <1>2
  <2>2. QED
    BY <2>1 DEF AlertRow
<1>3. QED
  BY <1>1, <1>2 DEF Written, Changed

LEMMA WriteKeeps == ASSUME Inv, NEW q \in Req, Write(q) PROVE Inv'
<1> DEFINE write == pending[q]
<1>1. WriteOK(write) /\ UNCHANGED <<circuit, work, jobs, streak>> /\ budget' = budget
      /\ pending' = [pending EXCEPT ![q] = None]
  BY DEF Write, Inv, PendingOK
<1>2. PendingOK'
  <2>1. pending' = [p \in Req |-> IF p = q THEN None ELSE pending[p]]
    BY <1>1 DEF Inv, PendingOK
  <2>2. \A p \in Req : pending'[p] # None => WriteOK(pending'[p])
    BY <2>1 DEF Inv, PendingOK
  <2>3. QED
    BY <2>1, <2>2 DEF PendingOK, WriteOK
<1>3. TablesOK'
  <2>1. CASE write.table = "sinks"
    <3>1. write.id \in Sink /\ sinks[write.id] \in SinkRow \cup {None}
      BY <1>1, <2>1 DEF WriteOK, Inv, TablesOK
    <3>2. Written(sinks[write.id], write) \in SinkRow \cup {None}
      BY <1>1, <2>1, <3>1, WrittenSink
    <3>3. sinks' = [sinks EXCEPT ![write.id] = Written(sinks[write.id], write)] /\ rules' = rules
      BY <2>1 DEF Write
    <3>4. QED
      BY <3>1, <3>2, <3>3 DEF Inv, TablesOK
  <2>2. CASE write.table # "sinks"
    <3>1. write.id \in Rule /\ rules[write.id] \in AlertRow \cup {None}
      BY <1>1, <2>2 DEF WriteOK, Inv, TablesOK
    <3>2. Written(rules[write.id], write) \in AlertRow \cup {None}
      BY <1>1, <2>2, <3>1, WrittenRule
    <3>3. rules' = [rules EXCEPT ![write.id] = Written(rules[write.id], write)] /\ sinks' = sinks
      BY <2>2 DEF Write
    <3>4. QED
      BY <3>1, <3>2, <3>3 DEF Inv, TablesOK
  <2>3. QED
    BY <2>1, <2>2
<1>4. budget' \in Nat
  BY <1>1 DEF Inv, BoundsOK
<1>5. QED
  BY <1>1, <1>2, <1>3, <1>4, TablesMove

LEMMA AdministerKeeps == ASSUME Inv, NEW q \in Req, Administer(q) PROVE Inv'
<1>1. ASSUME NEW s \in Sink, CreateIntegration(q, s) PROVE Inv'
  <2>1. PICK row \in Rows : Decide(q, [table |-> "sinks", id |-> s, how |-> "insert", row |-> row])
    BY <1>1 DEF CreateIntegration
  <2>2. WriteOK([table |-> "sinks", id |-> s, how |-> "insert", row |-> row])
    BY DispatchAssumption DEF WriteOK
  <2>3. QED
    BY <2>1, <2>2, DecideKeeps
<1>2. ASSUME NEW s \in Sink, UpdateIntegration(q, s) PROVE Inv'
  <2>1. PICK row \in Rows, secret \in Merged(sinks[s]) :
          Decide(q, [table |-> "sinks", id |-> s, how |-> "update", row |-> [row EXCEPT !.secret = secret]])
    BY <1>2 DEF UpdateIntegration
  <2>2. sinks[s] \in SinkRow
    BY <1>2 DEF UpdateIntegration, Inv, TablesOK
  <2>3. secret \in Secret \cup {Dots, None}
    BY <2>2 DEF Merged, SinkRow
  <2>4. [row EXCEPT !.secret = secret] \in SinkRow
    BY <2>3, DispatchAssumption DEF SinkRow
  <2> DEFINE new == [row EXCEPT !.secret = secret]
  <2> HIDE DEF new
  <2>5. WriteOK([table |-> "sinks", id |-> s, how |-> "update", row |-> new])
    BY <2>4 DEF WriteOK, new
  <2>6. QED
    BY <2>1, <2>5, DecideKeeps DEF new
<1>3. ASSUME NEW a \in Rule, NEW row \in RuleRows, NEW how,
             Decide(q, [table |-> "rules", id |-> a, how |-> how, row |-> row])
      PROVE  Inv'
  <2>1. WriteOK([table |-> "rules", id |-> a, how |-> how, row |-> row])
    BY DispatchAssumption DEF WriteOK
  <2>2. QED
    BY <1>3, <2>1, DecideKeeps
<1>4. ASSUME NEW a \in Rule, CreateAlert(q, a) \/ UpdateAlert(q, a) PROVE Inv'
  BY <1>3, <1>4 DEF CreateAlert, UpdateAlert
<1>5. ASSUME NEW s \in Sink, DeleteIntegration(q, s) PROVE Inv'
  <2>1. WriteOK([table |-> "sinks", id |-> s, how |-> "remove", row |-> None])
    BY DEF WriteOK
  <2>2. QED
    BY <1>5, <2>1, DecideKeeps DEF DeleteIntegration
<1>6. ASSUME NEW a \in Rule, DeleteAlert(q, a) PROVE Inv'
  <2>1. WriteOK([table |-> "rules", id |-> a, how |-> "remove", row |-> None])
    BY DEF WriteOK
  <2>2. QED
    BY <1>6, <2>1, DecideKeeps DEF DeleteAlert
<1>7. QED
  BY <1>1, <1>2, <1>4, <1>5, <1>6, WriteKeeps DEF Administer

(***************************************************************************)
(* The threads                                                              *)
(***************************************************************************)

LEMMA TakeKeeps ==
    ASSUME Inv, NEW w \in Worker, NEW task \in TaskRow, Sound(task), task.pc \notin {"count", "open"},
           Take(w, task)
    PROVE  Inv'
<1>1. work' = [work EXCEPT ![w] = task] /\ UNCHANGED <<sinks, rules, pending, budget, circuit, streak>>
      /\ jobs' \in Nat
  BY DEF Take, admin, Inv, BoundsOK
<1>2. WorkOK'
  BY <1>1, CountsNothing, WorkMoves
<1>3. BoundsOK'
  BY <1>1 DEF Inv, BoundsOK
<1>4. QED
  BY <1>1, <1>2, <1>3, ThreadMoves

LEMMA StartKeeps == ASSUME Inv, NEW w \in Worker, Start(w) PROVE Inv'
<1>1. ASSUME NEW job \in Finished, Take(w, Task("sinks", job, Todo(job), None, "sinks", Owed(job)))
      PROVE  Inv'
  <2> DEFINE todo == Todo(job)
             owed == Owed(job)
             task == Task("sinks", job, todo, None, "sinks", owed)
  <2>1. job \in Job /\ todo \in SUBSET Item /\ owed \in SUBSET Sink /\ owed \subseteq IdsOf(todo)
    BY DispatchAssumption, TodoIs, OwedIsTodo DEF Inv
  <2> HIDE DEF todo, owed
  <2>2. task \in TaskRow /\ task.pc = "sinks" /\ task.next = "sinks"
        /\ task.owed = owed /\ task.tried = {} /\ task.todo = todo
    BY <2>1 DEF Task, TaskRow, Pc
  <2> HIDE DEF task
  <2>3. Sound(task)
    BY <2>1, <2>2 DEF Sound, Busy
  <2>4. Take(w, task)
    BY <1>1 DEF task, todo, owed
  <2>5. QED
    BY <2>2, <2>3, <2>4, TakeKeeps
<1>2. ASSUME NEW s \in Sink, TestIntegration(w, s) PROVE Inv'
  <2>1. PICK pc \in {"ok", "error"} : Take(w, Task(pc, None, {}, [id |-> s, row |-> sinks[s]], "done", {}))
    BY <1>2 DEF TestIntegration
  <2> DEFINE item == [id |-> s, row |-> sinks[s]]
             task == Task(pc, None, {}, item, "done", {})
  <2>2. item \in Item
    BY <1>2 DEF TestIntegration, Item, Inv, TablesOK
  <2> HIDE DEF item
  <2>3. task \in TaskRow /\ task.pc = pc /\ task.next = "done" /\ task.owed = {} /\ task.sink = item
    BY <2>2 DEF Task, TaskRow, Pc
  <2> HIDE DEF task
  <2>4. Sound(task) /\ task.pc \notin {"count", "open"}
    BY <2>2, <2>3 DEF Sound
  <2>5. Take(w, task)
    BY <2>1 DEF task, item
  <2>6. QED
    BY <2>3, <2>4, <2>5, TakeKeeps
<1>3. ASSUME NEW a \in Rule, TestAlert(w, a) PROVE Inv'
  <2> DEFINE task == Telling(Idle, {a}, "done")
  <2>1. Idle \in TaskRow /\ Idle.owed = {} /\ Idle.tried = {}
    BY DEF Idle, Task, TaskRow, Pc
  <2>2. task \in TaskRow /\ task.pc = "tell" /\ task.next = "done" /\ task.owed = {}
    BY <1>3, <2>1, TellingIs DEF TestAlert, Inv
  <2>3. Take(w, task)
    BY <1>3 DEF TestAlert
  <2> HIDE DEF task
  <2>4. Sound(task) /\ task.pc \notin {"count", "open"}
    BY <2>2 DEF Sound, Busy
  <2>5. QED
    BY <2>2, <2>3, <2>4, TakeKeeps
<1>4. QED
  BY <1>1, <1>2, <1>3 DEF Start, Begin

(* A thread moves on, and only that.                                           *)
LEMMA OnlyWork ==
    ASSUME Inv, UNCHANGED <<admin, circuit, jobs, streak>>, WorkOK' PROVE Inv'
BY ThreadMoves DEF admin, Inv, BoundsOK

LEMMA LookKeeps == ASSUME Inv, NEW w \in Worker, Look(w) PROVE Inv'
<1>1. PICK item \in work[w].todo :
        LET task == [[work[w] EXCEPT !.todo = @ \ {item}] EXCEPT !.tried = @ \cup {item.id}]
            next == [task EXCEPT !.sink = item]
        IN  \/ work' = [work EXCEPT ![w] = task]
            \/ work' = [work EXCEPT ![w] = Hold(next, "reset", TRUE, 0)]
            \/ work' = [work EXCEPT ![w] = Hold(next, "send", FALSE, 0)]
  BY DEF Look
<1>2. work[w] \in TaskRow /\ Sound(work[w]) /\ work[w].pc = "sinks" /\ work[w].next = "sinks"
  BY TaskIs DEF Look, At, Sound
<1>3. item \in Item /\ item.id \in Sink /\ UNCHANGED <<admin, circuit, jobs, streak>> /\ UNCHANGED streak
  BY <1>2 DEF Look, TaskRow, Item
<1> DEFINE a == [work[w] EXCEPT !.todo = @ \ {item}]
           b == [a EXCEPT !.tried = @ \cup {item.id}]
           c == [b EXCEPT !.sink = item]
<1>4. /\ a \in TaskRow /\ a.pc = "sinks" /\ a.next = "sinks" /\ a.owed = work[w].owed
      /\ a.tried = work[w].tried /\ a.todo = work[w].todo \ {item}
  BY <1>2 DEF TaskRow
<1> HIDE DEF a
<1>5. /\ b \in TaskRow /\ b.pc = "sinks" /\ b.next = "sinks" /\ b.owed = work[w].owed
      /\ b.tried = work[w].tried \cup {item.id} /\ b.todo = work[w].todo \ {item}
  BY <1>3, <1>4 DEF TaskRow
<1> HIDE DEF b
<1>6. c \in TaskRow /\ Same(c, b) /\ c.sink = item
  BY <1>3, <1>5, SetSink
<1> HIDE DEF c
<1>7. b.owed \subseteq b.tried \cup IdsOf(b.todo)
  BY <1>2, <1>5 DEF Sound, IdsOf
<1>8. Sound(b)
  BY <1>5, <1>7 DEF Sound, Busy
<1>9. ASSUME NEW pc \in {"reset", "send"}, NEW live \in BOOLEAN
      PROVE  LET task == Hold(c, pc, live, 0) IN task \in TaskRow /\ Sound(task) /\ task.pc = pc
  <2> DEFINE task == Hold(c, pc, live, 0)
  <2>1. pc \in Pc /\ 0 \in Nat
    BY DEF Pc
  <2>2. task \in TaskRow /\ task.pc = pc /\ task.sink = item /\ Same(task, c)
    BY <1>6, <2>1, HoldIs
  <2> HIDE DEF task
  <2>3. task.next = "sinks" /\ task.owed = b.owed /\ task.tried = b.tried /\ task.todo = b.todo
    BY <1>5, <1>6, <2>2 DEF Same
  <2>4. Sound(task)
    BY <1>3, <1>7, <2>2, <2>3 DEF Sound, Busy
  <2>5. QED
    BY <2>2, <2>4 DEF task
<1>10. \/ work' = [work EXCEPT ![w] = b]
       \/ work' = [work EXCEPT ![w] = Hold(c, "reset", TRUE, 0)]
       \/ work' = [work EXCEPT ![w] = Hold(c, "send", FALSE, 0)]
  BY <1>1 DEF a, b, c
<1>11. WorkOK'
  <2>1. CASE work' = [work EXCEPT ![w] = b]
    BY <1>3, <1>5, <1>8, <2>1, CountsNothing, WorkMoves
  <2>2. ASSUME NEW pc \in {"reset", "send"}, NEW live \in BOOLEAN,
               work' = [work EXCEPT ![w] = Hold(c, pc, live, 0)]
        PROVE  WorkOK'
    BY <1>3, <1>9, <2>2, CountsNothing, WorkMoves
  <2>3. QED
    BY <1>10, <2>1, <2>2
<1>12. QED
  BY <1>3, <1>11, OnlyWork

(* A circuit changes, and one task; what is recorded does not.                 *)
LEMMA CircuitMoves ==
    ASSUME Inv, UNCHANGED <<admin, jobs, streak>>, WorkOK', NEW s \in Sink,
           NEW entry \in [fails : Nat, opened : BOOLEAN],
           entry.fails <= streak[s], entry.opened => Threshold <= streak[s],
           circuit' = [circuit EXCEPT ![s] = entry]
    PROVE  Inv'
<1>1. CircuitOK'
  <2>1. circuit' \in [Sink -> [fails : Nat, opened : BOOLEAN]] /\ streak' \in [Sink -> Nat]
    BY DEF Inv, CircuitOK
  <2>2. ASSUME NEW t \in Sink
        PROVE  circuit'[t].fails <= streak'[t] /\ (circuit'[t].opened => Threshold <= streak'[t])
    <3>1. CASE t = s
      BY <3>1 DEF Inv, CircuitOK
    <3>2. CASE t # s
      BY <3>2 DEF Inv, CircuitOK
    <3>3. QED
      BY <3>1, <3>2
  <2>3. QED
    BY <2>1, <2>2 DEF CircuitOK
<1>2. TablesOK' /\ PendingOK' /\ BoundsOK'
  BY DEF admin, Inv, TablesOK, PendingOK, BoundsOK
<1>3. QED
  BY <1>1, <1>2 DEF Inv

(* The task that holds its sink goes to another counter.                       *)
LEMMA HeldIs ==
    ASSUME Inv, NEW w \in Worker, work[w].pc \in Busy
    PROVE  /\ work[w] \in TaskRow /\ Held(w) \in Sink /\ work[w].live \in BOOLEAN /\ work[w].read \in Nat
           /\ circuit[Held(w)] \in [fails : Nat, opened : BOOLEAN] /\ streak[Held(w)] \in Nat
           /\ circuit[Held(w)].fails <= streak[Held(w)] /\ circuit[Held(w)].fails \in Nat
<1>1. work[w] \in TaskRow /\ work[w].sink \in Item
  BY TaskIs DEF Sound
<1>2. Held(w) \in Sink /\ work[w].live \in BOOLEAN /\ work[w].read \in Nat
  BY <1>1 DEF Held, Item, TaskRow
<1>3. circuit[Held(w)] \in [fails : Nat, opened : BOOLEAN] /\ streak[Held(w)] \in Nat
      /\ circuit[Held(w)].fails <= streak[Held(w)]
  BY <1>2 DEF Inv, CircuitOK
<1>4. QED
  BY <1>1, <1>2, <1>3

LEMMA HoldMoves ==
    ASSUME Inv, NEW w \in Worker, work[w].pc \in Busy, NEW pc \in Busy, NEW live \in BOOLEAN, NEW read \in Nat,
           pc = "count" /\ live => read <= streak[Held(w)],
           pc = "open" /\ live => Threshold <= streak[Held(w)],
           UNCHANGED streak, work' = [work EXCEPT ![w] = Hold(@, pc, live, read)]
    PROVE  WorkOK'
<1> DEFINE task == Hold(work[w], pc, live, read)
<1>1. work[w] \in TaskRow /\ Sound(work[w]) /\ pc \in Pc /\ pc \notin {"sinks", "done"}
  BY TaskIs DEF Busy, Pc
<1>2. /\ task \in TaskRow /\ task.pc = pc /\ task.live = live /\ task.read = read /\ task.sink = work[w].sink
      /\ Same(task, work[w])
  BY <1>1, HoldIs
<1>3. work' = [work EXCEPT ![w] = task]
  OBVIOUS
<1> HIDE DEF task
<1>4. Sound(task)
  BY <1>1, <1>2 DEF Sound, Same
<1>5. Counts(task, streak)
  BY <1>2 DEF Counts, Held
<1>6. QED
  BY <1>2, <1>3, <1>4, <1>5, WorkMoves

LEMMA ResetFailsKeeps == ASSUME Inv, NEW w \in Worker, ResetFails(w) PROVE Inv'
<1>1. work[w].pc = "reset" /\ UNCHANGED <<admin, jobs, streak>> /\ UNCHANGED streak /\ Goto(w, "close")
  BY DEF ResetFails, At
<1>2. WorkOK'
  BY <1>1, GotoIs DEF Busy, Pc
<1>3. CASE work[w].live
  <2> DEFINE entry == [circuit[Held(w)] EXCEPT !.fails = 0]
  <2>1. circuit' = [circuit EXCEPT ![Held(w)] = entry]
    BY <1>3 DEF ResetFails
  <2>2. /\ Held(w) \in Sink /\ circuit[Held(w)] \in [fails : Nat, opened : BOOLEAN]
        /\ circuit[Held(w)].opened => Threshold <= streak[Held(w)]
        /\ streak[Held(w)] \in Nat
    BY <1>1, HeldIs DEF Busy, Inv, CircuitOK
  <2>3. entry \in [fails : Nat, opened : BOOLEAN] /\ entry.fails = 0 /\ entry.opened = circuit[Held(w)].opened
    BY <2>2
  <2> HIDE DEF entry
  <2>4. entry.fails <= streak[Held(w)] /\ (entry.opened => Threshold <= streak[Held(w)])
    BY <2>2, <2>3
  <2>5. QED
    BY <1>1, <1>2, <2>1, <2>2, <2>3, <2>4, CircuitMoves
<1>4. CASE ~work[w].live
  BY <1>1, <1>2, <1>4, OnlyWork DEF ResetFails
<1>5. QED
  BY <1>3, <1>4

LEMMA ResetOpenedKeeps == ASSUME Inv, NEW w \in Worker, ResetOpened(w) PROVE Inv'
<1>1. work[w].pc = "close" /\ UNCHANGED <<admin, jobs, streak>> /\ UNCHANGED streak
      /\ work' = [work EXCEPT ![w] = Hold(@, "send", FALSE, 0)]
  BY DEF ResetOpened, At
<1>2. WorkOK'
  BY <1>1, HoldMoves DEF Busy
<1>3. CASE work[w].live
  <2> DEFINE entry == [circuit[Held(w)] EXCEPT !.opened = FALSE]
  <2>1. circuit' = [circuit EXCEPT ![Held(w)] = entry]
    BY <1>3 DEF ResetOpened
  <2>2. Held(w) \in Sink /\ circuit[Held(w)] \in [fails : Nat, opened : BOOLEAN]
        /\ circuit[Held(w)].fails <= streak[Held(w)]
    BY <1>1, HeldIs DEF Busy
  <2>3. entry \in [fails : Nat, opened : BOOLEAN] /\ entry.fails = circuit[Held(w)].fails /\ entry.opened = FALSE
    BY <2>2
  <2> HIDE DEF entry
  <2>4. QED
    BY <1>1, <1>2, <2>1, <2>2, <2>3, CircuitMoves
<1>4. CASE ~work[w].live
  BY <1>1, <1>2, <1>4, OnlyWork DEF ResetOpened
<1>5. QED
  BY <1>3, <1>4

LEMMA OpenKeeps == ASSUME Inv, NEW w \in Worker, Open(w) PROVE Inv'
<1>1. work[w].pc = "open" /\ UNCHANGED <<admin, jobs, streak>> /\ UNCHANGED streak
      /\ work' = [work EXCEPT ![w] = Hold(@, "error", FALSE, 0)]
  BY DEF Open, At
<1>2. WorkOK'
  BY <1>1, HoldMoves DEF Busy
<1>3. CASE work[w].live
  <2> DEFINE entry == [circuit[Held(w)] EXCEPT !.opened = TRUE]
  <2>1. circuit' = [circuit EXCEPT ![Held(w)] = entry]
    BY <1>3 DEF Open
  <2>2. Held(w) \in Sink /\ circuit[Held(w)] \in [fails : Nat, opened : BOOLEAN]
        /\ circuit[Held(w)].fails <= streak[Held(w)]
    BY <1>1, HeldIs DEF Busy
  <2>3. Threshold <= streak[Held(w)]
    BY <1>1, <1>3, TaskIs DEF Counts, Held
  <2>4. entry \in [fails : Nat, opened : BOOLEAN] /\ entry.fails = circuit[Held(w)].fails
    BY <2>2
  <2> HIDE DEF entry
  <2>5. QED
    BY <1>1, <1>2, <2>1, <2>2, <2>3, <2>4, CircuitMoves
<1>4. CASE ~work[w].live
  BY <1>1, <1>2, <1>4, OnlyWork DEF Open
<1>5. QED
  BY <1>3, <1>4

LEMMA ReadFailsKeeps == ASSUME Inv, NEW w \in Worker, ReadFails(w) PROVE Inv'
<1>1. work[w].pc = "failed" /\ UNCHANGED <<admin, circuit, jobs, streak>> /\ UNCHANGED streak
      /\ work' = [work EXCEPT ![w] = Hold(@, "count", TRUE, circuit[Held(w)].fails)]
  BY DEF ReadFails, At
<1>2. circuit[Held(w)].fails \in Nat /\ circuit[Held(w)].fails <= streak[Held(w)]
  BY <1>1, HeldIs DEF Busy
<1>3. WorkOK'
  BY <1>1, <1>2, HoldMoves DEF Busy
<1>4. QED
  BY <1>1, <1>3, OnlyWork

LEMMA CompareKeeps == ASSUME Inv, NEW w \in Worker, Compare(w) PROVE Inv'
<1>1. work[w].pc = "check" /\ UNCHANGED <<admin, circuit, jobs, streak>> /\ UNCHANGED streak
  BY DEF Compare, At
<1>2. CASE work[w].live /\ circuit[Held(w)].fails >= Threshold
  <2>1. Goto(w, "open")
    BY <1>2 DEF Compare
  <2> DEFINE task == [work[w] EXCEPT !.pc = "open"]
  <2>2. work[w] \in TaskRow /\ Sound(work[w]) /\ "open" \in Pc /\ work[w].pc \in Busy
    BY <1>1, TaskIs DEF Pc, Busy
  <2>3. task \in TaskRow /\ task.pc = "open" /\ task.sink = work[w].sink /\ Same(task, work[w])
    BY <2>2, SetPc
  <2>4. work' = [work EXCEPT ![w] = task]
    BY <2>1 DEF Goto
  <2> HIDE DEF task
  <2>5. Sound(task)
    BY <2>2, <2>3 DEF Sound, Same
  <2>6. Threshold <= streak[Held(w)]
    BY <1>2, <2>2, HeldIs, DispatchAssumption
  <2>7. Counts(task, streak)
    BY <2>3, <2>6 DEF Counts, Held
  <2>8. QED
    BY <1>1, <2>3, <2>4, <2>5, <2>7, WorkMoves, OnlyWork
<1>3. CASE ~(work[w].live /\ circuit[Held(w)].fails >= Threshold)
  <2>1. work' = [work EXCEPT ![w] = Hold(@, "error", FALSE, 0)]
    BY <1>3 DEF Compare
  <2>2. WorkOK'
    BY <1>1, <2>1, HoldMoves DEF Busy
  <2>3. QED
    BY <1>1, <2>2, OnlyWork
<1>4. QED
  BY <1>2, <1>3

(* Where the recorded failures of a sink do not shrink, a task still counts.   *)
LEMMA CountsGrow ==
    ASSUME NEW task \in TaskRow, Sound(task), Counts(task, streak), streak \in [Sink -> Nat],
           NEW h \in Sink
    PROVE  Counts(task, [streak EXCEPT ![h] = @ + 1])
<1> DEFINE grown == [streak EXCEPT ![h] = @ + 1]
<1>1. CASE task.pc \in {"count", "open"}
  <2>1. task.sink.id \in Sink /\ task.read \in Nat
    BY <1>1 DEF Sound, Busy, Item, TaskRow
  <2>2. /\ streak[task.sink.id] \in Nat /\ grown[task.sink.id] \in Nat
        /\ streak[task.sink.id] <= grown[task.sink.id]
    BY <2>1
  <2> HIDE DEF grown
  <2>3. Counts(task, grown)
    BY <2>1, <2>2, DispatchAssumption DEF Counts
  <2>4. QED
    BY <2>3 DEF grown
<1>2. CASE task.pc \notin {"count", "open"}
  BY <1>2, CountsNothing
<1>3. QED
  BY <1>1, <1>2

LEMMA WriteFailsKeeps == ASSUME Inv, NEW w \in Worker, WriteFails(w) PROVE Inv'
<1>1. /\ work[w].pc = "count" /\ UNCHANGED <<admin, jobs>>
      /\ work' = [work EXCEPT ![w] = Hold(work[w], "check", work[w].live, 0)]
  BY DEF WriteFails, At
<1>2. /\ Held(w) \in Sink /\ work[w] \in TaskRow /\ work[w].live \in BOOLEAN /\ work[w].read \in Nat
      /\ circuit[Held(w)] \in [fails : Nat, opened : BOOLEAN] /\ streak[Held(w)] \in Nat
  BY <1>1, HeldIs DEF Busy
<1>3. CASE work[w].live
  <2> DEFINE h == Held(w)
             entry == [circuit[h] EXCEPT !.fails = work[w].read + 1]
             task == Hold(work[w], "check", work[w].live, 0)
             grown == [streak EXCEPT ![h] = @ + 1]
  <2>1. circuit' = [circuit EXCEPT ![h] = entry] /\ streak' = grown
    BY <1>3 DEF WriteFails
  <2>2. work[w].read <= streak[h]
    BY <1>1, <1>3, TaskIs DEF Counts, Held
  <2>3. /\ entry \in [fails : Nat, opened : BOOLEAN] /\ entry.fails = work[w].read + 1
        /\ entry.opened = circuit[h].opened
    BY <1>2
  <2>4. streak \in [Sink -> Nat] /\ circuit \in [Sink -> [fails : Nat, opened : BOOLEAN]]
    BY DEF Inv, CircuitOK
  <2>5. grown \in [Sink -> Nat] /\ grown[h] = streak[h] + 1 /\ \A t \in Sink : t # h => grown[t] = streak[t]
    BY <1>2, <2>4
  <2>6. \A v \in Worker : Counts(work[v], grown)
    <3>1. TAKE v \in Worker
    <3>2. h \in Sink /\ work[v] \in TaskRow /\ Sound(work[v]) /\ Counts(work[v], streak)
      BY <1>2, TaskIs
    <3> HIDE DEF h
    <3>3. QED
      BY <2>4, <3>2, CountsGrow
  <2>7. task \in TaskRow /\ task.pc = "check" /\ task.sink = work[w].sink /\ Same(task, work[w])
    <3>1. "check" \in Pc /\ work[w] \in TaskRow /\ work[w].live \in BOOLEAN /\ 0 \in Nat
      BY <1>2 DEF Pc
    <3>2. QED
      BY <3>1, HoldIs
  <2>8. work' = [work EXCEPT ![w] = task]
    BY <1>1
  <2> HIDE DEF task, grown, entry, h
  <2>9. Sound(task) /\ Counts(task, grown)
    BY <1>1, <2>7, TaskIs, CountsNothing DEF Sound, Same, Busy
  <2>10. WorkOK'
    <3>1. work' \in [Worker -> TaskRow]
      BY <2>7, <2>8 DEF Inv, WorkOK
    <3>2. ASSUME NEW v \in Worker PROVE Sound(work'[v]) /\ Counts(work'[v], grown)
      <4>1. CASE v = w
        <5>1. work'[v] = task
          BY <2>8, <4>1 DEF Inv, WorkOK
        <5>2. QED
          BY <2>9, <5>1
      <4>2. CASE v # w
        <5>1. work'[v] = work[v]
          BY <2>8, <4>2 DEF Inv, WorkOK
        <5>2. QED
          BY <2>6, <5>1, TaskIs
      <4>3. QED
        BY <4>1, <4>2
    <3>3. \A v \in Worker : Sound(work'[v]) /\ Counts(work'[v], streak')
      BY <2>1, <3>2
    <3>4. QED
      BY <3>1, <3>3 DEF WorkOK
  <2>11. CircuitOK'
    <3>1. circuit' \in [Sink -> [fails : Nat, opened : BOOLEAN]] /\ streak' \in [Sink -> Nat]
      BY <2>1, <2>3, <2>4, <2>5
    <3>2. ASSUME NEW t \in Sink
          PROVE  circuit'[t].fails <= streak'[t] /\ (circuit'[t].opened => Threshold <= streak'[t])
      <4>1. /\ circuit[t].fails <= streak[t] /\ (circuit[t].opened => Threshold <= streak[t])
            /\ Threshold \in Nat /\ streak[t] \in Nat
        BY DispatchAssumption DEF Inv, CircuitOK
      <4>2. CASE t = h
        <5>1. circuit'[t] = entry /\ streak'[t] = streak[t] + 1
          BY <2>1, <2>4, <2>5, <4>2
        <5>2. entry.fails = work[w].read + 1 /\ entry.opened = circuit[t].opened /\ work[w].read <= streak[t]
          BY <2>2, <2>3, <4>2
        <5>3. QED
          BY <1>2, <4>1, <5>1, <5>2
      <4>3. CASE t # h
        <5>1. circuit'[t] = circuit[t] /\ streak'[t] = streak[t]
          BY <2>1, <2>4, <2>5, <4>3
        <5>2. QED
          BY <4>1, <5>1
      <4>4. QED
        BY <4>2, <4>3
    <3>3. QED
      BY <3>1, <3>2 DEF CircuitOK
  <2>12. TablesOK' /\ PendingOK' /\ BoundsOK'
    BY <1>1 DEF admin, Inv, TablesOK, PendingOK, BoundsOK
  <2>13. QED
    BY <2>10, <2>11, <2>12 DEF Inv
<1>4. CASE ~work[w].live
  <2>1. UNCHANGED <<circuit, streak>> /\ UNCHANGED streak
    BY <1>4 DEF WriteFails
  <2>2. WorkOK'
    BY <1>1, <2>1, HoldMoves, <1>2 DEF Busy
  <2>3. QED
    BY <1>1, <2>1, <2>2, OnlyWork
<1>5. QED
  BY <1>3, <1>4

LEMMA RecordSuccessKeeps == ASSUME Inv, NEW w \in Worker, RecordSuccess(w) PROVE Inv'
<1> DEFINE h == Held(w)
           mine == [work[w] EXCEPT !.pc = "ok"]
           cleared == [streak EXCEPT ![h] = 0]
           let_go(v) == [work[v] EXCEPT !.live = FALSE]
<1>1. /\ work[w].pc = "sent" /\ UNCHANGED <<admin, jobs>>
      /\ circuit' = [circuit EXCEPT ![h] = Fresh] /\ streak' = cleared
      /\ work' = [v \in Worker |-> IF v = w THEN mine
                                   ELSE IF work[v].live /\ Held(v) = h THEN let_go(v) ELSE work[v]]
  BY DEF RecordSuccess, At
<1>2. h \in Sink /\ streak \in [Sink -> Nat] /\ circuit \in [Sink -> [fails : Nat, opened : BOOLEAN]]
  BY <1>1, HeldIs DEF Busy, Inv, CircuitOK
<1>3. cleared \in [Sink -> Nat] /\ cleared[h] = 0 /\ \A t \in Sink : t # h => cleared[t] = streak[t]
  BY <1>2
<1>4. /\ mine \in TaskRow /\ mine.pc = "ok" /\ mine.sink = work[w].sink /\ Same(mine, work[w])
  BY TaskIs, SetPc DEF Pc
<1> HIDE DEF mine, cleared, h
<1>5. Sound(mine) /\ Counts(mine, cleared)
  BY <1>1, <1>4, TaskIs, CountsNothing DEF Sound, Same, Busy
<1>6. ASSUME NEW v \in Worker
      PROVE  let_go(v) \in TaskRow /\ Sound(let_go(v)) /\ Counts(let_go(v), cleared)
  <2> DEFINE task == let_go(v)
  <2>1. task \in TaskRow /\ task.live = FALSE /\ task.pc = work[v].pc /\ task.sink = work[v].sink
        /\ Same(task, work[v])
    BY TaskIs, SetLive
  <2> HIDE DEF task
  <2>2. Sound(task) /\ Counts(task, cleared)
    BY <2>1, TaskIs DEF Sound, Same, Counts
  <2>3. QED
    BY <2>1, <2>2 DEF task
<1>7. ASSUME NEW v \in Worker, ~(work[v].live /\ Held(v) = h)
      PROVE  Counts(work[v], cleared)
  <2>1. CASE work[v].live /\ work[v].pc \in {"count", "open"}
    <3>1. Held(v) \in Sink /\ Held(v) # h
      BY <1>7, <2>1, HeldIs DEF Busy
    <3>2. cleared[work[v].sink.id] = streak[work[v].sink.id]
      BY <1>3, <3>1 DEF Held
    <3>3. QED
      BY <3>2, TaskIs DEF Counts
  <2>2. CASE ~(work[v].live /\ work[v].pc \in {"count", "open"})
    BY <2>2 DEF Counts
  <2>3. QED
    BY <2>1, <2>2
<1>8. ASSUME NEW v \in Worker
      PROVE  work'[v] \in TaskRow /\ Sound(work'[v]) /\ Counts(work'[v], cleared)
  <2>1. CASE v = w
    <3>1. work'[v] = mine
      BY <1>1, <2>1
    <3>2. QED
      BY <1>4, <1>5, <3>1
  <2>2. CASE v # w /\ work[v].live /\ Held(v) = h
    <3>1. work'[v] = let_go(v)
      BY <1>1, <2>2
    <3> HIDE DEF let_go
    <3>2. QED
      BY <1>6, <3>1
  <2>3. CASE v # w /\ ~(work[v].live /\ Held(v) = h)
    <3>1. work'[v] = work[v]
      BY <1>1, <2>3
    <3>2. QED
      BY <1>7, <2>3, <3>1, TaskIs
  <2>4. QED
    BY <2>1, <2>2, <2>3
<1> HIDE DEF let_go
<1>9. WorkOK'
  <2>1. work' = [v \in Worker |-> work'[v]]
    BY <1>1
  <2>2. work' \in [Worker -> TaskRow]
    BY <1>8, <2>1
  <2>3. \A v \in Worker : Sound(work'[v]) /\ Counts(work'[v], streak')
    BY <1>1, <1>8
  <2>4. QED
    BY <2>2, <2>3 DEF WorkOK
<1>10. CircuitOK'
  <2>1. Fresh \in [fails : Nat, opened : BOOLEAN] /\ Fresh.fails = 0 /\ Fresh.opened = FALSE
    BY DEF Fresh
  <2>2. circuit' \in [Sink -> [fails : Nat, opened : BOOLEAN]] /\ streak' \in [Sink -> Nat]
    BY <1>1, <1>2, <1>3, <2>1
  <2>3. ASSUME NEW t \in Sink
        PROVE  circuit'[t].fails <= streak'[t] /\ (circuit'[t].opened => Threshold <= streak'[t])
    <3>1. CASE t = h
      <4>1. circuit'[t] = Fresh /\ streak'[t] = 0
        BY <1>1, <1>2, <1>3, <3>1
      <4>2. QED
        BY <2>1, <4>1
    <3>2. CASE t # h
      <4>1. circuit'[t] = circuit[t] /\ streak'[t] = streak[t]
        BY <1>1, <1>2, <1>3, <3>2
      <4>2. QED
        BY <4>1 DEF Inv, CircuitOK
    <3>3. QED
      BY <3>1, <3>2
  <2>4. QED
    BY <2>2, <2>3 DEF CircuitOK
<1>11. TablesOK' /\ PendingOK' /\ BoundsOK'
  BY <1>1 DEF admin, Inv, TablesOK, PendingOK, BoundsOK
<1>12. QED
  BY <1>9, <1>10, <1>11 DEF Inv

LEMMA CircuitKeeps == ASSUME Inv, NEW w \in Worker, Circuit(w) PROVE Inv'
BY LookKeeps, ResetFailsKeeps, ResetOpenedKeeps, RecordSuccessKeeps, ReadFailsKeeps, WriteFailsKeeps,
   CompareKeeps, OpenKeeps DEF Circuit

(***************************************************************************)
(* Outcomes and alerts                                                      *)
(***************************************************************************)

LEMMA RecordedSink ==
    ASSUME NEW id, NEW outcome \in {"ok", "error"}, TablesOK
    PROVE  Recorded(sinks, id, outcome) \in [Sink -> SinkRow \cup {None}]
<1>1. CASE sinks[id] # None /\ id \in Sink
  <2>1. [sinks[id] EXCEPT !.last = outcome] \in SinkRow
    BY <1>1 DEF TablesOK, SinkRow, Outcome
  <2>2. [sinks EXCEPT ![id].last = outcome] = [sinks EXCEPT ![id] = [sinks[id] EXCEPT !.last = outcome]]
    OBVIOUS
  <2> DEFINE row == [sinks[id] EXCEPT !.last = outcome]
  <2> HIDE DEF row
  <2>3. [sinks EXCEPT ![id] = row] \in [Sink -> SinkRow \cup {None}]
    BY <2>1 DEF TablesOK, row
  <2>4. QED
    BY <1>1, <2>2, <2>3 DEF Recorded, row
<1>2. CASE sinks[id] # None /\ id \notin Sink
  BY <1>2 DEF Recorded, TablesOK
<1>3. CASE sinks[id] = None
  BY <1>3 DEF Recorded, TablesOK
<1>4. QED
  BY <1>1, <1>2, <1>3

LEMMA RecordedRule ==
    ASSUME NEW id, NEW outcome \in {"ok", "error"}, TablesOK
    PROVE  Recorded(rules, id, outcome) \in [Rule -> AlertRow \cup {None}]
<1>1. CASE rules[id] # None /\ id \in Rule
  <2>1. [rules[id] EXCEPT !.last = outcome] \in AlertRow
    BY <1>1 DEF TablesOK, AlertRow, Outcome
  <2>2. [rules EXCEPT ![id].last = outcome] = [rules EXCEPT ![id] = [rules[id] EXCEPT !.last = outcome]]
    OBVIOUS
  <2> DEFINE row == [rules[id] EXCEPT !.last = outcome]
  <2> HIDE DEF row
  <2>3. [rules EXCEPT ![id] = row] \in [Rule -> AlertRow \cup {None}]
    BY <2>1 DEF TablesOK, row
  <2>4. QED
    BY <1>1, <2>2, <2>3 DEF Recorded, row
<1>2. CASE rules[id] # None /\ id \notin Rule
  BY <1>2 DEF Recorded, TablesOK
<1>3. CASE rules[id] = None
  BY <1>3 DEF Recorded, TablesOK
<1>4. QED
  BY <1>1, <1>2, <1>3

(* A thread that records an outcome.                                           *)
LEMMA OutcomeMoves ==
    ASSUME Inv, UNCHANGED <<pending, budget, circuit, jobs, streak>>, TablesOK', WorkOK' PROVE Inv'
BY DEF Inv, PendingOK, BoundsOK, CircuitOK

LEMMA SendKeeps == ASSUME Inv, NEW w \in Worker, Send(w) PROVE Inv'
<1>1. PICK answer \in Answers : Goto(w, answer)
  BY DEF Send
<1>2. work[w].pc = "send" /\ UNCHANGED <<admin, circuit, jobs, streak>> /\ UNCHANGED streak
  BY DEF Send, At
<1>3. answer \in Pc /\ answer \notin {"count", "open", "sinks", "done"} /\ work[w].pc \in Busy
  BY <1>2 DEF Answers, Pc, Busy
<1>4. WorkOK'
  BY <1>1, <1>2, <1>3, GotoIs
<1>5. QED
  BY <1>2, <1>4, OnlyWork

LEMMA RecordOkKeeps == ASSUME Inv, NEW w \in Worker, RecordOk(w) PROVE Inv'
<1>1. /\ sinks' = Recorded(sinks, Held(w), "ok") /\ rules' = rules /\ Resume(w)
      /\ UNCHANGED <<pending, budget, circuit, jobs, streak>> /\ UNCHANGED streak
  BY DEF RecordOk
<1>2. TablesOK'
  BY <1>1, RecordedSink DEF Inv, TablesOK
<1>3. WorkOK'
  BY <1>1, ResumeIs
<1>4. QED
  BY <1>1, <1>2, <1>3, OutcomeMoves

LEMMA RecordErrorKeeps == ASSUME Inv, NEW w \in Worker, RecordError(w) PROVE Inv'
<1>1. /\ sinks' = Recorded(sinks, Held(w), "error") /\ rules' = rules /\ (Goto(w, "fire") \/ Resume(w))
      /\ UNCHANGED <<pending, budget, circuit, jobs, streak>> /\ UNCHANGED streak /\ work[w].pc = "error"
  BY DEF RecordError, At
<1>2. TablesOK'
  BY <1>1, RecordedSink DEF Inv, TablesOK
<1>3. WorkOK'
  <2>1. "fire" \in Pc /\ work[w].pc \in Busy
    BY <1>1 DEF Pc, Busy
  <2>2. QED
    BY <1>1, <2>1, ResumeIs, GotoIs
<1>4. QED
  BY <1>1, <1>2, <1>3, OutcomeMoves

(* A thread that turns to rules, for the sink that failed or for the           *)
(* transaction.                                                                *)
LEMMA TellingMoves ==
    ASSUME Inv, NEW w \in Worker, NEW chosen \in SUBSET Rule, \A a \in chosen : rules[a] # None,
           NEW next \in {"idle", "sinks", "done"},
           next = work[w].next \/ work[w].owed \subseteq work[w].tried,
           UNCHANGED streak, work' = [work EXCEPT ![w] = Telling(work[w], chosen, next)]
    PROVE  WorkOK'
<1> DEFINE task == Telling(work[w], chosen, next)
<1>1. work[w] \in TaskRow /\ Sound(work[w]) /\ TablesOK
  BY TaskIs DEF Inv
<1>2. /\ task \in TaskRow /\ task.pc = "tell" /\ task.next = next
      /\ task.owed = work[w].owed /\ task.tried = work[w].tried /\ task.todo = work[w].todo
  BY <1>1, TellingIs
<1> HIDE DEF task
<1>3. Sound(task)
  BY <1>1, <1>2 DEF Sound, Busy
<1>4. work' = [work EXCEPT ![w] = task]
  BY DEF task
<1>5. QED
  BY <1>2, <1>3, <1>4, CountsNothing, WorkMoves

LEMMA FireAlertKeeps == ASSUME Inv, NEW w \in Worker, FireAlert(w) PROVE Inv'
<1> DEFINE chosen == FailureRules(work[w].sink.row)
           next == work[w].next
<1>1. /\ work' = [work EXCEPT ![w] = Telling(work[w], chosen, next)]
      /\ UNCHANGED <<admin, circuit, jobs, streak>> /\ UNCHANGED streak
  BY DEF FireAlert
<1>2. chosen \in SUBSET Rule /\ \A a \in chosen : rules[a] # None
  BY DEF FailureRules
<1>3. next \in {"idle", "sinks", "done"}
  BY TaskIs DEF TaskRow
<1> HIDE DEF chosen
<1>4. WorkOK'
  BY <1>1, <1>2, <1>3, TellingMoves
<1>5. QED
  BY <1>1, <1>4, OnlyWork

LEMMA FireForTransactionKeeps == ASSUME Inv, NEW w \in Worker, FireForTransaction(w) PROVE Inv'
<1> DEFINE chosen == TransactionRules(work[w].job)
<1>1. /\ work' = [work EXCEPT ![w] = Telling(work[w], chosen, "done")]
      /\ UNCHANGED <<admin, circuit, jobs, streak>> /\ UNCHANGED streak
      /\ work[w].pc = "sinks" /\ work[w].todo = {}
  BY DEF FireForTransaction, At
<1>2. chosen \in SUBSET Rule /\ \A a \in chosen : rules[a] # None
  BY DEF TransactionRules
<1>3. work[w].owed \subseteq work[w].tried
  BY <1>1, TaskIs DEF Sound, IdsOf
<1> HIDE DEF chosen
<1>4. WorkOK'
  BY <1>1, <1>2, <1>3, TellingMoves
<1>5. QED
  BY <1>1, <1>4, OnlyWork

LEMMA DeliverKeeps == ASSUME Inv, NEW w \in Worker, Deliver(w) PROVE Inv'
<1>1. PICK item \in work[w].tell :
        /\ work' = [work EXCEPT ![w].tell = @ \ {item}]
        /\ (\E outcome \in {"ok", "error"} : rules' = Recorded(rules, item.id, outcome)) \/ rules' = rules
  BY DEF Deliver
<1>2. /\ work[w].pc = "tell" /\ UNCHANGED sinks
      /\ UNCHANGED <<pending, budget, circuit, jobs, streak>> /\ UNCHANGED streak
  BY DEF Deliver, At
<1>3. TablesOK'
  <2>1. rules' \in [Rule -> AlertRow \cup {None}]
    BY <1>1, RecordedRule DEF Inv, TablesOK
  <2>2. QED
    BY <1>2, <2>1 DEF Inv, TablesOK
<1>4. WorkOK'
  <2> DEFINE tell == work[w].tell \ {item}
             task == [work[w] EXCEPT !.tell = tell]
  <2>1. tell \in SUBSET Note /\ work[w] \in TaskRow /\ Sound(work[w])
    BY TaskIs DEF TaskRow
  <2>2. work' = [work EXCEPT ![w] = task]
    BY <1>1
  <2> HIDE DEF tell
  <2>3. task \in TaskRow /\ task.pc = "tell" /\ task.sink = work[w].sink /\ Same(task, work[w])
    BY <1>2, <2>1, SetTell
  <2> HIDE DEF task
  <2>4. Sound(task)
    BY <2>1, <2>3 DEF Sound, Same, Busy
  <2>5. QED
    BY <1>2, <2>2, <2>3, <2>4, CountsNothing, WorkMoves
<1>5. QED
  BY <1>2, <1>3, <1>4, OutcomeMoves

LEMMA ToldKeeps == ASSUME Inv, NEW w \in Worker, Told(w) PROVE Inv'
<1>1. Resume(w) /\ UNCHANGED <<admin, circuit, jobs, streak>> /\ UNCHANGED streak
  BY DEF Told
<1>2. QED
  BY <1>1, ResumeIs, OnlyWork

(***************************************************************************)
(* The invariant holds                                                      *)
(***************************************************************************)

LEMMA InitInv == Init => Inv
<1> SUFFICES ASSUME Init PROVE Inv
  OBVIOUS
<1>1. TablesOK /\ BoundsOK
  <2>1. PICK t \in Installed : sinks = t.sinks /\ rules = t.rules /\ budget = t.budget /\ jobs = t.jobs
    BY DEF Init
  <2>2. t \in [sinks : [Sink -> Rows \cup {None}], rules : [Rule -> RuleRows \cup {None}],
               budget : Nat, jobs : Nat] /\ Rows \subseteq SinkRow /\ RuleRows \subseteq AlertRow
    BY DispatchAssumption
  <2>3. sinks \in [Sink -> Rows \cup {None}] /\ rules \in [Rule -> RuleRows \cup {None}]
        /\ budget \in Nat /\ jobs \in Nat
    BY <2>1, <2>2
  <2>4. QED
    BY <2>2, <2>3 DEF TablesOK, BoundsOK
<1>2. PendingOK
  BY DEF Init, PendingOK
<1>3. CircuitOK
  BY DispatchAssumption DEF Init, CircuitOK, Fresh
<1>4. WorkOK
  <2>1. Idle \in TaskRow /\ Idle.owed = {} /\ Idle.pc = "idle"
    BY DEF Idle, Task, TaskRow, Pc
  <2>2. work = [w \in Worker |-> Idle]
    BY DEF Init
  <2>3. Sound(Idle) /\ Counts(Idle, streak)
    BY <2>1 DEF Sound, Counts, Busy
  <2>4. QED
    BY <2>1, <2>2, <2>3 DEF WorkOK
<1>5. QED
  BY <1>1, <1>2, <1>3, <1>4 DEF Inv

LEMMA NextKeeps == Inv /\ [Next]_vars => Inv'
<1> SUFFICES ASSUME Inv, [Next]_vars PROVE Inv'
  OBVIOUS
<1>1. ASSUME NEW q \in Req, Administer(q) PROVE Inv'
  BY <1>1, AdministerKeeps
<1>2. ASSUME NEW w \in Worker, Start(w) PROVE Inv'
  BY <1>2, StartKeeps
<1>3. ASSUME NEW w \in Worker, Proceed(w) PROVE Inv'
  BY <1>3, CircuitKeeps, SendKeeps, RecordOkKeeps, RecordErrorKeeps, FireAlertKeeps, DeliverKeeps,
     ToldKeeps, FireForTransactionKeeps DEF Proceed
<1>4. ASSUME UNCHANGED vars PROVE Inv'
  BY <1>4 DEF vars, admin, Inv, TablesOK, PendingOK, BoundsOK, CircuitOK, WorkOK
<1>5. QED
  BY <1>1, <1>2, <1>3, <1>4 DEF Next

LEMMA InvAlways == Spec => []Inv
BY InitInv, NextKeeps, PTL DEF Spec

(***************************************************************************)
(* Theorems                                                                 *)
(***************************************************************************)

(* The tables, the circuits and the threads keep their types (Dispatch.TypeOK) *)
(* whatever requests, dispatches and tests run together.                       *)
THEOREM TypeCorrect == Spec => []TypeOK
<1>1. Inv => TypeOK
  <2> SUFFICES ASSUME Inv PROVE TypeOK
    OBVIOUS
  <2>1. ASSUME NEW w \in Worker
        PROVE  /\ work[w].pc \in Pc /\ work[w].read \in Nat /\ work[w].live \in BOOLEAN
               /\ work[w].sink # None => work[w].sink.id \in Sink
               /\ work[w].tried \subseteq Sink
    BY TaskIs DEF TaskRow, Item
  <2>2. QED
    BY <2>1 DEF Inv, TablesOK, BoundsOK, CircuitOK, TypeOK
<1>2. QED
  BY <1>1, InvAlways, PTL

(* A circuit opens only after as many failures as the threshold says, with no  *)
(* success between, although its dictionary is read, written and replaced by   *)
(* several threads without a lock (circuit.py: record_failure, is_open).       *)
THEOREM OpenIsEarnedHolds == Spec => []OpenIsEarned
<1>1. Inv => OpenIsEarned
  <2> SUFFICES ASSUME Inv, NEW s \in Sink, circuit[s].opened PROVE streak[s] >= Threshold
    BY DEF OpenIsEarned
  <2>1. Threshold <= streak[s] /\ streak[s] \in Nat /\ Threshold \in Nat
    BY DispatchAssumption DEF Inv, CircuitOK
  <2>2. QED
    BY <2>1
<1>2. QED
  BY <1>1, InvAlways, PTL

(* A dispatch that is over has tried every sink that was to hear of the        *)
(* transaction, whatever happened to those before it and whatever was edited   *)
(* meanwhile (dispatch_integrations).                                          *)
THEOREM NobodyForgottenHolds == Spec => []NobodyForgotten
<1>1. Inv => NobodyForgotten
  <2> SUFFICES ASSUME Inv, NEW w \in Worker, At(w, "done") PROVE work[w].owed \subseteq work[w].tried
    BY DEF NobodyForgotten
  <2>1. Sound(work[w]) /\ work[w].pc = "done"
    BY TaskIs DEF At
  <2>2. QED
    BY <2>1 DEF Sound
<1>2. QED
  BY <1>1, InvAlways, PTL
=============================================================================
