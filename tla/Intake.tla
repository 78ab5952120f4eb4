-------------------------------- MODULE Intake --------------------------------
(* broker.py, scheduler.py, routers/schedules.py and the lifespan of main.py:  *)
(* how work reaches the handlers.                                              *)
(*                                                                             *)
(* Runs of scheduled jobs record transactions and publish a message for each;  *)
(* a consumer per topic hands every message to a task of its own, bounded by a *)
(* semaphore; the handler may publish again, to its own topic to retry and to  *)
(* "outbound" to go on.  Two brokers: bounded asyncio queues in the process,   *)
(* or RabbitMQ, which keeps its messages while the process is down.            *)
(*                                                                             *)
(* What a handler does beside publishing is EventPipeline; an event from       *)
(* CometD is recorded and published as a scheduled record is.                  *)
EXTENDS Naturals, Sequences, FiniteSets

CONSTANTS
    None,        \* no row, nothing
    Schedule,    \* ids of scheduled jobs
    Rows,        \* the rows a job may have
    Durable,     \* the configured broker is RabbitMQ
    MaxQueue,    \* settings.broker_max_queue
    MaxConc,     \* settings.worker_max_concurrency
    Prefetch,    \* the prefetch count of RabbitMQ's channel
    MaxRetries,  \* settings.max_retries
    Budgets,     \* bounds a behaviour may have: [runs, records, edits, crashes]
    MaxRuns,     \* bound: runs of scheduled jobs
    MaxMsgs      \* bound: messages, above what the budgets lead to

(* A scheduled job.  valid: its cron expression is one; ready: its org exists  *)
(* and it has a query; count, error: what _stamp wrote last.                   *)
JobRow == [enabled : BOOLEAN, valid : BOOLEAN, ready : BOOLEAN,
           count : Nat \cup {None}, error : BOOLEAN]

ASSUME IntakeAssumption ==
    /\ None \notin JobRow /\ None \notin Nat
    /\ Rows \subseteq JobRow
    /\ Durable \in BOOLEAN
    /\ MaxQueue \in Nat \ {0} /\ MaxConc \in Nat \ {0}
    /\ Prefetch \in Nat /\ Prefetch >= MaxConc
    /\ {MaxRetries, MaxRuns, MaxMsgs} \subseteq Nat
    /\ Budgets \subseteq [runs : 0 .. MaxRuns, records : Nat, edits : Nat, crashes : Nat]

VARIABLES
    backend,  \* broker.backend_name: "internal" or "rabbitmq", None while down
    rows,     \* scheduled_jobs
    sched,    \* the jobs APScheduler has
    msgs,     \* every message a broker has accepted, in the order of acceptance
    txs,      \* the run that recorded each transaction
    runs,     \* the runs of scheduled jobs
    budget    \* runs, edits and stops of the process left; records a query returns

vars == <<backend, rows, sched, msgs, txs, runs, budget>>

Topic == {"inbound", "outbound"}

(* A message.  home: the broker that accepted it; at: where it is; next: what  *)
(* its handler is about to publish; acked: RabbitMQ has forgotten it.          *)
Message(tx, topic, try) ==
    [tx |-> tx, topic |-> topic, try |-> try, home |-> backend, at |-> "queued",
     next |-> None, acked |-> FALSE]

InHand == {"running", "putting"}
On(topic, places) ==
    {i \in DOMAIN msgs : msgs[i].topic = topic /\ msgs[i].home = backend /\ msgs[i].at \in places}

(***************************************************************************)
(* Publishing                                                               *)
(***************************************************************************)

(* asyncio.Queue.put waits for a place; RabbitMQ always accepts, or fails.     *)
HasRoom(topic) ==
    backend = "rabbitmq" \/ Cardinality(On(topic, {"queued"})) < MaxQueue

MayRefuse == backend = "rabbitmq"

(***************************************************************************)
(* The consumers                                                            *)
(***************************************************************************)

(* Faulty: waits for the semaphore before it takes the next message.           *)
DequeueHolding(i) ==
    /\ backend # None /\ msgs[i].home = backend /\ msgs[i].at = "queued"
    /\ Cardinality(On(msgs[i].topic, {"task"} \cup InHand)) < MaxConc
    /\ msgs' = [msgs EXCEPT ![i].at = "task"]
    /\ UNCHANGED <<backend, rows, sched, txs, runs, budget>>

(* The loop of consume_forever: a message leaves the queue for a task of its   *)
(* own, whether or not the task can start; RabbitMQ hands over no more than    *)
(* the prefetch count.                                                         *)
Dequeue(i) ==
    /\ backend # None /\ msgs[i].home = backend /\ msgs[i].at = "queued"
    /\ (backend = "rabbitmq") => Cardinality(On(msgs[i].topic, {"task"} \cup InHand)) < Prefetch
    /\ msgs' = [msgs EXCEPT ![i].at = "task"]
    /\ UNCHANGED <<backend, rows, sched, txs, runs, budget>>

(* Faulty: the message is acknowledged as its handler starts.                  *)
AcquireAcking(i) ==
    /\ backend # None /\ msgs[i].home = backend /\ msgs[i].at = "task"
    /\ Cardinality(On(msgs[i].topic, InHand)) < MaxConc
    /\ msgs' = [msgs EXCEPT ![i].at = "running", ![i].acked = TRUE]
    /\ UNCHANGED <<backend, rows, sched, txs, runs, budget>>

Acquire(i) ==
    /\ backend # None /\ msgs[i].home = backend /\ msgs[i].at = "task"
    /\ Cardinality(On(msgs[i].topic, InHand)) < MaxConc
    /\ msgs' = [msgs EXCEPT ![i].at = "running"]
    /\ UNCHANGED <<backend, rows, sched, txs, runs, budget>>

Over(m) == [[[m EXCEPT !.at = "over"] EXCEPT !.next = None] EXCEPT !.acked = TRUE]
Putting(m, topic, try) == [[m EXCEPT !.at = "putting"] EXCEPT !.next = [topic |-> topic, try |-> try]]

(* The handler ends, or raises, which ends the task as well; or it has         *)
(* something to publish first.                                                 *)
Handle(i) ==
    /\ backend # None /\ msgs[i].home = backend /\ msgs[i].at = "running"
    /\ \/ msgs' = [msgs EXCEPT ![i] = Over(@)]
       \/ /\ msgs[i].topic = "inbound"
          /\ \/ msgs' = [msgs EXCEPT ![i] = Putting(@, "outbound", 0)]
             \/ /\ msgs[i].try < MaxRetries
                /\ msgs' = [msgs EXCEPT ![i] = Putting(@, "inbound", @.try + 1)]
    /\ UNCHANGED <<backend, rows, sched, txs, runs, budget>>

Put(i) ==
    /\ backend # None /\ msgs[i].home = backend /\ msgs[i].at = "putting"
    /\ LET next == msgs[i].next IN
       \/ /\ HasRoom(next.topic)
          /\ msgs' = Append([msgs EXCEPT ![i] = Over(@)], Message(msgs[i].tx, next.topic, next.try))
       \/ /\ MayRefuse
          /\ msgs' = [msgs EXCEPT ![i] = Over(@)]
    /\ UNCHANGED <<backend, rows, sched, txs, runs, budget>>

(***************************************************************************)
(* Scheduled jobs                                                           *)
(***************************************************************************)

(* A run.  due: started by the scheduler; pc, todo: the records still to be    *)
(* recorded; recorded: those that wait to be published; count: those queued.   *)
Active(r) == runs[r].pc # "over"
Started(j, due) ==
    [job |-> j, due |-> due, pc |-> "start", todo |-> 0, recorded |-> {}, count |-> 0]
Now(run, pc, todo, recorded, count) ==
    [job |-> run.job, due |-> run.due, pc |-> pc, todo |-> todo, recorded |-> recorded, count |-> count]
Ended(run) == Now(run, "over", run.todo, {}, run.count)

(* The scheduler starts a job it has, unless its last start still runs         *)
(* (max_instances); a job is started by hand whatever else runs.               *)
Start(j) ==
    /\ backend # None /\ budget.runs > 0
    /\ \/ /\ j \in sched /\ \A r \in DOMAIN runs : Active(r) /\ runs[r].due => runs[r].job # j
          /\ runs' = Append(runs, Started(j, TRUE))
       \/ /\ rows[j] # None
          /\ runs' = Append(runs, Started(j, FALSE))
    /\ budget' = [budget EXCEPT !.runs = @ - 1]
    /\ UNCHANGED <<backend, rows, sched, msgs, txs>>

(* _stamp: a run that failed leaves the count alone.                           *)
Stamped(j, error, count) ==
    IF rows[j] = None THEN rows
    ELSE [rows EXCEPT ![j] = [[@ EXCEPT !.error = error] EXCEPT !.count = IF error THEN @ ELSE count]]

(* _run_job reads its row; without a usable org and query it stamps an error.  *)
Begin(r) ==
    /\ backend # None /\ runs[r].pc = "start"
    /\ LET j == runs[r].job IN
       IF rows[j] = None \/ ~rows[j].enabled
       THEN runs' = [runs EXCEPT ![r].pc = "over"] /\ rows' = rows
       ELSE IF ~rows[j].ready
       THEN runs' = [runs EXCEPT ![r].pc = "over"] /\ rows' = Stamped(j, TRUE, 0)
       ELSE runs' = [runs EXCEPT ![r].pc = "query"] /\ rows' = rows
    /\ UNCHANGED <<backend, sched, msgs, txs, budget>>

(* Salesforce answers the query, or does not.                                  *)
Answer(r) ==
    /\ backend # None /\ runs[r].pc = "query"
    /\ \/ /\ runs' = [runs EXCEPT ![r].pc = "over"]
          /\ rows' = Stamped(runs[r].job, TRUE, 0)
       \/ /\ \E n \in 0 .. budget.records : runs' = [runs EXCEPT ![r] = Now(@, "record", n, {}, 0)]
          /\ rows' = rows
    /\ UNCHANGED <<backend, sched, msgs, txs, budget>>

(* Faulty: all records are recorded before the first is published.             *)
RecordAll(r) ==
    /\ backend # None /\ runs[r].pc = "record" /\ runs[r].todo > 0
    /\ txs' = txs \o [k \in 1 .. runs[r].todo |-> r]
    /\ runs' = [runs EXCEPT ![r] = Now(@, "put", 0, Len(txs) + 1 .. Len(txs) + @.todo, @.count)]
    /\ UNCHANGED <<backend, rows, sched, msgs, budget>>

Record(r) ==
    /\ backend # None /\ runs[r].pc = "record" /\ runs[r].todo > 0
    /\ txs' = Append(txs, r)
    /\ runs' = [runs EXCEPT ![r] = Now(@, "put", @.todo - 1, {Len(txs) + 1}, @.count)]
    /\ UNCHANGED <<backend, rows, sched, msgs, budget>>

(* The message of a record.  What the broker refuses nobody catches: the run   *)
(* is over, with the record queued and without a stamp.                        *)
Publish(r) ==
    /\ backend # None /\ runs[r].pc = "put"
    /\ \E t \in runs[r].recorded :
       \/ /\ HasRoom("inbound")
          /\ msgs' = Append(msgs, Message(t, "inbound", 0))
          /\ LET left == runs[r].recorded \ {t} IN
             runs' = [runs EXCEPT ![r] = Now(@, IF left = {} THEN "record" ELSE "put", @.todo, left, @.count + 1)]
       \/ /\ MayRefuse
          /\ runs' = [runs EXCEPT ![r] = Ended(@)]
          /\ msgs' = msgs
    /\ UNCHANGED <<backend, rows, sched, txs, budget>>

Stamp(r) ==
    /\ backend # None /\ runs[r].pc = "record" /\ runs[r].todo = 0
    /\ rows' = Stamped(runs[r].job, FALSE, runs[r].count)
    /\ runs' = [runs EXCEPT ![r].pc = "over"]
    /\ UNCHANGED <<backend, sched, msgs, txs, budget>>

(* reload_jobs takes every job out and puts those in that are enabled and have *)
(* a cron expression.  The requests never wait, so a job and the scheduler     *)
(* change in one step.                                                         *)
Reloaded(table) == {j \in Schedule : table[j] # None /\ table[j].enabled /\ table[j].valid}

Edit(j) ==
    /\ backend # None /\ budget.edits > 0
    /\ budget' = [budget EXCEPT !.edits = @ - 1]
    /\ \/ /\ rows[j] = None
          /\ \E row \in Rows : rows' = [rows EXCEPT ![j] = row]
       \/ /\ rows[j] # None
          /\ \E row \in Rows : rows' = [rows EXCEPT ![j] = [row EXCEPT !.count = rows[j].count, !.error = rows[j].error]]
       \/ /\ rows[j] # None
          /\ rows' = [rows EXCEPT ![j] = None]
    /\ sched' = Reloaded(rows')
    /\ UNCHANGED <<backend, msgs, txs, runs>>

(***************************************************************************)
(* The process                                                              *)
(***************************************************************************)

(* The process ends, by a crash or a shutdown, which cancels the tasks once    *)
(* the connection is closed.  RabbitMQ keeps what was not acknowledged.        *)
Stop ==
    /\ backend # None /\ budget.crashes > 0
    /\ budget' = [budget EXCEPT !.crashes = @ - 1]
    /\ backend' = None
    /\ msgs' = [i \in DOMAIN msgs |->
                  IF msgs[i].at = "over" THEN msgs[i]
                  ELSE [[msgs[i] EXCEPT !.next = None] EXCEPT
                          !.at = IF msgs[i].home = "rabbitmq" /\ ~msgs[i].acked THEN "queued" ELSE "lost"]]
    /\ runs' = [r \in DOMAIN runs |-> Ended(runs[r])]
    /\ sched' = {}
    /\ UNCHANGED <<rows, txs>>

(* configure_from_settings: RabbitMQ, or the internal broker when it does not  *)
(* connect; then the consumers and the scheduler.                              *)
StartUp ==
    /\ backend = None
    /\ backend' \in {"internal"} \cup (IF Durable THEN {"rabbitmq"} ELSE {})
    /\ sched' = Reloaded(rows)
    /\ UNCHANGED <<rows, msgs, txs, runs, budget>>

(***************************************************************************)
(* The specification                                                        *)
(***************************************************************************)

Init ==
    /\ backend = None /\ rows \in [Schedule -> Rows] /\ sched = {}
    /\ msgs = <<>> /\ txs = <<>> /\ runs = <<>>
    /\ budget \in Budgets

Consume(i) == Dequeue(i) \/ Acquire(i) \/ Handle(i) \/ Put(i)

Advance(r) == Begin(r) \/ Answer(r) \/ Record(r) \/ Publish(r) \/ Stamp(r)

Next ==
    \/ \E i \in DOMAIN msgs : Consume(i)
    \/ \E r \in DOMAIN runs : Advance(r)
    \/ \E j \in Schedule : Start(j) \/ Edit(j)
    \/ Stop \/ StartUp

Spec == Init /\ [][Next]_vars

(* Handlers and queries have time limits, the event loop runs every task that  *)
(* is ready, and the process is started again.                                 *)
FairSpec ==
    /\ Spec
    /\ \A i \in 1 .. MaxMsgs : WF_vars(i \in DOMAIN msgs /\ Consume(i))
    /\ \A r \in 1 .. MaxRuns : WF_vars(r \in DOMAIN runs /\ Advance(r))
    /\ WF_vars(StartUp)

(***************************************************************************)
(* Properties                                                               *)
(***************************************************************************)

(* The records of a run that have no message: no handler will see them.        *)
Orphans(r) == {t \in DOMAIN txs : txs[t] = r /\ \A i \in DOMAIN msgs : msgs[i].tx # t}

(* A run that is interrupted, by a broker that refuses a message or by the end *)
(* of the process, leaves at most one record queued that no message speaks of: *)
(* _run_job publishes each record before it makes the next.                    *)
OneOrphanPerRun == \A r \in DOMAIN runs : Cardinality(Orphans(r)) <= 1

(* "messages survive a restart (RabbitMQ persists them)" (broker.py:16): what  *)
(* RabbitMQ has accepted is handled to the end before it is forgotten, through *)
(* crashes, fallbacks to the internal broker and handlers that publish.        *)
AcceptedIsKept == \A i \in DOMAIN msgs : msgs[i].home = "rabbitmq" => msgs[i].at # "lost"

(* A full queue stops nobody for good: handlers that publish to the queue they *)
(* are fed from, and runs that publish to it, all come to an end, since the    *)
(* loop that empties it waits for nobody.  A message of a broker the process   *)
(* no longer uses waits for the next start.  Arrivals are bounded, so all that *)
(* has arrived is over again and again.                                        *)
Quiet ==
    /\ \A i \in DOMAIN msgs : msgs[i].at \in {"over", "lost"} \/ msgs[i].home # backend
    /\ \A r \in DOMAIN runs : ~Active(r)
NothingWaitsForever == []<>Quiet
=============================================================================
