--------------------------- MODULE EventPipeline ---------------------------
(***************************************************************************)
(* The life of a transaction: received from CometD, queued on the inbound  *)
(* topic, processed, handed to the outbound topic, published to            *)
(* Salesforce, and reported to integrations and alerts - while operators   *)
(* cancel and reprocess it and the process may crash.                      *)
(*                                                                         *)
(* A broker message and the asyncio task that handles it are one Job: the  *)
(* broker creates exactly one task per message (broker.py:77-79).  Event   *)
(* loop code runs without interruption between awaits; `loop' names the    *)
(* job holding the loop across such a stretch.  The cancel endpoint is a   *)
(* plain `def' route, run in a thread pool: its read and its write fall    *)
(* between any two database accesses of the event loop.                    *)
(***************************************************************************)
EXTENDS Integers, FiniteSets

CONSTANTS
    Tx,           \* transaction ids
    Job,          \* broker messages / handler tasks
    Call,         \* requests to the cancel endpoint
    None,         \* no transaction, no job
    Sources,      \* how transactions enter: subset of {"cometd", "manual"}
    Durable,      \* TRUE: RabbitMQ, FALSE: the in-process broker
    MaxConc,      \* settings.worker_max_concurrency
    MaxRetries,   \* settings.worker_max_retries
    MaxFan,       \* bound: routed publish channels of one event
    MaxAttempts,  \* bound: reprocess requests per transaction
    MaxCrashes    \* bound: process crashes and redeliveries

ASSUME ConstantsAssumption ==
    /\ None \notin Tx \cup Job
    /\ Sources \subseteq {"cometd", "manual"}
    /\ Durable \in BOOLEAN
    /\ MaxConc \in Nat \ {0}
    /\ MaxRetries \in Nat /\ MaxFan \in Nat
    /\ MaxAttempts \in Nat /\ MaxCrashes \in Nat

VARIABLES
    tx,       \* transactions table: id -> row
    job,      \* broker messages and the tasks handling them
    loop,     \* job in the middle of an uninterrupted stretch, or None
    call,     \* cancel requests in the thread pool
    crashes,  \* number of crashes and redeliveries so far
    sent,     \* history: events Salesforce accepted, per transaction
    told,     \* history: outcomes handed to integrations and alerts
    asked     \* history: attempt a cancellation last took effect on, or -1

vars == <<tx, job, loop, call, crashes, sent, told, asked>>
history == <<sent, told, asked>>

----------------------------------------------------------------------------
(* Rows, jobs and requests.                                                *)

Status == {"absent", "received", "queued", "processing", "processed",
           "publishing", "published", "failed", "skipped", "cancelled"}
Terminal == {"published", "failed", "skipped", "cancelled"}
Active == {"received", "queued", "processing", "publishing"}

(* What the result column holds: nothing, the processor's output, or the   *)
(* output of the rule gate that skipped the event.                         *)
Result == {"none", "output", "gate"}

Row == [status: Status, result: Result, error: BOOLEAN, cancel: BOOLEAN,
        attempts: Nat, direction: {"subscribe", "publish"}]
AbsentRow == [status |-> "absent", result |-> "none", error |-> FALSE,
              cancel |-> FALSE, attempts |-> 0, direction |-> "subscribe"]
NewRow(status, direction) ==
    [AbsentRow EXCEPT !.status = status, !.direction = direction]

Topic == {"inbound", "outbound", "manual"}
PC == {"free", "receive", "enqueue", "send", "queued",
       "gate", "begin", "process", "finish", "requeue", "forward", "fan", "link",
       "open", "call", "accepted", "mark", "notify", "dispatch", "ack"}

(* A job carries the transaction, the payload to publish (its own, the     *)
(* processor's output or the gate's output), and its handler's locals.     *)
JobRow == [pc: PC, topic: Topic, tx: Tx \cup {None},
           body: {"payload", "output", "gate"}, retry: Nat,
           left: Nat, child: Tx \cup {None}]
FreeJob == [pc |-> "free", topic |-> "inbound", tx |-> None, body |-> "payload",
            retry |-> 0, left |-> 0, child |-> None]
NewJob(pc, topic, t, body, retry) ==
    [FreeJob EXCEPT !.pc = pc, !.topic = topic, !.tx = t, !.body = body,
                    !.retry = retry]

CallRow == [pc: {"idle", "read", "done"}, tx: Tx \cup {None}, seen: Status]

(* No message in a queue yet, or no longer.                                *)
Unsent == {"free", "receive", "enqueue", "send"}
(* Message in no handler: not sent yet, queued, or handled.                *)
Waiting == Unsent \cup {"queued"}
Running(topic) == {j \in Job : job[j].pc \notin Waiting /\ job[j].topic = topic}

(* Job j may run its next stretch: the loop is free, or j has kept it.     *)
At(j, pc, topic) ==
    /\ job[j].pc \in pc /\ job[j].topic = topic
    /\ loop \in {None, j}
    /\ UNCHANGED <<call, crashes>>

Goto(j, pc) == job' = [job EXCEPT ![j].pc = pc]
(* Faulty: a thread hop where the code has none.                           *)
ContinueHopping(j, pc) == Goto(j, pc) /\ loop' = None
Continue(j, pc) == Goto(j, pc) /\ loop' = j          \* no await in between
Await(j, pc) == Goto(j, pc) /\ loop' = None
Return(j) == job' = [job EXCEPT ![j] = FreeJob] /\ loop' = None
(* `await broker.publish' suspends with RabbitMQ; asyncio.Queue.put does   *)
(* not while the queue is below broker_max_queue.                          *)
AwaitSend(j) == loop' = IF Durable THEN None ELSE j
(* Handler j puts msg on a topic and has nothing more to do.               *)
PublishLast(j, k, msg) ==
    /\ job[k].pc = "free"
    /\ job' = [job EXCEPT ![j].pc = "ack", ![k] = msg]
    /\ loop' = None
    /\ UNCHANGED <<tx, history>>

SetStatus(t, status) == tx' = [tx EXCEPT ![t].status = status]
Fail(t) == tx' = [tx EXCEPT ![t] = [@ EXCEPT !.status = "failed", !.error = TRUE]]
CancelRow(t) ==
    tx' = [tx EXCEPT ![t] = [@ EXCEPT !.status = "cancelled", !.error = TRUE]]
Store(t, status, result) ==
    tx' = [tx EXCEPT ![t] = [@ EXCEPT !.status = status, !.result = result]]

Init ==
    /\ tx = [t \in Tx |-> AbsentRow]
    /\ job = [j \in Job |-> FreeJob]
    /\ loop = None
    /\ call = [c \in Call |-> [pc |-> "idle", tx |-> None, seen |-> "absent"]]
    /\ crashes = 0
    /\ sent = [t \in Tx |-> 0]
    /\ told = [t \in Tx |-> {}]
    /\ asked = [t \in Tx |-> -1]

----------------------------------------------------------------------------
(* Arrival: cometd_client._handle_message inserts the row, marks it queued *)
(* and publishes the message; publish_manual_event inserts a publish row   *)
(* and calls Salesforce without the broker.                                *)

Insert(t, j, row, m) ==
    /\ loop = None /\ tx[t].status = "absent" /\ job[j].pc = "free"
    /\ tx' = [tx EXCEPT ![t] = row]
    /\ job' = [job EXCEPT ![j] = m]
    /\ UNCHANGED <<call, crashes, history>>

Receive(t, j) ==
    /\ "cometd" \in Sources
    /\ Insert(t, j, NewRow("received", "subscribe"),
              NewJob("receive", "inbound", t, "payload", 0))
    /\ loop' = j

PublishManual(t, j) ==
    /\ "manual" \in Sources
    /\ Insert(t, j, NewRow("publishing", "publish"),
              NewJob("call", "manual", t, "payload", 0))
    /\ UNCHANGED loop

MarkQueued(j) ==
    /\ At(j, {"receive"}, "inbound")
    /\ SetStatus(job[j].tx, "queued")
    /\ Goto(j, "enqueue") /\ AwaitSend(j)
    /\ UNCHANGED history

(* The message of an arrival or of a reprocess request reaches its queue.  *)
Send(j) ==
    /\ At(j, {"enqueue", "send"}, job[j].topic)
    /\ Await(j, "queued")
    /\ UNCHANGED <<tx, history>>

----------------------------------------------------------------------------
(* inbound_worker.handle                                                   *)

(* A semaphore slot is free: the task of a queued message starts.          *)
Starts(j, topic) ==
    /\ At(j, {"queued"}, topic)
    /\ loop = None
    /\ Cardinality(Running(topic)) < MaxConc

(* Faulty: the inbound checkpoint is missing.                              *)
InTakeUnchecked(j) ==
    /\ Starts(j, "inbound")
    /\ Await(j, "gate") \/ Continue(j, "begin")
    /\ UNCHANGED <<tx, history>>

(* Cancellation checkpoint, then on to the rule gate if the channel has    *)
(* one (an await) or straight to processing.                               *)
InTake(j) ==
    /\ Starts(j, "inbound")
    /\ IF tx[job[j].tx].status = "cancelled"
         THEN Return(j)
         ELSE Await(j, "gate") \/ Continue(j, "begin")
    /\ UNCHANGED <<tx, history>>

(* The schema rejects the payload, or the rule gate cannot be evaluated.   *)
InRefuse(j) ==
    /\ At(j, {"begin", "gate"}, "inbound")
    /\ Fail(job[j].tx)
    /\ Continue(j, "notify")
    /\ UNCHANGED history

(* The rule gate says no: the event is skipped and nobody is notified.     *)
InSkip(j) ==
    /\ At(j, {"gate"}, "inbound")
    /\ Store(job[j].tx, "skipped", "gate")
    /\ Return(j)
    /\ UNCHANGED history

InBegin(j) ==
    /\ At(j, {"begin", "gate"}, "inbound")
    /\ SetStatus(job[j].tx, "processing")
    /\ Await(j, "process")
    /\ UNCHANGED history

(* Faulty: the killed processor's handler returns without a status.        *)
InCancelledSilently(j) ==
    /\ At(j, {"process"}, "inbound")
    /\ tx[job[j].tx].cancel
    /\ Return(j)
    /\ UNCHANGED <<tx, history>>

(* The processor was killed or cancelled because of cancel_requested, or   *)
(* it returned and the soft-cancel checkpoint sees the flag.               *)
InCancelled(j) ==
    /\ At(j, {"process"}, "inbound")
    /\ tx[job[j].tx].cancel
    /\ CancelRow(job[j].tx)
    /\ Return(j)
    /\ UNCHANGED history

InProcessed(j) ==
    /\ At(j, {"process"}, "inbound")
    /\ ~tx[job[j].tx].cancel
    /\ Continue(j, "finish")
    /\ UNCHANGED <<tx, history>>

(* Faulty: the dead letter is dropped without telling anyone.              *)
InFailUnreported(j) ==
    /\ At(j, {"process"}, "inbound")
    /\ Fail(job[j].tx)
    /\ IF job[j].retry < MaxRetries
         THEN Goto(j, "requeue") /\ AwaitSend(j)
         ELSE Return(j)
    /\ UNCHANGED history

(* The processor raised: retry, or dead-letter after worker_max_retries.   *)
InFail(j) ==
    /\ At(j, {"process"}, "inbound")
    /\ Fail(job[j].tx)
    /\ IF job[j].retry < MaxRetries
         THEN Goto(j, "requeue") /\ AwaitSend(j)
         ELSE Continue(j, "notify")
    /\ UNCHANGED history

(* Faulty: the retry counter runs backwards.                               *)
InRequeueBackwards(j, k) ==
    /\ At(j, {"requeue"}, "inbound")
    /\ PublishLast(j, k, NewJob("queued", "inbound", job[j].tx, "payload",
                                job[j].retry - 1))

InRequeue(j, k) ==
    /\ At(j, {"requeue"}, "inbound")
    /\ PublishLast(j, k, NewJob("queued", "inbound", job[j].tx, "payload",
                                job[j].retry + 1))

(* Status processed, then by configuration: no publish (auto-publish off   *)
(* or no publish channel), the org's default channel, or n routed channels.*)
InFinish(j) ==
    /\ At(j, {"finish"}, "inbound")
    /\ Store(job[j].tx, "processed", "output")
    /\ \/ Continue(j, "notify")
       \/ Goto(j, "forward") /\ AwaitSend(j)
       \/ /\ \E n \in 1..MaxFan :
               job' = [job EXCEPT ![j] = [@ EXCEPT !.pc = "fan", !.left = n]]
          /\ loop' = j
    /\ UNCHANGED history

InForward(j, k) ==
    /\ At(j, {"forward"}, "inbound")
    /\ PublishLast(j, k, NewJob("queued", "outbound", job[j].tx, "output", 0))

(* One routed channel: a child publish transaction, then its message.      *)
InFanRecord(j, t) ==
    /\ At(j, {"fan"}, "inbound")
    /\ tx[t].status = "absent"
    /\ tx' = [tx EXCEPT ![t] = NewRow("queued", "publish")]
    /\ job' = [job EXCEPT ![j] = [@ EXCEPT !.pc = "link", !.child = t]]
    /\ AwaitSend(j)
    /\ UNCHANGED history

InFanPublish(j, k) ==
    /\ At(j, {"link"}, "inbound")
    /\ LET msg == NewJob("queued", "outbound", job[j].child, "payload", 0)
       IN  \/ job[j].left = 1 /\ PublishLast(j, k, msg)
           \/ /\ job[j].left > 1 /\ job[k].pc = "free"
              /\ job' = [job EXCEPT ![k] = msg,
                                    ![j] = [@ EXCEPT !.pc = "fan", !.child = None,
                                                     !.left = job[j].left - 1]]
              /\ loop' = j
              /\ UNCHANGED <<tx, history>>

----------------------------------------------------------------------------
(* outbound_publisher.handle, and the same Salesforce call made by         *)
(* publish_manual_event                                                    *)

(* Faulty: the outbound checkpoint looks at the status only.               *)
OutTakeFlagIgnored(j) ==
    /\ Starts(j, "outbound")
    /\ IF tx[job[j].tx].status = "cancelled"
         THEN CancelRow(job[j].tx) /\ Return(j)
         ELSE Continue(j, "open") /\ UNCHANGED tx
    /\ UNCHANGED history

(* Cancellation checkpoint: cancelled or flagged transactions stop here.   *)
OutTake(j) ==
    /\ Starts(j, "outbound")
    /\ IF tx[job[j].tx].status = "cancelled" \/ tx[job[j].tx].cancel
         THEN CancelRow(job[j].tx) /\ Return(j)
         ELSE Continue(j, "open") /\ UNCHANGED tx
    /\ UNCHANGED history

OutNoOrg(j) ==
    /\ At(j, {"open"}, "outbound")
    /\ Fail(job[j].tx)
    /\ Continue(j, "notify")
    /\ UNCHANGED history

(* Faulty: the row says published before Salesforce has answered.          *)
OutOpenEarly(j) ==
    /\ At(j, {"open"}, "outbound")
    /\ SetStatus(job[j].tx, "published")
    /\ Await(j, "call")
    /\ UNCHANGED history

OutOpen(j) ==
    /\ At(j, {"open"}, "outbound")
    /\ SetStatus(job[j].tx, "publishing")
    /\ Await(j, "call")
    /\ UNCHANGED history

(* Salesforce accepts the event; its answer is on the way.                 *)
Accept(j) ==
    /\ job[j].pc = "call"
    /\ Goto(j, "accepted")
    /\ sent' = [sent EXCEPT ![job[j].tx] = @ + 1]
    /\ UNCHANGED <<tx, loop, call, crashes, told, asked>>

(* The answer arrived; the flag is read before marking it published.       *)
OutReturn(j) ==
    /\ At(j, {"accepted"}, "outbound")
    /\ IF tx[job[j].tx].cancel
         THEN CancelRow(job[j].tx) /\ Continue(j, "notify")
         ELSE Continue(j, "mark") /\ UNCHANGED tx
    /\ UNCHANGED history

OutPublished(j) ==
    /\ At(j, {"mark"}, "outbound")
    /\ SetStatus(job[j].tx, "published")
    /\ Continue(j, "notify")
    /\ UNCHANGED history

(* _run_cancellable polls cancel_requested and cancels the HTTP request.   *)
OutAbort(j) ==
    /\ At(j, {"call", "accepted"}, "outbound")
    /\ tx[job[j].tx].cancel
    /\ CancelRow(job[j].tx)
    /\ Continue(j, "notify")
    /\ UNCHANGED history

(* Faulty: a publish that raised is simply tried again.                    *)
PublishErrorRetried(j) ==
    /\ At(j, {"call", "accepted"}, job[j].topic)
    /\ Await(j, "call")
    /\ UNCHANGED <<tx, history>>

(* The publish raised: refused, or no answer to an event that may be in.   *)
PublishError(j) ==
    /\ At(j, {"call", "accepted"}, job[j].topic)
    /\ Fail(job[j].tx)
    /\ Continue(j, "notify")
    /\ UNCHANGED history

(* publish_manual_event stores the answer; it never looks at the flag.     *)
ManualReturn(j) ==
    /\ At(j, {"accepted"}, "manual")
    /\ Store(job[j].tx, "published", "output")
    /\ Continue(j, "notify")
    /\ UNCHANGED history

(* The row is read back and handed to dispatch_integrations and            *)
(* fire_alert_for_transaction, which run in worker threads.                *)
Notify(j) ==
    /\ At(j, {"notify"}, job[j].topic)
    /\ LET t == job[j].tx
       IN  told' = [told EXCEPT ![t] = @ \cup
                      {[status |-> tx[t].status, error |-> tx[t].error]}]
    /\ Await(j, "dispatch")
    /\ UNCHANGED <<tx, sent, asked>>

(* The handler returns: the slot is released and the message acknowledged. *)
Done(j) ==
    /\ At(j, {"dispatch", "ack"}, job[j].topic)
    /\ Return(j)
    /\ UNCHANGED <<tx, history>>

----------------------------------------------------------------------------
(* Operators and crashes                                                   *)

(* POST /cancel, first half: read the row; a terminal one is refused.      *)
CancelRead(c, t) ==
    /\ call[c].pc = "idle"
    /\ tx[t].status \notin Terminal \cup {"absent"}
    /\ call' = [call EXCEPT ![c] = [pc |-> "read", tx |-> t, seen |-> tx[t].status]]
    /\ UNCHANGED <<tx, job, loop, crashes, history>>

(* Second half: decide on the status that was read, then write.            *)
CancelWrite(c) ==
    /\ call[c].pc = "read"
    /\ LET t == call[c].tx
       IN  /\ IF call[c].seen \in {"received", "queued"}
                THEN CancelRow(t)
                ELSE tx' = [tx EXCEPT ![t].cancel = TRUE]
           /\ asked' = [asked EXCEPT ![t] = tx[t].attempts]
    /\ call' = [call EXCEPT ![c].pc = "done"]
    /\ UNCHANGED <<job, loop, crashes, sent, told>>

(* reprocess_transaction: a publish row or one with a stored result goes   *)
(* to the outbound topic, any other starts over on the inbound topic.      *)
Reprocess(t, j) ==
    /\ loop = None /\ job[j].pc = "free"
    /\ tx[t].status # "absent" /\ tx[t].attempts < MaxAttempts
    /\ LET own == tx[t].direction = "publish"
           out == own \/ tx[t].result # "none"
       IN  /\ tx' = [tx EXCEPT ![t] =
                 [@ EXCEPT !.status = IF out THEN "publishing" ELSE "queued",
                           !.error = FALSE, !.attempts = tx[t].attempts + 1]]
           /\ job' = [job EXCEPT ![j] =
                        NewJob("send", IF out THEN "outbound" ELSE "inbound", t,
                               IF own \/ ~out THEN "payload" ELSE tx[t].result, 0)]
    /\ AwaitSend(j)
    /\ UNCHANGED <<call, crashes, history>>

(* Faulty: messages are acknowledged when they are delivered.              *)
RestartedEarlyAck(m) ==
    IF ~Durable \/ m.pc # "queued" THEN FreeJob ELSE m

(* The org's stream is stopped (its channels were edited, or a resync) and *)
(* its task cancelled while it is suspended in `await broker.publish': the *)
(* row says queued and the message is never sent.                          *)
StreamStopped(j) ==
    /\ Durable /\ loop = None
    /\ job[j].pc = "enqueue"
    /\ Return(j)
    /\ UNCHANGED <<tx, call, crashes, history>>

(* The process dies.  RabbitMQ redelivers every unacknowledged message;    *)
(* the in-process queues are lost.  The database survives.                 *)
Restarted(m) ==
    IF ~Durable \/ m.pc \in Unsent \/ m.topic = "manual"
      THEN FreeJob
      ELSE [m EXCEPT !.pc = "queued", !.left = 0, !.child = None]

Crash ==
    /\ crashes < MaxCrashes
    /\ crashes' = crashes + 1
    /\ job' = [j \in Job |-> Restarted(job[j])]
    /\ call' = [c \in Call |-> IF call[c].pc = "read"
                                 THEN [call[c] EXCEPT !.pc = "done"] ELSE call[c]]
    /\ loop' = None
    /\ UNCHANGED <<tx, history>>

(* The connection to RabbitMQ is lost and restored: the message of j is    *)
(* delivered once more while the task that handles j keeps running.        *)
Redeliver(j, k) ==
    /\ Durable /\ crashes < MaxCrashes
    /\ job[j].pc \notin Unsent /\ job[j].topic # "manual" /\ job[k].pc = "free"
    /\ crashes' = crashes + 1
    /\ job' = [job EXCEPT ![k] = Restarted(job[j])]
    /\ UNCHANGED <<tx, loop, call, history>>

----------------------------------------------------------------------------
(* Everything a job does once it exists.                                   *)
Step(j) ==
    \/ MarkQueued(j) \/ Send(j)
    \/ InTake(j) \/ InRefuse(j) \/ InSkip(j) \/ InBegin(j)
    \/ InCancelled(j) \/ InProcessed(j) \/ InFail(j) \/ InFinish(j)
    \/ \E k \in Job : InRequeue(j, k) \/ InForward(j, k) \/ InFanPublish(j, k)
    \/ \E t \in Tx : InFanRecord(j, t)
    \/ OutTake(j) \/ OutNoOrg(j) \/ OutOpen(j) \/ Accept(j) \/ OutReturn(j)
    \/ OutPublished(j) \/ OutAbort(j) \/ PublishError(j) \/ ManualReturn(j)
    \/ Notify(j) \/ Done(j)

Next ==
    \/ \E t \in Tx, j \in Job : Receive(t, j) \/ PublishManual(t, j) \/ Reprocess(t, j)
    \/ \E j \in Job : Step(j)
    \/ \E c \in Call, t \in Tx : CancelRead(c, t)
    \/ \E c \in Call : CancelWrite(c)
    \/ \E j \in Job : StreamStopped(j)
    \/ \E j, k \in Job : Redeliver(j, k)
    \/ Crash

(* The event loop keeps running and every await returns.  A semaphore is   *)
(* FIFO, so a queued message is not passed over for ever.  Operators and   *)
(* arrivals owe nothing.                                                   *)
Fairness ==
    /\ \A j \in Job : SF_vars(Step(j))
    /\ \A c \in Call : WF_vars(CancelWrite(c))

Spec == Init /\ [][Next]_vars
FairSpec == Spec /\ Fairness

----------------------------------------------------------------------------
(* Properties.                                                             *)

(* Program points that only one of the three kinds of handler has.         *)
Inbound == {"receive", "enqueue", "gate", "begin", "process", "finish", "requeue",
            "forward", "fan", "link"}
WellFormed(m) ==
    /\ m.pc # "free" => m.tx \in Tx
    /\ m.pc = "link" => m.child \in Tx
    /\ m.pc \in Inbound => m.topic = "inbound"
    /\ m.pc \in {"open", "mark"} => m.topic = "outbound"
    /\ m.pc \in {"call", "accepted"} => m.topic \in {"outbound", "manual"}
    /\ m.pc \in {"send", "queued"} => m.topic \in {"inbound", "outbound"}

TypeOK ==
    /\ tx \in [Tx -> Row]
    /\ job \in [Job -> JobRow] /\ \A j \in Job : WellFormed(job[j])
    /\ loop \in Job \cup {None}
    /\ call \in [Call -> CallRow] /\ \A c \in Call : call[c].pc = "read" => call[c].tx \in Tx
    /\ crashes \in Nat
    /\ sent \in [Tx -> Nat]
    /\ told \in [Tx -> SUBSET [status: Status, error: BOOLEAN]]
    /\ asked \in [Tx -> Int]

(* Jobs that will still write the status of t.                             *)
Unsettled == {"receive", "enqueue", "send", "queued", "gate", "begin", "process", "finish",
              "open", "call", "accepted", "mark"}
Owns(j, t) == \/ job[j].tx = t /\ job[j].pc \in Unsettled
              \/ job[j].child = t /\ job[j].pc = "link"

(* No interleaving of retries, duplicate handlers, cancels and reprocess   *)
(* requests leaves a transaction in a running status with no message or    *)
(* handler to move it on.  A crash may: one that the in-process broker     *)
(* forgets, or that falls between a row and its message; and with RabbitMQ *)
(* a stream that is stopped may leave one in "queued".  But with RabbitMQ  *)
(* even a crash leaves no transaction in processing for good.              *)
NoOrphan ==
    \A t \in Tx :
      \/ crashes = 0 /\ tx[t].status \in Active /\ (Durable => tx[t].status # "queued")
      \/ Durable /\ tx[t].status = "processing"
      => \E j \in Job : Owns(j, t)

(* A transaction whose last word is "failed" was reported as failed: the   *)
(* dead-letter, schema, gate, org and publish error paths all notify, and  *)
(* a silent "failed" only ever precedes a retry that is still pending.     *)
FailureIsReported ==
    crashes = 0 =>
      \A t \in Tx :
        (tx[t].status = "failed" /\ \A j \in Job : job[j].tx # t)
          => \E o \in told[t] : o.status = "failed"

(* Integrations and alerts only ever see a transaction at rest: the row is *)
(* read back in the stretch that wrote it, so a concurrent handler of the  *)
(* same transaction cannot slip an intermediate status in between.         *)
ToldAtRest ==
    \A t \in Tx : \A o \in told[t] :
      o.status \in {"processed", "published", "failed", "cancelled"}

(* "published" is never claimed for an event Salesforce did not accept.    *)
PublishedWasAccepted ==
    \A t \in Tx : tx[t].status = "published" => sent[t] > 0

(* Past its checkpoint, a publish of t cannot be stopped for certain.      *)
InFlight(t) == \E j \in Job : job[j].tx = t /\ job[j].pc \in {"open", "call"}

(* Once a cancel request is recorded and no publish is past its checkpoint,*)
(* none ever starts: not from a queued message, a retry, a handler still   *)
(* processing, a reprocess request or a redelivery after a crash.          *)
FlagStopsPublishing ==
    [][\A t \in Tx : tx[t].cancel /\ ~InFlight(t)
         => (tx[t].cancel /\ ~InFlight(t))']_vars

(* A cancelled transaction with nothing but waiting messages and finished  *)
(* handlers stays like that until somebody reprocesses it: both            *)
(* checkpoints drop its messages, however often they are redelivered.      *)
Dormant(t) ==
    \A j \in Job : ~Owns(j, t) \/ job[j].pc \in {"enqueue", "send", "queued"}
Buried(t) == tx[t].status = "cancelled" /\ Dormant(t)
CancelledStaysCancelled ==
    [][\A t \in Tx : Buried(t) =>
         Buried(t)' \/ (tx[t].attempts)' > tx[t].attempts]_vars

(* Retried, reprocessed or cancelled, every transaction eventually leaves  *)
(* the running statuses.                                                   *)
EventuallySettled ==
    \A t \in Tx : tx[t].status \in Active ~> tx[t].status \notin Active

(* The pipeline keeps the promise of module Delivery.  A transaction is    *)
(* open while some message or handler may still move it.                   *)
Open(t) == \E j \in Job : \/ Owns(j, t)
                          \/ job[j].tx = t /\ job[j].pc \in {"requeue", "forward"}
Promise == INSTANCE Delivery WITH
    phase <- [t \in Tx |-> IF tx[t].status = "absent" THEN "unknown"
                           ELSE IF Open(t) THEN "open" ELSE "settled"],
    granted <- [t \in Tx |-> IF tx[t].status = "absent" THEN 0
                             ELSE 1 + tx[t].attempts],
    delivered <- sent
KeepsPromise == Promise!Spec

(* A statement of the documentation that the code does not meet:           *)
(* worker.py:852-868: reprocessing lets the transaction be handled again,  *)
(* so a cancel of an earlier attempt does not cancel the new one.          *)
CancelledByRequest ==
    [][\A t \in Tx :
         tx[t].status # "cancelled" /\ (tx[t].status)' = "cancelled"
           => (asked[t])' = tx[t].attempts]_vars
============================================================================
