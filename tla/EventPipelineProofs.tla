----------------------- MODULE EventPipelineProofs -----------------------
(***************************************************************************)
(* Theorems about EventPipeline, for all transactions, messages, cancel    *)
(* requests, concurrency limits, retry limits and crash counts.            *)
(***************************************************************************)
EXTENDS EventPipeline, FiniteSetTheorems, TLAPS

----------------------------------------------------------------------------
(* Writing one row keeps the table well typed.                             *)

LEMMA WriteRow ==
    ASSUME tx \in [Tx -> Row], NEW t \in Tx
    PROVE  /\ \A s \in Status : SetStatus(t, s) => tx' \in [Tx -> Row]
           /\ \A s \in Status, r \in Result : Store(t, s, r) => tx' \in [Tx -> Row]
           /\ Fail(t) => tx' \in [Tx -> Row]
           /\ CancelRow(t) => tx' \in [Tx -> Row]
<1>1. ASSUME NEW s \in Status, SetStatus(t, s)  PROVE tx' \in [Tx -> Row]
  BY <1>1 DEF SetStatus, Row
<1>2. ASSUME NEW s \in Status, NEW r \in Result, Store(t, s, r)
      PROVE  tx' \in [Tx -> Row]
  BY <1>2 DEF Store, Row
<1>3. ASSUME Fail(t)  PROVE tx' \in [Tx -> Row]
  BY <1>3 DEF Fail, Row, Status
<1>4. ASSUME CancelRow(t)  PROVE tx' \in [Tx -> Row]
  BY <1>4 DEF CancelRow, Row, Status
<1>. QED  BY <1>1, <1>2, <1>3, <1>4

LEMMA NewMessage ==
    ASSUME NEW pc \in {"receive", "send", "queued", "call"},
           NEW topic \in Topic, NEW t \in Tx,
           NEW body \in {"payload", "output", "gate"}, NEW retry \in Nat,
           pc = "receive" => topic = "inbound",
           pc \in {"send", "queued"} => topic \in {"inbound", "outbound"},
           pc = "call" => topic = "manual"
    PROVE  /\ NewJob(pc, topic, t, body, retry) \in JobRow
           /\ WellFormed(NewJob(pc, topic, t, body, retry))
  BY DEF NewJob, FreeJob, JobRow, PC, Topic, WellFormed, Inbound

(* A handler may move to any program point of its own kind.                *)
LEMMA MovePc ==
    ASSUME NEW m \in JobRow, WellFormed(m), m.pc # "free", NEW pc \in PC,
           pc \in Inbound \ {"link"} => m.topic = "inbound", pc # "link",
           pc \in {"open", "mark"} => m.topic = "outbound",
           pc \in {"call", "accepted"} => m.topic \in {"outbound", "manual"},
           pc \in {"send", "queued"} => m.topic \in {"inbound", "outbound"}
    PROVE  /\ [m EXCEPT !.pc = pc] \in JobRow
           /\ WellFormed([m EXCEPT !.pc = pc])
  BY DEF JobRow, PC, WellFormed, Inbound

JobsOK == job \in [Job -> JobRow] /\ \A j \in Job : WellFormed(job[j])

LEMMA GotoJobs ==
    ASSUME JobsOK, NEW j \in Job, job[j].pc # "free", NEW pc \in PC \ {"link"},
           pc \in Inbound => job[j].topic = "inbound",
           pc \in {"open", "mark"} => job[j].topic = "outbound",
           pc \in {"call", "accepted"} => job[j].topic \in {"outbound", "manual"},
           pc \in {"send", "queued"} => job[j].topic \in {"inbound", "outbound"},
           Goto(j, pc)
    PROVE  JobsOK'
<1>. DEFINE m == [job[j] EXCEPT !.pc = pc]
<1>1. m \in JobRow /\ WellFormed(m)
  BY MovePc DEF JobsOK
<1>2. job' = [job EXCEPT ![j] = m]
  BY DEF Goto
<1>. QED  BY <1>1, <1>2 DEF JobsOK

LEMMA ReturnJobs ==
    ASSUME JobsOK, NEW j \in Job, Return(j)
    PROVE  JobsOK'
<1>1. FreeJob \in JobRow /\ WellFormed(FreeJob)
  BY DEF FreeJob, JobRow, PC, Topic, WellFormed, Inbound
<1>. QED  BY <1>1 DEF JobsOK, Return

(* The history variables and everything outside the step are untouched.    *)
LEMMA TypedStep ==
    ASSUME TypeOK, JobsOK', tx' \in [Tx -> Row], loop' \in Job \cup {None},
           UNCHANGED <<call, crashes, history>>
    PROVE  TypeOK'
  BY DEF TypeOK, JobsOK, history

LEMMA PublishJobs ==
    ASSUME JobsOK, NEW j \in Job, NEW k \in Job, NEW m \in JobRow, WellFormed(m),
           job[j].pc # "free", PublishLast(j, k, m)
    PROVE  JobsOK'
<1>. DEFINE a == [job[j] EXCEPT !.pc = "ack"]
<1>1. a \in JobRow /\ WellFormed(a)
  BY MovePc DEF JobsOK, PC, Inbound
<1>2. j # k /\ job' = [job EXCEPT ![j] = a, ![k] = m]
  BY DEF PublishLast
<1>. QED  BY <1>1, <1>2 DEF JobsOK

(* One step of a handler that writes at most one row of the table.         *)
LEMMA HandlerType ==
    ASSUME TypeOK, NEW j \in Job,
           \/ MarkQueued(j) \/ Send(j) \/ InTake(j) \/ InRefuse(j) \/ InSkip(j)
           \/ InBegin(j) \/ InCancelled(j) \/ InProcessed(j) \/ InFail(j)
           \/ InFinish(j) \/ OutTake(j) \/ OutNoOrg(j) \/ OutOpen(j)
           \/ OutReturn(j) \/ OutPublished(j) \/ OutAbort(j) \/ PublishError(j)
           \/ ManualReturn(j) \/ Done(j)
    PROVE  TypeOK'
<1>. DEFINE t == job[j].tx
<1>. USE DEF At, Starts, AwaitSend, Await, Continue, PC, Inbound
<1>1. JobsOK /\ loop \in Job \cup {None} /\ tx \in [Tx -> Row]
  BY DEF TypeOK, JobsOK
<1>2. job[j].pc # "free" => t \in Tx
  BY <1>1 DEF JobsOK, WellFormed
<1>3. CASE MarkQueued(j)
  <2>1. JobsOK' /\ loop' \in Job \cup {None}
    BY <1>1, <1>3, GotoJobs, ReturnJobs DEF MarkQueued, Return, JobsOK, WellFormed
  <2>2. tx' \in [Tx -> Row]
    BY <1>1, <1>2, <1>3, WriteRow DEF MarkQueued, Status, Result
  <2>. QED  BY <1>3, <2>1, <2>2, TypedStep DEF MarkQueued, history
<1>4. CASE Send(j)
  <2>1. JobsOK' /\ loop' \in Job \cup {None}
    BY <1>1, <1>4, GotoJobs, ReturnJobs DEF Send, Return, JobsOK, WellFormed
  <2>2. tx' \in [Tx -> Row]
    BY <1>1, <1>4 DEF Send
  <2>. QED  BY <1>4, <2>1, <2>2, TypedStep DEF Send, history
<1>5. CASE InTake(j)
  <2>1. JobsOK' /\ loop' \in Job \cup {None}
    BY <1>1, <1>5, GotoJobs, ReturnJobs DEF InTake, Return, JobsOK, WellFormed
  <2>2. tx' \in [Tx -> Row]
    BY <1>1, <1>5 DEF InTake
  <2>. QED  BY <1>5, <2>1, <2>2, TypedStep DEF InTake, history
<1>6. CASE InRefuse(j)
  <2>1. JobsOK' /\ loop' \in Job \cup {None}
    BY <1>1, <1>6, GotoJobs, ReturnJobs DEF InRefuse, Return, JobsOK, WellFormed
  <2>2. tx' \in [Tx -> Row]
    BY <1>1, <1>2, <1>6, WriteRow DEF InRefuse, Status, Result
  <2>. QED  BY <1>6, <2>1, <2>2, TypedStep DEF InRefuse, history
<1>7. CASE InSkip(j)
  <2>1. JobsOK' /\ loop' \in Job \cup {None}
    BY <1>1, <1>7, GotoJobs, ReturnJobs DEF InSkip, Return, JobsOK, WellFormed
  <2>2. tx' \in [Tx -> Row]
    BY <1>1, <1>2, <1>7, WriteRow DEF InSkip, Status, Result
  <2>. QED  BY <1>7, <2>1, <2>2, TypedStep DEF InSkip, history
<1>8. CASE InBegin(j)
  <2>1. JobsOK' /\ loop' \in Job \cup {None}
    BY <1>1, <1>8, GotoJobs, ReturnJobs DEF InBegin, Return, JobsOK, WellFormed
  <2>2. tx' \in [Tx -> Row]
    BY <1>1, <1>2, <1>8, WriteRow DEF InBegin, Status, Result
  <2>. QED  BY <1>8, <2>1, <2>2, TypedStep DEF InBegin, history
<1>9. CASE InCancelled(j)
  <2>1. JobsOK' /\ loop' \in Job \cup {None}
    BY <1>1, <1>9, GotoJobs, ReturnJobs DEF InCancelled, Return, JobsOK, WellFormed
  <2>2. tx' \in [Tx -> Row]
    BY <1>1, <1>2, <1>9, WriteRow DEF InCancelled, Status, Result
  <2>. QED  BY <1>9, <2>1, <2>2, TypedStep DEF InCancelled, history
<1>10. CASE InProcessed(j)
  <2>1. JobsOK' /\ loop' \in Job \cup {None}
    BY <1>1, <1>10, GotoJobs, ReturnJobs DEF InProcessed, Return, JobsOK, WellFormed
  <2>2. tx' \in [Tx -> Row]
    BY <1>1, <1>10 DEF InProcessed
  <2>. QED  BY <1>10, <2>1, <2>2, TypedStep DEF InProcessed, history
<1>11. CASE InFail(j)
  <2>1. JobsOK' /\ loop' \in Job \cup {None}
    BY <1>1, <1>11, GotoJobs, ReturnJobs DEF InFail, Return, JobsOK, WellFormed
  <2>2. tx' \in [Tx -> Row]
    BY <1>1, <1>2, <1>11, WriteRow DEF InFail, Status, Result
  <2>. QED  BY <1>11, <2>1, <2>2, TypedStep DEF InFail, history
<1>12. CASE InFinish(j)
  <2>1. JobsOK' /\ loop' \in Job \cup {None}
    <3>1. CASE Continue(j, "notify")
      BY <1>1, <1>12, <3>1, GotoJobs DEF InFinish
    <3>2. CASE Goto(j, "forward") /\ AwaitSend(j)
      BY <1>1, <1>12, <3>2, GotoJobs DEF InFinish, JobsOK, WellFormed
    <3>3. ASSUME NEW n \in 1..MaxFan, loop' = j,
                 job' = [job EXCEPT ![j] = [@ EXCEPT !.pc = "fan", !.left = n]]
          PROVE  JobsOK' /\ loop' \in Job \cup {None}
      <4>. DEFINE m == [job[j] EXCEPT !.pc = "fan", !.left = n]
      <4>1. n \in Nat
        BY ConstantsAssumption
      <4>2. job[j] \in JobRow /\ job[j].topic = "inbound" /\ t \in Tx
        BY <1>1, <1>2, <1>12 DEF InFinish, JobsOK
      <4>3. m \in JobRow /\ WellFormed(m)
        BY <4>1, <4>2 DEF JobRow, WellFormed
      <4>. QED  BY <1>1, <3>3, <4>3 DEF JobsOK
    <3>. QED  BY <1>12, <3>1, <3>2, <3>3 DEF InFinish
  <2>2. tx' \in [Tx -> Row]
    BY <1>1, <1>2, <1>12, WriteRow DEF InFinish, Status, Result
  <2>. QED  BY <1>12, <2>1, <2>2, TypedStep DEF InFinish
<1>13. CASE OutTake(j)
  <2>1. JobsOK' /\ loop' \in Job \cup {None}
    BY <1>1, <1>13, GotoJobs, ReturnJobs DEF OutTake, Return, JobsOK, WellFormed
  <2>2. tx' \in [Tx -> Row]
    BY <1>1, <1>2, <1>13, WriteRow DEF OutTake, Status, Result
  <2>. QED  BY <1>13, <2>1, <2>2, TypedStep DEF OutTake, history
<1>14. CASE OutNoOrg(j)
  <2>1. JobsOK' /\ loop' \in Job \cup {None}
    BY <1>1, <1>14, GotoJobs, ReturnJobs DEF OutNoOrg, Return, JobsOK, WellFormed
  <2>2. tx' \in [Tx -> Row]
    BY <1>1, <1>2, <1>14, WriteRow DEF OutNoOrg, Status, Result
  <2>. QED  BY <1>14, <2>1, <2>2, TypedStep DEF OutNoOrg, history
<1>15. CASE OutOpen(j)
  <2>1. JobsOK' /\ loop' \in Job \cup {None}
    BY <1>1, <1>15, GotoJobs, ReturnJobs DEF OutOpen, Return, JobsOK, WellFormed
  <2>2. tx' \in [Tx -> Row]
    BY <1>1, <1>2, <1>15, WriteRow DEF OutOpen, Status, Result
  <2>. QED  BY <1>15, <2>1, <2>2, TypedStep DEF OutOpen, history
<1>16. CASE OutReturn(j)
  <2>1. JobsOK' /\ loop' \in Job \cup {None}
    BY <1>1, <1>16, GotoJobs, ReturnJobs DEF OutReturn, Return, JobsOK, WellFormed
  <2>2. tx' \in [Tx -> Row]
    BY <1>1, <1>2, <1>16, WriteRow DEF OutReturn, Status, Result
  <2>. QED  BY <1>16, <2>1, <2>2, TypedStep DEF OutReturn, history
<1>17. CASE OutPublished(j)
  <2>1. JobsOK' /\ loop' \in Job \cup {None}
    BY <1>1, <1>17, GotoJobs, ReturnJobs DEF OutPublished, Return, JobsOK, WellFormed
  <2>2. tx' \in [Tx -> Row]
    BY <1>1, <1>2, <1>17, WriteRow DEF OutPublished, Status, Result
  <2>. QED  BY <1>17, <2>1, <2>2, TypedStep DEF OutPublished, history
<1>18. CASE OutAbort(j)
  <2>1. JobsOK' /\ loop' \in Job \cup {None}
    BY <1>1, <1>18, GotoJobs, ReturnJobs DEF OutAbort, Return, JobsOK, WellFormed
  <2>2. tx' \in [Tx -> Row]
    BY <1>1, <1>2, <1>18, WriteRow DEF OutAbort, Status, Result
  <2>. QED  BY <1>18, <2>1, <2>2, TypedStep DEF OutAbort, history
<1>19. CASE PublishError(j)
  <2>1. JobsOK' /\ loop' \in Job \cup {None}
    BY <1>1, <1>19, GotoJobs, ReturnJobs DEF PublishError, Return, JobsOK, WellFormed
  <2>2. tx' \in [Tx -> Row]
    BY <1>1, <1>2, <1>19, WriteRow DEF PublishError, Status, Result
  <2>. QED  BY <1>19, <2>1, <2>2, TypedStep DEF PublishError, history
<1>20. CASE ManualReturn(j)
  <2>1. JobsOK' /\ loop' \in Job \cup {None}
    BY <1>1, <1>20, GotoJobs, ReturnJobs DEF ManualReturn, Return, JobsOK, WellFormed
  <2>2. tx' \in [Tx -> Row]
    BY <1>1, <1>2, <1>20, WriteRow DEF ManualReturn, Status, Result
  <2>. QED  BY <1>20, <2>1, <2>2, TypedStep DEF ManualReturn, history
<1>21. CASE Done(j)
  <2>1. JobsOK' /\ loop' \in Job \cup {None}
    BY <1>1, <1>21, GotoJobs, ReturnJobs DEF Done, Return, JobsOK, WellFormed
  <2>2. tx' \in [Tx -> Row]
    BY <1>1, <1>21 DEF Done
  <2>. QED  BY <1>21, <2>1, <2>2, TypedStep DEF Done, history
<1>. QED
  BY <1>3, <1>4, <1>5, <1>6, <1>7, <1>8, <1>9, <1>10, <1>11, <1>12, <1>13, <1>14, <1>15, <1>16, <1>17, <1>18, <1>19, <1>20, <1>21

(* A new row or a new message, for the steps that create one.              *)
LEMMA ArrivalType ==
    ASSUME TypeOK, NEW t \in Tx, NEW j \in Job,
           Receive(t, j) \/ PublishManual(t, j) \/ Reprocess(t, j)
    PROVE  TypeOK'
<1>1. JobsOK /\ tx \in [Tx -> Row] /\ loop \in Job \cup {None}
  BY DEF TypeOK, JobsOK
<1>2. CASE Receive(t, j)
  <2>. DEFINE m == NewJob("receive", "inbound", t, "payload", 0)
  <2>1. m \in JobRow /\ WellFormed(m)
    BY NewMessage DEF Topic
  <2>2. NewRow("received", "subscribe") \in Row
    BY DEF NewRow, AbsentRow, Row, Status, Result
  <2>3. JobsOK'
    BY <1>1, <1>2, <2>1 DEF Receive, Insert, JobsOK
  <2>. QED  BY <1>1, <1>2, <2>2, <2>3, TypedStep DEF Receive, Insert
<1>3. CASE PublishManual(t, j)
  <2>. DEFINE m == NewJob("call", "manual", t, "payload", 0)
  <2>1. m \in JobRow /\ WellFormed(m)
    BY NewMessage DEF Topic
  <2>2. NewRow("publishing", "publish") \in Row
    BY DEF NewRow, AbsentRow, Row, Status, Result
  <2>3. JobsOK'
    BY <1>1, <1>3, <2>1 DEF PublishManual, Insert, JobsOK
  <2>. QED  BY <1>1, <1>3, <2>2, <2>3, TypedStep DEF PublishManual, Insert
<1>4. CASE Reprocess(t, j)
  <2>. DEFINE own == tx[t].direction = "publish"
              out == own \/ tx[t].result # "none"
              body == IF own \/ ~out THEN "payload" ELSE tx[t].result
              topic == IF out THEN "outbound" ELSE "inbound"
              m == NewJob("send", topic, t, body, 0)
              row == [tx[t] EXCEPT
                        !.status = IF out THEN "publishing" ELSE "queued",
                        !.error = FALSE, !.attempts = tx[t].attempts + 1]
  <2>1. body \in {"payload", "output", "gate"}
    BY <1>1 DEF Row, Result
  <2>2. m \in JobRow /\ WellFormed(m)
    <3>. HIDE DEF body
    <3>. QED  BY <2>1, NewMessage DEF Topic
  <2>3. row \in Row
    <3>. DEFINE next == IF out THEN "publishing" ELSE "queued"
    <3>1. tx[t] \in Row
      BY <1>1
    <3>2. next \in Status
      BY DEF Status
    <3>3. tx[t].attempts + 1 \in Nat
      BY <3>1 DEF Row
    <3>. HIDE DEF next
    <3>4. [tx[t] EXCEPT !.status = next, !.error = FALSE,
                        !.attempts = tx[t].attempts + 1] \in Row
      BY <3>1, <3>2, <3>3 DEF Row
    <3>. QED  BY <3>4 DEF next
  <2>4. JobsOK'
    BY <1>1, <1>4, <2>2 DEF Reprocess, JobsOK
  <2>5. tx' \in [Tx -> Row]
    BY <1>1, <1>4, <2>3 DEF Reprocess
  <2>. QED  BY <1>4, <2>4, <2>5, TypedStep DEF Reprocess, AwaitSend
<1>. QED  BY <1>2, <1>3, <1>4

(* A handler puts a message of its own on a topic.                         *)
LEMMA HandoverType ==
    ASSUME TypeOK, NEW j \in Job, NEW k \in Job,
           InRequeue(j, k) \/ InForward(j, k) \/ InFanPublish(j, k)
    PROVE  TypeOK'
<1>. DEFINE t == job[j].tx
<1>. USE DEF At, Inbound
<1>1. JobsOK /\ tx \in [Tx -> Row] /\ loop \in Job \cup {None}
  BY DEF TypeOK, JobsOK
<1>2. job[j] \in JobRow /\ WellFormed(job[j])
  BY <1>1 DEF JobsOK
<1>3. CASE InRequeue(j, k)
  <2>. DEFINE m == NewJob("queued", "inbound", t, "payload", job[j].retry + 1)
  <2>1. t \in Tx /\ job[j].retry + 1 \in Nat
    BY <1>2, <1>3 DEF InRequeue, WellFormed, JobRow
  <2>2. m \in JobRow /\ WellFormed(m)
    BY <2>1, NewMessage DEF Topic
  <2>3. JobsOK'
    <3>. HIDE DEF m
    <3>. QED  BY <1>1, <1>3, <2>2, PublishJobs DEF InRequeue, m
  <2>. QED  BY <1>1, <1>3, <2>3, TypedStep DEF InRequeue, PublishLast
<1>4. CASE InForward(j, k)
  <2>. DEFINE m == NewJob("queued", "outbound", t, "output", 0)
  <2>1. t \in Tx
    BY <1>2, <1>4 DEF InForward, WellFormed
  <2>2. m \in JobRow /\ WellFormed(m)
    BY <2>1, NewMessage DEF Topic
  <2>3. JobsOK'
    BY <1>1, <1>4, <2>2, PublishJobs DEF InForward
  <2>. QED  BY <1>1, <1>4, <2>3, TypedStep DEF InForward, PublishLast
<1>5. CASE InFanPublish(j, k)
  <2>. DEFINE m == NewJob("queued", "outbound", job[j].child, "payload", 0)
              a == [job[j] EXCEPT !.pc = "fan", !.child = None,
                               !.left = job[j].left - 1]
  <2>1. job[j].child \in Tx /\ job[j].tx \in Tx
    BY <1>2, <1>5 DEF InFanPublish, WellFormed
  <2>2. m \in JobRow /\ WellFormed(m)
    BY <2>1, NewMessage DEF Topic
  <2>3. CASE PublishLast(j, k, m)
    <3>1. JobsOK'
      BY <1>1, <1>5, <2>2, <2>3, PublishJobs DEF InFanPublish
    <3>. QED  BY <1>1, <1>5, <2>3, <3>1, TypedStep DEF InFanPublish, PublishLast
  <2>4. CASE /\ job[j].left > 1 /\ job[k].pc = "free"
             /\ job' = [job EXCEPT ![k] = m, ![j] = a]
             /\ loop' = j
             /\ UNCHANGED <<tx, history>>
    <3>1. job[j].left - 1 \in Nat
      BY <1>2, <2>4 DEF JobRow
    <3>2. a \in JobRow /\ WellFormed(a)
      BY <1>2, <1>5, <2>1, <3>1 DEF InFanPublish, JobRow, PC, WellFormed
    <3>3. JobsOK'
      BY <1>1, <2>2, <2>4, <3>2 DEF JobsOK
    <3>. QED  BY <1>1, <1>5, <2>4, <3>3, TypedStep DEF InFanPublish
  <2>5. PublishLast(j, k, m) \/
        /\ job[j].left > 1 /\ job[k].pc = "free"
        /\ job' = [job EXCEPT ![k] = m, ![j] = a]
        /\ loop' = j
        /\ UNCHANGED <<tx, history>>
    <3>1. j # k
      BY <1>5 DEF InFanPublish, PublishLast
    <3>. QED  BY <1>1, <1>5, <3>1 DEF InFanPublish, JobsOK
  <2>. QED  BY <2>3, <2>4, <2>5
<1>. QED  BY <1>3, <1>4, <1>5

(* A message that comes back after a crash is well formed.                 *)
LEMMA RestartedType ==
    ASSUME NEW m \in JobRow, WellFormed(m)
    PROVE  Restarted(m) \in JobRow /\ WellFormed(Restarted(m))
<1>1. FreeJob \in JobRow /\ WellFormed(FreeJob)
  BY DEF FreeJob, JobRow, PC, Topic, WellFormed, Inbound
<1>2. CASE Restarted(m) = FreeJob
  BY <1>1, <1>2
<1>3. CASE Restarted(m) # FreeJob
  <2>. DEFINE r == [m EXCEPT !.pc = "queued", !.left = 0, !.child = None]
  <2>1. m.pc # "free" /\ m.topic # "manual" /\ Restarted(m) = r
    BY <1>3 DEF Restarted, Unsent
  <2>2. r \in JobRow
    BY DEF JobRow, PC
  <2>3. WellFormed(r)
    BY <2>1 DEF JobRow, WellFormed, Topic, Inbound
  <2>. QED  BY <2>1, <2>2, <2>3
<1>. QED  BY <1>2, <1>3

(* The steps that touch the fan-out child, the histories or the requests.  *)
LEMMA OtherType ==
    ASSUME TypeOK
    PROVE  /\ \A j \in Job, t \in Tx : InFanRecord(j, t) => TypeOK'
           /\ \A j \in Job : Accept(j) \/ Notify(j) => TypeOK'
           /\ \A c \in Call, t \in Tx : CancelRead(c, t) => TypeOK'
           /\ \A c \in Call : CancelWrite(c) => TypeOK'
           /\ \A j \in Job : StreamStopped(j) => TypeOK'
           /\ \A j \in Job, k \in Job : Redeliver(j, k) => TypeOK'
           /\ Crash => TypeOK'
<1>. USE DEF At, Inbound
<1>1. JobsOK /\ tx \in [Tx -> Row] /\ loop \in Job \cup {None}
  BY DEF TypeOK, JobsOK
<1>2. \A j \in Job : job[j] \in JobRow /\ WellFormed(job[j])
  BY <1>1 DEF JobsOK
<1>3. ASSUME NEW j \in Job, NEW t \in Tx, InFanRecord(j, t)  PROVE TypeOK'
  <2>. DEFINE m == [job[j] EXCEPT !.pc = "link", !.child = t]
  <2>1. m \in JobRow /\ WellFormed(m)
    BY <1>2, <1>3 DEF InFanRecord, JobRow, PC, WellFormed
  <2>2. NewRow("queued", "publish") \in Row
    BY DEF NewRow, AbsentRow, Row, Status, Result
  <2>3. JobsOK' /\ tx' \in [Tx -> Row]
    BY <1>1, <1>3, <2>1, <2>2 DEF InFanRecord, JobsOK
  <2>. QED  BY <1>3, <2>3, TypedStep DEF InFanRecord, AwaitSend
<1>4. ASSUME NEW j \in Job, Accept(j)  PROVE TypeOK'
  <2>1. JobsOK'
    BY <1>1, <1>2, <1>4, GotoJobs DEF Accept, PC, WellFormed
  <2>2. sent' \in [Tx -> Nat]
    BY <1>2, <1>4 DEF Accept, TypeOK, WellFormed
  <2>. QED  BY <1>4, <2>1, <2>2 DEF Accept, TypeOK, JobsOK
<1>5. ASSUME NEW j \in Job, Notify(j)  PROVE TypeOK'
  <2>1. job[j].tx \in Tx
    BY <1>2, <1>5 DEF Notify, WellFormed
  <2>2. JobsOK'
    BY <1>1, <1>5, GotoJobs DEF Notify, Await, PC
  <2>3. [status |-> tx[job[j].tx].status, error |-> tx[job[j].tx].error]
          \in [status: Status, error: BOOLEAN]
    BY <1>1, <2>1 DEF Row
  <2>4. told' \in [Tx -> SUBSET [status: Status, error: BOOLEAN]]
    BY <1>5, <2>1, <2>3 DEF Notify, TypeOK
  <2>. QED  BY <1>5, <2>2, <2>4 DEF Notify, Await, TypeOK, JobsOK
<1>6. ASSUME NEW c \in Call, NEW t \in Tx, CancelRead(c, t)  PROVE TypeOK'
  <2>1. [pc |-> "read", tx |-> t, seen |-> tx[t].status] \in CallRow
    BY <1>1 DEF CallRow, Row
  <2>. QED  BY <1>6, <2>1 DEF CancelRead, TypeOK, history
<1>7. ASSUME NEW c \in Call, CancelWrite(c)  PROVE TypeOK'
  <2>1. call[c].tx \in Tx
    BY <1>7 DEF CancelWrite, TypeOK
  <2>2. tx' \in [Tx -> Row]
    <3>1. CASE CancelRow(call[c].tx)
      BY <1>1, <2>1, <3>1, WriteRow
    <3>2. CASE tx' = [tx EXCEPT ![call[c].tx].cancel = TRUE]
      BY <1>1, <2>1, <3>2 DEF Row
    <3>. QED  BY <1>7, <3>1, <3>2 DEF CancelWrite
  <2>3. asked' \in [Tx -> Int]
    BY <1>1, <1>7, <2>1 DEF CancelWrite, TypeOK, Row
  <2>4. call' \in [Call -> CallRow] /\ \A d \in Call : call'[d].pc = "read" => call'[d].tx \in Tx
    BY <1>7 DEF CancelWrite, TypeOK, CallRow
  <2>. QED  BY <1>7, <2>2, <2>3, <2>4 DEF CancelWrite, TypeOK
<1>8. CASE Crash
  <2>2. JobsOK'
    BY <1>1, <1>8, RestartedType DEF Crash, JobsOK
  <2>3. call' \in [Call -> CallRow] /\ \A d \in Call : call'[d].pc = "read" => call'[d].tx \in Tx
    BY <1>8 DEF Crash, TypeOK, CallRow
  <2>4. crashes' \in Nat /\ loop' = None
    BY <1>8 DEF Crash, TypeOK
  <2>. QED  BY <1>8, <2>2, <2>3, <2>4 DEF Crash, TypeOK, JobsOK, history
<1>9. ASSUME NEW j \in Job, StreamStopped(j)  PROVE TypeOK'
  <2>1. JobsOK' /\ loop' \in Job \cup {None}
    BY <1>1, <1>9, ReturnJobs DEF StreamStopped, Return
  <2>. QED  BY <1>1, <1>9, <2>1, TypedStep DEF StreamStopped
<1>10. ASSUME NEW j \in Job, NEW k \in Job, Redeliver(j, k)  PROVE TypeOK'
  <2>1. JobsOK'
    BY <1>1, <1>2, <1>10, RestartedType DEF Redeliver, JobsOK
  <2>2. crashes' \in Nat
    BY <1>10 DEF Redeliver, TypeOK
  <2>. QED  BY <1>10, <2>1, <2>2 DEF Redeliver, TypeOK, JobsOK, history
<1>. QED  BY <1>3, <1>4, <1>5, <1>6, <1>7, <1>8, <1>9, <1>10

LEMMA TypeInit == Init => TypeOK
<1>. SUFFICES ASSUME Init PROVE TypeOK
  OBVIOUS
<1>1. AbsentRow \in Row
  BY DEF AbsentRow, Row, Status, Result
<1>2. FreeJob \in JobRow /\ WellFormed(FreeJob)
  BY DEF FreeJob, JobRow, PC, Topic, WellFormed, Inbound
<1>3. [pc |-> "idle", tx |-> None, seen |-> "absent"] \in CallRow
  BY DEF CallRow, Status
<1>. QED  BY <1>1, <1>2, <1>3 DEF Init, TypeOK

LEMMA TypeNext == TypeOK /\ [Next]_vars => TypeOK'
<1>. SUFFICES ASSUME TypeOK, [Next]_vars PROVE TypeOK'
  OBVIOUS
<1>1. ASSUME NEW j \in Job, Step(j)  PROVE TypeOK'
  BY <1>1, HandlerType, HandoverType, OtherType DEF Step
<1>2. CASE UNCHANGED vars
  BY <1>2 DEF vars, TypeOK
<1>. QED  BY <1>1, <1>2, ArrivalType, OtherType DEF Next

(* Rows, messages, requests and histories stay well formed: a handler at a *)
(* program point is of the kind that has that point, carries a transaction *)
(* and, between a child row and its message, that child.                   *)
THEOREM TypeCorrect == Spec => []TypeOK
  BY TypeInit, TypeNext, PTL DEF Spec

----------------------------------------------------------------------------
(* Who writes which row.                                                   *)

(* A handler writes the row of its own transaction, and only at a program  *)
(* point that owns it; a checkpoint can only write "cancelled".  The one   *)
(* other row it writes is the new row of a fan-out child.  No handler      *)
(* touches the flag or the attempt counter.                                *)
LEMMA StepWrites ==
    ASSUME TypeOK, NEW j \in Job, Step(j), NEW t \in Tx, tx'[t] # tx[t]
    PROVE  \/ tx[t].status = "absent" /\ tx'[t] = NewRow("queued", "publish")
           \/ /\ job[j].tx = t /\ job[j].pc \in Unsettled \ {"enqueue", "send"}
              /\ job[j].pc = "queued" => tx'[t].status = "cancelled"
              /\ tx'[t].status # "absent"
              /\ tx'[t].cancel = tx[t].cancel
              /\ tx'[t].attempts = tx[t].attempts
<1>. USE DEF At, Starts, Unsettled
<1>1. tx \in [Tx -> Row] /\ tx[t] \in Row
  BY DEF TypeOK
<1>2. /\ \A u \in Tx, s \in Status \ {"absent"} : SetStatus(u, s) =>
           \/ tx'[t] = tx[t]
           \/ t = u /\ tx'[t].status = s
                    /\ tx'[t].cancel = tx[t].cancel /\ tx'[t].attempts = tx[t].attempts
  BY <1>1 DEF SetStatus, Row
<1>3. \A u \in Tx, s \in Status \ {"absent"}, r \in Result : Store(u, s, r) =>
           \/ tx'[t] = tx[t]
           \/ t = u /\ tx'[t].status = s
                    /\ tx'[t].cancel = tx[t].cancel /\ tx'[t].attempts = tx[t].attempts
  BY <1>1 DEF Store, Row
<1>4. ASSUME NEW u \in Tx, Fail(u) \/ CancelRow(u), tx'[t] # tx[t]
      PROVE  /\ t = u /\ tx'[t].status # "absent"
             /\ CancelRow(u) => tx'[t].status = "cancelled"
             /\ tx'[t].cancel = tx[t].cancel /\ tx'[t].attempts = tx[t].attempts
  <2>. DEFINE r(s) == [tx[t] EXCEPT !.status = s, !.error = TRUE]
  <2>1. t = u
    BY <1>1, <1>4 DEF Fail, CancelRow
  <2>2. Fail(u) => tx'[t] = r("failed")
    BY <1>1, <2>1 DEF Fail
  <2>3. CancelRow(u) => tx'[t] = r("cancelled")
    BY <1>1, <2>1 DEF CancelRow
  <2>4. \A s \in Status : r(s).status = s /\ r(s).cancel = tx[t].cancel
                        /\ r(s).attempts = tx[t].attempts
    BY <1>1 DEF Row
  <2>. HIDE DEF r
  <2>. QED  BY <1>4, <2>1, <2>2, <2>3, <2>4 DEF Status
<1>5. job[j].pc # "free" => job[j].tx \in Tx
  BY DEF TypeOK, WellFormed
<1>6. CASE MarkQueued(j)
  BY <1>2, <1>5, <1>6 DEF MarkQueued, Status
<1>7. CASE InBegin(j) \/ OutOpen(j) \/ OutPublished(j)
  BY <1>2, <1>5, <1>7 DEF InBegin, OutOpen, OutPublished, Status
<1>8. CASE InSkip(j) \/ InFinish(j) \/ ManualReturn(j)
  <2>1. \E s \in Status \ {"absent"}, r \in Result : Store(job[j].tx, s, r)
    BY <1>8 DEF InSkip, InFinish, ManualReturn, Status, Result
  <2>2. job[j].pc \in {"gate", "finish", "accepted"}
    BY <1>8 DEF InSkip, InFinish, ManualReturn
  <2>. QED  BY <1>3, <1>5, <2>1, <2>2
<1>9. CASE InRefuse(j) \/ InFail(j) \/ OutNoOrg(j) \/ PublishError(j)
  BY <1>4, <1>5, <1>9 DEF InRefuse, InFail, OutNoOrg, PublishError
<1>10. CASE InCancelled(j) \/ OutTake(j) \/ OutReturn(j) \/ OutAbort(j)
  BY <1>4, <1>5, <1>10 DEF InCancelled, OutTake, OutReturn, OutAbort
<1>11. ASSUME NEW u \in Tx, InFanRecord(j, u)
       PROVE  tx[t].status = "absent" /\ tx'[t] = NewRow("queued", "publish")
  BY <1>1, <1>11 DEF InFanRecord
<1>12. CASE Send(j) \/ InTake(j) \/ InProcessed(j) \/ Accept(j) \/ Notify(j) \/ Done(j)
  BY <1>12 DEF Send, InTake, InProcessed, Accept, Notify, Done
<1>13. ASSUME NEW k \in Job, InRequeue(j, k) \/ InForward(j, k) \/ InFanPublish(j, k)
       PROVE  FALSE
  BY <1>13 DEF InRequeue, InForward, InFanPublish, PublishLast
<1>. QED
  BY <1>6, <1>7, <1>8, <1>9, <1>10, <1>11, <1>12, <1>13 DEF Step

LEMMA StepFrame ==
    ASSUME NEW j \in Job, Step(j)
    PROVE  UNCHANGED <<call, crashes>>
  BY DEF Step, MarkQueued, Send, InTake, InRefuse, InSkip, InBegin, InCancelled,
         InProcessed, InFail, InFinish, InRequeue, InForward, InFanPublish,
         InFanRecord, OutTake, OutNoOrg, OutOpen, Accept, OutReturn, OutPublished,
         OutAbort, PublishError, ManualReturn, Notify, Done, At, Starts

----------------------------------------------------------------------------
(* A transaction that does not exist yet is not being cancelled: the       *)
(* cancel endpoint looks the row up before it flags it.                    *)
Known ==
    \A t \in Tx : tx[t].status = "absent" =>
      /\ ~tx[t].cancel
      /\ \A c \in Call : call[c].pc = "read" => call[c].tx # t

LEMMA KnownInit == Init => Known
  BY DEF Init, Known, AbsentRow

LEMMA KnownNext == TypeOK /\ Known /\ [Next]_vars => Known'
<1>. SUFFICES ASSUME TypeOK, Known, [Next]_vars, NEW t \in Tx,
                     tx'[t].status = "absent"
              PROVE  /\ ~tx'[t].cancel
                     /\ \A c \in Call : call'[c].pc = "read" => call'[c].tx # t
  BY DEF Known
<1>1. tx \in [Tx -> Row] /\ tx[t] \in Row
  BY DEF TypeOK
<1>2. NewRow("received", "subscribe").status # "absent"
      /\ NewRow("publishing", "publish").status # "absent"
      /\ NewRow("queued", "publish").status # "absent"
  BY DEF NewRow, AbsentRow
<1>3. CASE tx'[t] = tx[t] /\ UNCHANGED call
  BY <1>3 DEF Known
<1>4. ASSUME NEW j \in Job, Step(j)  PROVE tx'[t] = tx[t] /\ UNCHANGED call
  <2>1. tx'[t] = tx[t]
    BY <1>2, <1>4, StepWrites
  <2>. QED  BY <1>4, <2>1, StepFrame
<1>5. ASSUME NEW u \in Tx, NEW j \in Job, Receive(u, j) \/ PublishManual(u, j)
      PROVE  tx'[t] = tx[t] /\ UNCHANGED call
  BY <1>1, <1>2, <1>5 DEF Receive, PublishManual, Insert
<1>6. ASSUME NEW u \in Tx, NEW j \in Job, Reprocess(u, j)
      PROVE  tx'[t] = tx[t] /\ UNCHANGED call
  BY <1>1, <1>6 DEF Reprocess, Row
<1>7. ASSUME NEW c \in Call, CancelWrite(c)
      PROVE  tx'[t] = tx[t] /\ \A d \in Call : call'[d].pc = "read" => call'[d] = call[d]
  <2>1. call[c].tx \in Tx /\ tx[call[c].tx].status # "absent"
    BY <1>7 DEF CancelWrite, Known, TypeOK
  <2>2. t # call[c].tx
    <3>1. CASE CancelRow(call[c].tx)
      BY <1>1, <2>1, <3>1 DEF CancelRow, Row
    <3>2. CASE tx' = [tx EXCEPT ![call[c].tx].cancel = TRUE]
      BY <1>1, <2>1, <3>2 DEF Row
    <3>. QED  BY <1>7, <3>1, <3>2 DEF CancelWrite
  <2>3. tx'[t] = tx[t]
    BY <1>1, <1>7, <2>2 DEF CancelWrite, CancelRow
  <2>4. \A d \in Call : call'[d].pc = "read" => call'[d] = call[d]
    BY <1>7 DEF CancelWrite, TypeOK, CallRow
  <2>. QED  BY <2>3, <2>4
<1>8. ASSUME NEW c \in Call, NEW u \in Tx, CancelRead(c, u)
      PROVE  /\ tx'[t] = tx[t]
             /\ \A d \in Call : call'[d].pc = "read" => call'[d] = call[d] \/ call'[d].tx # t
  <2>1. u # t
    BY <1>8 DEF CancelRead
  <2>. QED  BY <1>8, <2>1 DEF CancelRead, TypeOK, CallRow
<1>9. CASE Crash
  BY <1>9 DEF Crash, Known, TypeOK, CallRow
<1>9a. CASE (\E j \in Job : StreamStopped(j)) \/ (\E j, k \in Job : Redeliver(j, k))
  BY <1>3, <1>9a DEF StreamStopped, Redeliver
<1>10. CASE UNCHANGED vars
  BY <1>3, <1>10 DEF vars
<1>. QED
  BY <1>3, <1>4, <1>5, <1>6, <1>7, <1>8, <1>9, <1>9a, <1>10 DEF Next, Known

(* What putting a message on a topic does to the jobs.                     *)
LEMMA Handover ==
    ASSUME job \in [Job -> JobRow], NEW j \in Job, NEW k \in Job, NEW m,
           job[j].pc # "free", PublishLast(j, k, m)
    PROVE  /\ job[k].pc = "free" /\ job'[k] = m
           /\ job'[j].pc = "ack" /\ job'[j].tx = job[j].tx
           /\ \A i \in Job \ {j, k} : job'[i] = job[i]
<1>1. j # k
  BY DEF PublishLast
<1>2. job'[j] = [job[j] EXCEPT !.pc = "ack"]
  BY <1>1 DEF PublishLast
<1>3. job[j] \in JobRow
  OBVIOUS
<1>4. job'[j].pc = "ack" /\ job'[j].tx = job[j].tx
  BY <1>2, <1>3 DEF JobRow
<1>. QED  BY <1>1, <1>4 DEF PublishLast

LEMMA FanHandover ==
    ASSUME job \in [Job -> JobRow], NEW j \in Job, NEW k \in Job, InFanPublish(j, k)
    PROVE  /\ job[k].pc = "free"
           /\ job'[k] = NewJob("queued", "outbound", job[j].child, "payload", 0)
           /\ job'[j].pc \in {"ack", "fan"} /\ job'[j].tx = job[j].tx
           /\ \A i \in Job \ {j, k} : job'[i] = job[i]
<1>. DEFINE m == NewJob("queued", "outbound", job[j].child, "payload", 0)
            a == [job[j] EXCEPT !.pc = "fan", !.child = None,
                                !.left = job[j].left - 1]
<1>1. job[j].pc = "link"
  BY DEF InFanPublish, At
<1>2. CASE PublishLast(j, k, m)
  BY <1>1, <1>2, Handover
<1>3. CASE job[k].pc = "free" /\ job' = [job EXCEPT ![k] = m, ![j] = a]
  <2>1. job[j] \in JobRow
    OBVIOUS
  <2>2. a.pc = "fan" /\ a.tx = job[j].tx
    BY <2>1 DEF JobRow
  <2>3. j # k
    BY <1>1, <1>3
  <2>4. job'[j] = a /\ job'[k] = m /\ \A i \in Job \ {j, k} : job'[i] = job[i]
    BY <1>3, <2>3
  <2>. HIDE DEF a, m
  <2>5. job'[j].pc = "fan" /\ job'[j].tx = job[j].tx
    BY <2>2, <2>4
  <2>. QED  BY <1>3, <2>4, <2>5 DEF m
<1>4. PublishLast(j, k, m) \/ (job[k].pc = "free" /\ job' = [job EXCEPT ![k] = m, ![j] = a])
  BY DEF InFanPublish
<1>. QED  BY <1>2, <1>3, <1>4

(* Only a checkpoint that found no flag lets a handler go past it.         *)
LEMMA PassesCheckpoint ==
    ASSUME TypeOK, NEW j \in Job, Step(j), NEW i \in Job,
           job'[i].pc \in {"open", "call"}
    PROVE  /\ job'[i].tx = job[i].tx
           /\ job[i].pc \in {"open", "call"} \/ ~tx[job[i].tx].cancel
<1>. USE DEF At, Starts, Goto, Await, Continue
<1>1. job \in [Job -> JobRow] /\ job[i] \in JobRow /\ job[j] \in JobRow
  BY DEF TypeOK
<1>2. FreeJob.pc = "free"
  BY DEF FreeJob
<1>3. CASE MarkQueued(j) \/ Send(j) \/ InRefuse(j) \/ InBegin(j) \/ InProcessed(j)
           \/ OutNoOrg(j) \/ OutOpen(j) \/ OutPublished(j) \/ OutAbort(j)
           \/ PublishError(j) \/ ManualReturn(j) \/ Notify(j) \/ Accept(j)
  BY <1>1, <1>3 DEF MarkQueued, Send, InRefuse, InBegin, InProcessed, OutNoOrg,
       OutOpen, OutPublished, OutAbort, PublishError, ManualReturn, Notify, Accept,
       JobRow
<1>4. CASE InTake(j) \/ InSkip(j) \/ InCancelled(j) \/ Done(j)
  BY <1>1, <1>2, <1>4 DEF InTake, InSkip, InCancelled, Done, Return, JobRow
<1>5. CASE InFail(j) \/ OutReturn(j)
  BY <1>1, <1>5 DEF InFail, OutReturn, JobRow
<1>5a. CASE OutTake(j)
  <2>1. job' = [job EXCEPT ![j] = FreeJob] \/ job' = [job EXCEPT ![j].pc = "open"]
    BY <1>5a DEF OutTake, Return
  <2>2. i # j => job'[i] = job[i]
    BY <1>1, <2>1
  <2>3. i = j => job' # [job EXCEPT ![j] = FreeJob]
    BY <1>1, <1>2
  <2>4. i = j => ~tx[job[i].tx].cancel
    BY <1>5a, <2>3 DEF OutTake, Return
  <2>5. i = j => job'[i].tx = job[i].tx
    BY <1>1, <2>1, <2>3 DEF JobRow
  <2>. QED  BY <2>2, <2>4, <2>5
<1>6. CASE InFinish(j)
  <2>1. \A n : [job[j] EXCEPT !.pc = "fan", !.left = n].pc = "fan"
    BY <1>1 DEF JobRow
  <2>3. job'[j].pc \in {"fan", "notify", "forward"}
    <3>1. ASSUME NEW n \in 1..MaxFan,
                 job' = [job EXCEPT ![j] = [@ EXCEPT !.pc = "fan", !.left = n]]
          PROVE  job'[j].pc = "fan"
      <4>1. job'[j] = [job[j] EXCEPT !.pc = "fan", !.left = n]
        BY <1>1, <3>1
      <4>. QED  BY <2>1, <4>1
    <3>2. ASSUME NEW pc \in {"notify", "forward"}, job' = [job EXCEPT ![j].pc = pc]
          PROVE  job'[j].pc = pc
      BY <1>1, <3>2 DEF JobRow
    <3>. QED  BY <1>6, <3>1, <3>2 DEF InFinish
  <2>4. i # j => job'[i] = job[i]
    BY <1>1, <1>6 DEF InFinish
  <2>. QED  BY <2>3, <2>4
<1>7. ASSUME NEW u \in Tx, InFanRecord(j, u)
      PROVE  job'[i].tx = job[i].tx /\ job[i].pc \in {"open", "call"}
  BY <1>1, <1>7 DEF InFanRecord, JobRow
<1>8. ASSUME NEW k \in Job, InRequeue(j, k) \/ InForward(j, k) \/ InFanPublish(j, k)
      PROVE  job'[i].tx = job[i].tx /\ job[i].pc \in {"open", "call"}
  <2>1. \A topic, u, body, retry : NewJob("queued", topic, u, body, retry).pc = "queued"
    BY DEF NewJob, FreeJob
  <2>2. CASE InRequeue(j, k) \/ InForward(j, k)
    BY <1>1, <2>1, <2>2, Handover DEF InRequeue, InForward
  <2>3. CASE InFanPublish(j, k)
    BY <1>1, <2>1, <2>3, FanHandover
  <2>. QED  BY <1>8, <2>2, <2>3
<1>. QED  BY <1>3, <1>4, <1>5, <1>5a, <1>6, <1>7, <1>8 DEF Step

LEMMA RestartedPc ==
    ASSUME NEW m \in JobRow
    PROVE  Restarted(m).pc \in {"free", "queued"}
  BY DEF Restarted, FreeJob, JobRow

(* FlagStopsPublishing: with the flag on record, the outbound checkpoint   *)
(* (worker.py:805-809) is the only way to a publish and it is shut; no     *)
(* step clears the flag.                                                   *)
THEOREM FlagIsObeyed == Spec => FlagStopsPublishing
<1>1. ASSUME TypeOK, Known, [Next]_vars, NEW t \in Tx, tx[t].cancel, ~InFlight(t)
      PROVE  tx'[t].cancel /\ ~InFlight(t)'
  <2>1. /\ tx \in [Tx -> Row] /\ tx[t] \in Row /\ job \in [Job -> JobRow]
        /\ tx[t].status # "absent"
    BY <1>1 DEF TypeOK, Known
  <2>2. ASSUME NEW j \in Job, Step(j)
        PROVE  tx'[t].cancel /\ ~InFlight(t)'
    <3>1. tx'[t].cancel
      BY <1>1, <2>1, <2>2, StepWrites
    <3>2. \A i \in Job : job'[i].pc \in {"open", "call"} => job'[i].tx # t
      BY <1>1, <2>2, PassesCheckpoint DEF InFlight
    <3>. QED  BY <3>1, <3>2 DEF InFlight
  <2>3. ASSUME NEW u \in Tx, NEW j \in Job, Receive(u, j) \/ PublishManual(u, j)
        PROVE  tx'[t].cancel /\ ~InFlight(t)'
    <3>1. u # t /\ tx'[t] = tx[t]
      BY <2>1, <2>3 DEF Receive, PublishManual, Insert
    <3>2. \A pc, topic : NewJob(pc, topic, u, "payload", 0).tx = u
      BY DEF NewJob, FreeJob
    <3>3. \A i \in Job : job'[i] = job[i] \/ job'[i].tx = u
      BY <2>1, <2>3, <3>2 DEF Receive, PublishManual, Insert
    <3>. QED  BY <1>1, <3>1, <3>3 DEF InFlight
  <2>4. ASSUME NEW u \in Tx, NEW j \in Job, Reprocess(u, j)
        PROVE  tx'[t].cancel /\ ~InFlight(t)'
    <3>1. tx'[t].cancel
      BY <1>1, <2>1, <2>4 DEF Reprocess, Row
    <3>2. \A topic, body : NewJob("send", topic, u, body, 0).pc = "send"
      BY DEF NewJob, FreeJob
    <3>3. \A i \in Job : job'[i] = job[i] \/ job'[i].pc = "send"
      BY <2>1, <2>4, <3>2 DEF Reprocess
    <3>. QED  BY <1>1, <3>1, <3>3 DEF InFlight
  <2>5. ASSUME NEW c \in Call, CancelWrite(c)
        PROVE  tx'[t].cancel /\ ~InFlight(t)'
    <3>1. ~InFlight(t)'
      BY <1>1, <2>5 DEF CancelWrite, InFlight
    <3>2. tx'[t].cancel
      <4>1. CASE CancelRow(call[c].tx)
        BY <1>1, <2>1, <4>1 DEF CancelRow, Row
      <4>2. CASE tx' = [tx EXCEPT ![call[c].tx].cancel = TRUE]
        BY <1>1, <2>1, <4>2 DEF Row
      <4>. QED  BY <2>5, <4>1, <4>2 DEF CancelWrite
    <3>. QED  BY <3>1, <3>2
  <2>6. ASSUME NEW c \in Call, NEW u \in Tx, CancelRead(c, u)
        PROVE  tx'[t].cancel /\ ~InFlight(t)'
    BY <1>1, <2>6 DEF CancelRead, InFlight
  <2>7. CASE Crash
    <3>1. \A i \in Job : job'[i].pc \in {"free", "queued"}
      BY <2>1, <2>7, RestartedPc DEF Crash
    <3>. QED  BY <1>1, <2>7, <3>1 DEF Crash, InFlight
  <2>7a. ASSUME NEW j \in Job, NEW k \in Job, Redeliver(j, k) \/ StreamStopped(j)
         PROVE  tx'[t].cancel /\ ~InFlight(t)'
    <3>1. FreeJob.pc = "free"
      BY DEF FreeJob
    <3>2. \A i \in Job : job'[i] = job[i] \/ job'[i].pc \in {"free", "queued"}
      BY <2>1, <2>7a, <3>1, RestartedPc DEF Redeliver, StreamStopped, Return
    <3>. QED  BY <1>1, <2>7a, <3>2 DEF Redeliver, StreamStopped, InFlight
  <2>8. CASE UNCHANGED vars
    BY <1>1, <2>8 DEF vars, InFlight
  <2>. QED  BY <1>1, <2>2, <2>3, <2>4, <2>5, <2>6, <2>7, <2>7a, <2>8 DEF Next
<1>2. TypeOK /\ Known /\ [Next]_vars =>
        [\A t \in Tx : tx[t].cancel /\ ~InFlight(t)
           => (tx[t].cancel /\ ~InFlight(t))']_vars
  BY <1>1
<1>3. Spec => []Known
  BY KnownInit, KnownNext, TypeCorrect, PTL DEF Spec
<1>. QED  BY <1>2, <1>3, TypeCorrect, PTL DEF Spec, FlagStopsPublishing

----------------------------------------------------------------------------
(* Who answers for a transaction in a running status.                      *)

(* Handlers and messages that will move t out of processing and that a     *)
(* crash turns into a message again.                                       *)
Works(j, t) == /\ job[j].tx = t /\ job[j].topic = "inbound"
               /\ job[j].pc \in {"queued", "gate", "begin", "process", "finish"}
Keeps(j, t) == Owns(j, t) /\ (Durable => job[j].pc # "enqueue")
Held(t) == tx[t].status \in Active /\ (Durable => tx[t].status # "queued")
Owned(t) == Held(t) => \E j \in Job : Keeps(j, t)
Worked(t) == tx[t].status = "processing" => \E j \in Job : Works(j, t)

(* The inductive invariant behind NoOrphan: before the first crash every   *)
(* running transaction has an owner that no stopped stream takes away, and *)
(* with RabbitMQ a transaction in processing has one whose message is not  *)
(* acknowledged yet.                                                       *)
Accounted ==
    \A t \in Tx : (crashes = 0 => Owned(t)) /\ (Durable => Worked(t))

LEMMA GotoEffect ==
    ASSUME job \in [Job -> JobRow], NEW j \in Job, NEW pc, Goto(j, pc)
    PROVE  /\ job'[j].pc = pc /\ job'[j].tx = job[j].tx
           /\ job'[j].topic = job[j].topic
           /\ \A i \in Job \ {j} : job'[i] = job[i]
<1>1. job[j] \in JobRow
  OBVIOUS
<1>2. job'[j] = [job[j] EXCEPT !.pc = pc] /\ \A i \in Job \ {j} : job'[i] = job[i]
  BY DEF Goto
<1>. QED  BY <1>1, <1>2 DEF JobRow

LEMMA RowEffect ==
    ASSUME tx \in [Tx -> Row], NEW u \in Tx
    PROVE  /\ \A s : SetStatus(u, s) =>
                tx'[u].status = s /\ \A t \in Tx \ {u} : tx'[t] = tx[t]
           /\ \A s, r : Store(u, s, r) =>
                tx'[u].status = s /\ \A t \in Tx \ {u} : tx'[t] = tx[t]
           /\ Fail(u) =>
                tx'[u].status = "failed" /\ \A t \in Tx \ {u} : tx'[t] = tx[t]
           /\ CancelRow(u) =>
                tx'[u].status = "cancelled" /\ \A t \in Tx \ {u} : tx'[t] = tx[t]
<1>1. tx[u] \in Row
  OBVIOUS
<1>2. ASSUME NEW s, SetStatus(u, s)
      PROVE  tx'[u].status = s /\ \A t \in Tx \ {u} : tx'[t] = tx[t]
  BY <1>1, <1>2 DEF SetStatus, Row
<1>3. ASSUME NEW s, NEW r, Store(u, s, r)
      PROVE  tx'[u].status = s /\ \A t \in Tx \ {u} : tx'[t] = tx[t]
  BY <1>1, <1>3 DEF Store, Row
<1>4. ASSUME Fail(u)
      PROVE  tx'[u].status = "failed" /\ \A t \in Tx \ {u} : tx'[t] = tx[t]
  BY <1>1, <1>4 DEF Fail, Row
<1>5. ASSUME CancelRow(u)
      PROVE  tx'[u].status = "cancelled" /\ \A t \in Tx \ {u} : tx'[t] = tx[t]
  BY <1>1, <1>5 DEF CancelRow, Row
<1>. QED  BY <1>2, <1>3, <1>4, <1>5

LEMMA FinishEffect ==
    ASSUME job \in [Job -> JobRow], NEW j \in Job, InFinish(j)
    PROVE  job'[j].pc \in {"notify", "forward", "fan"}
           /\ \A i \in Job \ {j} : job'[i] = job[i]
<1>1. CASE Continue(j, "notify") \/ Goto(j, "forward")
  BY <1>1, GotoEffect DEF Continue
<1>2. ASSUME NEW n \in 1..MaxFan,
             job' = [job EXCEPT ![j] = [@ EXCEPT !.pc = "fan", !.left = n]]
      PROVE  job'[j].pc = "fan" /\ \A i \in Job \ {j} : job'[i] = job[i]
  <2>1. job[j] \in JobRow
    OBVIOUS
  <2>2. [job[j] EXCEPT !.pc = "fan", !.left = n].pc = "fan"
    BY <2>1 DEF JobRow
  <2>. QED  BY <1>2, <2>2
<1>. QED  BY <1>1, <1>2 DEF InFinish

(* A step of j leaves the other handlers alone.                            *)
LEMMA StepOthers ==
    ASSUME TypeOK, NEW j \in Job, Step(j), NEW i \in Job \ {j}, job[i].pc # "free"
    PROVE  job'[i] = job[i]
<1>. USE DEF At, Starts, Await, Continue
<1>1. job \in [Job -> JobRow]
  BY DEF TypeOK
<1>2. CASE \E pc : Goto(j, pc) \/ Return(j)
  BY <1>1, <1>2, GotoEffect DEF Return
<1>3. CASE InFinish(j)
  BY <1>1, <1>3, FinishEffect
<1>4. ASSUME NEW k \in Job, InRequeue(j, k) \/ InForward(j, k)
      PROVE  job'[i] = job[i]
  BY <1>1, <1>4, Handover DEF InRequeue, InForward
<1>5. ASSUME NEW k \in Job, InFanPublish(j, k)
      PROVE  job'[i] = job[i]
  BY <1>1, <1>5, FanHandover
<1>6. ASSUME NEW u \in Tx, InFanRecord(j, u)
      PROVE  job'[i] = job[i]
  BY <1>1, <1>6 DEF InFanRecord
<1>. QED
  BY <1>2, <1>3, <1>4, <1>5, <1>6 DEF Step, MarkQueued, Send, InTake, InRefuse,
     InSkip, InBegin, InCancelled, InProcessed, InFail, OutTake, OutNoOrg, OutOpen,
     Accept, OutReturn, OutPublished, OutAbort, PublishError, ManualReturn, Notify,
     Done

(* A free message slot is at most filled with a queued message.            *)
LEMMA StepFrees ==
    ASSUME TypeOK, NEW j \in Job, Step(j), NEW i \in Job \ {j}, job[i].pc = "free"
    PROVE  job'[i].pc \in {"free", "queued"}
<1>. USE DEF At, Starts, Await, Continue
<1>1. job \in [Job -> JobRow]
  BY DEF TypeOK
<1>2. CASE \E pc : Goto(j, pc) \/ Return(j)
  BY <1>1, <1>2, GotoEffect DEF Return
<1>3. CASE InFinish(j)
  BY <1>1, <1>3, FinishEffect
<1>4. \A topic, u, body, retry : NewJob("queued", topic, u, body, retry).pc = "queued"
  BY DEF NewJob, FreeJob
<1>5. ASSUME NEW k \in Job, InRequeue(j, k) \/ InForward(j, k)
      PROVE  job'[i].pc \in {"free", "queued"}
  BY <1>1, <1>4, <1>5, Handover DEF InRequeue, InForward
<1>6. ASSUME NEW k \in Job, InFanPublish(j, k)
      PROVE  job'[i].pc \in {"free", "queued"}
  BY <1>1, <1>4, <1>6, FanHandover
<1>7. ASSUME NEW u \in Tx, InFanRecord(j, u)
      PROVE  job'[i] = job[i]
  BY <1>1, <1>7 DEF InFanRecord
<1>. QED
  BY <1>2, <1>3, <1>5, <1>6, <1>7 DEF Step, MarkQueued, Send, InTake, InRefuse,
     InSkip, InBegin, InCancelled, InProcessed, InFail, OutTake, OutNoOrg, OutOpen,
     Accept, OutReturn, OutPublished, OutAbort, PublishError, ManualReturn, Notify,
     Done

(* A step of j leaves t running only with an owner, or without having been *)
(* its owner: whoever gives t up writes a status at rest or hands t on.    *)
LEMMA StepOwner ==
    ASSUME TypeOK, NEW j \in Job, Step(j), NEW t \in Tx
    PROVE  /\ Held(t)' =>
                \/ \E i \in Job : Keeps(i, t)'
                \/ Held(t) /\ ~Keeps(j, t)
           /\ tx'[t].status = "processing" =>
                \/ \E i \in Job : Works(i, t)'
                \/ tx[t].status = "processing" /\ ~Works(j, t)
<1>. DEFINE u == job[j].tx
            Goal == /\ Held(t)' =>
                         \/ \E i \in Job : Keeps(i, t)'
                         \/ Held(t) /\ ~Keeps(j, t)
                    /\ tx'[t].status = "processing" =>
                         \/ \E i \in Job : Works(i, t)'
                         \/ tx[t].status = "processing" /\ ~Works(j, t)
<1>. USE DEF At, Starts, Await, Continue, Owns, Keeps, Held, Works, Unsettled, Active
<1>1. job \in [Job -> JobRow] /\ tx \in [Tx -> Row]
  BY DEF TypeOK
<1>2. job[j].pc # "free" => u \in Tx
  BY DEF TypeOK, WellFormed
<1>3. CASE InRefuse(j) \/ InFail(j) \/ OutNoOrg(j) \/ PublishError(j)
  <2>1. Fail(u) /\ u \in Tx /\ job[j].pc # "link"
    BY <1>2, <1>3 DEF InRefuse, InFail, OutNoOrg, PublishError
  <2>. QED  BY <1>1, <2>1, RowEffect
<1>4. CASE InCancelled(j) \/ OutAbort(j)
  <2>1. CancelRow(u) /\ u \in Tx /\ job[j].pc # "link"
    BY <1>2, <1>4 DEF InCancelled, OutAbort
  <2>. QED  BY <1>1, <2>1, RowEffect
<1>5. CASE InSkip(j) \/ InFinish(j) \/ ManualReturn(j) \/ OutPublished(j)
  <2>1. /\ u \in Tx /\ job[j].pc # "link"
        /\ \/ SetStatus(u, "published")
           \/ \E s \in {"skipped", "processed", "published"}, r \in Result : Store(u, s, r)
    BY <1>2, <1>5 DEF InSkip, InFinish, ManualReturn, OutPublished, Result
  <2>. QED  BY <1>1, <2>1, RowEffect
<1>6. CASE MarkQueued(j)
  <2>1. u \in Tx /\ job'[j].pc = "enqueue" /\ job'[j].tx = u /\ job[j].pc = "receive"
    BY <1>1, <1>2, <1>6, GotoEffect DEF MarkQueued
  <2>. QED  BY <1>1, <1>6, <2>1, RowEffect DEF MarkQueued
<1>7. CASE InBegin(j)
  <2>1. /\ u \in Tx /\ job'[j].pc = "process" /\ job'[j].tx = u
        /\ job'[j].topic = "inbound" /\ job[j].pc # "link"
    BY <1>1, <1>2, <1>7, GotoEffect DEF InBegin
  <2>. QED  BY <1>1, <1>7, <2>1, RowEffect DEF InBegin
<1>8. CASE OutOpen(j)
  <2>1. /\ u \in Tx /\ job'[j].pc = "call" /\ job'[j].tx = u /\ job[j].pc = "open"
    BY <1>1, <1>2, <1>8, GotoEffect DEF OutOpen
  <2>. QED  BY <1>1, <1>8, <2>1, RowEffect DEF OutOpen
<1>9. CASE Send(j) \/ InProcessed(j) \/ Accept(j)
  <2>1. /\ tx' = tx /\ job'[j].tx = u /\ job[j].pc \in {"enqueue", "send", "process", "call"}
        /\ job'[j].topic = job[j].topic
        /\ job'[j].pc = IF Send(j) THEN "queued"
                        ELSE IF InProcessed(j) THEN "finish" ELSE "accepted"
        /\ ~Send(j) => ~Works(j, t) \/ InProcessed(j)
    BY <1>1, <1>9, GotoEffect DEF Send, InProcessed, Accept
  <2>. QED  BY <1>1, <1>9, <2>1 DEF Send, InProcessed, Accept
<1>10. CASE InTake(j)
  <2>1. CASE tx[u].status = "cancelled"
    BY <1>1, <1>2, <1>10, <2>1 DEF InTake
  <2>2. CASE tx[u].status # "cancelled"
    <3>1. /\ tx' = tx /\ job'[j].tx = u /\ job'[j].topic = "inbound"
          /\ job'[j].pc \in {"gate", "begin"} /\ job[j].pc = "queued"
      BY <1>1, <1>10, <2>2, GotoEffect DEF InTake
    <3>. QED  BY <1>1, <3>1
  <2>. QED  BY <2>1, <2>2
<1>11. CASE OutTake(j)
  <2>1. CASE CancelRow(u)
    BY <1>1, <1>2, <1>11, <2>1, RowEffect DEF OutTake
  <2>2. CASE Continue(j, "open") /\ tx' = tx
    <3>1. job'[j].tx = u /\ job'[j].pc = "open" /\ job[j].pc = "queued"
          /\ job[j].topic = "outbound"
      BY <1>1, <1>11, <2>2, GotoEffect DEF OutTake
    <3>. QED  BY <1>1, <2>2, <3>1
  <2>. QED  BY <1>11, <2>1, <2>2 DEF OutTake
<1>12. CASE OutReturn(j)
  <2>1. CASE CancelRow(u)
    BY <1>1, <1>2, <1>12, <2>1, RowEffect DEF OutReturn
  <2>2. CASE Continue(j, "mark") /\ tx' = tx
    <3>1. job'[j].tx = u /\ job'[j].pc = "mark" /\ job[j].pc = "accepted"
      BY <1>1, <1>12, <2>2, GotoEffect DEF OutReturn
    <3>. QED  BY <1>1, <2>2, <3>1
  <2>. QED  BY <1>12, <2>1, <2>2 DEF OutReturn
<1>13. CASE Notify(j) \/ Done(j) \/ \E k \in Job : InRequeue(j, k) \/ InForward(j, k)
  BY <1>1, <1>13 DEF Notify, Done, InRequeue, InForward, PublishLast
<1>14. ASSUME NEW k \in Job, InFanPublish(j, k)  PROVE Goal
  <2>1. tx' = tx /\ job[j].pc = "link"
    BY <1>14 DEF InFanPublish, PublishLast
  <2>2. job'[k] = NewJob("queued", "outbound", job[j].child, "payload", 0)
    BY <1>1, <1>14, FanHandover
  <2>3. job'[k].tx = job[j].child /\ job'[k].pc = "queued"
    BY <2>2 DEF NewJob, FreeJob
  <2>. QED  BY <1>1, <2>1, <2>3
<1>15. ASSUME NEW v \in Tx, InFanRecord(j, v)  PROVE Goal
  <2>1. job[j] \in JobRow /\ job[j].pc = "fan"
    BY <1>1, <1>15 DEF InFanRecord
  <2>2. job'[j] = [job[j] EXCEPT !.pc = "link", !.child = v]
    BY <1>1, <1>15 DEF InFanRecord
  <2>3. job'[j].pc = "link" /\ job'[j].child = v
    BY <2>1, <2>2 DEF JobRow
  <2>4. NewRow("queued", "publish").status = "queued"
    BY DEF NewRow, AbsentRow
  <2>5. tx'[v].status = "queued" /\ (t # v => tx'[t] = tx[t])
    BY <1>1, <1>15, <2>4 DEF InFanRecord
  <2>. QED  BY <2>1, <2>3, <2>5
<1>. QED
  BY <1>3, <1>4, <1>5, <1>6, <1>7, <1>8, <1>9, <1>10, <1>11, <1>12, <1>13, <1>14,
     <1>15 DEF Step

LEMMA AccountedInit == Init => Accounted
  BY DEF Init, Accounted, Owned, Held, Worked, AbsentRow, Active

LEMMA AccountedNext == TypeOK /\ Accounted /\ [Next]_vars => Accounted'
<1>. SUFFICES ASSUME TypeOK, Accounted, [Next]_vars, NEW t \in Tx
              PROVE  /\ crashes' = 0 => Owned(t)'
                     /\ Durable => Worked(t)'
  BY DEF Accounted
<1>1. /\ job \in [Job -> JobRow] /\ tx \in [Tx -> Row] /\ tx[t] \in Row
      /\ crashes \in Nat
  BY DEF TypeOK
<1>2. (crashes = 0 => Owned(t)) /\ (Durable => Worked(t))
  BY DEF Accounted
<1>3. ASSUME NEW j \in Job, Step(j)
      PROVE  (Owned(t) => Owned(t)') /\ (Worked(t) => Worked(t)') /\ crashes' = crashes
  <2>1. \A i \in Job : /\ Keeps(i, t) => i = j \/ Keeps(i, t)'
                       /\ Works(i, t) => i = j \/ Works(i, t)'
    BY <1>3, StepOthers DEF Owns, Keeps, Works, Unsettled
  <2>. QED  BY <1>3, <2>1, StepOwner, StepFrame DEF Owned, Worked
<1>4. ASSUME NEW u \in Tx, NEW j \in Job,
             Receive(u, j) \/ PublishManual(u, j) \/ Reprocess(u, j)
      PROVE  (Owned(t) => Owned(t)') /\ (Worked(t) => Worked(t)') /\ crashes' = crashes
  <2>1. job[j].pc = "free" /\ crashes' = crashes
    BY <1>4 DEF Receive, PublishManual, Insert, Reprocess
  <2>2. \A i \in Job \ {j} : job'[i] = job[i]
    BY <1>1, <1>4 DEF Receive, PublishManual, Insert, Reprocess
  <2>3. \A i \in Job : /\ Keeps(i, t) => Keeps(i, t)'
                       /\ Works(i, t) => Works(i, t)'
    BY <2>1, <2>2 DEF Owns, Keeps, Works, Unsettled
  <2>4. job'[j].tx = u /\ job'[j].pc \in {"receive", "call", "send"}
    <3>1. \A pc, topic, body : NewJob(pc, topic, u, body, 0).pc = pc
                             /\ NewJob(pc, topic, u, body, 0).tx = u
      BY DEF NewJob, FreeJob
    <3>2. \E pc \in {"receive", "call", "send"} : \E topic, body :
             job'[j] = NewJob(pc, topic, u, body, 0)
      BY <1>1, <1>4 DEF Receive, PublishManual, Insert, Reprocess
    <3>. QED  BY <3>1, <3>2
  <2>5. Keeps(j, u)'
    BY <2>4 DEF Owns, Keeps, Unsettled
  <2>6. t # u => tx'[t] = tx[t]
    BY <1>1, <1>4 DEF Receive, PublishManual, Insert, Reprocess
  <2>7. tx'[u].status # "processing"
    <3>1. tx[u] \in Row
      BY <1>1
    <3>2. CASE Receive(u, j) \/ PublishManual(u, j)
      BY <1>1, <3>2 DEF Receive, PublishManual, Insert, NewRow, AbsentRow
    <3>3. CASE Reprocess(u, j)
      BY <1>1, <3>1, <3>3 DEF Reprocess, Row
    <3>. QED  BY <1>4, <3>2, <3>3
  <2>. QED  BY <2>1, <2>3, <2>5, <2>6, <2>7 DEF Owned, Held, Worked
<1>5. ASSUME NEW c \in Call, CancelWrite(c)
      PROVE  (Owned(t) => Owned(t)') /\ (Worked(t) => Worked(t)') /\ crashes' = crashes
  <2>1. job' = job /\ crashes' = crashes /\ call[c].tx \in Tx
    BY <1>5 DEF CancelWrite, TypeOK
  <2>2. tx'[t].status \in {tx[t].status, "cancelled"}
    <3>1. CASE CancelRow(call[c].tx)
      BY <1>1, <2>1, <3>1, RowEffect
    <3>2. CASE tx' = [tx EXCEPT ![call[c].tx].cancel = TRUE]
      BY <1>1, <3>2 DEF Row
    <3>. QED  BY <1>5, <3>1, <3>2 DEF CancelWrite
  <2>. QED  BY <2>1, <2>2 DEF Owned, Held, Worked, Owns, Keeps, Works, Active
<1>6. ASSUME NEW c \in Call, NEW u \in Tx, CancelRead(c, u)
      PROVE  (Owned(t) => Owned(t)') /\ (Worked(t) => Worked(t)') /\ crashes' = crashes
  BY <1>6 DEF CancelRead, Owned, Held, Worked, Owns, Keeps, Works
<1>7. CASE Crash
  <2>1. crashes' # 0 /\ tx' = tx
    BY <1>1, <1>7 DEF Crash
  <2>2. ASSUME Durable, NEW i \in Job, Works(i, t)
        PROVE  Works(i, t)'
    <3>. DEFINE m == [job[i] EXCEPT !.pc = "queued", !.left = 0, !.child = None]
    <3>1. job[i] \in JobRow
      BY <1>1
    <3>2. job'[i] = m
      BY <1>7, <2>2 DEF Crash, Restarted, Works, Unsent
    <3>3. m.pc = "queued" /\ m.tx = job[i].tx /\ m.topic = job[i].topic
      BY <3>1 DEF JobRow
    <3>. QED  BY <2>2, <3>2, <3>3 DEF Works
  <2>. QED  BY <1>2, <2>1, <2>2 DEF Worked
<1>8. CASE UNCHANGED vars
  BY <1>2, <1>8 DEF vars, Owned, Held, Worked, Owns, Keeps, Works
<1>9. ASSUME NEW j \in Job, StreamStopped(j)
      PROVE  (Owned(t) => Owned(t)') /\ (Worked(t) => Worked(t)') /\ crashes' = crashes
  <2>1. /\ Durable /\ job[j].pc = "enqueue" /\ tx' = tx /\ crashes' = crashes
        /\ \A i \in Job \ {j} : job'[i] = job[i]
    BY <1>1, <1>9 DEF StreamStopped, Return
  <2>2. \A i \in Job : /\ Keeps(i, t) => Keeps(i, t)'
                       /\ Works(i, t) => Works(i, t)'
    BY <2>1 DEF Keeps, Owns, Works, Unsettled
  <2>. QED  BY <2>1, <2>2 DEF Owned, Held, Worked
<1>10. ASSUME NEW j \in Job, NEW k \in Job, Redeliver(j, k)
       PROVE  (Worked(t) => Worked(t)') /\ crashes' # 0
  <2>1. tx' = tx /\ crashes' # 0 /\ \A i \in Job : job[i].pc # "free" => job'[i] = job[i]
    BY <1>1, <1>10 DEF Redeliver
  <2>2. \A i \in Job : Works(i, t) => Works(i, t)'
    BY <2>1 DEF Works
  <2>. QED  BY <2>1, <2>2 DEF Worked
<1>. QED
  BY <1>2, <1>3, <1>4, <1>5, <1>6, <1>7, <1>8, <1>9, <1>10 DEF Next

(* NoOrphan: a transaction left in a running status always has a message   *)
(* or a handler that will move it on - whatever retries, duplicate         *)
(* handlers, cancels and reprocess requests have done - until a crash; and *)
(* with RabbitMQ even a crash leaves none in processing without one.       *)
THEOREM NothingIsOrphaned == Spec => []NoOrphan
<1>1. Accounted => NoOrphan
  BY DEF Accounted, Owned, Held, Worked, NoOrphan, Owns, Keeps, Works, Unsettled
<1>. QED  BY <1>1, AccountedInit, AccountedNext, TypeCorrect, PTL DEF Spec

----------------------------------------------------------------------------
(* CancelledStaysCancelled                                                 *)

(* A handler that is past its last write of a row, or was stopped at a     *)
(* checkpoint, does not become an owner of the row again.                  *)
LEMMA StepDormant ==
    ASSUME TypeOK, NEW j \in Job, Step(j), NEW t \in Tx, Buried(t), Owns(j, t)'
    PROVE  job'[j].pc \in {"enqueue", "send", "queued"}
<1>. DEFINE u == job[j].tx
            Goal == job'[j].pc \in {"enqueue", "send", "queued"}
<1>. USE DEF At, Starts, Await, Continue, Owns, Unsettled
<1>1. job \in [Job -> JobRow] /\ job[j] \in JobRow /\ tx[t].status = "cancelled"
  BY DEF TypeOK, Buried
<1>2. u = t => job[j].pc \notin (Unsettled \ {"enqueue", "send", "queued"})
  BY DEF Buried, Dormant
<1>3. ASSUME Return(j)  PROVE Goal
  BY <1>1, <1>3 DEF Return, FreeJob
<1>4. ASSUME NEW pc \in PC \ {"link"}, Goto(j, pc),
             job[j].pc \in Unsettled \ {"enqueue", "send", "queued"}
      PROVE  Goal
  BY <1>1, <1>2, <1>4, GotoEffect
<1>5. ASSUME NEW pc \in PC \ ({"link"} \cup Unsettled), Goto(j, pc)
      PROVE  Goal
  BY <1>1, <1>5, GotoEffect
<1>6. CASE MarkQueued(j) \/ InRefuse(j) \/ InBegin(j) \/ InProcessed(j) \/ OutNoOrg(j)
           \/ OutOpen(j) \/ Accept(j) \/ OutPublished(j) \/ OutAbort(j)
           \/ PublishError(j) \/ ManualReturn(j)
  BY <1>4, <1>6 DEF MarkQueued, InRefuse, InBegin, InProcessed, OutNoOrg, OutOpen,
     Accept, OutPublished, OutAbort, PublishError, ManualReturn, PC
<1>7. CASE InFail(j) \/ OutReturn(j)
  BY <1>4, <1>7 DEF InFail, OutReturn, PC
<1>8. CASE InSkip(j) \/ InCancelled(j) \/ Done(j)
  BY <1>3, <1>8 DEF InSkip, InCancelled, Done
<1>9. CASE Notify(j)
  BY <1>5, <1>9 DEF Notify, PC
<1>10. CASE Send(j)
  BY <1>1, <1>10, GotoEffect DEF Send
<1>11. CASE InTake(j)
  <2>1. CASE Return(j)
    BY <1>3, <2>1
  <2>2. CASE tx[u].status # "cancelled" /\ (Goto(j, "gate") \/ Goto(j, "begin"))
    BY <1>1, <2>2, GotoEffect
  <2>. QED  BY <1>11, <2>1, <2>2 DEF InTake
<1>12. CASE OutTake(j)
  <2>1. CASE Return(j)
    BY <1>3, <2>1
  <2>2. CASE tx[u].status # "cancelled" /\ Goto(j, "open")
    BY <1>1, <2>2, GotoEffect
  <2>. QED  BY <1>12, <2>1, <2>2 DEF OutTake
<1>13. CASE InFinish(j)
  <2>1. job'[j].pc \in {"notify", "forward", "fan"}
    BY <1>1, <1>13, FinishEffect
  <2>. QED  BY <2>1
<1>14. ASSUME NEW k \in Job, InRequeue(j, k) \/ InForward(j, k) \/ InFanPublish(j, k)
       PROVE  Goal
  <2>1. job'[j].pc \in {"ack", "fan"}
    BY <1>1, <1>14, Handover, FanHandover DEF InRequeue, InForward
  <2>. QED  BY <2>1
<1>15. ASSUME NEW v \in Tx, InFanRecord(j, v)
       PROVE  Goal
  <2>1. job'[j] = [job[j] EXCEPT !.pc = "link", !.child = v] /\ v # t
    BY <1>1, <1>15 DEF InFanRecord
  <2>2. job'[j].pc = "link" /\ job'[j].child = v
    BY <1>1, <2>1 DEF JobRow
  <2>. QED  BY <2>1, <2>2
<1>. QED
  BY <1>6, <1>7, <1>8, <1>9, <1>10, <1>11, <1>12, <1>13, <1>14, <1>15 DEF Step

(* Both checkpoints (worker.py:530-533 and 805-809) make this true: with   *)
(* every message of t still waiting, the next handler of t either drops    *)
(* its message or writes "cancelled" again.  Type correctness suffices.    *)
THEOREM CancelIsFinal == Spec => CancelledStaysCancelled
<1>1. ASSUME TypeOK, [Next]_vars, NEW t \in Tx, Buried(t)
      PROVE  Buried(t)' \/ tx'[t].attempts > tx[t].attempts
  <2>0. /\ tx \in [Tx -> Row] /\ tx[t] \in Row /\ job \in [Job -> JobRow]
        /\ tx[t].status = "cancelled" /\ Dormant(t)
    BY <1>1 DEF TypeOK, Buried
  <2>1. ASSUME \A i \in Job : job'[i] = job[i] \/ job'[i].pc \in {"free", "queued", "send"}
                             \/ (job'[i].tx # t /\ job'[i].pc # "link")
        PROVE  Dormant(t)'
    BY <2>0, <2>1 DEF Dormant, Owns, Unsettled
  <2>2. ASSUME NEW j \in Job, Step(j)
        PROVE  Buried(t)'
    <3>1. tx'[t].status = "cancelled"
      BY <1>1, <2>0, <2>2, StepWrites DEF Dormant, Owns
    <3>2. ASSUME NEW i \in Job, Owns(i, t)'
          PROVE  job'[i].pc \in {"enqueue", "send", "queued"}
      <4>1. CASE i = j
        BY <1>1, <2>2, <3>2, <4>1, StepDormant
      <4>2. CASE i # j /\ job[i].pc = "free"
        BY <1>1, <2>2, <3>2, <4>2, StepFrees DEF Owns, Unsettled
      <4>3. CASE i # j /\ job[i].pc # "free"
        BY <1>1, <2>0, <2>2, <3>2, <4>3, StepOthers DEF Owns, Dormant
      <4>. QED  BY <4>1, <4>2, <4>3
    <3>. QED  BY <3>1, <3>2 DEF Buried, Dormant
  <2>3. ASSUME NEW u \in Tx, NEW j \in Job, Receive(u, j) \/ PublishManual(u, j)
        PROVE  Buried(t)'
    <3>1. u # t /\ tx'[t].status = "cancelled"
      BY <2>0, <2>3 DEF Receive, PublishManual, Insert
    <3>2. \A topic, pc : NewJob(pc, topic, u, "payload", 0).tx = u
                        /\ NewJob(pc, topic, u, "payload", 0).pc = pc
      BY DEF NewJob, FreeJob
    <3>3. \A i \in Job : job'[i] = job[i] \/ (job'[i].tx # t /\ job'[i].pc # "link")
      BY <2>0, <2>3, <3>1, <3>2 DEF Receive, PublishManual, Insert
    <3>. QED  BY <2>1, <3>1, <3>3 DEF Buried
  <2>4. ASSUME NEW u \in Tx, NEW j \in Job, Reprocess(u, j)
        PROVE  Buried(t)' \/ tx'[t].attempts > tx[t].attempts
    <3>1. CASE u # t
      <4>1. tx'[t].status = "cancelled"
        BY <2>0, <2>4, <3>1 DEF Reprocess
      <4>2. \A topic, body : NewJob("send", topic, u, body, 0).pc = "send"
        BY DEF NewJob, FreeJob
      <4>3. \A i \in Job : job'[i] = job[i] \/ job'[i].pc = "send"
        BY <2>0, <2>4, <4>2 DEF Reprocess
      <4>. QED  BY <2>1, <4>1, <4>3 DEF Buried
    <3>2. CASE u = t
      <4>1. tx'[t].attempts = tx[t].attempts + 1
        BY <2>0, <2>4, <3>2 DEF Reprocess, Row
      <4>. QED  BY <2>0, <4>1 DEF Row
    <3>. QED  BY <3>1, <3>2
  <2>5. ASSUME NEW c \in Call, CancelWrite(c)
        PROVE  Buried(t)'
    <3>1. CASE CancelRow(call[c].tx)
      BY <2>0, <3>1, <2>1, <2>5 DEF CancelRow, Row, CancelWrite, Buried
    <3>2. CASE tx' = [tx EXCEPT ![call[c].tx].cancel = TRUE]
      BY <2>0, <3>2, <2>1, <2>5 DEF Row, CancelWrite, Buried
    <3>. QED  BY <2>5, <3>1, <3>2 DEF CancelWrite
  <2>6. ASSUME NEW c \in Call, NEW u \in Tx, CancelRead(c, u)
        PROVE  Buried(t)'
    BY <2>0, <2>1, <2>6 DEF CancelRead, Buried
  <2>7. CASE Crash
    <3>1. \A i \in Job : job'[i].pc \in {"free", "queued"}
      BY <2>0, <2>7, RestartedPc DEF Crash
    <3>. QED  BY <2>0, <2>1, <2>7, <3>1 DEF Crash, Buried
  <2>8. ASSUME NEW j \in Job, NEW k \in Job, Redeliver(j, k) \/ StreamStopped(j)
        PROVE  Buried(t)'
    <3>1. FreeJob.pc = "free"
      BY DEF FreeJob
    <3>2. \A i \in Job : job'[i] = job[i] \/ job'[i].pc \in {"free", "queued"}
      BY <2>0, <2>8, <3>1, RestartedPc DEF Redeliver, StreamStopped, Return
    <3>. QED  BY <2>0, <2>1, <2>8, <3>2 DEF Redeliver, StreamStopped, Buried
  <2>9. CASE UNCHANGED vars
    BY <2>0, <2>1, <2>9 DEF vars, Buried
  <2>. QED
    BY <1>1, <2>2, <2>3, <2>4, <2>5, <2>6, <2>7, <2>8, <2>9 DEF Next
<1>2. TypeOK /\ [Next]_vars =>
        [\A t \in Tx : Buried(t) =>
           Buried(t)' \/ (tx[t].attempts)' > tx[t].attempts]_vars
  BY <1>1
<1>. QED  BY <1>2, TypeCorrect, PTL DEF Spec, CancelledStaysCancelled

----------------------------------------------------------------------------
(* PublishedWasAccepted                                                    *)

(* A handler holding Salesforce's answer vouches for the acceptance, and   *)
(* only such a handler writes "published".                                 *)
Vouched ==
    /\ \A j \in Job : job[j].pc \in {"accepted", "mark"} => sent[job[j].tx] > 0
    /\ PublishedWasAccepted

(* A step takes a handler to "accepted" by an acceptance and to "mark"     *)
(* from "accepted", and writes "published" at one of the two.              *)
LEMMA StepVouches ==
    ASSUME TypeOK, NEW j \in Job, Step(j)
    PROVE  /\ \A t \in Tx : sent'[t] \in Nat /\ sent'[t] >= sent[t]
           /\ job'[j].pc \in {"accepted", "mark"} =>
                /\ job'[j].tx = job[j].tx /\ job[j].tx \in Tx
                /\ job[j].pc = "accepted" \/ sent'[job[j].tx] > 0
           /\ \A t \in Tx : tx'[t].status = "published" /\ tx[t].status # "published"
                => job[j].tx = t /\ job[j].pc \in {"accepted", "mark"}
<1>. DEFINE u == job[j].tx
            Fresh(t) == tx'[t].status = "published" /\ tx[t].status # "published"
<1>. USE DEF At, Starts, Await, Continue, history
<1>1. /\ job \in [Job -> JobRow] /\ job[j] \in JobRow /\ tx \in [Tx -> Row]
      /\ sent \in [Tx -> Nat]
  BY DEF TypeOK
<1>2. job[j].pc # "free" => u \in Tx
  BY DEF TypeOK, WellFormed
<1>3. \A t \in Tx : sent'[t] \in Nat /\ sent'[t] >= sent[t]
  <2>1. CASE Accept(j)
    BY <1>1, <1>2, <2>1 DEF Accept
  <2>2. CASE sent' = sent
    BY <1>1, <2>2
  <2>. QED
    BY <2>1, <2>2 DEF Step, MarkQueued, Send, InTake, InRefuse, InSkip, InBegin,
       InCancelled, InProcessed, InFail, InFinish, InRequeue, InForward,
       InFanPublish, PublishLast, InFanRecord, OutTake, OutNoOrg, OutOpen,
       OutReturn, OutPublished, OutAbort, PublishError, ManualReturn, Notify, Done
<1>4. CASE Accept(j)
  <2>1. sent'[u] = sent[u] + 1 /\ tx' = tx /\ job'[j].tx = u /\ u \in Tx
    BY <1>1, <1>2, <1>4, GotoEffect DEF Accept
  <2>. QED  BY <1>1, <1>3, <2>1
<1>5. CASE OutPublished(j) \/ ManualReturn(j)
  <2>1. /\ u \in Tx /\ job[j].pc \in {"accepted", "mark"} /\ job'[j].pc = "notify"
        /\ SetStatus(u, "published") \/ Store(u, "published", "output")
    BY <1>1, <1>2, <1>5, GotoEffect DEF OutPublished, ManualReturn
  <2>2. \A t \in Tx \ {u} : tx'[t] = tx[t]
    BY <1>1, <2>1, RowEffect
  <2>. QED  BY <1>3, <2>1, <2>2
<1>6. CASE OutReturn(j)
  <2>1. job[j].pc = "accepted" /\ u \in Tx /\ job'[j].tx = u
    BY <1>1, <1>2, <1>6, GotoEffect DEF OutReturn
  <2>2. \A t \in Tx : ~Fresh(t)
    BY <1>1, <1>6, <2>1, RowEffect DEF OutReturn
  <2>. QED  BY <1>3, <2>1, <2>2
<1>7. \A t \in Tx : Accept(j) \/ OutPublished(j) \/ ManualReturn(j) \/ OutReturn(j) \/ ~Fresh(t)
  <2>1. CASE InRefuse(j) \/ InFail(j) \/ OutNoOrg(j) \/ PublishError(j)
    <3>1. Fail(u) /\ u \in Tx
      BY <1>2, <2>1 DEF InRefuse, InFail, OutNoOrg, PublishError
    <3>. QED  BY <1>1, <3>1, RowEffect
  <2>2. CASE CancelRow(u) /\ u \in Tx
    BY <1>1, <2>2, RowEffect
  <2>3. CASE MarkQueued(j) \/ InBegin(j) \/ OutOpen(j) \/ InSkip(j) \/ InFinish(j)
    <3>1. /\ u \in Tx
          /\ \/ \E s \in {"queued", "processing", "publishing"} : SetStatus(u, s)
             \/ \E s \in {"skipped", "processed"}, r \in Result : Store(u, s, r)
      BY <1>2, <2>3 DEF MarkQueued, InBegin, OutOpen, InSkip, InFinish, Result
    <3>. QED  BY <1>1, <3>1, RowEffect
  <2>4. ASSUME NEW v \in Tx, InFanRecord(j, v)
        PROVE  \A t \in Tx : ~Fresh(t)
    <3>1. NewRow("queued", "publish").status = "queued"
      BY DEF NewRow, AbsentRow
    <3>. QED  BY <1>1, <2>4, <3>1 DEF InFanRecord
  <2>5. CASE UNCHANGED tx
    BY <2>5
  <2>. QED
    BY <1>2, <2>1, <2>2, <2>3, <2>4, <2>5 DEF Step, Send, InTake, InCancelled,
       InProcessed, InRequeue, InForward, InFanPublish, PublishLast, OutTake,
       OutAbort, Notify, Done
<1>8. \/ Accept(j) \/ OutPublished(j) \/ ManualReturn(j) \/ OutReturn(j)
      \/ job'[j].pc \notin {"accepted", "mark"}
  <2>1. CASE Return(j)
    BY <1>1, <2>1 DEF Return, FreeJob
  <2>2. CASE \E pc \in PC \ {"accepted", "mark"} : Goto(j, pc)
    BY <1>1, <2>2, GotoEffect
  <2>3. CASE InFinish(j)
    BY <1>1, <2>3, FinishEffect
  <2>4. ASSUME NEW k \in Job, InRequeue(j, k) \/ InForward(j, k) \/ InFanPublish(j, k)
        PROVE  job'[j].pc \notin {"accepted", "mark"}
    BY <1>1, <2>4, Handover, FanHandover DEF InRequeue, InForward
  <2>5. ASSUME NEW v \in Tx, InFanRecord(j, v)
        PROVE  job'[j].pc \notin {"accepted", "mark"}
    <3>1. job'[j] = [job[j] EXCEPT !.pc = "link", !.child = v]
      BY <1>1, <2>5 DEF InFanRecord
    <3>2. job'[j].pc = "link"
      BY <1>1, <3>1 DEF JobRow
    <3>. QED  BY <3>2
  <2>. QED
    BY <2>1, <2>2, <2>3, <2>4, <2>5 DEF Step, MarkQueued, Send, InTake, InRefuse,
       InSkip, InBegin, InCancelled, InProcessed, InFail, OutTake, OutNoOrg,
       OutOpen, OutAbort, PublishError, Notify, Done, PC
<1>. QED  BY <1>3, <1>4, <1>5, <1>6, <1>7, <1>8

LEMMA VouchedNext == TypeOK /\ Vouched /\ [Next]_vars => Vouched'
<1>. SUFFICES ASSUME TypeOK, Vouched, [Next]_vars
              PROVE  Vouched'
  OBVIOUS
<1>1. /\ job \in [Job -> JobRow] /\ tx \in [Tx -> Row] /\ sent \in [Tx -> Nat]
      /\ \A i \in Job : job[i].pc # "free" => job[i].tx \in Tx
  BY DEF TypeOK, WellFormed
<1>2. ASSUME sent' = sent,
             \A i \in Job : job'[i].pc \in {"accepted", "mark"} => job'[i] = job[i],
             \A t \in Tx : tx'[t].status = "published" => tx[t].status = "published"
      PROVE  Vouched'
  BY <1>2 DEF Vouched, PublishedWasAccepted
<1>3. ASSUME NEW j \in Job, Step(j)
      PROVE  Vouched'
  <2>1. ASSUME NEW i \in Job, job'[i].pc \in {"accepted", "mark"}
        PROVE  sent'[job'[i].tx] > 0
    <3>1. CASE i = j
      BY <1>1, <1>3, <2>1, <3>1, StepVouches DEF Vouched
    <3>2. CASE i # j
      <4>1. job[i].pc = "free" => job'[i].pc \in {"free", "queued"}
        BY <1>3, <3>2, StepFrees
      <4>2. job'[i] = job[i] /\ job[i].tx \in Tx
        BY <1>1, <1>3, <2>1, <3>2, <4>1, StepOthers
      <4>. QED  BY <1>1, <1>3, <2>1, <4>2, StepVouches DEF Vouched
    <3>. QED  BY <3>1, <3>2
  <2>2. ASSUME NEW t \in Tx, tx'[t].status = "published"
        PROVE  sent'[t] > 0
    BY <1>1, <1>3, <2>2, StepVouches DEF Vouched, PublishedWasAccepted
  <2>. QED  BY <2>1, <2>2 DEF Vouched, PublishedWasAccepted
<1>4. ASSUME NEW t \in Tx, NEW j \in Job,
             Receive(t, j) \/ PublishManual(t, j) \/ Reprocess(t, j)
      PROVE  Vouched'
  <2>1. \A pc, topic, body : NewJob(pc, topic, t, body, 0).pc = pc
    BY DEF NewJob, FreeJob
  <2>2. \A i \in Job : job'[i].pc \in {"accepted", "mark"} => job'[i] = job[i]
    BY <1>1, <1>4, <2>1 DEF Receive, PublishManual, Insert, Reprocess
  <2>3. sent' = sent
    BY <1>4 DEF Receive, PublishManual, Insert, Reprocess, history
  <2>4. tx'[t].status # "published" /\ \A u \in Tx \ {t} : tx'[u] = tx[u]
    <3>1. tx[t] \in Row
      BY <1>1
    <3>2. CASE Receive(t, j) \/ PublishManual(t, j)
      BY <1>1, <3>2 DEF Receive, PublishManual, Insert, NewRow, AbsentRow
    <3>3. CASE Reprocess(t, j)
      BY <1>1, <3>1, <3>3 DEF Reprocess, Row
    <3>. QED  BY <1>4, <3>2, <3>3
  <2>. QED  BY <1>2, <2>2, <2>3, <2>4
<1>5. ASSUME NEW c \in Call, CancelWrite(c)
      PROVE  Vouched'
  <2>1. job' = job /\ sent' = sent /\ call[c].tx \in Tx
    BY <1>5 DEF CancelWrite, TypeOK
  <2>2. \A t \in Tx : tx'[t].status \in {tx[t].status, "cancelled"}
    <3>1. CASE CancelRow(call[c].tx)
      BY <1>1, <2>1, <3>1, RowEffect
    <3>2. CASE tx' = [tx EXCEPT ![call[c].tx].cancel = TRUE]
      BY <1>1, <3>2 DEF Row
    <3>. QED  BY <1>5, <3>1, <3>2 DEF CancelWrite
  <2>. QED  BY <1>2, <2>1, <2>2
<1>6. ASSUME NEW c \in Call, NEW t \in Tx, CancelRead(c, t)
      PROVE  Vouched'
  BY <1>2, <1>6 DEF CancelRead, history
<1>7. CASE Crash
  <2>1. \A i \in Job : job'[i].pc \in {"free", "queued"}
    BY <1>1, <1>7, RestartedPc DEF Crash
  <2>. QED  BY <1>2, <1>7, <2>1 DEF Crash, history
<1>8. ASSUME NEW j \in Job, NEW k \in Job, StreamStopped(j) \/ Redeliver(j, k)
      PROVE  Vouched'
  <2>1. FreeJob.pc = "free"
    BY DEF FreeJob
  <2>2. \A i \in Job : job'[i] = job[i] \/ job'[i].pc \in {"free", "queued"}
    BY <1>1, <1>8, <2>1, RestartedPc DEF Redeliver, StreamStopped, Return
  <2>3. \A i \in Job : job'[i].pc \in {"accepted", "mark"} => job'[i] = job[i]
    BY <2>2
  <2>. QED  BY <1>2, <1>8, <2>3 DEF Redeliver, StreamStopped, history
<1>9. CASE UNCHANGED vars
  BY <1>2, <1>9 DEF vars
<1>. QED  BY <1>3, <1>4, <1>5, <1>6, <1>7, <1>8, <1>9 DEF Next

(* PublishedWasAccepted: a row says "published" only if Salesforce         *)
(* accepted the event at least once - with duplicate handlers, cancels,    *)
(* reprocessing and redelivery after crashes.                              *)
THEOREM PublishedIsTrue == Spec => []PublishedWasAccepted
<1>1. Init => Vouched
  BY DEF Init, Vouched, PublishedWasAccepted, FreeJob, AbsentRow
<1>2. Vouched => PublishedWasAccepted
  BY DEF Vouched
<1>. QED  BY <1>1, <1>2, VouchedNext, TypeCorrect, PTL DEF Spec
----------------------------------------------------------------------------
(* The shape of a handler: every step of every handler, at a glance.       *)

(* The program points one step leads from and to.                          *)
Edge ==
    {<<"receive", "enqueue">>, <<"enqueue", "queued">>, <<"send", "queued">>,
     <<"queued", "free">>, <<"queued", "gate">>, <<"queued", "begin">>,
     <<"gate", "free">>, <<"gate", "notify">>, <<"gate", "process">>,
     <<"begin", "notify">>, <<"begin", "process">>,
     <<"process", "free">>, <<"process", "finish">>, <<"process", "requeue">>,
     <<"process", "notify">>, <<"requeue", "ack">>,
     <<"finish", "notify">>, <<"finish", "forward">>, <<"finish", "fan">>,
     <<"forward", "ack">>, <<"fan", "link">>, <<"link", "fan">>, <<"link", "ack">>,
     <<"queued", "open">>, <<"open", "notify">>, <<"open", "call">>,
     <<"call", "accepted">>, <<"call", "notify">>,
     <<"accepted", "mark">>, <<"accepted", "notify">>, <<"mark", "notify">>,
     <<"notify", "dispatch">>, <<"dispatch", "free">>, <<"ack", "free">>}
(* Points from which a step puts a message in a free slot.                 *)
Publishing == {"requeue", "forward", "link"}
(* The transaction the message of such a point is for.                     *)
Onward(j) == IF job[j].pc = "link" THEN job[j].child ELSE job[j].tx

Sets(j, pc) == job'[j].pc = pc /\ (pc # "free" => job'[j].tx = job[j].tx)
OthersStay(j) == \A i \in Job \ {j} : job'[i] = job[i]

LEMMA GotoSets ==
    ASSUME job \in [Job -> JobRow], NEW j \in Job
    PROVE  /\ \A pc : Goto(j, pc) => Sets(j, pc) /\ OthersStay(j)
           /\ Return(j) => Sets(j, "free") /\ OthersStay(j)
  BY GotoEffect DEF Sets, OthersStay, Return, FreeJob

(* A step follows an edge, keeps the transaction, and leaves every other   *)
(* job alone but the free slot it fills.                                   *)
LEMMA StepShape ==
    ASSUME TypeOK, NEW j \in Job, Step(j)
    PROVE  /\ <<job[j].pc, job'[j].pc>> \in Edge
           /\ job'[j].pc # "free" => job'[j].tx = job[j].tx
           /\ job[j].pc \notin Publishing => OthersStay(j)
           /\ job[j].pc \in Publishing =>
                \E k \in Job \ {j} :
                   /\ job[k].pc = "free" /\ job'[k].pc = "queued"
                   /\ job'[k].tx = Onward(j)
                   /\ \A i \in Job \ {j, k} : job'[i] = job[i]
<1>. DEFINE Simple(pc) == /\ <<job[j].pc, pc>> \in Edge
                          /\ job[j].pc \notin Publishing
                          /\ Sets(j, pc) /\ OthersStay(j)
<1>. USE DEF At, Starts, Await, Continue
<1>1. job \in [Job -> JobRow] /\ job[j] \in JobRow
  BY DEF TypeOK
<1>2. \A topic, u, body, retry :
         /\ NewJob("queued", topic, u, body, retry).pc = "queued"
         /\ NewJob("queued", topic, u, body, retry).tx = u
  BY DEF NewJob, FreeJob
<1>. USE GotoSets
<1>3. CASE MarkQueued(j)
  <2>. Simple("enqueue")
    BY <1>1, <1>3 DEF MarkQueued, Edge, Publishing
  <2>. QED  BY DEF Sets
<1>4. CASE Send(j)
  <2>. Simple("queued")
    BY <1>1, <1>4 DEF Send, Edge, Publishing
  <2>. QED  BY DEF Sets
<1>5. CASE InTake(j)
  <2>. \E pc \in {"free", "gate", "begin"} : Simple(pc)
    BY <1>1, <1>5 DEF InTake, Edge, Publishing
  <2>. QED  BY DEF Sets
<1>6. CASE InRefuse(j)
  <2>. Simple("notify")
    BY <1>1, <1>6 DEF InRefuse, Edge, Publishing
  <2>. QED  BY DEF Sets
<1>7. CASE InSkip(j) \/ InCancelled(j) \/ Done(j)
  <2>. Simple("free")
    BY <1>1, <1>7 DEF InSkip, InCancelled, Done, Edge, Publishing
  <2>. QED  BY DEF Sets
<1>8. CASE InBegin(j)
  <2>. Simple("process")
    BY <1>1, <1>8 DEF InBegin, Edge, Publishing
  <2>. QED  BY DEF Sets
<1>9. CASE InProcessed(j)
  <2>. Simple("finish")
    BY <1>1, <1>9 DEF InProcessed, Edge, Publishing
  <2>. QED  BY DEF Sets
<1>10. CASE InFail(j)
  <2>. \E pc \in {"requeue", "notify"} : Simple(pc)
    BY <1>1, <1>10 DEF InFail, Edge, Publishing
  <2>. QED  BY DEF Sets
<1>11. CASE InFinish(j)
  <2>1. job[j].pc = "finish" /\ job'[j].pc \in {"notify", "forward", "fan"} /\ OthersStay(j)
    BY <1>1, <1>11, FinishEffect DEF InFinish, OthersStay
  <2>2. job'[j].tx = job[j].tx
    <3>1. ASSUME NEW n \in 1..MaxFan,
                 job' = [job EXCEPT ![j] = [@ EXCEPT !.pc = "fan", !.left = n]]
          PROVE  job'[j].tx = job[j].tx
      <4>1. job'[j] = [job[j] EXCEPT !.pc = "fan", !.left = n]
        BY <1>1, <3>1
      <4>. QED  BY <1>1, <4>1 DEF JobRow
    <3>2. ASSUME NEW pc \in {"notify", "forward"}, Goto(j, pc)
          PROVE  job'[j].tx = job[j].tx
      BY <1>1, <3>2 DEF Sets
    <3>. QED  BY <1>11, <3>1, <3>2 DEF InFinish
  <2>. QED  BY <2>1, <2>2 DEF Edge, Publishing
<1>12. CASE OutTake(j)
  <2>. \E pc \in {"free", "open"} : Simple(pc)
    BY <1>1, <1>12 DEF OutTake, Edge, Publishing
  <2>. QED  BY DEF Sets
<1>13. CASE OutNoOrg(j) \/ OutPublished(j) \/ OutAbort(j) \/ PublishError(j)
            \/ ManualReturn(j)
  <2>. Simple("notify")
    BY <1>1, <1>13 DEF OutNoOrg, OutPublished, OutAbort, PublishError, ManualReturn,
       Edge, Publishing
  <2>. QED  BY DEF Sets
<1>14. CASE OutOpen(j)
  <2>. Simple("call")
    BY <1>1, <1>14 DEF OutOpen, Edge, Publishing
  <2>. QED  BY DEF Sets
<1>15. CASE Accept(j)
  <2>. Simple("accepted")
    BY <1>1, <1>15 DEF Accept, Edge, Publishing
  <2>. QED  BY DEF Sets
<1>16. CASE OutReturn(j)
  <2>. \E pc \in {"mark", "notify"} : Simple(pc)
    BY <1>1, <1>16 DEF OutReturn, Edge, Publishing
  <2>. QED  BY DEF Sets
<1>17. CASE Notify(j)
  <2>. Simple("dispatch")
    BY <1>1, <1>17 DEF Notify, Edge, Publishing
  <2>. QED  BY DEF Sets
<1>18. ASSUME NEW v \in Tx, InFanRecord(j, v)
       PROVE  job[j].pc = "fan" /\ Sets(j, "link") /\ OthersStay(j)
  <2>1. job'[j] = [job[j] EXCEPT !.pc = "link", !.child = v]
    BY <1>1, <1>18 DEF InFanRecord
  <2>2. job'[j].pc = "link" /\ job'[j].tx = job[j].tx
    BY <1>1, <2>1 DEF JobRow
  <2>. QED  BY <1>1, <1>18, <2>2 DEF InFanRecord, Sets, OthersStay
<1>19. ASSUME NEW k \in Job, InRequeue(j, k) \/ InForward(j, k)
       PROVE  /\ job[j].pc \in {"requeue", "forward"} /\ Sets(j, "ack")
              /\ k # j /\ job[k].pc = "free" /\ job'[k].pc = "queued"
              /\ job'[k].tx = job[j].tx /\ \A i \in Job \ {j, k} : job'[i] = job[i]
  BY <1>1, <1>2, <1>19, Handover DEF InRequeue, InForward, Sets
<1>20. ASSUME NEW k \in Job, InFanPublish(j, k)
       PROVE  /\ job[j].pc = "link" /\ job'[j].pc \in {"ack", "fan"}
              /\ job'[j].tx = job[j].tx
              /\ k # j /\ job[k].pc = "free" /\ job'[k].pc = "queued"
              /\ job'[k].tx = job[j].child /\ \A i \in Job \ {j, k} : job'[i] = job[i]
  <2>1. job[j].pc = "link"
    BY <1>20 DEF InFanPublish
  <2>. QED  BY <1>1, <1>2, <1>20, <2>1, FanHandover
<1>21. CASE \E v \in Tx : InFanRecord(j, v)
  <2>1. job[j].pc = "fan" /\ Sets(j, "link") /\ OthersStay(j)
    BY <1>18, <1>21
  <2>. QED  BY <2>1 DEF Edge, Publishing, Sets
<1>22. CASE \E k \in Job : InRequeue(j, k) \/ InForward(j, k)
  <2>1. PICK k \in Job : InRequeue(j, k) \/ InForward(j, k)
    BY <1>22
  <2>. QED  BY <1>19, <2>1 DEF Edge, Publishing, Sets, Onward
<1>23. CASE \E k \in Job : InFanPublish(j, k)
  <2>1. PICK k \in Job : InFanPublish(j, k)
    BY <1>23
  <2>. QED  BY <1>20, <2>1 DEF Edge, Publishing, Onward
<1>. QED
  BY <1>3, <1>4, <1>5, <1>6, <1>7, <1>8, <1>9, <1>10, <1>11, <1>12, <1>13, <1>14,
     <1>15, <1>16, <1>17, <1>21, <1>22, <1>23 DEF Step
(* What integrations and alerts may be told.                               *)
AtRest == {"processed", "published", "failed", "cancelled"}
(* Points of a handler that will still tell, or hand on to one that will.  *)
Answering == {"send", "queued", "gate", "begin", "process", "finish", "requeue",
              "open", "call", "accepted", "mark", "notify"}

(* What a step writes, seen from the program point it reaches: an outcome  *)
(* is stored in the stretch that goes on to report it; "failed" is stored  *)
(* only on the way to a report or a retry; the exits that report nothing   *)
(* leave another status; only the report tells; only Salesforce's          *)
(* acceptance counts as sent, and it alone needs no loop.                  *)
LEMMA StepReport ==
    ASSUME TypeOK, NEW j \in Job, Step(j)
    PROVE  LET u == job[j].tx
           IN  /\ u \in Tx
               /\ job'[j].pc = "notify" => loop' = j /\ tx'[u].status \in AtRest
               /\ job[j].pc \in Answering /\ job'[j].pc \in {"free", "forward", "fan"}
                    => tx'[u].status # "failed"
               /\ \A t \in Tx : tx'[t].status = "failed" /\ tx[t].status # "failed"
                    => t = u /\ job'[j].pc \in {"notify", "requeue"}
               /\ IF job[j].pc = "notify"
                    THEN /\ tx' = tx
                         /\ told' = [told EXCEPT ![u] = @ \cup
                              {[status |-> tx[u].status, error |-> tx[u].error]}]
                    ELSE told' = told
               /\ IF job[j].pc = "call" /\ job'[j].pc = "accepted"
                    THEN sent' = [sent EXCEPT ![u] = @ + 1] /\ UNCHANGED <<tx, loop>>
                    ELSE sent' = sent /\ loop \in {None, j}
<1>. DEFINE u == job[j].tx
            Same == \A t \in Tx : tx'[t].status = "failed" => tx[t].status = "failed"
            Quiet == told' = told /\ sent' = sent /\ loop \in {None, j}
            To(pc) == job'[j].pc = pc
            Goal == /\ To("notify") => loop' = j /\ tx'[u].status \in AtRest
                    /\ job[j].pc \in Answering /\ job'[j].pc \in {"free", "forward", "fan"}
                         => tx'[u].status # "failed"
                    /\ \A t \in Tx : tx'[t].status = "failed" /\ tx[t].status # "failed"
                         => t = u /\ job'[j].pc \in {"notify", "requeue"}
                    /\ job[j].pc # "notify" /\ ~(job[j].pc = "call" /\ To("accepted")) /\ Quiet
<1>. USE DEF At, Starts, Await, Continue, history, AtRest
<1>1. /\ job \in [Job -> JobRow] /\ job[j] \in JobRow /\ tx \in [Tx -> Row]
      /\ FreeJob.pc = "free"
  BY DEF TypeOK, FreeJob
<1>2. job[j].pc # "free" /\ u \in Tx
  BY StepShape DEF Edge, TypeOK, WellFormed
<1>3. CASE MarkQueued(j)
  <2>1. SetStatus(u, "queued") /\ job[j].pc = "receive" /\ To("enqueue") /\ Quiet
    BY <1>1, <1>3, GotoEffect DEF MarkQueued
  <2>2. tx'[u].status = "queued" /\ Same
    BY <1>1, <1>2, <2>1, RowEffect
  <2>. QED  BY <1>2, <2>1, <2>2
<1>4. CASE Send(j) \/ InTake(j) \/ InProcessed(j) \/ Done(j)
  <2>1. /\ tx' = tx /\ Quiet
        /\ job'[j].pc \in {"queued", "gate", "begin", "finish", "free"}
        /\ job[j].pc \in {"enqueue", "send", "queued", "process", "dispatch", "ack"}
        /\ job[j].pc \in Answering /\ To("free") => tx[u].status = "cancelled"
    BY <1>1, <1>4, GotoEffect DEF Send, InTake, InProcessed, Done, Return, Answering
  <2>. QED  BY <1>2, <2>1
<1>5. CASE InRefuse(j) \/ InFail(j) \/ OutNoOrg(j) \/ PublishError(j)
  <2>1. /\ Fail(u) /\ Quiet /\ job'[j].pc \in {"notify", "requeue"}
        /\ To("notify") => loop' = j
        /\ job[j].pc \in {"gate", "begin", "process", "open", "call", "accepted"}
    BY <1>1, <1>5, GotoEffect DEF InRefuse, InFail, OutNoOrg, PublishError
  <2>. QED  BY <1>1, <1>2, <2>1, RowEffect
<1>6. CASE InSkip(j)
  <2>1. Store(u, "skipped", "gate") /\ Quiet /\ To("free") /\ job[j].pc = "gate"
    BY <1>1, <1>6 DEF InSkip, Return
  <2>2. tx'[u].status = "skipped" /\ Same
    BY <1>1, <1>2, <2>1, RowEffect
  <2>. QED  BY <1>2, <2>1, <2>2
<1>7. CASE InBegin(j)
  <2>1. SetStatus(u, "processing") /\ Quiet /\ To("process") /\ job[j].pc \in {"begin", "gate"}
    BY <1>1, <1>7, GotoEffect DEF InBegin
  <2>2. tx'[u].status = "processing" /\ Same
    BY <1>1, <1>2, <2>1, RowEffect
  <2>. QED  BY <1>2, <2>1, <2>2
<1>8. CASE InCancelled(j) \/ OutAbort(j)
  <2>1. /\ CancelRow(u) /\ Quiet /\ job'[j].pc \in {"free", "notify"}
        /\ job[j].pc \in {"process", "call", "accepted"}
        /\ To("notify") => loop' = j
    BY <1>1, <1>8, GotoEffect DEF InCancelled, OutAbort, Return
  <2>2. tx'[u].status = "cancelled" /\ Same
    BY <1>1, <1>2, <2>1, RowEffect
  <2>. QED  BY <1>2, <2>1, <2>2
<1>9. CASE InFinish(j)
  <2>1. Store(u, "processed", "output") /\ Quiet /\ job[j].pc = "finish"
        /\ job'[j].pc \in {"notify", "forward", "fan"}
    BY <1>1, <1>9, FinishEffect DEF InFinish
  <2>2. tx'[u].status = "processed" /\ Same
    BY <1>1, <1>2, <2>1, RowEffect
  <2>3. To("notify") => loop' = j
    <3>1. Goto(j, "forward") => ~To("notify")
      BY <1>1, GotoEffect
    <3>2. ASSUME NEW n \in 1..MaxFan,
                 job' = [job EXCEPT ![j] = [@ EXCEPT !.pc = "fan", !.left = n]]
          PROVE  ~To("notify")
      <4>1. job'[j] = [job[j] EXCEPT !.pc = "fan", !.left = n]
        BY <1>1, <3>2
      <4>. QED  BY <1>1, <4>1 DEF JobRow
    <3>. QED  BY <1>9, <3>1, <3>2 DEF InFinish
  <2>. QED  BY <1>2, <2>1, <2>2, <2>3
<1>10. CASE OutTake(j)
  <2>1. CASE CancelRow(u) /\ Return(j)
    <3>1. Quiet /\ To("free") /\ job[j].pc = "queued"
      BY <1>1, <1>10, <2>1 DEF OutTake, Return
    <3>2. tx'[u].status = "cancelled" /\ Same
      BY <1>1, <1>2, <2>1, RowEffect
    <3>. QED  BY <1>2, <3>1, <3>2
  <2>2. CASE Goto(j, "open") /\ tx' = tx
    <3>1. Quiet /\ To("open") /\ job[j].pc = "queued"
      BY <1>1, <1>10, <2>2, GotoEffect DEF OutTake
    <3>. QED  BY <1>2, <2>2, <3>1
  <2>. QED  BY <1>10, <2>1, <2>2 DEF OutTake
<1>11. CASE OutOpen(j)
  <2>1. SetStatus(u, "publishing") /\ Quiet /\ To("call") /\ job[j].pc = "open"
    BY <1>1, <1>11, GotoEffect DEF OutOpen
  <2>2. tx'[u].status = "publishing" /\ Same
    BY <1>1, <1>2, <2>1, RowEffect
  <2>. QED  BY <1>2, <2>1, <2>2
<1>12. CASE OutReturn(j)
  <2>1. CASE CancelRow(u) /\ Continue(j, "notify")
    <3>1. Quiet /\ To("notify") /\ job[j].pc = "accepted" /\ loop' = j
      BY <1>1, <1>12, <2>1, GotoEffect DEF OutReturn
    <3>2. tx'[u].status = "cancelled" /\ Same
      BY <1>1, <1>2, <2>1, RowEffect
    <3>. QED  BY <1>2, <3>1, <3>2
  <2>2. CASE Goto(j, "mark") /\ tx' = tx
    <3>1. Quiet /\ To("mark") /\ job[j].pc = "accepted"
      BY <1>1, <1>12, <2>2, GotoEffect DEF OutReturn
    <3>. QED  BY <1>2, <2>2, <3>1
  <2>. QED  BY <1>12, <2>1, <2>2 DEF OutReturn
<1>13. CASE OutPublished(j) \/ ManualReturn(j)
  <2>1. /\ SetStatus(u, "published") \/ Store(u, "published", "output")
        /\ Quiet /\ To("notify") /\ loop' = j /\ job[j].pc \in {"mark", "accepted"}
    BY <1>1, <1>13, GotoEffect DEF OutPublished, ManualReturn
  <2>2. tx'[u].status = "published" /\ Same
    BY <1>1, <1>2, <2>1, RowEffect
  <2>. QED  BY <1>2, <2>1, <2>2
<1>14. ASSUME NEW k \in Job, InRequeue(j, k) \/ InForward(j, k) \/ InFanPublish(j, k)
       PROVE  Goal
  <2>1. /\ tx' = tx /\ Quiet /\ job[j].pc \in Publishing
        /\ job[j].pc = "requeue" => job'[j].pc = "ack"
    BY <1>1, <1>14, Handover DEF InRequeue, InForward, InFanPublish, PublishLast, Publishing
  <2>2. job'[j].pc \in {"ack", "fan"} /\ (job[j].pc = "link" \/ To("ack"))
    BY <1>14, <2>1, StepShape DEF Edge, Publishing
  <2>. QED  BY <1>2, <2>1, <2>2 DEF Publishing, Answering
<1>15. ASSUME NEW v \in Tx, InFanRecord(j, v)
       PROVE  Goal
  <2>1. Quiet /\ job[j].pc = "fan" /\ tx' = [tx EXCEPT ![v] = NewRow("queued", "publish")]
    BY <1>15 DEF InFanRecord
  <2>2. To("link")
    BY <2>1, StepShape DEF Edge
  <2>3. NewRow("queued", "publish").status = "queued"
    BY DEF NewRow, AbsentRow
  <2>4. Same
    BY <1>1, <2>1, <2>3
  <2>. QED  BY <1>2, <2>1, <2>2, <2>4
<1>16. CASE Notify(j)
  <2>1. /\ job[j].pc = "notify" /\ tx' = tx /\ To("dispatch") /\ sent' = sent
        /\ loop \in {None, j}
        /\ told' = [told EXCEPT ![u] = @ \cup
                      {[status |-> tx[u].status, error |-> tx[u].error]}]
    BY <1>1, <1>16, GotoEffect DEF Notify
  <2>. QED  BY <1>2, <2>1
<1>17. CASE Accept(j)
  <2>1. /\ job[j].pc = "call" /\ To("accepted") /\ told' = told
        /\ sent' = [sent EXCEPT ![u] = @ + 1] /\ UNCHANGED <<tx, loop>>
    BY <1>1, <1>17, GotoEffect DEF Accept
  <2>. QED  BY <1>2, <2>1
<1>. QED
  BY <1>2, <1>3, <1>4, <1>5, <1>6, <1>7, <1>8, <1>9, <1>10, <1>11, <1>12, <1>13,
     <1>14, <1>15, <1>16, <1>17 DEF Step
(* An arrival or a reprocess request gives its transaction one new message *)
(* or handler and touches nothing else.                                    *)
LEMMA ArrivalShape ==
    ASSUME TypeOK, NEW t \in Tx, NEW j \in Job,
           Receive(t, j) \/ PublishManual(t, j) \/ Reprocess(t, j)
    PROVE  /\ loop = None /\ UNCHANGED <<call, crashes, history>>
           /\ job[j].pc = "free" /\ OthersStay(j)
           /\ job'[j].tx = t
           /\ job'[j].pc = IF Receive(t, j) THEN "receive"
                           ELSE IF Reprocess(t, j) THEN "send" ELSE "call"
           /\ tx'[t].status \in {"received", "publishing", "queued"}
           /\ \A u \in Tx \ {t} : tx'[u] = tx[u]
           /\ IF tx[t].status = "absent" THEN tx'[t].attempts = 0
              ELSE tx'[t].attempts = tx[t].attempts + 1
<1>1. job \in [Job -> JobRow] /\ tx \in [Tx -> Row] /\ tx[t] \in Row
  BY DEF TypeOK
<1>2. \A pc, topic, body : /\ NewJob(pc, topic, t, body, 0).pc = pc
                          /\ NewJob(pc, topic, t, body, 0).tx = t
  BY DEF NewJob, FreeJob
<1>3. \A s, d : NewRow(s, d).status = s /\ NewRow(s, d).attempts = 0
  BY DEF NewRow, AbsentRow
<1>4. CASE Receive(t, j)
  <2>1. /\ loop = None /\ UNCHANGED <<call, crashes, history>>
        /\ tx[t].status = "absent" /\ job[j].pc = "free"
        /\ tx' = [tx EXCEPT ![t] = NewRow("received", "subscribe")]
        /\ job' = [job EXCEPT ![j] = NewJob("receive", "inbound", t, "payload", 0)]
    BY <1>4 DEF Receive, Insert
  <2>2. /\ job'[j].pc = "receive" /\ job'[j].tx = t /\ OthersStay(j)
        /\ tx'[t].status = "received" /\ tx'[t].attempts = 0
        /\ \A u \in Tx \ {t} : tx'[u] = tx[u]
    BY <1>1, <1>2, <1>3, <2>1 DEF OthersStay
  <2>. QED  BY <1>4, <2>1, <2>2
<1>5. CASE PublishManual(t, j)
  <2>1. /\ loop = None /\ UNCHANGED <<call, crashes, history>>
        /\ tx[t].status = "absent" /\ job[j].pc = "free"
        /\ tx' = [tx EXCEPT ![t] = NewRow("publishing", "publish")]
        /\ job' = [job EXCEPT ![j] = NewJob("call", "manual", t, "payload", 0)]
    BY <1>5 DEF PublishManual, Insert
  <2>2. job'[j].pc = "call"
    BY <1>1, <1>2, <2>1
  <2>3. ~Receive(t, j) /\ ~Reprocess(t, j)
    <3>1. Receive(t, j) => job'[j].pc = "receive"
      BY <1>1, <1>2 DEF Receive, Insert
    <3>2. Reprocess(t, j) => job'[j].pc = "send"
      BY <1>1, <1>2 DEF Reprocess
    <3>. QED  BY <2>2, <3>1, <3>2
  <2>4. /\ job'[j].tx = t /\ OthersStay(j)
        /\ tx'[t].status = "publishing" /\ tx'[t].attempts = 0
        /\ \A u \in Tx \ {t} : tx'[u] = tx[u]
    BY <1>1, <1>2, <1>3, <2>1 DEF OthersStay
  <2>. QED  BY <2>1, <2>2, <2>3, <2>4
<1>6. CASE Reprocess(t, j)
  <2>1. /\ loop = None /\ UNCHANGED <<call, crashes, history>>
        /\ tx[t].status # "absent" /\ job[j].pc = "free"
        /\ \E s \in {"publishing", "queued"} :
             tx' = [tx EXCEPT ![t] = [@ EXCEPT !.status = s, !.error = FALSE,
                                               !.attempts = tx[t].attempts + 1]]
        /\ \E topic, body : job' = [job EXCEPT ![j] = NewJob("send", topic, t, body, 0)]
    BY <1>6 DEF Reprocess
  <2>2. /\ tx'[t].status \in {"publishing", "queued"}
        /\ tx'[t].attempts = tx[t].attempts + 1
        /\ \A u \in Tx \ {t} : tx'[u] = tx[u]
    BY <1>1, <2>1 DEF Row
  <2>3. job'[j].tx = t /\ job'[j].pc = "send" /\ OthersStay(j)
    BY <1>1, <1>2, <2>1 DEF OthersStay
  <2>4. ~Receive(t, j)
    BY <2>1 DEF Receive, Insert
  <2>. QED  BY <1>6, <2>1, <2>2, <2>3, <2>4
<1>. QED  BY <1>4, <1>5, <1>6

(* A cancel request changes at most the status, to "cancelled", and the    *)
(* flag of one existing row.                                               *)
LEMMA CancelShape ==
    ASSUME TypeOK, Known, NEW c \in Call, CancelWrite(c)
    PROVE  /\ UNCHANGED <<job, loop, crashes, sent, told>>
           /\ \A t \in Tx : /\ \/ tx'[t].status = tx[t].status
                               \/ tx[t].status # "absent" /\ tx'[t].status = "cancelled"
                            /\ tx'[t].attempts = tx[t].attempts
<1>1. /\ tx \in [Tx -> Row] /\ call[c].tx \in Tx /\ tx[call[c].tx].status # "absent"
      /\ UNCHANGED <<job, loop, crashes, sent, told>>
  BY DEF CancelWrite, TypeOK, Known
<1>2. PICK u \in Tx : /\ tx[u].status # "absent"
                      /\ CancelRow(u) \/ tx' = [tx EXCEPT ![u].cancel = TRUE]
  BY <1>1 DEF CancelWrite
<1>3. CASE CancelRow(u)
  <2>1. tx'[u].status = "cancelled" /\ \A t \in Tx \ {u} : tx'[t] = tx[t]
    BY <1>1, <1>3, RowEffect
  <2>2. tx'[u] = [tx[u] EXCEPT !.status = "cancelled", !.error = TRUE]
    BY <1>1, <1>3 DEF CancelRow
  <2>3. tx'[u].attempts = tx[u].attempts
    BY <1>1, <2>2 DEF Row
  <2>4. tx[u].status # "absent"
    BY <1>2
  <2>. QED  BY <1>1, <2>1, <2>3, <2>4
<1>4. CASE tx' = [tx EXCEPT ![u].cancel = TRUE]
  BY <1>1, <1>4 DEF Row
<1>. QED  BY <1>2, <1>3, <1>4

----------------------------------------------------------------------------
(* ToldAtRest                                                              *)

(* A handler about to report holds the loop, so the outcome it stored is   *)
(* the one it reads back: no other handler runs, and the thread pool can   *)
(* only turn it into "cancelled".                                          *)
Reporting ==
    /\ \A j \in Job : job[j].pc = "notify" =>
         loop = j /\ tx[job[j].tx].status \in AtRest
    /\ ToldAtRest

LEMMA ReportingNext == TypeOK /\ Known /\ Reporting /\ [Next]_vars => Reporting'
<1>. SUFFICES ASSUME TypeOK, Known, Reporting, [Next]_vars
              PROVE  Reporting'
  OBVIOUS
<1>1. /\ job \in [Job -> JobRow] /\ tx \in [Tx -> Row]
      /\ told \in [Tx -> SUBSET [status: Status, error: BOOLEAN]]
      /\ \A i \in Job : job[i].pc # "free" => job[i].tx \in Tx
      /\ None \notin Job
  BY ConstantsAssumption DEF TypeOK, WellFormed
<1>2. ASSUME NEW j \in Job, Step(j)
      PROVE  Reporting'
  <2>1. ASSUME NEW i \in Job, job'[i].pc = "notify"
        PROVE  loop' = i /\ tx'[job'[i].tx].status \in AtRest
    <3>1. CASE i = j
      <4>1. job'[j].tx = job[j].tx
        BY <1>2, <2>1, <3>1, StepShape
      <4>. QED  BY <1>2, <2>1, <3>1, <4>1, StepReport
    <3>2. CASE i # j
      <4>1. job'[i] = job[i] /\ job[i].pc = "notify"
        BY <1>2, <2>1, <3>2, StepOthers, StepFrees
      <4>2. loop = i /\ tx[job[i].tx].status \in AtRest
        BY <4>1 DEF Reporting
      <4>3. UNCHANGED <<tx, loop>>
        BY <1>1, <1>2, <3>2, <4>2, StepReport
      <4>. QED  BY <4>1, <4>2, <4>3
    <3>. QED  BY <3>1, <3>2
  <2>2. ASSUME NEW t \in Tx, NEW o \in told'[t]
        PROVE  o.status \in AtRest
    <3>1. CASE job[j].pc = "notify"
      <4>. DEFINE u == job[j].tx
                  r == [status |-> tx[u].status, error |-> tx[u].error]
      <4>1. u \in Tx /\ told' = [told EXCEPT ![u] = @ \cup {r}]
        BY <1>2, <3>1, StepReport
      <4>2. r.status \in AtRest
        BY <3>1 DEF Reporting
      <4>3. o \in told[t] \/ o = r
        BY <1>1, <2>2, <4>1
      <4>. QED  BY <4>2, <4>3 DEF Reporting, ToldAtRest, AtRest
    <3>2. CASE job[j].pc # "notify"
      BY <1>2, <2>2, <3>2, StepReport DEF Reporting, ToldAtRest, AtRest
    <3>. QED  BY <3>1, <3>2
  <2>. QED  BY <2>1, <2>2 DEF Reporting, ToldAtRest, AtRest
<1>3. ASSUME NEW t \in Tx, NEW j \in Job,
             Receive(t, j) \/ PublishManual(t, j) \/ Reprocess(t, j)
      PROVE  Reporting'
  <2>1. /\ loop = None /\ told' = told /\ job[j].pc = "free" /\ OthersStay(j)
        /\ job'[j].pc \in {"receive", "send", "call"}
    BY <1>3, ArrivalShape DEF history
  <2>2. \A i \in Job : job[i].pc # "notify"
    BY <1>1, <2>1 DEF Reporting
  <2>. QED  BY <2>1, <2>2 DEF Reporting, ToldAtRest, OthersStay
<1>4. ASSUME NEW c \in Call, CancelWrite(c)
      PROVE  Reporting'
  <2>1. \A t \in Tx : tx[t].status \in AtRest => tx'[t].status \in AtRest
    BY <1>4, CancelShape DEF AtRest
  <2>. QED  BY <1>1, <1>4, <2>1, CancelShape DEF Reporting, ToldAtRest
<1>5. ASSUME NEW c \in Call, NEW t \in Tx, CancelRead(c, t)
      PROVE  Reporting'
  BY <1>5 DEF CancelRead, history, Reporting, ToldAtRest
<1>6. CASE Crash
  <2>1. \A i \in Job : job'[i].pc \in {"free", "queued"}
    BY <1>1, <1>6, RestartedPc DEF Crash
  <2>. QED  BY <1>6, <2>1 DEF Crash, history, Reporting, ToldAtRest
<1>7. ASSUME NEW j \in Job, NEW k \in Job, StreamStopped(j) \/ Redeliver(j, k)
      PROVE  Reporting'
  <2>1. \A i \in Job : job'[i] = job[i] \/ job'[i].pc \in {"free", "queued"}
    BY <1>1, <1>7, RestartedPc DEF Redeliver, StreamStopped, Return, FreeJob
  <2>2. UNCHANGED <<tx, told>> /\ (loop' = loop \/ loop = None)
    BY <1>7 DEF Redeliver, StreamStopped, history
  <2>3. loop' = loop \/ \A i \in Job : job[i].pc # "notify"
    BY <1>1, <2>2 DEF Reporting
  <2>4. \A i \in Job : job'[i].pc = "notify" => job'[i] = job[i]
    BY <2>1
  <2>. QED  BY <2>2, <2>3, <2>4 DEF Reporting, ToldAtRest
<1>8. CASE UNCHANGED vars
  BY <1>8 DEF vars, Reporting, ToldAtRest
<1>. QED  BY <1>2, <1>3, <1>4, <1>5, <1>6, <1>7, <1>8 DEF Next

(* ToldAtRest: integrations and alerts are never handed a transaction in a *)
(* running status, whatever duplicate handlers, cancels and reprocess      *)
(* requests do to its row while one of its handlers is about to report.    *)
THEOREM ReportsAreFinal == Spec => []ToldAtRest
<1>1. Init => Reporting
  BY DEF Init, Reporting, ToldAtRest, FreeJob
<1>2. Reporting => ToldAtRest
  BY DEF Reporting
<1>3. Spec => []Known
  BY KnownInit, KnownNext, TypeCorrect, PTL DEF Spec
<1>. QED  BY <1>1, <1>2, <1>3, ReportingNext, TypeCorrect, PTL DEF Spec

----------------------------------------------------------------------------
(* FailureIsReported                                                       *)

Reported(t) == \E o \in told[t] : o.status = "failed"
Answers(j, t) == job[j].tx = t /\ job[j].pc \in Answering

(* Until the first crash a failed transaction has been reported as failed, *)
(* or has a handler or message that cannot end without a report of its own *)
(* or another status.  Messages that a stopped stream may drop and events  *)
(* already handed on to other transactions do not count.                   *)
Answered ==
    crashes = 0 => \A t \in Tx : tx[t].status = "failed" =>
                     Reported(t) \/ \E j \in Job : Answers(j, t)

LEMMA AnsweredNext == TypeOK /\ Known /\ Answered /\ [Next]_vars => Answered'
<1>. SUFFICES ASSUME TypeOK, Known, Answered, [Next]_vars, crashes' = 0,
                     NEW t \in Tx, tx'[t].status = "failed"
              PROVE  Reported(t)' \/ \E j \in Job : Answers(j, t)'
  BY DEF Answered
<1>1. /\ job \in [Job -> JobRow] /\ tx \in [Tx -> Row] /\ crashes \in Nat
      /\ told \in [Tx -> SUBSET [status: Status, error: BOOLEAN]]
  BY DEF TypeOK
<1>. DEFINE Goal == Reported(t)' \/ \E j \in Job : Answers(j, t)'
<1>2. ASSUME tx[t].status = "failed", crashes = 0, told' = told,
             \A i \in Job : Answers(i, t) => Answers(i, t)'
      PROVE  Goal
  BY <1>2 DEF Answered, Reported
<1>3. ASSUME NEW j \in Job, Step(j)
      PROVE  Goal
  <2>. DEFINE u == job[j].tx
  <2>1. crashes = 0
    BY <1>3, StepFrame
  <2>2. CASE tx[t].status # "failed"
    <3>1. t = u /\ job'[j].pc \in {"notify", "requeue"}
      BY <1>3, <2>2, StepReport
    <3>2. job'[j].tx = t
      BY <1>3, <3>1, StepShape
    <3>. QED  BY <3>1, <3>2 DEF Answers, Answering
  <2>3. CASE tx[t].status = "failed" /\ Reported(t)
    <3>1. told[t] \subseteq told'[t]
      BY <1>1, <1>3, StepReport
    <3>. QED  BY <2>3, <3>1 DEF Reported
  <2>4. ASSUME tx[t].status = "failed", NEW i \in Job, Answers(i, t)
        PROVE  Goal
    <3>1. CASE i # j
      <4>1. job'[i] = job[i]
        BY <1>3, <2>4, <3>1, StepOthers DEF Answers, Answering
      <4>. QED  BY <2>4, <4>1 DEF Answers
    <3>2. CASE i = j /\ job'[j].pc \in Answering
      <4>1. job'[j].tx = job[j].tx
        BY <1>3, <3>2, StepShape DEF Answering
      <4>. QED  BY <2>4, <3>2, <4>1 DEF Answers
    <3>3. CASE i = j /\ job[j].pc = "requeue"
      <4>1. PICK k \in Job : job'[k].pc = "queued" /\ job'[k].tx = Onward(j)
        BY <1>3, <3>3, StepShape DEF Publishing
      <4>. QED  BY <2>4, <3>3, <4>1 DEF Answers, Answering, Onward
    <3>4. CASE i = j /\ job[j].pc = "notify"
      <4>. DEFINE r == [status |-> tx[u].status, error |-> tx[u].error]
      <4>1. told' = [told EXCEPT ![u] = @ \cup {r}] /\ u = t
        BY <1>3, <2>4, <3>4, StepReport DEF Answers
      <4>2. r \in told'[t] /\ r.status = "failed"
        BY <1>1, <2>4, <4>1
      <4>. QED  BY <4>2 DEF Reported
    <3>5. CASE i = j /\ job[j].pc \notin {"requeue", "notify"}
               /\ job'[j].pc \notin Answering
      <4>1. job'[j].pc \in {"free", "forward", "fan"} /\ u = t
        BY <1>3, <2>4, <3>5, StepShape DEF Answers, Answering, Edge
      <4>. QED  BY <1>3, <2>4, <3>5, <4>1, StepReport DEF Answers
    <3>. QED  BY <3>1, <3>2, <3>3, <3>4, <3>5
  <2>. QED  BY <2>1, <2>2, <2>3, <2>4 DEF Answered
<1>4. ASSUME NEW u \in Tx, NEW j \in Job,
             Receive(u, j) \/ PublishManual(u, j) \/ Reprocess(u, j)
      PROVE  Goal
  <2>1. /\ told' = told /\ crashes' = crashes /\ job[j].pc = "free" /\ OthersStay(j)
        /\ tx'[u].status # "failed" /\ \A v \in Tx \ {u} : tx'[v] = tx[v]
    BY <1>4, ArrivalShape DEF history
  <2>2. \A i \in Job : Answers(i, t) => Answers(i, t)'
    BY <2>1 DEF Answers, Answering, OthersStay
  <2>. QED  BY <1>2, <2>1, <2>2
<1>5. ASSUME NEW c \in Call, CancelWrite(c)
      PROVE  Goal
  <2>1. tx[t].status = "failed" /\ told' = told /\ crashes' = crashes /\ job' = job
    BY <1>5, CancelShape
  <2>. QED  BY <1>2, <2>1 DEF Answers
<1>6. ASSUME NEW c \in Call, NEW u \in Tx, CancelRead(c, u)
      PROVE  Goal
  BY <1>2, <1>6 DEF CancelRead, history, Answers
<1>7. ASSUME NEW j \in Job, StreamStopped(j)
      PROVE  Goal
  <2>1. \A i \in Job : Answers(i, t) => Answers(i, t)'
    BY <1>1, <1>7 DEF StreamStopped, Return, Answers, Answering
  <2>. QED  BY <1>2, <1>7, <2>1 DEF StreamStopped, history
<1>8. CASE Crash \/ \E j, k \in Job : Redeliver(j, k)
  BY <1>1, <1>8 DEF Crash, Redeliver
<1>9. CASE UNCHANGED vars
  BY <1>2, <1>9 DEF vars, Answers
<1>. QED  BY <1>3, <1>4, <1>5, <1>6, <1>7, <1>8, <1>9 DEF Next

(* FailureIsReported: until a crash, a transaction whose last word is      *)
(* "failed" and that nothing works on any more was reported as failed, on  *)
(* every error path of worker.py and after every retry.                    *)
THEOREM FailuresAreReported == Spec => []FailureIsReported
<1>1. Init => Answered
  BY DEF Init, Answered, AbsentRow
<1>2. Answered => FailureIsReported
  BY DEF Answered, FailureIsReported, Reported, Answers
<1>3. Spec => []Known
  BY KnownInit, KnownNext, TypeCorrect, PTL DEF Spec
<1>. QED  BY <1>1, <1>2, <1>3, AnsweredNext, TypeCorrect, PTL DEF Spec
----------------------------------------------------------------------------
(* KeepsPromise: EventPipeline implements Delivery.                        *)

(* A handler that is not fanning out writes no row but its own.            *)
LEMMA StepOwnRow ==
    ASSUME TypeOK, NEW j \in Job, Step(j)
    PROVE  /\ job[j].pc # "fan" => \A t \in Tx \ {job[j].tx} : tx'[t] = tx[t]
           /\ job[j].pc = "fan" =>
                \E v \in Tx :
                   /\ tx[v].status = "absent"
                   /\ tx'[v].status = "queued" /\ tx'[v].attempts = 0
                   /\ \A t \in Tx \ {v} : tx'[t] = tx[t]
                   /\ job'[j].pc = "link" /\ job'[j].child = v
<1>. USE DEF At, Starts
<1>1. job \in [Job -> JobRow] /\ job[j] \in JobRow /\ tx \in [Tx -> Row]
  BY DEF TypeOK
<1>2. job[j].tx \in Tx
  BY StepReport
<1>3. ASSUME NEW v \in Tx, InFanRecord(j, v)
      PROVE  /\ job[j].pc = "fan" /\ tx[v].status = "absent"
             /\ tx'[v].status = "queued" /\ tx'[v].attempts = 0
             /\ \A t \in Tx \ {v} : tx'[t] = tx[t]
             /\ job'[j].pc = "link" /\ job'[j].child = v
  <2>1. NewRow("queued", "publish").status = "queued"
        /\ NewRow("queued", "publish").attempts = 0
    BY DEF NewRow, AbsentRow
  <2>2. job'[j] = [job[j] EXCEPT !.pc = "link", !.child = v]
    BY <1>1, <1>3 DEF InFanRecord
  <2>3. job'[j].pc = "link" /\ job'[j].child = v
    BY <1>1, <2>2 DEF JobRow
  <2>. QED  BY <1>1, <1>3, <2>1, <2>3 DEF InFanRecord
<1>4. ASSUME \A v \in Tx : ~InFanRecord(j, v)
      PROVE  job[j].pc # "fan"
  BY <1>4 DEF Step, MarkQueued, Send, InTake, InRefuse, InSkip, InBegin, InCancelled,
     InProcessed, InFail, InFinish, InRequeue, InForward, InFanPublish, OutTake,
     OutNoOrg, OutOpen, Accept, OutReturn, OutPublished, OutAbort, PublishError,
     ManualReturn, Notify, Done
<1>5. ASSUME \A v \in Tx : ~InFanRecord(j, v)
      PROVE  \A t \in Tx \ {job[j].tx} : tx'[t] = tx[t]
  <2>. DEFINE u == job[j].tx
  <2>1. \/ tx' = tx \/ Fail(u) \/ CancelRow(u)
        \/ \E s \in Status : SetStatus(u, s)
        \/ \E s \in Status, r \in Result : Store(u, s, r)
    BY <1>5 DEF Step, MarkQueued, Send, InTake, InRefuse, InSkip, InBegin, InCancelled,
       InProcessed, InFail, InFinish, InRequeue, InForward, InFanPublish, PublishLast,
       OutTake, OutNoOrg, OutOpen, Accept, OutReturn, OutPublished, OutAbort,
       PublishError, ManualReturn, Notify, Done, Status, Result
  <2>. QED  BY <1>1, <1>2, <2>1, RowEffect
<1>. QED  BY <1>3, <1>4, <1>5

(* Points of a message or handler that may still publish its transaction,  *)
(* and those at which the transaction is open.                             *)
Publisher == {"receive", "enqueue", "send", "queued", "gate", "begin", "process",
              "finish", "requeue", "forward", "open", "call"}
Opening == Publisher \cup {"accepted", "mark"}
Token(j, t) == \/ job[j].tx = t /\ job[j].pc \in Publisher
               \/ job[j].child = t /\ job[j].pc = "link"
Opens(j, t) == \/ job[j].tx = t /\ job[j].pc \in Opening
               \/ job[j].child = t /\ job[j].pc = "link"
Tokens(t) == {j \in Job : Token(j, t)}
Granted(t) == IF tx[t].status = "absent" THEN 0 ELSE 1 + tx[t].attempts

(* Every attempt is granted once and spent once: what Salesforce accepted  *)
(* and what may still publish are together no more than what was granted.  *)
(* Jobs work on transactions that exist.                                   *)
Backed ==
    \A j \in Job : /\ job[j].pc # "free" => tx[job[j].tx].status # "absent"
                   /\ job[j].pc = "link" => tx[job[j].child].status # "absent"
Counted ==
    \A t \in Tx : /\ IsFiniteSet(Tokens(t))
                  /\ sent[t] + Cardinality(Tokens(t)) <= Granted(t)

LEMMA OpenIsOpens == \A t : Open(t) <=> \E j \in Job : Opens(j, t)
  BY DEF Open, Opens, Owns, Unsettled, Opening, Publisher

(* A step of j keeps the tokens of every transaction, passes j's on to the *)
(* message it publishes, gives j's up, or - recording a fan-out child -    *)
(* makes the child's first.  Only recording a child opens a transaction,   *)
(* and only j's own can cease to be open.                                  *)
LEMMA StepTokens ==
    ASSUME TypeOK, NEW j \in Job, Step(j), NEW t \in Tx
    PROVE  /\ \/ Tokens(t)' = Tokens(t)
              \/ j \in Tokens(t) /\ Tokens(t)' = Tokens(t) \ {j}
              \/ /\ j \in Tokens(t)
                 /\ \E k \in Job \ Tokens(t) : Tokens(t)' = (Tokens(t) \ {j}) \cup {k}
              \/ /\ job[j].pc = "fan" /\ job'[j].child = t
                 /\ Tokens(t)' = Tokens(t) \cup {j}
           /\ job[j].pc = "fan" /\ job'[j].child # t => Tokens(t)' = Tokens(t)
           /\ job[j].pc = "call" /\ job'[j].pc = "accepted" /\ job[j].tx = t
                => j \in Tokens(t) /\ Tokens(t)' = Tokens(t) \ {j}
           /\ IF job[j].pc = "fan" /\ job'[j].child = t THEN Open(t)'
              ELSE Open(t)' => Open(t)
           /\ t # job[j].tx /\ Open(t) => Open(t)'
           /\ job[j].pc = "call" /\ job'[j].pc = "accepted" => (Open(t) => Open(t)')
<1>. DEFINE u == job[j].tx
            p == job[j].pc
            q == job'[j].pc
<1>. USE DEF Token, Opens, Opening, Publisher
<1>1. <<p, q>> \in Edge /\ (q # "free" => job'[j].tx = u)
  BY StepShape
<1>2. CASE p \in Publishing
  <2>1. PICK k \in Job \ {j} : /\ job[k].pc = "free" /\ job'[k].pc = "queued"
                               /\ job'[k].tx = Onward(j)
                               /\ \A i \in Job \ {j, k} : job'[i] = job[i]
    BY <1>2, StepShape
  <2>2. q \in {"ack", "fan"} /\ (Token(j, t) <=> t = Onward(j)) /\ (Opens(j, t) <=> t = Onward(j))
    BY <1>1, <1>2 DEF Publishing, Edge, Onward
  <2>3. ~Token(k, t) /\ ~Opens(k, t) /\ (Token(k, t)' <=> t = Onward(j))
        /\ (Opens(k, t)' <=> t = Onward(j)) /\ ~Token(j, t)' /\ ~Opens(j, t)'
    BY <2>1, <2>2
  <2>4. \A i \in Job \ {j, k} : (Token(i, t)' <=> Token(i, t)) /\ (Opens(i, t)' <=> Opens(i, t))
    BY <2>1
  <2>5. CASE t = Onward(j)
    <3>1. j \in Tokens(t) /\ k \notin Tokens(t) /\ Tokens(t)' = (Tokens(t) \ {j}) \cup {k}
      BY <2>2, <2>3, <2>4, <2>5 DEF Tokens
    <3>2. Open(t) /\ Open(t)'
      BY <2>2, <2>3, <2>5, OpenIsOpens DEF Open, Owns, Unsettled
    <3>. QED  BY <1>2, <3>1, <3>2 DEF Publishing
  <2>6. CASE t # Onward(j)
    <3>1. Tokens(t)' = Tokens(t)
      BY <2>2, <2>3, <2>4, <2>6 DEF Tokens
    <3>2. Open(t)' <=> Open(t)
      <4>1. (\E i \in Job : Opens(i, t)) <=> \E i \in Job : Opens(i, t)'
        BY <2>2, <2>3, <2>4, <2>6
      <4>. QED  BY <4>1, OpenIsOpens DEF Open, Owns, Unsettled
    <3>. QED  BY <1>2, <3>1, <3>2 DEF Publishing
  <2>. QED  BY <2>5, <2>6
<1>3. CASE p \notin Publishing
  <2>1. \A i \in Job \ {j} : job'[i] = job[i]
    BY <1>3, StepShape DEF OthersStay
  <2>2. \A i \in Job \ {j} : (Token(i, t)' <=> Token(i, t)) /\ (Opens(i, t)' <=> Opens(i, t))
    BY <2>1
  <2>3. CASE p = "fan"
    <3>1. q = "link" /\ ~Token(j, t) /\ ~Opens(j, t)
          /\ (Token(j, t)' <=> job'[j].child = t) /\ (Opens(j, t)' <=> job'[j].child = t)
      BY <1>1, <2>3 DEF Edge
    <3>2. Tokens(t)' = IF job'[j].child = t THEN Tokens(t) \cup {j} ELSE Tokens(t)
      BY <2>2, <3>1 DEF Tokens
    <3>3. IF job'[j].child = t THEN Open(t)' ELSE (Open(t)' <=> Open(t))
      <4>1. IF job'[j].child = t THEN \E i \in Job : Opens(i, t)'
            ELSE (\E i \in Job : Opens(i, t)) <=> \E i \in Job : Opens(i, t)'
        BY <2>2, <3>1
      <4>. QED  BY <4>1, OpenIsOpens DEF Open, Owns, Unsettled
    <3>. QED  BY <2>3, <3>2, <3>3
  <2>4. CASE p # "fan"
    <3>1. /\ Token(j, t)' => Token(j, t)
          /\ Opens(j, t)' => Opens(j, t)
          /\ t # u => ~Token(j, t) /\ ~Opens(j, t)
          /\ p = "call" /\ q = "accepted" /\ t = u =>
               Token(j, t) /\ ~Token(j, t)' /\ Opens(j, t) /\ Opens(j, t)'
      BY <1>1, <1>3, <2>4 DEF Edge, Publishing
    <3>2. Tokens(t)' = Tokens(t) \/ (j \in Tokens(t) /\ Tokens(t)' = Tokens(t) \ {j})
      <4>1. CASE Token(j, t)' <=> Token(j, t)
        BY <2>2, <4>1 DEF Tokens
      <4>2. CASE Token(j, t) /\ ~Token(j, t)'
        BY <2>2, <4>2 DEF Tokens
      <4>. QED  BY <3>1, <4>1, <4>2
    <3>3. p = "call" /\ q = "accepted" /\ t = u =>
            j \in Tokens(t) /\ Tokens(t)' = Tokens(t) \ {j}
      BY <2>2, <3>1 DEF Tokens
    <3>4. /\ (\E i \in Job : Opens(i, t)') => \E i \in Job : Opens(i, t)
          /\ t # u \/ (p = "call" /\ q = "accepted") =>
               ((\E i \in Job : Opens(i, t)) => \E i \in Job : Opens(i, t)')
      BY <2>2, <3>1
    <3>5. /\ Open(t)' => Open(t)
          /\ t # u \/ (p = "call" /\ q = "accepted") => (Open(t) => Open(t)')
      BY <3>4, OpenIsOpens DEF Open, Owns, Unsettled
    <3>. QED  BY <2>4, <3>2, <3>3, <3>5
  <2>. QED  BY <2>3, <2>4
<1>. QED  BY <1>2, <1>3
(* With the in-process broker, or while the process and its connection to  *)
(* RabbitMQ stay up, no message is delivered twice.                        *)
DeliveredOnce == ~Durable \/ MaxCrashes = 0

Phase == [t \in Tx |-> IF tx[t].status = "absent" THEN "unknown"
                       ELSE IF Open(t) THEN "open" ELSE "settled"]
Grants == [t \in Tx |-> Granted(t)]

LEMMA StepRows ==
    ASSUME TypeOK, Backed, NEW j \in Job, Step(j), NEW t \in Tx
    PROVE  IF job[j].pc = "fan" /\ job'[j].child = t
             THEN /\ tx[t].status = "absent"
                  /\ tx'[t].status = "queued" /\ tx'[t].attempts = 0
             ELSE /\ tx'[t].status = "absent" <=> tx[t].status = "absent"
                  /\ tx'[t].attempts = tx[t].attempts
<1>1. CASE job[j].pc = "fan"
  BY <1>1, StepOwnRow
<1>2. CASE job[j].pc # "fan" /\ t # job[j].tx
  BY <1>2, StepOwnRow
<1>3. CASE job[j].pc # "fan" /\ t = job[j].tx
  <2>1. tx[t].status # "absent"
    BY <1>3, StepShape DEF Backed, Edge
  <2>. QED  BY <1>3, <2>1, StepWrites
<1>. QED  BY <1>1, <1>2, <1>3

LEMMA BackedStep ==
    ASSUME TypeOK, Backed, NEW j \in Job, Step(j)
    PROVE  Backed'
<1>. DEFINE u == job[j].tx
<1>1. \A t \in Tx : tx[t].status # "absent" => tx'[t].status # "absent"
  BY StepRows
<1>2. \A i \in Job : /\ job[i].pc # "free" => job[i].tx \in Tx
                     /\ job[i].pc = "link" => job[i].child \in Tx
                     /\ job'[i].pc # "free" => job'[i].tx \in Tx
                     /\ job'[i].pc = "link" => job'[i].child \in Tx
  <2>1. TypeOK'
    BY TypeNext DEF Next
  <2>. QED  BY <2>1 DEF TypeOK, WellFormed
<1>3. u \in Tx /\ tx'[u].status # "absent"
  BY <1>1, <1>2, StepShape DEF Backed, Edge
<1>4. job'[j].pc # "free" => tx'[job'[j].tx].status # "absent"
  BY <1>3, StepShape
<1>5. job'[j].pc = "link" => tx'[job'[j].child].status # "absent"
  <2>1. job'[j].pc = "link" => job[j].pc = "fan"
    BY StepShape DEF Edge
  <2>. QED  BY <1>2, <2>1, StepRows
<1>6. ASSUME NEW i \in Job \ {j}
      PROVE  /\ job'[i].pc # "free" => tx'[job'[i].tx].status # "absent"
             /\ job'[i].pc = "link" => tx'[job'[i].child].status # "absent"
  <2>1. CASE job[i].pc # "free"
    <3>1. job'[i] = job[i]
      BY <2>1, StepOthers
    <3>. QED  BY <1>1, <1>2, <2>1, <3>1 DEF Backed
  <2>2. CASE job[i].pc = "free" /\ job'[i] # job[i]
    <3>1. job[j].pc \in Publishing
      BY <2>2, StepShape DEF OthersStay
    <3>2. job'[i].pc = "queued" /\ job'[i].tx = Onward(j)
      BY <2>2, <3>1, StepShape
    <3>3. Onward(j) \in Tx /\ tx[Onward(j)].status # "absent"
      BY <1>2, <3>1 DEF Backed, Onward, Publishing
    <3>. QED  BY <1>1, <3>2, <3>3
  <2>3. CASE job[i].pc = "free" /\ job'[i] = job[i]
    BY <2>3
  <2>. QED  BY <2>1, <2>2, <2>3
<1>. QED  BY <1>4, <1>5, <1>6 DEF Backed

LEMMA CountedStep ==
    ASSUME TypeOK, Backed, Counted, NEW j \in Job, Step(j)
    PROVE  Counted'
<1>. SUFFICES ASSUME NEW t \in Tx
              PROVE  /\ IsFiniteSet(Tokens(t)')
                     /\ sent'[t] + Cardinality(Tokens(t)') <= Granted(t)'
  BY DEF Counted
<1>. DEFINE S == Tokens(t)
            fresh == job[j].pc = "fan" /\ job'[j].child = t
            accept == job[j].pc = "call" /\ job'[j].pc = "accepted"
<1>1. /\ IsFiniteSet(S) /\ Cardinality(S) \in Nat /\ sent[t] \in Nat
      /\ sent[t] + Cardinality(S) <= Granted(t) /\ sent \in [Tx -> Nat]
      /\ Granted(t) \in Nat
  BY FS_CardinalityType DEF Counted, Granted, TypeOK, Row
<1>2. /\ IsFiniteSet(S \ {j}) /\ Cardinality(S \ {j}) \in Nat
      /\ Cardinality(S \ {j}) = IF j \in S THEN Cardinality(S) - 1 ELSE Cardinality(S)
  BY <1>1, FS_RemoveElement, FS_CardinalityType
<1>3. CASE fresh
  <2>1. Granted(t) = 0 /\ Granted(t)' = 1 /\ sent'[t] = sent[t]
    BY <1>3, StepRows, StepReport DEF Granted
  <2>2. Tokens(t)' = S \cup {j} \/ Tokens(t)' = S \/ Tokens(t)' = S \ {j}
        \/ \E k \in Job \ S : Tokens(t)' = (S \ {j}) \cup {k} /\ j \in S
    BY StepTokens
  <2>3. S = {} /\ sent[t] = 0
    <3>1. Cardinality(S) = 0 /\ sent[t] = 0
      BY <1>1, <2>1
    <3>. QED  BY <1>1, <3>1, FS_EmptySet
  <2>4. Tokens(t)' = {j} \/ Tokens(t)' = {}
    BY <2>2, <2>3
  <2>5. IsFiniteSet({j}) /\ Cardinality({j}) = 1
    BY FS_Singleton
  <2>6. IsFiniteSet({}) /\ Cardinality({}) = 0
    BY FS_EmptySet
  <2>7. CASE Tokens(t)' = {j}
    BY <2>1, <2>3, <2>5, <2>7
  <2>8. CASE Tokens(t)' = {}
    BY <2>1, <2>3, <2>6, <2>8
  <2>. QED  BY <2>4, <2>7, <2>8
<1>4. CASE ~fresh /\ accept /\ t = job[j].tx
  <2>1. j \in S /\ Tokens(t)' = S \ {j}
    BY <1>4, StepTokens
  <2>2. sent'[t] = sent[t] + 1 /\ Granted(t)' = Granted(t)
    BY <1>1, <1>4, StepReport, StepRows DEF Granted
  <2>. QED  BY <1>1, <1>2, <2>1, <2>2
<1>5. CASE ~fresh /\ ~(accept /\ t = job[j].tx)
  <2>1. sent'[t] = sent[t] /\ Granted(t)' = Granted(t)
    BY <1>1, <1>5, StepReport, StepRows DEF Granted
  <2>2. CASE Tokens(t)' = S \/ Tokens(t)' = S \ {j}
    BY <1>1, <1>2, <2>1, <2>2
  <2>3. ASSUME NEW k \in Job \ S, j \in S, Tokens(t)' = (S \ {j}) \cup {k}
        PROVE  IsFiniteSet(Tokens(t)') /\ Cardinality(Tokens(t)') = Cardinality(S)
    <3>1. /\ IsFiniteSet((S \ {j}) \cup {k})
          /\ Cardinality((S \ {j}) \cup {k}) = Cardinality(S \ {j}) + 1
      BY <1>2, <2>3, FS_AddElement
    <3>2. Cardinality(S \ {j}) + 1 = Cardinality(S)
      BY <1>1, <1>2, <2>3
    <3>. QED  BY <2>3, <3>1, <3>2
  <2>4. CASE \E k \in Job \ S : j \in S /\ Tokens(t)' = (S \ {j}) \cup {k}
    BY <1>1, <2>1, <2>3, <2>4
  <2>. QED  BY <1>5, <2>2, <2>4, StepTokens
<1>. QED  BY <1>3, <1>4, <1>5
(* The steps of operators, streams and crashes: each takes some jobs away, *)
(* or - an arrival or a reprocess request - grants t one more attempt and  *)
(* gives it the one message that may use it.                               *)
LEMMA ArrivalTokens ==
    ASSUME TypeOK, NEW t \in Tx, NEW j \in Job,
           Receive(t, j) \/ PublishManual(t, j) \/ Reprocess(t, j)
    PROVE  /\ j \notin Tokens(t) /\ Tokens(t)' = Tokens(t) \cup {j} /\ Open(t)'
           /\ Granted(t)' = Granted(t) + 1 /\ sent' = sent /\ tx'[t].status # "absent"
           /\ \A u \in Tx \ {t} : /\ Tokens(u)' = Tokens(u) /\ (Open(u)' <=> Open(u))
                                  /\ Granted(u)' = Granted(u) /\ tx'[u] = tx[u]
<1>1. /\ sent' = sent /\ job[j].pc = "free" /\ OthersStay(j)
      /\ job'[j].tx = t /\ job'[j].pc \in {"receive", "send", "call"}
      /\ tx'[t].status # "absent" /\ \A u \in Tx \ {t} : tx'[u] = tx[u]
  BY ArrivalShape DEF history
<1>2. Granted(t)' = Granted(t) + 1
  <2>1. tx[t].attempts \in Nat
    BY DEF TypeOK, Row
  <2>. QED  BY <1>1, <2>1, ArrivalShape DEF Granted
<1>3. \A u \in Tx : /\ ~Token(j, u) /\ ~Opens(j, u)
                    /\ (Token(j, u)' <=> u = t) /\ (Opens(j, u)' <=> u = t)
  BY <1>1 DEF Token, Opens, Opening, Publisher
<1>4. \A u \in Tx : \A i \in Job \ {j} :
         (Token(i, u)' <=> Token(i, u)) /\ (Opens(i, u)' <=> Opens(i, u))
  BY <1>1 DEF OthersStay, Token, Opens
<1>5. j \notin Tokens(t) /\ Tokens(t)' = Tokens(t) \cup {j} /\ Open(t)'
  <2>1. \E i \in Job : Opens(i, t)'
    BY <1>3
  <2>2. Open(t)'
    BY <2>1 DEF Open, Owns, Unsettled, Opens, Opening, Publisher
  <2>. QED  BY <1>3, <1>4, <2>2 DEF Tokens
<1>6. ASSUME NEW u \in Tx \ {t}
      PROVE  Tokens(u)' = Tokens(u) /\ (Open(u)' <=> Open(u)) /\ Granted(u)' = Granted(u)
  <2>1. (\E i \in Job : Opens(i, u)') <=> \E i \in Job : Opens(i, u)
    BY <1>3, <1>4
  <2>2. Open(u)' <=> Open(u)
    BY <2>1 DEF Open, Owns, Unsettled, Opens, Opening, Publisher
  <2>3. Tokens(u)' = Tokens(u)
    BY <1>3, <1>4 DEF Tokens
  <2>. QED  BY <1>1, <2>2, <2>3 DEF Granted
<1>. QED  BY <1>1, <1>2, <1>5, <1>6

(* Jobs only go away: nothing is granted, sent or opened.                  *)
Subsides ==
    /\ sent' = sent
    /\ \A t \in Tx : /\ tx'[t].status = "absent" <=> tx[t].status = "absent"
                     /\ tx'[t].attempts = tx[t].attempts
    /\ \A i \in Job : job'[i] = job[i] \/ job'[i].pc = "free"

LEMMA OthersSubside ==
    ASSUME TypeOK, Known, DeliveredOnce,
           \/ \E c \in Call : CancelWrite(c) \/ \E t \in Tx : CancelRead(c, t)
           \/ \E j \in Job : StreamStopped(j) \/ \E k \in Job : Redeliver(j, k)
           \/ Crash \/ UNCHANGED vars
    PROVE  Subsides
<1>1. ASSUME NEW c \in Call, CancelWrite(c)  PROVE Subsides
  BY <1>1, CancelShape DEF Subsides
<1>2. ASSUME NEW c \in Call, NEW t \in Tx, CancelRead(c, t)  PROVE Subsides
  BY <1>2 DEF CancelRead, history, Subsides
<1>3. ASSUME NEW j \in Job, StreamStopped(j)  PROVE Subsides
  BY <1>3 DEF StreamStopped, Return, FreeJob, history, TypeOK, Subsides
<1>4. ASSUME NEW j \in Job, NEW k \in Job, Redeliver(j, k)  PROVE Subsides
  BY <1>4 DEF Redeliver, DeliveredOnce, TypeOK
<1>5. CASE Crash
  <2>1. ~Durable
    BY <1>5 DEF Crash, DeliveredOnce, TypeOK
  <2>2. \A i \in Job : job'[i].pc = "free"
    BY <1>5, <2>1 DEF Crash, Restarted, FreeJob
  <2>. QED  BY <1>5, <2>2 DEF Crash, history, Subsides
<1>6. CASE UNCHANGED vars
  BY <1>6 DEF vars, Subsides
<1>. QED  BY <1>1, <1>2, <1>3, <1>4, <1>5, <1>6

LEMMA SubsidesTokens ==
    ASSUME Subsides, NEW t \in Tx
    PROVE  /\ Tokens(t)' \subseteq Tokens(t) /\ (Open(t)' => Open(t))
           /\ Granted(t)' = Granted(t)
<1>1. \A i \in Job : (Token(i, t)' => Token(i, t)) /\ (Opens(i, t)' => Opens(i, t))
  BY DEF Subsides, Token, Opens, Opening, Publisher
<1>2. (\E i \in Job : Opens(i, t)') => \E i \in Job : Opens(i, t)
  BY <1>1
<1>3. Open(t)' => Open(t)
  BY <1>2 DEF Open, Owns, Unsettled, Opens, Opening, Publisher
<1>. QED  BY <1>1, <1>3 DEF Tokens, Granted, Subsides

CountInv == Backed /\ Counted

LEMMA CountInit == Init => CountInv
<1>. SUFFICES ASSUME Init PROVE CountInv
  OBVIOUS
<1>1. \A j \in Job : job[j].pc = "free"
  BY DEF Init, FreeJob
<1>2. \A t \in Tx : Tokens(t) = {} /\ sent[t] = 0 /\ Granted(t) = 0
  BY <1>1 DEF Init, AbsentRow, Tokens, Token, Publisher, Granted
<1>. QED  BY <1>1, <1>2, FS_EmptySet DEF CountInv, Backed, Counted

LEMMA CountNext ==
    ASSUME TypeOK, Known, DeliveredOnce, CountInv, [Next]_vars
    PROVE  CountInv'
<1>1. ASSUME NEW j \in Job, Step(j)  PROVE CountInv'
  BY <1>1, BackedStep, CountedStep DEF CountInv
<1>2. ASSUME NEW t \in Tx, NEW j \in Job,
             Receive(t, j) \/ PublishManual(t, j) \/ Reprocess(t, j)
      PROVE  CountInv'
  <2>1. Backed'
    <3>1. /\ OthersStay(j) /\ job'[j].tx = t
          /\ job'[j].pc \in {"receive", "send", "call"}
          /\ tx'[t].status # "absent" /\ \A u \in Tx \ {t} : tx'[u] = tx[u]
      BY <1>2, ArrivalShape
    <3>2. \A i \in Job : /\ job[i].pc # "free" => job[i].tx \in Tx
                         /\ job[i].pc = "link" => job[i].child \in Tx
      BY DEF TypeOK, WellFormed
    <3>3. \A u \in Tx : tx[u].status # "absent" => tx'[u].status # "absent"
      BY <3>1
    <3>4. ASSUME NEW i \in Job \ {j}
          PROVE  /\ job'[i].pc # "free" => tx'[job'[i].tx].status # "absent"
                 /\ job'[i].pc = "link" => tx'[job'[i].child].status # "absent"
      <4>1. job'[i] = job[i]
        BY <3>1 DEF OthersStay
      <4>. QED  BY <3>2, <3>3, <4>1 DEF CountInv, Backed
    <3>. QED  BY <3>1, <3>4 DEF Backed
  <2>2. Counted'
    <3>. SUFFICES ASSUME NEW u \in Tx
                  PROVE  /\ IsFiniteSet(Tokens(u)')
                         /\ sent'[u] + Cardinality(Tokens(u)') <= Granted(u)'
      BY DEF Counted
    <3>1. /\ IsFiniteSet(Tokens(u)) /\ sent[u] + Cardinality(Tokens(u)) <= Granted(u)
      BY DEF CountInv, Counted
    <3>2. CASE u # t
      BY <1>2, <3>1, <3>2, ArrivalTokens
    <3>3. CASE u = t
      <4>1. /\ j \notin Tokens(t) /\ Tokens(t)' = Tokens(t) \cup {j}
            /\ Granted(t)' = Granted(t) + 1 /\ sent' = sent
        BY <1>2, ArrivalTokens
      <4>2. /\ IsFiniteSet(Tokens(t) \cup {j})
            /\ Cardinality(Tokens(t) \cup {j}) = Cardinality(Tokens(t)) + 1
        BY <3>1, <3>3, <4>1, FS_AddElement
      <4>3. Cardinality(Tokens(t)) \in Nat /\ sent[t] \in Nat /\ Granted(t) \in Nat
        BY <3>1, <3>3, FS_CardinalityType DEF TypeOK, Granted, Row
      <4>. QED  BY <3>1, <3>3, <4>1, <4>2, <4>3
    <3>. QED  BY <3>2, <3>3
  <2>. QED  BY <2>1, <2>2 DEF CountInv
<1>3. CASE Subsides
  <2>1. Backed'
    <3>1. \A i \in Job : /\ job[i].pc # "free" => job[i].tx \in Tx
                         /\ job[i].pc = "link" => job[i].child \in Tx
      BY DEF TypeOK, WellFormed
    <3>2. \A u \in Tx : tx[u].status # "absent" => tx'[u].status # "absent"
      BY <1>3 DEF Subsides
    <3>3. \A i \in Job : job'[i] = job[i] \/ job'[i].pc = "free"
      BY <1>3 DEF Subsides
    <3>. QED  BY <3>1, <3>2, <3>3 DEF CountInv, Backed
  <2>2. ASSUME NEW t \in Tx
        PROVE  /\ IsFiniteSet(Tokens(t)')
               /\ sent'[t] + Cardinality(Tokens(t)') <= Granted(t)'
    <3>1. /\ IsFiniteSet(Tokens(t)) /\ sent[t] + Cardinality(Tokens(t)) <= Granted(t)
          /\ sent[t] \in Nat /\ Granted(t) \in Nat
      BY DEF CountInv, Counted, TypeOK, Granted, Row
    <3>2. /\ Tokens(t)' \subseteq Tokens(t) /\ Granted(t)' = Granted(t) /\ sent' = sent
      BY <1>3, SubsidesTokens DEF Subsides
    <3>3. /\ IsFiniteSet(Tokens(t)')
          /\ Cardinality(Tokens(t)') <= Cardinality(Tokens(t))
      BY <3>1, <3>2, FS_Subset
    <3>4. Cardinality(Tokens(t)') \in Nat /\ Cardinality(Tokens(t)) \in Nat
      BY <3>1, <3>3, FS_CardinalityType
    <3>. QED  BY <3>1, <3>2, <3>3, <3>4
  <2>. QED  BY <2>1, <2>2 DEF CountInv, Counted
<1>. QED  BY <1>1, <1>2, <1>3, OthersSubside DEF Next
PromiseVars == <<Phase, Grants, sent>>
PromiseStep == [Promise!Next]_PromiseVars

LEMMA PhaseValue ==
    ASSUME NEW t \in Tx
    PROVE  /\ Phase[t] = IF tx[t].status = "absent" THEN "unknown"
                         ELSE IF Open(t) THEN "open" ELSE "settled"
           /\ Grants[t] = Granted(t)
  BY DEF Phase, Grants

(* The values of the mapping, a function of transactions, point by point.  *)
LEMMA AdmitStep ==
    ASSUME NEW t \in Tx, sent' = sent, Open(t)', tx'[t].status # "absent",
           Granted(t)' = Granted(t) + 1,
           \A u \in Tx \ {t} : /\ tx'[u].status = "absent" <=> tx[u].status = "absent"
                               /\ Open(u)' <=> Open(u)
                               /\ Granted(u)' = Granted(u)
    PROVE  PromiseStep
<1>1. Phase' = [Phase EXCEPT ![t] = "open"]
  <2>1. \A u \in Tx : Phase'[u] = IF u = t THEN "open" ELSE Phase[u]
    BY DEF Phase
  <2>. QED  BY <2>1 DEF Phase
<1>2. Grants' = [Grants EXCEPT ![t] = @ + 1]
  <2>1. \A u \in Tx : Grants'[u] = IF u = t THEN Grants[u] + 1 ELSE Grants[u]
    BY DEF Grants
  <2>. QED  BY <2>1 DEF Grants
<1>3. Promise!Admit(t)
  BY <1>1, <1>2 DEF Promise!Admit, Phase, Grants, Granted
<1>. QED  BY <1>3 DEF PromiseStep, Promise!Next

LEMMA DeliverStep ==
    ASSUME NEW t \in Tx, tx[t].status # "absent", Open(t), sent[t] < Granted(t),
           sent' = [sent EXCEPT ![t] = @ + 1],
           \A u \in Tx : /\ tx'[u].status = "absent" <=> tx[u].status = "absent"
                         /\ Open(u)' <=> Open(u)
                         /\ Granted(u)' = Granted(u)
    PROVE  PromiseStep
<1>1. Phase' = Phase /\ Grants' = Grants
  BY DEF Phase, Grants
<1>2. Phase[t] = "open" /\ Grants[t] = Granted(t)
  BY PhaseValue
<1>3. Promise!Deliver(t)
  BY <1>1, <1>2 DEF Promise!Deliver, Phase, Grants, Granted
<1>. QED  BY <1>3 DEF PromiseStep, Promise!Next

LEMMA SettleStep ==
    ASSUME sent' = sent,
           \A u \in Tx : /\ tx'[u].status = "absent" <=> tx[u].status = "absent"
                         /\ tx[u].status = "absent" => ~Open(u)
                         /\ Open(u)' => Open(u)
                         /\ Granted(u)' = Granted(u)
    PROVE  PromiseStep
<1>1. Grants' = Grants
  BY DEF Grants
<1>2. PICK T \in SUBSET Tx : T = {u \in Tx : Open(u) /\ ~Open(u)'}
  OBVIOUS
<1>3. \A u \in Tx : Phase'[u] = IF u \in T THEN "settled" ELSE Phase[u]
  BY <1>2 DEF Phase
<1>4. Phase' = [u \in Tx |-> IF u \in T THEN "settled" ELSE Phase[u]]
  BY <1>3 DEF Phase
<1>5. \A u \in T : Phase[u] = "open"
  BY <1>2, PhaseValue
<1>6. CASE T = {}
  <2>1. Phase' = Phase
    BY <1>4, <1>6 DEF Phase
  <2>. QED  BY <1>1, <2>1 DEF PromiseStep, PromiseVars
<1>7. CASE T # {}
  <2>1. Promise!Settle(T)
    BY <1>1, <1>4, <1>5, <1>7 DEF Promise!Settle, Phase, Grants, Granted
  <2>. QED  BY <2>1 DEF PromiseStep, Promise!Next
<1>. QED  BY <1>6, <1>7

LEMMA StepOpens ==
    ASSUME TypeOK, NEW j \in Job, Step(j), NEW t \in Tx
    PROVE  /\ job[j].pc = "fan" /\ job'[j].child = t => Open(t)'
           /\ ~(job[j].pc = "fan" /\ job'[j].child = t) => (Open(t)' => Open(t))
           /\ t # job[j].tx => (Open(t) => Open(t)')
           /\ job[j].pc = "call" /\ job'[j].pc = "accepted" =>
                /\ Open(t) => Open(t)'
                /\ job[j].tx = t => j \in Tokens(t)
<1>1. /\ IF job[j].pc = "fan" /\ job'[j].child = t THEN Open(t)'
         ELSE Open(t)' => Open(t)
      /\ t # job[j].tx /\ Open(t) => Open(t)'
      /\ job[j].pc = "call" /\ job'[j].pc = "accepted" => (Open(t) => Open(t)')
      /\ job[j].pc = "call" /\ job'[j].pc = "accepted" /\ job[j].tx = t
           => j \in Tokens(t)
  BY StepTokens
<1>. QED  BY <1>1

LEMMA PromiseNext ==
    ASSUME TypeOK, Known, DeliveredOnce, CountInv, [Next]_vars
    PROVE  PromiseStep
<1>1. \A u \in Tx : tx[u].status = "absent" => ~Open(u)
  BY DEF CountInv, Backed, Open, Owns, Unsettled
<1>2. ASSUME NEW t \in Tx, NEW j \in Job,
             Receive(t, j) \/ PublishManual(t, j) \/ Reprocess(t, j)
      PROVE  PromiseStep
  BY <1>2, ArrivalTokens, AdmitStep
<1>3. CASE Subsides
  BY <1>1, <1>3, SubsidesTokens, SettleStep DEF Subsides
<1>4. ASSUME NEW j \in Job, Step(j)
      PROVE  PromiseStep
  <2>1. CASE job[j].pc = "fan"
    <3>1. PICK v \in Tx : /\ sent' = sent /\ tx[v].status = "absent"
                          /\ tx'[v].status # "absent" /\ tx'[v].attempts = 0
                          /\ job'[j].child = v
                          /\ \A t \in Tx \ {v} : tx'[t] = tx[t]
      BY <1>4, <2>1, StepOwnRow, StepReport
    <3>2. Open(v)' /\ Granted(v)' = Granted(v) + 1
      <4>1. Open(v)'
        BY <1>4, <2>1, <3>1, StepOpens
      <4>2. Granted(v)' = Granted(v) + 1
        BY <3>1 DEF Granted
      <4>. QED  BY <4>1, <4>2
    <3>3. \A t \in Tx \ {v} : tx'[t] = tx[t]
      BY <3>1
    <3>4. \A t \in Tx \ {v} : Open(t)' => Open(t)
      BY <1>4, <2>1, <3>1, StepOpens
    <3>5. ASSUME NEW t \in Tx \ {v}, Open(t)
          PROVE  Open(t)'
      <4>1. PICK i \in Job : Opens(i, t)
        BY <3>5, OpenIsOpens
      <4>2. i # j /\ job[i].pc # "free"
        BY <2>1, <4>1 DEF Opens, Opening, Publisher
      <4>3. job'[i] = job[i]
        BY <1>4, <4>2, StepOthers
      <4>. QED  BY <4>1, <4>3 DEF Opens, Opening, Publisher, Open, Owns, Unsettled
    <3>6. \A t \in Tx \ {v} : Granted(t)' = Granted(t)
      BY <3>3 DEF Granted
    <3>7. \A t \in Tx \ {v} : /\ tx'[t].status = "absent" <=> tx[t].status = "absent"
                              /\ Open(t)' <=> Open(t)
                              /\ Granted(t)' = Granted(t)
      BY <3>3, <3>4, <3>5, <3>6
    <3>. QED  BY <3>1, <3>2, <3>7, AdmitStep
  <2>2. CASE job[j].pc # "fan"
    <3>. PICK u \in Tx : u = job[j].tx
      BY <1>4, StepReport
    <3>1. \A t \in Tx : /\ tx'[t].status = "absent" <=> tx[t].status = "absent"
                        /\ Granted(t)' = Granted(t)
                        /\ Open(t)' => Open(t)
                        /\ t # u => (Open(t)' <=> Open(t))
      BY <1>4, <2>2, StepRows, StepOpens DEF CountInv, Granted
    <3>2. CASE job[j].pc = "call" /\ job'[j].pc = "accepted"
      <4>1. u \in Tx /\ sent' = [sent EXCEPT ![u] = @ + 1]
        BY <1>4, <3>2, StepReport
      <4>2. j \in Tokens(u) /\ (Open(u) => Open(u)')
        BY <1>4, <3>2, <4>1, StepOpens
      <4>3. tx[u].status # "absent" /\ Open(u)
        <5>1. Opens(j, u)
          BY <3>2 DEF Opens, Opening, Publisher
        <5>. QED  BY <1>1, <4>1, <5>1, OpenIsOpens
      <4>4. sent[u] < Granted(u)
        <5>1. /\ IsFiniteSet(Tokens(u)) /\ sent[u] + Cardinality(Tokens(u)) <= Granted(u)
              /\ sent[u] \in Nat /\ Granted(u) \in Nat
          BY <4>1 DEF CountInv, Counted, TypeOK, Granted, Row
        <5>2. Cardinality(Tokens(u)) \in Nat /\ Cardinality(Tokens(u)) # 0
          BY <4>2, <5>1, FS_CardinalityType, FS_EmptySet
        <5>. QED  BY <5>1, <5>2
      <4>5. \A t \in Tx : /\ tx'[t].status = "absent" <=> tx[t].status = "absent"
                          /\ Open(t)' <=> Open(t)
                          /\ Granted(t)' = Granted(t)
        BY <3>1, <4>2, <4>3
      <4>. QED  BY <4>1, <4>3, <4>4, <4>5, DeliverStep
    <3>3. CASE ~(job[j].pc = "call" /\ job'[j].pc = "accepted")
      <4>1. sent' = sent
        BY <1>4, <3>3, StepReport
      <4>. QED  BY <1>1, <3>1, <4>1, SettleStep
    <3>. QED  BY <3>2, <3>3
  <2>. QED  BY <2>1, <2>2
<1>. QED  BY <1>2, <1>3, <1>4, OthersSubside DEF Next

(* KeepsPromise: EventPipeline implements Delivery - every acceptance by   *)
(* Salesforce spends one attempt that an arrival, a fan-out or a reprocess *)
(* request granted, while the transaction is open; a settled transaction   *)
(* stays as it is until it is admitted again.  For the in-process broker   *)
(* with crashes, and for RabbitMQ until the first crash or lost            *)
(* connection: redelivery publishes an event again.                        *)
THEOREM PromiseIsKept ==
    ASSUME DeliveredOnce
    PROVE  Spec => KeepsPromise
<1>1. Init => Promise!Init
  <2>. SUFFICES ASSUME Init PROVE Promise!Init
    OBVIOUS
  <2>1. \A t \in Tx : tx[t].status = "absent" /\ sent[t] = 0
    BY DEF Init, AbsentRow
  <2>. QED  BY <2>1 DEF Init, Promise!Init
<1>2. TypeOK /\ Known /\ CountInv /\ [Next]_vars => PromiseStep
  BY PromiseNext
<1>3. TypeOK /\ Known /\ CountInv /\ [Next]_vars => CountInv'
  BY CountNext
<1>4. Spec => []Known
  BY KnownInit, KnownNext, TypeCorrect, PTL DEF Spec
<1>5. PromiseStep <=> [Promise!Next]_<<
        [t \in Tx |-> IF tx[t].status = "absent" THEN "unknown"
                      ELSE IF Open(t) THEN "open" ELSE "settled"],
        [t \in Tx |-> IF tx[t].status = "absent" THEN 0 ELSE 1 + tx[t].attempts],
        sent>>
  BY DEF PromiseStep, PromiseVars, Phase, Grants, Granted
<1>. QED
  BY <1>1, <1>2, <1>3, <1>4, <1>5, CountInit, TypeCorrect, PTL
  DEF Spec, KeepsPromise, Promise!Spec
============================================================================
