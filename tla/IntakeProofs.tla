------------------------------ MODULE IntakeProofs ------------------------------
(* No accepted message is lost and no run leaves more than one record behind,  *)
(* for any number of jobs, runs, messages and stops.                           *)
EXTENDS Intake, SequenceTheorems, FiniteSetTheorems, TLAPS

(***************************************************************************)
(* The invariant                                                            *)
(***************************************************************************)

MsgRow ==
    [tx : Nat, topic : Topic, try : Nat, home : {"internal", "rabbitmq"},
     at : {"queued", "task", "running", "putting", "over", "lost"},
     next : [topic : Topic, try : Nat] \cup {None}, acked : BOOLEAN]

RunRow ==
    [job : Schedule, due : BOOLEAN, pc : {"start", "query", "record", "put", "over"}, todo : Nat,
     recorded : SUBSET Nat, count : Nat]

BackendOK == backend \in {"internal", "rabbitmq", None}
MsgsOK == msgs \in Seq(MsgRow)

(* Each transaction was recorded by a run that has started.                    *)
TxsOK == txs \in Seq(Nat) /\ \A t \in DOMAIN txs : txs[t] \in DOMAIN runs
RunsOK == runs \in Seq(RunRow)

(* RabbitMQ forgets a message only when its handler is over; a handler that    *)
(* publishes knows what.                                                       *)
Kept(m) ==
    /\ m.home = "rabbitmq" => m.at # "lost" /\ (m.at # "over" => ~m.acked)
    /\ m.at = "putting" => m.next \in [topic : Topic, try : Nat]
KeptOK == \A i \in DOMAIN msgs : Kept(msgs[i])

(* Between two records a run has left none behind; the one it has just made it *)
(* is about to publish.                                                        *)
Accounted(run, orphans) ==
    /\ run.pc \in {"start", "query", "record"} => orphans = {}
    /\ run.pc = "put" => orphans \subseteq run.recorded /\ \E t : run.recorded = {t}
    /\ \E t : orphans \subseteq {t}
OrphansOK == \A r \in DOMAIN runs : Accounted(runs[r], Orphans(r))

Inv == BackendOK /\ MsgsOK /\ TxsOK /\ RunsOK /\ KeptOK /\ OrphansOK

(***************************************************************************)
(* Sequences                                                                *)
(***************************************************************************)

LEMMA RowsOf ==
    ASSUME NEW Row, NEW seq \in Seq(Row)
    PROVE  Len(seq) \in Nat /\ DOMAIN seq = 1 .. Len(seq) /\ \A i \in DOMAIN seq : seq[i] \in Row
<1>1. Len(seq) \in Nat /\ DOMAIN seq = 1 .. Len(seq)
  BY LenProperties
<1>2. QED
  BY <1>1, ElementOfSeq

LEMMA SetRow ==
    ASSUME NEW Row, NEW seq \in Seq(Row), NEW i \in DOMAIN seq, NEW row \in Row
    PROVE  /\ [seq EXCEPT ![i] = row] \in Seq(Row)
           /\ DOMAIN [seq EXCEPT ![i] = row] = DOMAIN seq
           /\ [seq EXCEPT ![i] = row][i] = row
           /\ \A k \in DOMAIN seq : k # i => [seq EXCEPT ![i] = row][k] = seq[k]
<1>1. Len(seq) \in Nat /\ DOMAIN seq = 1 .. Len(seq) /\ seq \in [1 .. Len(seq) -> Row]
  BY RowsOf, SeqDef
<1>2. [seq EXCEPT ![i] = row] \in [1 .. Len(seq) -> Row]
  BY <1>1
<1>3. QED
  BY <1>1, <1>2, SeqDef

LEMMA AddRow ==
    ASSUME NEW Row, NEW seq \in Seq(Row), NEW row \in Row
    PROVE  /\ Append(seq, row) \in Seq(Row)
           /\ DOMAIN Append(seq, row) = DOMAIN seq \cup {Len(seq) + 1}
           /\ Len(seq) + 1 \notin DOMAIN seq
           /\ Append(seq, row)[Len(seq) + 1] = row
           /\ \A k \in DOMAIN seq : Append(seq, row)[k] = seq[k]
<1>1. Len(seq) \in Nat /\ DOMAIN seq = 1 .. Len(seq)
  BY RowsOf
<1>2. Append(seq, row) \in Seq(Row) /\ Len(Append(seq, row)) = Len(seq) + 1
  BY AppendProperties
<1>3. DOMAIN Append(seq, row) = 1 .. Len(seq) + 1
  BY <1>2, RowsOf
<1>4. Append(seq, row)[Len(seq) + 1] = row /\ \A k \in 1 .. Len(seq) : Append(seq, row)[k] = seq[k]
  BY AppendProperties
<1>5. QED
  BY <1>1, <1>2, <1>3, <1>4

LEMMA MapRow ==
    ASSUME NEW Row, NEW seq \in Seq(Row), NEW g, g = [i \in DOMAIN seq |-> g[i]],
           \A i \in DOMAIN seq : g[i] \in Row
    PROVE  g \in Seq(Row) /\ DOMAIN g = DOMAIN seq
<1>1. Len(seq) \in Nat /\ DOMAIN seq = 1 .. Len(seq)
  BY RowsOf
<1>2. g \in [1 .. Len(seq) -> Row]
  BY <1>1
<1>3. QED
  BY <1>1, <1>2, SeqDef

(***************************************************************************)
(* Orphans                                                                  *)
(***************************************************************************)

(* Messages keep their transaction, so a record that has one keeps it.         *)
LEMMA OrphansShrink ==
    ASSUME UNCHANGED txs, DOMAIN msgs \subseteq DOMAIN msgs',
           \A i \in DOMAIN msgs : msgs'[i].tx = msgs[i].tx, NEW r
    PROVE  Orphans(r)' \subseteq Orphans(r)
BY DEF Orphans

LEMMA FewerAccounted ==
    ASSUME NEW run, NEW many, NEW few, few \subseteq many, Accounted(run, many)
    PROVE  Accounted(run, few)
BY DEF Accounted

(* A step of the consumers: the runs stay as they are.                         *)
LEMMA MessagesMove ==
    ASSUME Inv, UNCHANGED <<txs, runs>>, BackendOK', MsgsOK', KeptOK',
           DOMAIN msgs \subseteq DOMAIN msgs', \A i \in DOMAIN msgs : msgs'[i].tx = msgs[i].tx
    PROVE  Inv'
<1>1. ASSUME NEW r \in DOMAIN runs PROVE Accounted(runs[r], Orphans(r)')
  BY OrphansShrink, FewerAccounted DEF Inv, OrphansOK
<1>2. OrphansOK'
  BY <1>1 DEF OrphansOK
<1>3. TxsOK' /\ RunsOK'
  BY DEF Inv, TxsOK, RunsOK
<1>4. QED
  BY <1>2, <1>3 DEF Inv

(* ... of one message, which keeps its transaction and its broker's promise.   *)
LEMMA MessageMoves ==
    ASSUME Inv, UNCHANGED <<backend, txs, runs>>, NEW i \in DOMAIN msgs, NEW m \in MsgRow,
           Kept(m), m.tx = msgs[i].tx, msgs' = [msgs EXCEPT ![i] = m]
    PROVE  Inv'
<1>1. /\ msgs' \in Seq(MsgRow) /\ DOMAIN msgs' = DOMAIN msgs /\ msgs'[i] = m
      /\ \A k \in DOMAIN msgs : k # i => msgs'[k] = msgs[k]
  BY SetRow DEF Inv, MsgsOK
<1>2. KeptOK' /\ MsgsOK' /\ BackendOK'
  BY <1>1 DEF Inv, KeptOK, MsgsOK, BackendOK
<1>3. QED
  BY <1>1, <1>2, MessagesMove

(***************************************************************************)
(* The consumers                                                            *)
(***************************************************************************)

LEMMA MsgIs ==
    ASSUME Inv, NEW i \in DOMAIN msgs PROVE msgs[i] \in MsgRow /\ Kept(msgs[i])
BY RowsOf DEF Inv, MsgsOK, KeptOK

LEMMA OverIs ==
    ASSUME NEW m \in MsgRow PROVE Over(m) \in MsgRow /\ Over(m).tx = m.tx /\ Kept(Over(m))
<1> DEFINE a == [m EXCEPT !.at = "over"]
           b == [a EXCEPT !.next = None]
<1>1. a \in MsgRow /\ a.tx = m.tx /\ a.at = "over"
  BY DEF MsgRow
<1> HIDE DEF a
<1>2. b \in MsgRow /\ b.tx = m.tx /\ b.at = "over"
  BY <1>1 DEF MsgRow
<1> HIDE DEF b
<1>3. [b EXCEPT !.acked = TRUE] \in MsgRow /\ [b EXCEPT !.acked = TRUE].tx = m.tx
      /\ [b EXCEPT !.acked = TRUE].at = "over"
  BY <1>2 DEF MsgRow
<1>4. Over(m) = [b EXCEPT !.acked = TRUE]
  BY DEF Over, a, b
<1>5. QED
  BY <1>3, <1>4 DEF Kept

LEMMA PuttingIs ==
    ASSUME NEW m \in MsgRow, Kept(m), m.at = "running", NEW topic \in Topic, NEW try \in Nat
    PROVE  LET p == Putting(m, topic, try) IN p \in MsgRow /\ p.tx = m.tx /\ Kept(p)
<1> DEFINE a == [m EXCEPT !.at = "putting"]
           next == [topic |-> topic, try |-> try]
<1>1. a \in MsgRow /\ a.tx = m.tx /\ a.home = m.home /\ a.acked = m.acked /\ a.at = "putting"
  BY DEF MsgRow
<1>2. next \in [topic : Topic, try : Nat]
  OBVIOUS
<1> HIDE DEF a, next
<1> DEFINE b == [a EXCEPT !.next = next]
<1>3. b \in MsgRow /\ b.tx = m.tx /\ b.home = m.home /\ b.acked = m.acked
      /\ b.at = "putting" /\ b.next = next
  BY <1>1, <1>2 DEF MsgRow
<1>4. Putting(m, topic, try) = b
  BY DEF Putting, a, next
<1> HIDE DEF b
<1>5. Kept(b)
  BY <1>2, <1>3 DEF Kept
<1>6. QED
  BY <1>3, <1>4, <1>5

LEMMA ConsumeKeeps == ASSUME Inv, NEW i \in DOMAIN msgs, Consume(i) PROVE Inv'
<1>1. msgs[i] \in MsgRow /\ Kept(msgs[i]) /\ msgs[i].try \in Nat /\ msgs[i].tx \in Nat
  BY MsgIs DEF MsgRow
<1>2. CASE Dequeue(i) \/ Acquire(i)
  <2>1. PICK at \in {"task", "running"} : msgs' = [msgs EXCEPT ![i].at = at]
    BY <1>2 DEF Dequeue, Acquire
  <2> DEFINE m == [msgs[i] EXCEPT !.at = at]
  <2>2. msgs[i].at # "over" /\ UNCHANGED <<backend, txs, runs>>
    BY <1>2 DEF Dequeue, Acquire
  <2>3. m \in MsgRow /\ m.tx = msgs[i].tx /\ Kept(m)
    BY <1>1, <2>2 DEF MsgRow, Kept
  <2>4. msgs' = [msgs EXCEPT ![i] = m]
    BY <2>1
  <2> HIDE DEF m
  <2>5. QED
    BY <2>2, <2>3, <2>4, MessageMoves
<1>3. CASE Handle(i)
  <2>1. msgs[i].at = "running" /\ UNCHANGED <<backend, txs, runs>>
    BY <1>3 DEF Handle
  <2>2. CASE msgs' = [msgs EXCEPT ![i] = Over(@)]
    BY <1>1, <2>1, <2>2, OverIs, MessageMoves
  <2>3. CASE \E topic \in Topic, try \in Nat : msgs' = [msgs EXCEPT ![i] = Putting(@, topic, try)]
    BY <1>1, <2>1, <2>3, PuttingIs, MessageMoves
  <2>4. "inbound" \in Topic /\ "outbound" \in Topic /\ msgs[i].try + 1 \in Nat /\ 0 \in Nat
    BY <1>1 DEF Topic
  <2>5. QED
    BY <1>3, <2>2, <2>3, <2>4 DEF Handle
<1>4. CASE Put(i)
  <2> DEFINE next == msgs[i].next
             done == [msgs EXCEPT ![i] = Over(@)]
             new == Message(msgs[i].tx, next.topic, next.try)
  <2>1. UNCHANGED <<backend, txs, runs>> /\ backend = msgs[i].home /\ backend # None
    BY <1>4 DEF Put
  <2>2. CASE msgs' = done
    BY <1>1, <2>1, <2>2, OverIs, MessageMoves
  <2>3. CASE HasRoom(next.topic) /\ msgs' = Append(done, new)
    <3>1. /\ done \in Seq(MsgRow) /\ DOMAIN done = DOMAIN msgs /\ done[i] = Over(msgs[i])
          /\ \A k \in DOMAIN msgs : k # i => done[k] = msgs[k]
      BY <1>1, OverIs, SetRow DEF Inv, MsgsOK
    <3>2. \A k \in DOMAIN msgs : Kept(done[k]) /\ done[k].tx = msgs[k].tx
      BY <1>1, <3>1, OverIs, MsgIs
    <3> HIDE DEF done
    <3>3. new \in MsgRow /\ Kept(new)
      <4>1. next \in [topic : Topic, try : Nat]
        BY <1>1, <1>4 DEF Put, Kept
      <4>2. next.topic \in Topic /\ next.try \in Nat
        BY <4>1
      <4> HIDE DEF next
      <4>3. QED
        BY <1>1, <2>1, <4>2 DEF MsgRow, Message, Kept
    <3> HIDE DEF new
    <3>4. QED
      BY <2>1, <2>3, <3>1, <3>2, <3>3, AddRow, MessagesMove DEF MsgsOK, KeptOK, BackendOK, Inv
  <2>4. QED
    BY <1>4, <2>2, <2>3 DEF Put
<1>5. QED
  BY <1>2, <1>3, <1>4 DEF Consume

(***************************************************************************)
(* The runs                                                                 *)
(***************************************************************************)

LEMMA RunIs == ASSUME Inv, NEW r \in DOMAIN runs PROVE runs[r] \in RunRow /\ Accounted(runs[r], Orphans(r))
BY RowsOf DEF Inv, RunsOK, OrphansOK

LEMMA NowIs ==
    ASSUME NEW run \in RunRow, NEW pc \in {"start", "query", "record", "put", "over"}, NEW todo \in Nat,
           NEW recorded \in SUBSET Nat, NEW count \in Nat
    PROVE  Now(run, pc, todo, recorded, count) \in RunRow
BY DEF Now, RunRow

LEMMA EndedIs ==
    ASSUME NEW run \in RunRow PROVE Ended(run) \in RunRow /\ Ended(run).pc = "over"
<1>1. run.todo \in Nat /\ run.count \in Nat
  BY DEF RunRow
<1>2. Ended(run) \in RunRow
  BY <1>1, NowIs DEF Ended
<1>3. QED
  BY <1>2 DEF Ended, Now

(* A run moves on and accounts for its orphans; nobody else's change.          *)
LEMMA RunMoves ==
    ASSUME Inv, UNCHANGED <<backend, msgs>>, NEW r \in DOMAIN runs, NEW run \in RunRow,
           runs' = [runs EXCEPT ![r] = run],
           txs' \in Seq(Nat), \A t \in DOMAIN txs' : txs'[t] \in DOMAIN runs,
           \A s \in DOMAIN runs : s # r => Orphans(s)' = Orphans(s),
           Accounted(run, Orphans(r)')
    PROVE  Inv'
<1>1. /\ runs' \in Seq(RunRow) /\ DOMAIN runs' = DOMAIN runs /\ runs'[r] = run
      /\ \A s \in DOMAIN runs : s # r => runs'[s] = runs[s]
  BY SetRow DEF Inv, RunsOK
<1>2. ASSUME NEW s \in DOMAIN runs' PROVE Accounted(runs'[s], Orphans(s)')
  <2>1. CASE s = r
    BY <1>1, <2>1
  <2>2. CASE s # r
    <3>1. runs'[s] = runs[s] /\ Orphans(s)' = Orphans(s) /\ Accounted(runs[s], Orphans(s))
      BY <1>1, <2>2, RunIs
    <3> HIDE DEF Orphans
    <3>2. QED
      BY <3>1
  <2>3. QED
    BY <2>1, <2>2
<1>3. OrphansOK'
  BY <1>2 DEF OrphansOK
<1>4. BackendOK' /\ MsgsOK' /\ KeptOK' /\ TxsOK' /\ RunsOK'
  BY <1>1 DEF Inv, BackendOK, MsgsOK, KeptOK, TxsOK, RunsOK
<1>5. QED
  BY <1>3, <1>4 DEF Inv

(* ... and has recorded nothing.                                               *)
LEMMA RunGoesOn ==
    ASSUME Inv, UNCHANGED <<backend, msgs, txs>>, NEW r \in DOMAIN runs, NEW run \in RunRow,
           runs' = [runs EXCEPT ![r] = run], Accounted(run, Orphans(r))
    PROVE  Inv'
<1>1. \A s : Orphans(s)' = Orphans(s)
  BY DEF Orphans
<1>2. txs' \in Seq(Nat) /\ \A t \in DOMAIN txs' : txs'[t] \in DOMAIN runs
  BY DEF Inv, TxsOK
<1>3. Accounted(run, Orphans(r)')
  BY <1>1
<1>4. QED
  BY <1>1, <1>2, <1>3, RunMoves

LEMMA StartKeeps == ASSUME Inv, NEW j \in Schedule, Start(j) PROVE Inv'
<1>1. PICK due \in BOOLEAN : runs' = Append(runs, Started(j, due))
  BY DEF Start
<1>2. UNCHANGED <<backend, msgs, txs>>
  BY DEF Start
<1> DEFINE run == Started(j, due)
           new == Len(runs) + 1
<1>3. run \in RunRow /\ run.pc = "start"
  BY DEF Started, RunRow
<1> HIDE DEF run
<1>4. /\ runs' \in Seq(RunRow) /\ DOMAIN runs' = DOMAIN runs \cup {new} /\ new \notin DOMAIN runs
      /\ runs'[new] = run /\ \A s \in DOMAIN runs : runs'[s] = runs[s]
  BY <1>1, <1>3, AddRow DEF Inv, RunsOK, run
<1>5. \A s : Orphans(s)' = Orphans(s)
  BY <1>2 DEF Orphans
<1>6. Orphans(new) = {}
  BY <1>4 DEF Orphans, Inv, TxsOK
<1>7. ASSUME NEW s \in DOMAIN runs' PROVE Accounted(runs'[s], Orphans(s)')
  <2>1. CASE s = new
    <3>1. Accounted(run, {})
      BY <1>3 DEF Accounted
    <3>2. QED
      BY <1>4, <1>5, <1>6, <2>1, <3>1
  <2>2. CASE s \in DOMAIN runs
    BY <1>4, <1>5, <2>2, RunIs
  <2>3. QED
    BY <1>4, <2>1, <2>2
<1>8. OrphansOK'
  BY <1>7 DEF OrphansOK
<1>9. BackendOK' /\ MsgsOK' /\ KeptOK' /\ TxsOK' /\ RunsOK'
  BY <1>2, <1>4 DEF Inv, BackendOK, MsgsOK, KeptOK, TxsOK, RunsOK
<1>10. QED
  BY <1>8, <1>9 DEF Inv

LEMMA BeginKeeps == ASSUME Inv, NEW r \in DOMAIN runs, Begin(r) PROVE Inv'
<1>1. runs[r] \in RunRow /\ Accounted(runs[r], Orphans(r)) /\ runs[r].pc = "start"
      /\ UNCHANGED <<backend, msgs, txs>>
  BY RunIs DEF Begin
<1>2. PICK pc \in {"over", "query"} : runs' = [runs EXCEPT ![r].pc = pc]
  BY DEF Begin
<1> DEFINE run == [runs[r] EXCEPT !.pc = pc]
<1>3. run \in RunRow /\ run.pc = pc /\ runs' = [runs EXCEPT ![r] = run]
  BY <1>1, <1>2 DEF RunRow
<1> HIDE DEF run
<1>4. Accounted(run, Orphans(r))
  BY <1>1, <1>3 DEF Accounted
<1>5. QED
  BY <1>1, <1>3, <1>4, RunGoesOn

LEMMA AnswerKeeps == ASSUME Inv, NEW r \in DOMAIN runs, Answer(r) PROVE Inv'
<1>1. runs[r] \in RunRow /\ Accounted(runs[r], Orphans(r)) /\ runs[r].pc = "query"
      /\ UNCHANGED <<backend, msgs, txs>> /\ Orphans(r) = {}
  BY RunIs DEF Answer, Accounted
<1>2. CASE runs' = [runs EXCEPT ![r].pc = "over"]
  <2> DEFINE run == [runs[r] EXCEPT !.pc = "over"]
  <2>1. run \in RunRow /\ run.pc = "over" /\ runs' = [runs EXCEPT ![r] = run]
    BY <1>1, <1>2 DEF RunRow
  <2> HIDE DEF run
  <2>2. Accounted(run, Orphans(r))
    BY <1>1, <2>1 DEF Accounted
  <2>3. QED
    BY <1>1, <2>1, <2>2, RunGoesOn
<1>3. CASE \E n \in 0 .. budget.records : runs' = [runs EXCEPT ![r] = Now(@, "record", n, {}, 0)]
  <2>1. PICK n \in 0 .. budget.records : runs' = [runs EXCEPT ![r] = Now(runs[r], "record", n, {}, 0)]
    BY <1>3
  <2> DEFINE run == Now(runs[r], "record", n, {}, 0)
  <2>2. n \in Nat
    BY <2>1
  <2>3. run \in RunRow /\ run.pc = "record"
    BY <1>1, <2>2, NowIs DEF Now
  <2>4. runs' = [runs EXCEPT ![r] = run]
    BY <2>1
  <2> HIDE DEF run
  <2>5. Accounted(run, Orphans(r))
    BY <1>1, <2>3 DEF Accounted
  <2>6. QED
    BY <1>1, <2>3, <2>4, <2>5, RunGoesOn
<1>4. QED
  BY <1>2, <1>3 DEF Answer

(* The record a run makes is its only orphan, until it is published.           *)
LEMMA RecordKeeps == ASSUME Inv, NEW r \in DOMAIN runs, Record(r) PROVE Inv'
<1> DEFINE t == Len(txs) + 1
           run == Now(runs[r], "put", runs[r].todo - 1, {t}, runs[r].count)
<1>1. /\ runs[r] \in RunRow /\ Accounted(runs[r], Orphans(r)) /\ runs[r].pc = "record" /\ runs[r].todo > 0
      /\ UNCHANGED <<backend, msgs>> /\ txs' = Append(txs, r) /\ runs' = [runs EXCEPT ![r] = run]
  BY RunIs DEF Record
<1>2. Orphans(r) = {}
  BY <1>1 DEF Accounted
<1>3. r \in Nat /\ Len(txs) \in Nat
  BY RowsOf DEF Inv, RunsOK, TxsOK
<1>4. /\ txs' \in Seq(Nat) /\ DOMAIN txs' = DOMAIN txs \cup {t} /\ txs'[t] = r
      /\ \A k \in DOMAIN txs : txs'[k] = txs[k]
  BY <1>1, <1>3, AddRow DEF Inv, TxsOK
<1>5. runs[r].todo - 1 \in Nat /\ runs[r].count \in Nat /\ {t} \in SUBSET Nat
  BY <1>1, <1>3 DEF RunRow
<1>6. run \in RunRow
  BY <1>1, <1>5, NowIs
<1>7. run.pc = "put" /\ run.recorded = {t}
  BY DEF Now
<1> HIDE DEF t, run
<1>8. Orphans(r)' \subseteq Orphans(r) \cup {t}
  BY <1>1, <1>4 DEF Orphans
<1>9. \A s \in DOMAIN runs : s # r => Orphans(s)' = Orphans(s)
  BY <1>1, <1>4 DEF Orphans, t
<1>10. Accounted(run, Orphans(r)')
  BY <1>2, <1>7, <1>8 DEF Accounted
<1>11. \A k \in DOMAIN txs' : txs'[k] \in DOMAIN runs
  BY <1>4 DEF Inv, TxsOK
<1>12. QED
  BY <1>1, <1>4, <1>6, <1>9, <1>10, <1>11, RunMoves

LEMMA PublishKeeps == ASSUME Inv, NEW r \in DOMAIN runs, Publish(r) PROVE Inv'
<1>1. runs[r] \in RunRow /\ Accounted(runs[r], Orphans(r)) /\ runs[r].pc = "put"
  BY RunIs DEF Publish
<1>2. PICK t \in runs[r].recorded :
        \/ /\ HasRoom("inbound")
           /\ msgs' = Append(msgs, Message(t, "inbound", 0))
           /\ LET left == runs[r].recorded \ {t} IN
              runs' = [runs EXCEPT ![r] = Now(@, IF left = {} THEN "record" ELSE "put", @.todo, left, @.count + 1)]
        \/ /\ MayRefuse
           /\ runs' = [runs EXCEPT ![r] = Ended(@)]
           /\ msgs' = msgs
  BY DEF Publish
<1>3. runs[r].recorded = {t} /\ Orphans(r) \subseteq {t} /\ t \in Nat
  BY <1>1, <1>2 DEF Accounted, RunRow
<1>4. UNCHANGED <<backend, txs>> /\ backend # None
  BY DEF Publish
<1>5. CASE runs' = [runs EXCEPT ![r] = Ended(@)] /\ msgs' = msgs
  <2>1. Ended(runs[r]) \in RunRow /\ Ended(runs[r]).pc = "over"
    BY <1>1, EndedIs
  <2>2. Accounted(Ended(runs[r]), Orphans(r))
    BY <1>3, <2>1 DEF Accounted
  <2>3. runs' = [runs EXCEPT ![r] = Ended(runs[r])]
    BY <1>5
  <2>4. QED
    BY <1>4, <1>5, <2>1, <2>2, <2>3, RunGoesOn
<1>6. CASE /\ msgs' = Append(msgs, Message(t, "inbound", 0))
           /\ LET left == runs[r].recorded \ {t} IN
              runs' = [runs EXCEPT ![r] = Now(@, IF left = {} THEN "record" ELSE "put", @.todo, left, @.count + 1)]
  <2> DEFINE new == Message(t, "inbound", 0)
             run == Now(runs[r], "record", runs[r].todo, {}, runs[r].count + 1)
             i == Len(msgs) + 1
  <2>1. runs' = [runs EXCEPT ![r] = run]
    BY <1>3, <1>6
  <2>2. run \in RunRow /\ run.pc = "record"
    <3>1. runs[r].todo \in Nat /\ runs[r].count + 1 \in Nat
      BY <1>1 DEF RunRow
    <3>2. QED
      BY <1>1, <3>1, NowIs DEF Now
  <2>3. new \in MsgRow /\ Kept(new) /\ new.tx = t
    BY <1>3, <1>4 DEF Message, MsgRow, Kept, Topic, Inv, BackendOK
  <2> HIDE DEF run, new
  <2>4. /\ msgs' \in Seq(MsgRow) /\ DOMAIN msgs' = DOMAIN msgs \cup {i} /\ msgs'[i] = new
        /\ \A k \in DOMAIN msgs : msgs'[k] = msgs[k]
    BY <1>6, <2>3, AddRow DEF Inv, MsgsOK, new
  <2>5. \A s : Orphans(s)' \subseteq Orphans(s)
    BY <1>4, <2>4, OrphansShrink
  <2>6. t \notin Orphans(r)'
    BY <2>3, <2>4 DEF Orphans
  <2>7. /\ runs' \in Seq(RunRow) /\ DOMAIN runs' = DOMAIN runs /\ runs'[r] = run
        /\ \A s \in DOMAIN runs : s # r => runs'[s] = runs[s]
    BY <2>1, <2>2, SetRow DEF Inv, RunsOK
  <2>8. ASSUME NEW s \in DOMAIN runs' PROVE Accounted(runs'[s], Orphans(s)')
    <3>1. CASE s = r
      <4>1. Orphans(r)' = {}
        BY <1>3, <2>5, <2>6
      <4>2. Accounted(run, {})
        BY <2>2 DEF Accounted
      <4>3. QED
        BY <2>7, <3>1, <4>1, <4>2
    <3>2. CASE s # r
      <4>1. runs'[s] = runs[s] /\ Accounted(runs[s], Orphans(s)) /\ Orphans(s)' \subseteq Orphans(s)
        BY <2>5, <2>7, <3>2, RunIs
      <4>2. Accounted(runs[s], Orphans(s)')
        BY <4>1, FewerAccounted
      <4>3. QED
        BY <4>1, <4>2
    <3>3. QED
      BY <3>1, <3>2
  <2>9. OrphansOK'
    BY <2>8 DEF OrphansOK
  <2>10. KeptOK'
    BY <2>3, <2>4 DEF Inv, KeptOK
  <2>11. BackendOK' /\ MsgsOK' /\ TxsOK' /\ RunsOK'
    BY <1>4, <2>4, <2>7 DEF Inv, BackendOK, MsgsOK, TxsOK, RunsOK
  <2>12. QED
    BY <2>9, <2>10, <2>11 DEF Inv
<1>7. QED
  BY <1>2, <1>5, <1>6

LEMMA StampKeeps == ASSUME Inv, NEW r \in DOMAIN runs, Stamp(r) PROVE Inv'
<1>1. runs[r] \in RunRow /\ Accounted(runs[r], Orphans(r)) /\ runs' = [runs EXCEPT ![r].pc = "over"]
      /\ UNCHANGED <<backend, msgs, txs>>
  BY RunIs DEF Stamp
<1> DEFINE run == [runs[r] EXCEPT !.pc = "over"]
<1>2. run \in RunRow /\ run.pc = "over" /\ runs' = [runs EXCEPT ![r] = run]
  BY <1>1 DEF RunRow
<1> HIDE DEF run
<1>3. Accounted(run, Orphans(r))
  BY <1>1, <1>2 DEF Accounted
<1>4. QED
  BY <1>1, <1>2, <1>3, RunGoesOn

(***************************************************************************)
(* The process                                                              *)
(***************************************************************************)

LEMMA StopKeeps == ASSUME Inv, Stop PROVE Inv'
<1> DEFINE at(m) == IF m.home = "rabbitmq" /\ ~m.acked THEN "queued" ELSE "lost"
           back(m) == [[m EXCEPT !.next = None] EXCEPT !.at = at(m)]
<1>1. ASSUME NEW m \in MsgRow, Kept(m), m.at # "over"
      PROVE  back(m) \in MsgRow /\ back(m).tx = m.tx /\ Kept(back(m))
  <2> DEFINE a == [m EXCEPT !.next = None]
  <2>1. a \in MsgRow /\ a.tx = m.tx /\ a.home = m.home /\ a.acked = m.acked
    BY DEF MsgRow
  <2>2. at(m) \in {"queued", "lost"} /\ (m.home = "rabbitmq" => at(m) = "queued" /\ ~m.acked)
    BY <1>1 DEF Kept
  <2> HIDE DEF a, at
  <2> DEFINE b == [a EXCEPT !.at = at(m)]
  <2>3. b \in MsgRow /\ b.tx = m.tx /\ b.home = m.home /\ b.acked = m.acked /\ b.at = at(m)
    BY <2>1, <2>2 DEF MsgRow
  <2>4. back(m) = b
    BY DEF a
  <2> HIDE DEF b, back
  <2>5. Kept(b)
    BY <2>2, <2>3 DEF Kept
  <2>6. QED
    BY <2>3, <2>4, <2>5
<1>2. msgs' = [i \in DOMAIN msgs |-> IF msgs[i].at = "over" THEN msgs[i] ELSE back(msgs[i])]
  BY DEF Stop
<1> HIDE DEF back
<1>3. ASSUME NEW i \in DOMAIN msgs
      PROVE  msgs'[i] \in MsgRow /\ msgs'[i].tx = msgs[i].tx /\ Kept(msgs'[i])
  BY <1>1, <1>2, MsgIs
<1>4. msgs' \in Seq(MsgRow) /\ DOMAIN msgs' = DOMAIN msgs
  <2>1. msgs' = [i \in DOMAIN msgs |-> msgs'[i]]
    BY <1>2
  <2>2. QED
    BY <1>3, <2>1, MapRow DEF Inv, MsgsOK
<1>5. runs' = [r \in DOMAIN runs |-> Ended(runs[r])] /\ UNCHANGED txs /\ backend' = None
  BY DEF Stop
<1>6. ASSUME NEW r \in DOMAIN runs PROVE runs'[r] \in RunRow /\ Accounted(runs'[r], Orphans(r)')
  <2>1. runs'[r] \in RunRow /\ runs'[r].pc = "over"
    BY <1>5, RunIs, EndedIs
  <2>2. Orphans(r)' \subseteq Orphans(r)
    BY <1>3, <1>4, <1>5, OrphansShrink
  <2>3. \E t : Orphans(r)' \subseteq {t}
    BY <2>2, RunIs DEF Accounted
  <2>4. QED
    BY <2>1, <2>3 DEF Accounted
<1>7. runs' \in Seq(RunRow) /\ DOMAIN runs' = DOMAIN runs
  <2>1. runs' = [r \in DOMAIN runs |-> runs'[r]]
    BY <1>5
  <2>2. QED
    BY <1>6, <2>1, MapRow DEF Inv, RunsOK
<1>8. OrphansOK'
  BY <1>6, <1>7 DEF OrphansOK
<1>9. BackendOK' /\ MsgsOK' /\ KeptOK' /\ TxsOK' /\ RunsOK'
  BY <1>3, <1>4, <1>5, <1>7 DEF Inv, BackendOK, MsgsOK, KeptOK, TxsOK, RunsOK
<1>10. QED
  BY <1>8, <1>9 DEF Inv

LEMMA OthersKeep ==
    ASSUME Inv, UNCHANGED <<msgs, txs, runs>>, BackendOK' PROVE Inv'
<1>1. \A r : Orphans(r)' = Orphans(r)
  BY DEF Orphans
<1>2. OrphansOK'
  BY <1>1 DEF Inv, OrphansOK
<1>3. MsgsOK' /\ KeptOK' /\ TxsOK' /\ RunsOK'
  BY DEF Inv, MsgsOK, KeptOK, TxsOK, RunsOK
<1>4. QED
  BY <1>2, <1>3 DEF Inv

LEMMA NextKeeps == ASSUME Inv, [Next]_vars PROVE Inv'
<1>1. ASSUME NEW i \in DOMAIN msgs, Consume(i) PROVE Inv'
  BY <1>1, ConsumeKeeps
<1>2. ASSUME NEW r \in DOMAIN runs, Advance(r) PROVE Inv'
  BY <1>2, BeginKeeps, AnswerKeeps, RecordKeeps, PublishKeeps, StampKeeps DEF Advance
<1>3. ASSUME NEW j \in Schedule, Start(j) PROVE Inv'
  BY <1>3, StartKeeps
<1>4. ASSUME NEW j \in Schedule, Edit(j) PROVE Inv'
  BY <1>4, OthersKeep DEF Edit, Inv, BackendOK
<1>5. ASSUME Stop PROVE Inv'
  BY <1>5, StopKeeps
<1>6. ASSUME StartUp PROVE Inv'
  BY <1>6, OthersKeep DEF StartUp, Inv, BackendOK
<1>7. ASSUME UNCHANGED vars PROVE Inv'
  BY <1>7, OthersKeep DEF vars, Inv, BackendOK
<1>8. QED
  BY <1>1, <1>2, <1>3, <1>4, <1>5, <1>6, <1>7 DEF Next

LEMMA InvAlways == Spec => []Inv
<1>1. Init => Inv
  BY DEF Init, Inv, BackendOK, MsgsOK, TxsOK, RunsOK, KeptOK, OrphansOK
<1>2. Inv /\ [Next]_vars => Inv'
  BY NextKeeps
<1>3. QED
  BY <1>1, <1>2, PTL DEF Spec

(* What RabbitMQ has accepted is handled to the end before it is forgotten:    *)
(* its message is acknowledged only when the task ends (broker.py:143), and    *)
(* the end of the process puts it back.                                        *)
THEOREM AcceptedIsKeptHolds == Spec => []AcceptedIsKept
<1>1. Inv => AcceptedIsKept
  BY DEF Inv, KeptOK, Kept, AcceptedIsKept
<1>2. QED
  BY <1>1, InvAlways, PTL

(* However runs overlap and whatever interrupts them, each leaves at most one  *)
(* record queued without a message (_run_job, scheduler.py:92-103).            *)
THEOREM OneOrphanHolds == Spec => []OneOrphanPerRun
<1>1. ASSUME Inv, NEW r \in DOMAIN runs PROVE Cardinality(Orphans(r)) <= 1
  <2>1. PICK t : Orphans(r) \subseteq {t}
    BY <1>1, RunIs DEF Accounted
  <2>2. IsFiniteSet({t}) /\ Cardinality({t}) = 1
    BY FS_Singleton
  <2>3. Cardinality(Orphans(r)) <= Cardinality({t})
    BY <2>1, <2>2, FS_Subset
  <2>4. QED
    BY <2>2, <2>3
<1>2. Inv => OneOrphanPerRun
  BY <1>1 DEF OneOrphanPerRun
<1>3. QED
  BY <1>2, InvAlways, PTL
=============================================================================
