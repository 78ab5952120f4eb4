--------------------------- MODULE SharePointProofs ---------------------------
(* What SharePoint says of its types and of racing upserts, for any number of  *)
(* runs, requests, rows and list items.                                        *)
EXTENDS SharePoint, FiniteSetTheorems, SequenceTheorems, TLAPS

(***************************************************************************)
(* Types                                                                    *)
(***************************************************************************)

(* What update_connection may have decided to write.                           *)
ConnData ==
    {[f \in {} |-> None]} \cup {[f \in {"secret"} |-> s] : s \in Secret}
        \cup {[f \in {"enabled"} |-> on] : on \in BOOLEAN}

(* A write in flight fits the row it is for.                                   *)
WritesTo(table, ids, rows, merged) ==
    [table : {table}, id : ids, how : {"insert"}, data : rows]
        \cup [table : {table}, id : ids, how : {"update"}, data : merged]
        \cup [table : {table}, id : ids, how : {"remove"}, data : {None}]

ConnWrites == WritesTo("conns", Conn, ConnRow, ConnData)
FileWrites == WritesTo("acts", FileAct, Files, Files)
ListWrites == WritesTo("acts", ListAct, Lists, Lists)

PendingOK == pending \in [Req -> ConnWrites \cup FileWrites \cup ListWrites \cup {None}]

(* A run past its upload has a file to work on.                                *)
Uploaded ==
    \A r \in Run : run[r].pc \in {"columns", "checkin"} => 
        run[r].cfg \in Files /\ files[run[r].cfg.folder] \in FileState

TypeInv == TypeOK /\ PendingOK /\ Uploaded

(* Merging one row of a file action into another gives the other.              *)
LEMMA MergeFile == ASSUME NEW row \in FileRow, NEW data \in FileRow, row # None
                   PROVE  Merge(row, data) = data
BY DEF Merge, FileRow

LEMMA MergeList == ASSUME NEW row \in ListRow, NEW data \in ListRow, row # None
                   PROVE  Merge(row, data) = data
BY DEF Merge, ListRow

LEMMA MergeConn == ASSUME NEW row \in ConnRow, NEW data \in ConnData, row # None
                   PROVE  Merge(row, data) \in ConnRow
<1>1. CASE data = [f \in {} |-> None]
  BY <1>1 DEF Merge, ConnRow
<1>2. ASSUME NEW s \in Secret, data = [f \in {"secret"} |-> s]
      PROVE  Merge(row, data) \in ConnRow
  BY <1>2 DEF Merge, ConnRow
<1>3. ASSUME NEW on \in BOOLEAN, data = [f \in {"enabled"} |-> on]
      PROVE  Merge(row, data) \in ConnRow
  BY <1>3 DEF Merge, ConnRow
<1>4. QED
  BY <1>1, <1>2, <1>3 DEF ConnData

(* The folder of a row is among the paths.                                     *)
LEMMA FolderKnown == ASSUME NEW f \in Files PROVE f.folder \in Paths
<1>1. f.folder \in Seq(STRING)
  BY SharePointAssumption DEF FileRow
<1>2. Len(f.folder) \in 0 .. Len(f.folder)
  BY <1>1
<1>3. SubSeq(f.folder, 1, Len(f.folder)) = f.folder
  BY <1>1
<1>4. f.folder \in {SubSeq(f.folder, 1, k) : k \in 0 .. Len(f.folder)}
  BY <1>2, <1>3
<1>5. QED
  BY <1>4 DEF Paths

(* The kind of a run's row says where the row comes from.                      *)
LEMMA KindOf ==
    ASSUME NEW cfg \in Files \cup Lists \cup ProbeRow
    PROVE  /\ cfg.kind = "file" => cfg \in Files
           /\ cfg.kind = "list" => cfg \in Lists
BY SharePointAssumption DEF FileRow, ListRow, ProbeRow

LEMMA TypeInit == Init => TypeInv
<1>1. SUFFICES ASSUME Init PROVE TypeInv
  OBVIOUS
<1>2. PICK t \in Installed : conns = t.conns /\ acts = t.acts
  BY <1>1 DEF Init
<1>3. conns \in [Conn -> ConnRow \cup {None}] /\ acts \in Kept
  BY <1>2, SharePointAssumption
<1>4. budget \in 0 .. Budget
  BY <1>1, SharePointAssumption DEF Init
<1>5. run \in [Run -> RunRow] /\ \A r \in Run : run[r].pc = "idle"
  BY <1>1 DEF Init, Idle, RunRow
<1>6. /\ folders \in [Paths -> Run \cup {None}]
      /\ files \in [Paths -> FileState \cup {None}]
      /\ items \in [Item -> ItemRow \cup {None}]
  BY <1>1 DEF Init
<1>7. PendingOK
  BY <1>1 DEF Init, PendingOK
<1>8. Uploaded /\ \A r \in Run : Active(r) => run[r].cfg # None
  BY <1>5 DEF Uploaded, Active, Step
<1>9. QED
  BY <1>3, <1>4, <1>5, <1>6, <1>7, <1>8 DEF TypeInv, TypeOK

(* A request that decides keeps the types when its write fits.                 *)
LEMMA TypeDecide ==
    ASSUME TypeInv, NEW q \in Req,
           NEW w \in ConnWrites \cup FileWrites \cup ListWrites, Decide(q, w)
    PROVE  TypeInv'
<1>1. pending' \in [Req -> ConnWrites \cup FileWrites \cup ListWrites \cup {None}]
  BY DEF Decide, TypeInv, PendingOK
<1>2. budget' \in 0 .. Budget
  BY SharePointAssumption DEF Decide, TypeInv, TypeOK
<1>3. QED
  BY <1>1, <1>2 DEF Decide, TypeInv, TypeOK, PendingOK, Uploaded, graph, Active,
     ConnWrites, FileWrites, ListWrites, WritesTo, ConnData

LEMMA TypeConnection ==
    ASSUME TypeInv, NEW q \in Req, NEW c \in Conn,
           CreateConnection(q, c) \/ UpdateConnection(q, c) \/ DeleteConnection(q, c)
    PROVE  TypeInv'
<1>1. CASE CreateConnection(q, c)
  <2>1. PICK secret \in Secret \cup {Blank}, on \in BOOLEAN :
           Decide(q, [table |-> "conns", id |-> c, how |-> "insert",
                      data |-> [enabled |-> on, secret |-> secret]])
    BY <1>1 DEF CreateConnection
  <2>2. [enabled |-> on, secret |-> secret] \in ConnRow
    BY DEF ConnRow
  <2>3. QED
    BY <2>1, <2>2, TypeDecide DEF ConnWrites, WritesTo
<1>2. CASE UpdateConnection(q, c)
  <2>1. PICK data \in ConnData :
           Decide(q, [table |-> "conns", id |-> c, how |-> "update", data |-> data])
    BY <1>2 DEF UpdateConnection, SecretGiven, ConnData
  <2>2. QED
    BY <2>1, TypeDecide DEF ConnWrites, WritesTo
<1>3. CASE DeleteConnection(q, c)
  BY <1>3, TypeDecide DEF DeleteConnection, ConnWrites, WritesTo
<1>4. QED
  BY <1>1, <1>2, <1>3

LEMMA TypeAction ==
    ASSUME TypeInv, NEW q \in Req, NEW a \in Act,
           \/ CreateFileAction(q, a) \/ UpdateFileAction(q, a) \/ DeleteFileAction(q, a)
           \/ CreateListAction(q, a) \/ UpdateListAction(q, a) \/ DeleteListAction(q, a)
    PROVE  TypeInv'
<1>1. CASE CreateFileAction(q, a)
  BY <1>1, TypeDecide DEF CreateFileAction, FileWrites, WritesTo
<1>2. CASE UpdateFileAction(q, a)
  BY <1>2, TypeDecide DEF UpdateFileAction, FileWrites, WritesTo
<1>3. CASE DeleteFileAction(q, a)
  BY <1>3, TypeDecide DEF DeleteFileAction, FileWrites, WritesTo
<1>4. CASE CreateListAction(q, a)
  BY <1>4, TypeDecide DEF CreateListAction, ListWrites, WritesTo
<1>5. CASE UpdateListAction(q, a)
  BY <1>5, TypeDecide DEF UpdateListAction, ListWrites, WritesTo
<1>6. CASE DeleteListAction(q, a)
  BY <1>6, TypeDecide DEF DeleteListAction, ListWrites, WritesTo
<1>7. QED
  BY <1>1, <1>2, <1>3, <1>4, <1>5, <1>6

(* What a write leaves in its row.                                             *)
LEMMA WrittenConn ==
    ASSUME NEW row \in ConnRow \cup {None}, NEW w \in ConnWrites
    PROVE  Written(row, w) \in ConnRow \cup {None}
<1>1. CASE w.how = "insert"
  BY <1>1 DEF Written, ConnWrites, WritesTo
<1>2. CASE w.how = "update"
  <2>1. w.data \in ConnData
    BY <1>2 DEF ConnWrites, WritesTo
  <2>2. CASE row = None
    BY <1>2, <2>2 DEF Written, Merge
  <2>3. CASE row # None
    BY <1>2, <2>1, <2>3, MergeConn DEF Written
  <2>4. QED
    BY <2>2, <2>3
<1>3. CASE w.how = "remove"
  BY <1>3 DEF Written
<1>4. QED
  BY <1>1, <1>2, <1>3 DEF ConnWrites, WritesTo

LEMMA WrittenFile ==
    ASSUME NEW row \in Files \cup {None}, NEW w \in FileWrites
    PROVE  Written(row, w) \in Files \cup {None}
<1>1. CASE w.how = "insert"
  BY <1>1 DEF Written, FileWrites, WritesTo
<1>2. CASE w.how = "update"
  <2>1. w.data \in Files
    BY <1>2 DEF FileWrites, WritesTo
  <2>2. CASE row = None
    BY <1>2, <2>2 DEF Written, Merge
  <2>3. CASE row # None
    BY <1>2, <2>1, <2>3, MergeFile, SharePointAssumption DEF Written
  <2>4. QED
    BY <2>2, <2>3
<1>3. CASE w.how = "remove"
  BY <1>3 DEF Written
<1>4. QED
  BY <1>1, <1>2, <1>3 DEF FileWrites, WritesTo

LEMMA WrittenList ==
    ASSUME NEW row \in Lists \cup {None}, NEW w \in ListWrites
    PROVE  Written(row, w) \in Lists \cup {None}
<1>1. CASE w.how = "insert"
  BY <1>1 DEF Written, ListWrites, WritesTo
<1>2. CASE w.how = "update"
  <2>1. w.data \in Lists
    BY <1>2 DEF ListWrites, WritesTo
  <2>2. CASE row = None
    BY <1>2, <2>2 DEF Written, Merge
  <2>3. CASE row # None
    BY <1>2, <2>1, <2>3, MergeList, SharePointAssumption DEF Written
  <2>4. QED
    BY <2>2, <2>3
<1>3. CASE w.how = "remove"
  BY <1>3 DEF Written
<1>4. QED
  BY <1>1, <1>2, <1>3 DEF ListWrites, WritesTo

LEMMA TypeWrite == ASSUME TypeInv, NEW q \in Req, Write(q) PROVE TypeInv'
<1> DEFINE w == pending[q]
<1>1. w \in ConnWrites \cup FileWrites \cup ListWrites
  BY DEF TypeInv, PendingOK, Write
<1>2. PendingOK'
  <2>1. pending' = [pending EXCEPT ![q] = None]
    BY DEF Write
  <2>2. pending' \in [Req -> ConnWrites \cup FileWrites \cup ListWrites \cup {None}]
    BY <2>1 DEF TypeInv, PendingOK
  <2>3. QED
    BY <2>2 DEF PendingOK, ConnWrites, FileWrites, ListWrites, WritesTo, ConnData
<1>3. conns' \in [Conn -> ConnRow \cup {None}] /\ acts' \in Kept
  <2>1. CASE w \in ConnWrites
    <3>1. w.table = "conns" /\ w.id \in Conn
      BY <2>1 DEF ConnWrites, WritesTo
    <3>2. conns' = [conns EXCEPT ![w.id] = Written(conns[w.id], w)] /\ acts' = acts
      BY <3>1 DEF Write
    <3>3. conns \in [Conn -> ConnRow \cup {None}] /\ acts \in Kept
      BY DEF TypeInv, TypeOK
    <3>4. Written(conns[w.id], w) \in ConnRow \cup {None}
      BY <2>1, <3>1, <3>3, WrittenConn
    <3>5. QED
      BY <3>1, <3>2, <3>3, <3>4
  <2>2. CASE w \in FileWrites \cup ListWrites
    <3>1. w.table = "acts" /\ w.id \in Act
      BY <2>2 DEF FileWrites, ListWrites, WritesTo, Act
    <3>2. acts' = [acts EXCEPT ![w.id] = Written(acts[w.id], w)] /\ conns' = conns
      BY <3>1 DEF Write
    <3>3. conns \in [Conn -> ConnRow \cup {None}] /\ acts \in Kept
      BY DEF TypeInv, TypeOK
    <3>4. acts[w.id] \in (IF w.id \in FileAct THEN Files ELSE Lists) \cup {None}
      BY <3>1, <3>3 DEF Kept
    <3>5. Written(acts[w.id], w) \in (IF w.id \in FileAct THEN Files ELSE Lists) \cup {None}
      <4>1. CASE w \in FileWrites
        <5>1. w.id \in FileAct
          BY <4>1 DEF FileWrites, WritesTo
        <5>2. QED
          BY <3>4, <4>1, <5>1, WrittenFile
      <4>2. CASE w \in ListWrites
        <5>1. w.id \notin FileAct
          BY <4>2, SharePointAssumption DEF ListWrites, WritesTo
        <5>2. QED
          BY <3>4, <4>2, <5>1, WrittenList
      <4>3. QED
        BY <2>2, <4>1, <4>2
    <3>6. QED
      BY <3>1, <3>2, <3>3, <3>5 DEF Kept
  <2>3. QED
    BY <1>1, <2>1, <2>2
<1>4. QED
  BY <1>2, <1>3 DEF Write, TypeInv, TypeOK, Uploaded, graph, Active

(* A run's step keeps the types when the run, and what it did in Graph, fit.   *)
LEMMA TypeRun ==
    ASSUME TypeInv, UNCHANGED admin, NEW r \in Run, NEW row \in RunRow,
           run' = [run EXCEPT ![r] = row],
           row.pc \in Step => row.cfg # None,
           folders' \in [Paths -> Run \cup {None}],
           files' \in [Paths -> FileState \cup {None}],
           items' \in [Item -> ItemRow \cup {None}],
           \A p \in Paths : files[p] \in FileState => files'[p] \in FileState,
           row.pc \in {"columns", "checkin"} =>
               row.cfg \in Files /\ files'[row.cfg.folder] \in FileState
    PROVE  TypeInv'
<1>1. run' \in [Run -> RunRow] /\ \A s \in Run : run'[s] = IF s = r THEN row ELSE run[s]
  BY DEF TypeInv, TypeOK
<1>2. \A s \in Run : Active(s)' => run'[s].cfg # None
  BY <1>1 DEF TypeInv, TypeOK, Active
<1>3. Uploaded'
  <2>1. SUFFICES ASSUME NEW s \in Run, run'[s].pc \in {"columns", "checkin"}
                 PROVE  run'[s].cfg \in Files /\ files'[run'[s].cfg.folder] \in FileState
    BY DEF Uploaded
  <2>2. CASE s = r
    BY <1>1, <2>1, <2>2
  <2>3. CASE s # r
    <3>1. run'[s] = run[s]
      BY <1>1, <2>3
    <3>2. run[s].cfg \in Files /\ files[run[s].cfg.folder] \in FileState
      BY <2>1, <3>1 DEF TypeInv, Uploaded
    <3>3. QED
      BY <3>1, <3>2, FolderKnown
  <2>4. QED
    BY <2>2, <2>3
<1>4. QED
  BY <1>1, <1>2, <1>3 DEF admin, TypeInv, TypeOK, PendingOK, ConnWrites, FileWrites,
     ListWrites, WritesTo, ConnData

(* A run that raises, and one that goes on without having touched Graph.       *)
LEMMA TypeEnd ==
    ASSUME TypeInv, UNCHANGED admin, NEW r \in Run, NEW how \in {"failed", "lost"}, End(r, how),
           folders' \in [Paths -> Run \cup {None}],
           files' \in [Paths -> FileState \cup {None}],
           items' \in [Item -> ItemRow \cup {None}],
           \A p \in Paths : files[p] \in FileState => files'[p] \in FileState
    PROVE  TypeInv'
<1> DEFINE row == [Idle EXCEPT !.pc = how]
<1>1. row \in RunRow /\ row.pc = how
  BY DEF Idle, RunRow
<1>2. run' = [run EXCEPT ![r] = row]
  BY DEF End
<1>3. row.pc \notin Step /\ row.pc \notin {"columns", "checkin"}
  BY <1>1 DEF Step
<1> HIDE DEF row
<1>4. QED
  BY <1>1, <1>2, <1>3, TypeRun

LEMMA TypeGoto ==
    ASSUME TypeInv, UNCHANGED admin, NEW r \in Run,
           Active(r), NEW pc \in Step \cup {"ok", "failed"}, Goto(r, pc),
           folders' \in [Paths -> Run \cup {None}],
           files' \in [Paths -> FileState \cup {None}],
           items' \in [Item -> ItemRow \cup {None}],
           \A p \in Paths : files[p] \in FileState => files'[p] \in FileState,
           pc \in {"columns", "checkin"} =>
               run[r].cfg \in Files /\ files'[run[r].cfg.folder] \in FileState
    PROVE  TypeInv'
<1> DEFINE row == [run[r] EXCEPT !.pc = pc]
<1>1. run[r] \in RunRow
  BY DEF TypeInv, TypeOK
<1>2. row \in RunRow /\ row.pc = pc /\ row.cfg = run[r].cfg
  BY <1>1 DEF RunRow
<1>3. run' = [run EXCEPT ![r] = row]
  BY DEF Goto
<1>4. row.cfg # None
  BY <1>2 DEF TypeInv, TypeOK
<1> HIDE DEF row
<1>5. QED
  BY <1>2, <1>3, <1>4, TypeRun

(* What Graph keeps is as it was.                                              *)
LEMMA GraphSame ==
    ASSUME TypeInv, UNCHANGED graph
    PROVE  /\ folders' \in [Paths -> Run \cup {None}]
           /\ files' \in [Paths -> FileState \cup {None}]
           /\ items' \in [Item -> ItemRow \cup {None}]
           /\ \A p \in Paths : files[p] \in FileState => files'[p] \in FileState
           /\ files' = files
BY DEF TypeInv, TypeOK, graph

LEMMA TypeBegin ==
    ASSUME TypeInv, NEW r \in Run, Begin(r)
    PROVE  TypeInv'
<1>1. ASSUME NEW a \in Act, StartRun(r, a) PROVE TypeInv'
  <2>1. UNCHANGED admin /\ UNCHANGED graph
    BY <1>1 DEF StartRun
  <2>2. CASE acts[a] # None /\ acts[a].enabled
    <3> DEFINE row == Taken(acts[a])
    <3>1. acts[a] \in Files \cup Lists
      BY <2>2, <1>1 DEF TypeInv, TypeOK, Kept
    <3>2. row \in RunRow /\ row.pc = "connect" /\ row.cfg # None
      BY <3>1, <2>2 DEF RunRow, Step, Taken
    <3>3. run' = [run EXCEPT ![r] = row]
      BY <1>1, <2>2 DEF StartRun
    <3> HIDE DEF row
    <3>4. QED
      BY <2>1, <3>2, <3>3, GraphSame, TypeRun
  <2>3. CASE ~(acts[a] # None /\ acts[a].enabled)
    BY <1>1, <2>1, <2>3, GraphSame, TypeEnd DEF StartRun, Fail
  <2>4. QED
    BY <2>2, <2>3
<1>2. ASSUME NEW c \in Conn, NEW kind \in {"test", "browse"}, StartProbe(r, c, kind)
      PROVE  TypeInv'
  <2> DEFINE probe == [kind |-> kind, conn |-> c]
  <2> DEFINE row == Taken(probe)
  <2>1. UNCHANGED admin /\ UNCHANGED graph
    BY <1>2 DEF StartProbe
  <2>2. probe \in ProbeRow
    BY DEF ProbeRow
  <2>3. run' = [run EXCEPT ![r] = row]
    BY <1>2 DEF StartProbe
  <2>4. probe # None
    BY <2>2, SharePointAssumption
  <2> HIDE DEF probe
  <2>5. row \in RunRow /\ row.pc = "connect" /\ row.cfg # None
    BY <2>2, <2>4 DEF RunRow, Step, Taken
  <2> HIDE DEF row
  <2>6. QED
    BY <2>1, <2>3, <2>5, GraphSame, TypeRun
<1>3. QED
  BY <1>1, <1>2 DEF Begin

(* A run at work on a file or a list item has such a row.                      *)
LEMMA Working ==
    ASSUME TypeInv, NEW r \in Run, Active(r)
    PROVE  /\ run[r] \in RunRow
           /\ run[r].cfg \in Files \cup Lists \cup ProbeRow
           /\ run[r].cfg.kind = "file" => run[r].cfg \in Files
           /\ run[r].cfg.kind = "list" => run[r].cfg \in Lists
<1>1. run[r] \in RunRow /\ run[r].cfg # None
  BY DEF TypeInv, TypeOK
<1>2. run[r].cfg \in Files \cup Lists \cup ProbeRow
  BY <1>1 DEF RunRow
<1>3. QED
  BY <1>1, <1>2, KindOf

(* The steps that change nothing but the run.                                  *)
LEMMA TypeRunOnly ==
    ASSUME TypeInv, NEW r \in Run, Active(r), UNCHANGED admin, UNCHANGED graph,
           \/ \E pc \in Step \cup {"ok", "failed"} : pc \notin {"columns", "checkin"} /\ Goto(r, pc)
           \/ \E pc \in Step \cup {"ok", "failed"}, item \in Item \cup {None} :
                 /\ pc \notin {"columns", "checkin"}
                 /\ run' = [run EXCEPT ![r].pc = pc, ![r].item = item]
           \/ \E pc \in Step, depth \in Nat :
                 /\ pc \notin {"columns", "checkin"}
                 /\ run' = [run EXCEPT ![r].depth = depth, ![r].pc = pc]
           \/ Fail(r) \/ Refused(r) \/ Lost(r)
    PROVE  TypeInv'
<1>1. run[r] \in RunRow /\ run[r].cfg # None
  BY DEF TypeInv, TypeOK
<1>2. ASSUME NEW pc \in Step \cup {"ok", "failed"}, pc \notin {"columns", "checkin"}, Goto(r, pc)
      PROVE  TypeInv'
  BY <1>2, GraphSame, TypeGoto
<1>3. ASSUME NEW pc \in Step \cup {"ok", "failed"}, NEW item \in Item \cup {None},
             pc \notin {"columns", "checkin"},
             run' = [run EXCEPT ![r].pc = pc, ![r].item = item]
      PROVE  TypeInv'
  <2> DEFINE row == [[run[r] EXCEPT !.pc = pc] EXCEPT !.item = item]
  <2>1. row \in RunRow /\ row.pc = pc /\ row.cfg = run[r].cfg
    BY <1>1 DEF RunRow
  <2>2. run' = [run EXCEPT ![r] = row]
    BY <1>3
  <2> HIDE DEF row
  <2>3. QED
    BY <1>1, <1>3, <2>1, <2>2, GraphSame, TypeRun
<1>4. ASSUME NEW pc \in Step, NEW depth \in Nat, pc \notin {"columns", "checkin"},
             run' = [run EXCEPT ![r].depth = depth, ![r].pc = pc]
      PROVE  TypeInv'
  <2> DEFINE row == [[run[r] EXCEPT !.depth = depth] EXCEPT !.pc = pc]
  <2>1. row \in RunRow /\ row.pc = pc /\ row.cfg = run[r].cfg
    BY <1>1 DEF RunRow
  <2>2. run' = [run EXCEPT ![r] = row]
    BY <1>4
  <2> HIDE DEF row
  <2>3. QED
    BY <1>1, <1>4, <2>1, <2>2, GraphSame, TypeRun
<1>5. CASE Fail(r) \/ Refused(r) \/ Lost(r)
  BY <1>5, GraphSame, TypeEnd DEF Fail, Refused, Lost
<1>6. QED
  BY <1>2, <1>3, <1>4, <1>5

LEMMA TypeCommon ==
    ASSUME TypeInv, NEW r \in Run, GetConnection(r) \/ Token(r) \/ Probe(r)
    PROVE  TypeInv'
<1>1. CASE GetConnection(r)
  BY <1>1, TypeRunOnly DEF GetConnection, Active, Step
<1>2. CASE Token(r)
  <2>1. Active(r) /\ UNCHANGED admin /\ UNCHANGED graph
    BY <1>2 DEF Token, Active, Step
  <2>2. CASE Refused(r) \/ Lost(r)
    BY <2>1, <2>2, TypeRunOnly
  <2>3. CASE ~(Refused(r) \/ Lost(r))
    <3> DEFINE cfg == run[r].cfg
    <3> DEFINE next == CASE cfg.kind = "file" -> IF cfg.target THEN "fetch" ELSE "failed"
                         [] cfg.kind = "list" -> ListStep(cfg)
                         [] OTHER -> "probe"
    <3> DEFINE item == IF cfg.kind = "list" THEN cfg.item ELSE None
    <3>1. run' = [run EXCEPT ![r].pc = next, ![r].item = item]
      BY <1>2, <2>3 DEF Token
    <3>2. next \in Step \cup {"ok", "failed"} /\ next \notin {"columns", "checkin"}
      BY DEF ListStep, Step
    <3>3. item \in Item \cup {None}
      BY <2>1, Working, SharePointAssumption DEF ListRow
    <3> HIDE DEF next, item
    <3>4. QED
      BY <2>1, <3>1, <3>2, <3>3, TypeRunOnly
  <2>4. QED
    BY <2>2, <2>3
<1>3. CASE Probe(r)
  BY <1>3, TypeRunOnly DEF Probe, Active, Step
<1>4. QED
  BY <1>1, <1>2, <1>3

LEMMA TypeLookup == ASSUME TypeInv, NEW r \in Run, Lookup(r) PROVE TypeInv'
<1>1. Active(r) /\ UNCHANGED admin /\ UNCHANGED graph
  BY DEF Lookup, Active, Step, At
<1>2. CASE Refused(r) \/ Lost(r)
  BY <1>1, <1>2, TypeRunOnly
<1>3. CASE ~(Refused(r) \/ Lost(r))
  <2>1. PICK i \in Item \cup {None} :
           run' = [run EXCEPT ![r].pc = AfterLookup(run[r].cfg, i), ![r].item = i]
    BY <1>3 DEF Lookup, Found
  <2>2. AfterLookup(run[r].cfg, i) \in {"ok", "failed", "write"}
    BY DEF AfterLookup
  <2>3. QED
    BY <1>1, <2>1, <2>2, TypeRunOnly DEF Step
<1>4. QED
  BY <1>2, <1>3

LEMMA TypeDeeper ==
    ASSUME TypeInv, UNCHANGED admin, NEW r \in Run, Active(r), Deeper(r),
           folders' \in [Paths -> Run \cup {None}], UNCHANGED <<files, items>>
    PROVE  TypeInv'
<1> DEFINE pc == IF run[r].depth + 1 = Len(Path(r)) THEN "upload" ELSE "folder"
<1> DEFINE deep == run[r].depth + 1
<1> DEFINE row == [[run[r] EXCEPT !.depth = deep] EXCEPT !.pc = pc]
<1>1. run[r] \in RunRow /\ run[r].cfg # None
  BY DEF TypeInv, TypeOK
<1>2. pc \in {"upload", "folder"}
  OBVIOUS
<1>3. run' = [run EXCEPT ![r] = row]
  BY DEF Deeper
<1>7. deep \in Nat
  BY <1>1 DEF RunRow
<1> HIDE DEF pc, deep
<1>4. row \in RunRow /\ row.pc = pc /\ row.cfg = run[r].cfg
  BY <1>1, <1>2, <1>7 DEF RunRow, Step
<1> HIDE DEF row
<1>5. files' \in [Paths -> FileState \cup {None}] /\ items' \in [Item -> ItemRow \cup {None}]
  BY DEF TypeInv, TypeOK
<1>6. QED
  BY <1>1, <1>2, <1>3, <1>4, <1>5, TypeRun

LEMMA TypeFolder ==
    ASSUME TypeInv, NEW r \in Run, Fetch(r) \/ LookFolder(r) \/ MakeFolder(r)
    PROVE  TypeInv'
<1>1. Active(r) /\ UNCHANGED admin
  BY DEF Fetch, LookFolder, MakeFolder, Active, Step, At
<1>2. CASE Fetch(r)
  BY <1>1, <1>2, TypeRunOnly DEF Fetch, Step
<1>3. CASE LookFolder(r)
  <2>1. UNCHANGED graph
    BY <1>3 DEF LookFolder
  <2>2. CASE Deeper(r)
    BY <1>1, <2>1, <2>2, GraphSame, TypeDeeper DEF graph
  <2>3. CASE ~Deeper(r)
    BY <1>1, <1>3, <2>1, <2>3, TypeRunOnly DEF LookFolder, Step
  <2>4. QED
    BY <2>2, <2>3
<1>4. CASE MakeFolder(r)
  <2>1. UNCHANGED <<files, items>>
    BY <1>4 DEF MakeFolder
  <2>2. folders' \in {folders, Made(r)}
    BY <1>4 DEF MakeFolder
  <2>3. folders' \in [Paths -> Run \cup {None}]
    BY <2>2 DEF Made, TypeInv, TypeOK
  <2>4. CASE Deeper(r)
    BY <1>1, <2>1, <2>3, <2>4, TypeDeeper
  <2>5. CASE Fail(r) \/ Refused(r) \/ Lost(r)
    BY <1>1, <2>1, <2>3, <2>5, TypeEnd DEF Fail, Refused, Lost, TypeInv, TypeOK
  <2>6. QED
    BY <1>4, <2>4, <2>5 DEF MakeFolder
<1>5. QED
  BY <1>2, <1>3, <1>4

(* What a step of an upload leaves in place of the file.                       *)
LEMMA TypeFileStep ==
    ASSUME TypeInv, NEW r \in Run, Active(r), UNCHANGED admin, UNCHANGED <<folders, items>>,
           run[r].cfg \in Files, NEW file \in FileState,
           files' \in {files, [files EXCEPT ![Path(r)] = file]},
           \/ Fail(r) \/ Refused(r) \/ Lost(r)
           \/ \E pc \in {"columns", "checkin", "ok"} :
                 Goto(r, pc) /\ files' = [files EXCEPT ![Path(r)] = file]
    PROVE  TypeInv'
<1>1. Path(r) \in Paths
  BY FolderKnown DEF Path
<1>2. /\ files' \in [Paths -> FileState \cup {None}]
      /\ \A p \in Paths : files[p] \in FileState => files'[p] \in FileState
  BY <1>1 DEF TypeInv, TypeOK
<1>3. folders' \in [Paths -> Run \cup {None}] /\ items' \in [Item -> ItemRow \cup {None}]
  BY DEF TypeInv, TypeOK
<1>4. ASSUME NEW pc \in {"columns", "checkin", "ok"}, Goto(r, pc),
             files' = [files EXCEPT ![Path(r)] = file]
      PROVE  TypeInv'
  <2>1. files'[run[r].cfg.folder] \in FileState
    BY <1>1, <1>4 DEF TypeInv, TypeOK, Path
  <2>2. QED
    BY <1>2, <1>3, <1>4, <2>1, TypeGoto DEF Step
<1>5. QED
  BY <1>2, <1>3, <1>4, TypeEnd DEF Fail, Refused, Lost

LEMMA TypeUpload ==
    ASSUME TypeInv, NEW r \in Run, Upload(r) \/ SetColumns(r) \/ CheckIn(r)
    PROVE  TypeInv'
<1>1. Active(r) /\ UNCHANGED admin /\ UNCHANGED <<folders, items>>
  BY DEF Upload, SetColumns, CheckIn, Active, Step, At
<1>2. run[r].cfg \in Files
  BY <1>1, Working DEF Upload, SetColumns, CheckIn, At
<1>3. Path(r) \in Paths
  BY <1>2, FolderKnown DEF Path
<1>4. CASE Upload(r)
  <2> DEFINE old == files[Path(r)]
  <2> DEFINE file == [by |-> r, checked |-> FALSE, fields |-> IF old = None THEN None ELSE old.fields]
  <2>1. old \in FileState \cup {None}
    BY <1>3 DEF TypeInv, TypeOK
  <2>2. file \in FileState
    BY <2>1 DEF FileState
  <2>3. Stored(r) = [files EXCEPT ![Path(r)] = file]
    BY <1>3 DEF Stored, TypeInv, TypeOK
  <2>4. AfterUpload(run[r].cfg) \in {"columns", "checkin", "ok"}
    BY DEF AfterUpload, AfterColumns
  <2> HIDE DEF file
  <2>5. files' \in {files, [files EXCEPT ![Path(r)] = file]}
    BY <1>4, <2>3 DEF Upload
  <2>6. \/ Fail(r) \/ Refused(r) \/ Lost(r)
        \/ \E pc \in {"columns", "checkin", "ok"} :
              Goto(r, pc) /\ files' = [files EXCEPT ![Path(r)] = file]
    BY <1>4, <2>3, <2>4 DEF Upload
  <2>7. QED
    BY <1>1, <1>2, <2>2, <2>5, <2>6, TypeFileStep
<1>5. CASE SetColumns(r)
  <2> DEFINE file == [files[Path(r)] EXCEPT !.fields = r]
  <2>1. files[Path(r)] \in FileState
    BY <1>5 DEF SetColumns, At, TypeInv, Uploaded, Path
  <2>2. file \in FileState
    BY <2>1 DEF FileState
  <2>3. [files EXCEPT ![Path(r)].fields = r] = [files EXCEPT ![Path(r)] = file]
    OBVIOUS
  <2>4. AfterColumns(run[r].cfg) \in {"columns", "checkin", "ok"}
    BY DEF AfterColumns
  <2> HIDE DEF file
  <2>5. files' \in {files, [files EXCEPT ![Path(r)] = file]}
    BY <1>5, <2>3 DEF SetColumns
  <2>6. \/ Fail(r) \/ Refused(r) \/ Lost(r)
        \/ \E pc \in {"columns", "checkin", "ok"} :
              Goto(r, pc) /\ files' = [files EXCEPT ![Path(r)] = file]
    BY <1>5, <2>3, <2>4 DEF SetColumns
  <2>7. QED
    BY <1>1, <1>2, <2>2, <2>5, <2>6, TypeFileStep
<1>6. CASE CheckIn(r)
  <2> DEFINE file == [files[Path(r)] EXCEPT !.checked = TRUE]
  <2>1. files[Path(r)] \in FileState
    BY <1>6 DEF CheckIn, At, TypeInv, Uploaded, Path
  <2>2. file \in FileState
    BY <2>1 DEF FileState
  <2>3. [files EXCEPT ![Path(r)].checked = TRUE] = [files EXCEPT ![Path(r)] = file]
    OBVIOUS
  <2> HIDE DEF file
  <2>5. files' \in {files, [files EXCEPT ![Path(r)] = file]}
    BY <1>6, <2>3 DEF CheckIn
  <2>6. \/ Fail(r) \/ Refused(r) \/ Lost(r)
        \/ \E pc \in {"columns", "checkin", "ok"} :
              Goto(r, pc) /\ files' = [files EXCEPT ![Path(r)] = file]
    BY <1>6, <2>3 DEF CheckIn
  <2>7. QED
    BY <1>1, <1>2, <2>2, <2>5, <2>6, TypeFileStep
<1>7. QED
  BY <1>4, <1>5, <1>6

LEMMA TypeWriteList == ASSUME TypeInv, NEW r \in Run, WriteList(r) PROVE TypeInv'
<1> DEFINE cfg == run[r].cfg
<1>1. Active(r) /\ UNCHANGED admin /\ UNCHANGED <<folders, files>>
  BY DEF WriteList, Active, Step, At
<1>2. cfg \in Lists /\ run[r].item \in Item \cup {None}
  BY <1>1, Working DEF WriteList, At, RunRow
<1>3. cfg.keyed \in BOOLEAN /\ cfg.writes \in BOOLEAN
  BY <1>2, SharePointAssumption DEF ListRow
<1>4. ASSUME NEW left \in ListEffects(r) PROVE left \in [Item -> ItemRow \cup {None}]
  <2> DEFINE i == run[r].item
  <2> DEFINE new == [found |-> cfg.writes, by |-> r,
                     upsert |-> cfg.op = "upsert" /\ cfg.keyed /\ cfg.writes]
  <2>1. items \in [Item -> ItemRow \cup {None}]
    BY DEF TypeInv, TypeOK
  <2>2. new \in ItemRow
    BY <1>3 DEF ItemRow
  <2>3. ASSUME NEW k \in Item, items[k] # None PROVE Patched(items[k], r) \in ItemRow
    BY <1>3, <2>1, <2>3 DEF Patched, ItemRow
  <2>4. CASE cfg.op = "create" \/ (cfg.op = "upsert" /\ i = None)
    <3>1. ListEffects(r) = {[items EXCEPT ![j] = new] : j \in {k \in Item : items[k] = None}}
      BY <2>4 DEF ListEffects
    <3> HIDE DEF new
    <3>2. QED
      BY <1>4, <2>1, <2>2, <3>1
  <2>5. CASE ~(cfg.op = "create" \/ (cfg.op = "upsert" /\ i = None))
    <3>1. PICK j \in {k \in Item : k = i /\ items[k] # None} :
             left = [items EXCEPT ![j] = IF cfg.op = "delete" THEN None ELSE Patched(items[j], r)]
      BY <1>4, <2>5 DEF ListEffects
    <3>2. QED
      BY <2>1, <2>3, <3>1
  <2>6. QED
    BY <2>4, <2>5
<1>5. items' \in [Item -> ItemRow \cup {None}]
  BY <1>4 DEF WriteList, TypeInv, TypeOK
<1>6. CASE Goto(r, "ok")
  BY <1>1, <1>5, <1>6, TypeGoto DEF TypeInv, TypeOK
<1>7. CASE Fail(r) \/ Refused(r) \/ Lost(r)
  BY <1>1, <1>5, <1>7, TypeEnd DEF Fail, Refused, Lost, TypeInv, TypeOK
<1>8. QED
  BY <1>6, <1>7 DEF WriteList

(* Every variable has its type, and a secret kept is never the dots.           *)
LEMMA TypeStep == TypeInv /\ [Next]_vars => TypeInv'
<1>1. SUFFICES ASSUME TypeInv, [Next]_vars PROVE TypeInv'
  OBVIOUS
<1>2. ASSUME NEW q \in Req, Administer(q) PROVE TypeInv'
  BY <1>1, <1>2, TypeConnection, TypeAction, TypeWrite DEF Administer
<1>3. ASSUME NEW r \in Run, Proceed(r) PROVE TypeInv'
  BY <1>1, <1>3, TypeCommon, TypeFolder, TypeUpload, TypeLookup, TypeWriteList DEF Proceed
<1>4. CASE UNCHANGED vars
  BY <1>1, <1>4 DEF vars, admin, graph, TypeInv, TypeOK, PendingOK, Uploaded, Active,
     ConnWrites, FileWrites, ListWrites, WritesTo, ConnData
<1>5. QED
  BY <1>1, <1>2, <1>3, <1>4, TypeBegin DEF Next

(* The tables, the runs and what they leave in Graph keep their types          *)
(* whatever requests and runs overlap.                                         *)
THEOREM SharePointTypes == Spec => []TypeOK
<1>1. TypeInv => TypeOK
  BY DEF TypeInv
<1>2. QED
  BY <1>1, TypeInit, TypeStep, PTL DEF Spec

(***************************************************************************)
(* Racing upserts                                                           *)
(***************************************************************************)

(* The runs at work, and those of them that looked, found nothing and will     *)
(* create an item.                                                             *)
AtWork == {r \in Run : Active(r)}
Creates(row) ==
    /\ row.pc = "write" /\ row.cfg.kind = "list" /\ row.cfg.op = "upsert"
    /\ row.cfg.keyed /\ row.cfg.writes /\ row.item = None
Creators == {r \in Run : Creates(run[r])}

(* Items and creators share the threads: a creator looked before any item was  *)
(* there, and gives its place up for the item it creates.                      *)
UpsertInv ==
    /\ Cardinality(AtWork) <= MaxThreads
    /\ \A i \in Item : (items[i] # None /\ items[i].upsert) => items[i].found
    /\ Cardinality(Upserted) + Cardinality(Creators) <= MaxThreads

LEMMA Finite ==
    /\ IsFiniteSet(Upserted) /\ IsFiniteSet(Creators) /\ IsFiniteSet(AtWork)
    /\ Cardinality(Upserted) \in Nat /\ Cardinality(Creators) \in Nat
    /\ Cardinality(AtWork) \in Nat
    /\ Creators \subseteq AtWork
<1>1. IsFiniteSet(Upserted) /\ IsFiniteSet(Creators) /\ IsFiniteSet(AtWork)
  BY SharePointAssumption, FS_Subset DEF Upserted, Creators, AtWork
<1>2. QED
  BY <1>1, FS_CardinalityType DEF Creators, AtWork, Active, Step, Creates

LEMMA AddOne ==
    ASSUME NEW S, IsFiniteSet(S), NEW x
    PROVE  /\ IsFiniteSet(S \cup {x})
           /\ Cardinality(S \cup {x}) <= Cardinality(S) + 1
           /\ Cardinality(S \cup {x}) \in Nat
<1>1. /\ IsFiniteSet(S \cup {x})
      /\ Cardinality(S \cup {x}) = IF x \in S THEN Cardinality(S) ELSE Cardinality(S) + 1
  BY FS_AddElement, Zenon
<1>2. Cardinality(S) \in Nat
  BY FS_CardinalityType
<1>3. QED
  BY <1>1, <1>2

LEMMA UpsertInit == Init => UpsertInv
<1>1. SUFFICES ASSUME Init PROVE UpsertInv
  OBVIOUS
<1>2. AtWork = {} /\ Upserted = {} /\ Creators = {}
  BY <1>1 DEF Init, Idle, AtWork, Upserted, Creators, Creates, Active, Step
<1>3. \A i \in Item : items[i] = None
  BY <1>1 DEF Init
<1>4. Cardinality({}) = 0
  BY FS_EmptySet
<1>5. QED
  BY <1>2, <1>3, <1>4, SharePointAssumption DEF UpsertInv

(* What the invariant says of the next state, from sets that only shrink.      *)
LEMMA Shrinks ==
    ASSUME UpsertInv, AtWork' \subseteq AtWork, Creators' \subseteq Creators,
           Upserted' \subseteq Upserted,
           \A i \in Item : (items'[i] # None /\ items'[i].upsert) => items'[i].found
    PROVE  UpsertInv'
<1>1. /\ Cardinality(AtWork') <= Cardinality(AtWork)
      /\ Cardinality(Creators') <= Cardinality(Creators)
      /\ Cardinality(Upserted') <= Cardinality(Upserted)
  BY Finite, FS_Subset
<1>2. /\ Cardinality(AtWork') \in Nat /\ Cardinality(Creators') \in Nat
      /\ Cardinality(Upserted') \in Nat
  BY Finite, FS_Subset, FS_CardinalityType
<1>3. QED
  BY <1>1, <1>2, Finite, SharePointAssumption DEF UpsertInv

(* A step of one run changes the sets by that run alone.                       *)
LEMMA OneRun ==
    ASSUME TypeInv, NEW r \in Run, NEW row, run' = [run EXCEPT ![r] = row]
    PROVE  /\ row.pc \notin Step => AtWork' = AtWork \ {r}
           /\ row.pc \in Step => AtWork' = AtWork \cup {r}
           /\ ~Creates(row) => Creators' = Creators \ {r}
           /\ Creators' \subseteq Creators \cup {r}
<1>1. \A s \in Run : run'[s] = IF s = r THEN row ELSE run[s]
  BY DEF TypeInv, TypeOK
<1>2. \A s \in Run : (Active(s))' = (run'[s].pc \in Step)
  BY DEF Active
<1>3. \A s \in Run : Active(s) = (run[s].pc \in Step)
  BY DEF Active
<1>4. AtWork' = {s \in Run : run'[s].pc \in Step} /\ AtWork = {s \in Run : run[s].pc \in Step}
  BY DEF AtWork, Active
<1>5. Creators' = {s \in Run : Creates(run'[s])}
  BY DEF Creators, Creates
<1>6. QED
  BY <1>1, <1>4, <1>5 DEF Creators

LEMMA UpsertEnd ==
    ASSUME TypeInv, UpsertInv, NEW r \in Run, NEW how \in {"failed", "lost"}, End(r, how),
           Upserted' \subseteq Upserted,
           \A i \in Item : (items'[i] # None /\ items'[i].upsert) => items'[i].found
    PROVE  UpsertInv'
<1> DEFINE row == [Idle EXCEPT !.pc = how]
<1>1. run' = [run EXCEPT ![r] = row]
  BY DEF End
<1>2. row.pc = how
  BY DEF Idle
<1>3. row.pc \notin Step /\ ~Creates(row)
  BY <1>2 DEF Step, Creates
<1> HIDE DEF row
<1>4. AtWork' \subseteq AtWork /\ Creators' \subseteq Creators
  BY <1>1, <1>3, OneRun
<1>5. QED
  BY <1>4, Shrinks

(* A run at work that goes on without deciding to create.                      *)
LEMMA UpsertGoes ==
    ASSUME TypeInv, UpsertInv, NEW r \in Run, Active(r), UNCHANGED items,
           NEW row, run' = [run EXCEPT ![r] = row], ~Creates(row)
    PROVE  UpsertInv'
<1>1. AtWork' \subseteq AtWork /\ Creators' \subseteq Creators
  BY OneRun DEF AtWork
<1>2. Upserted' = Upserted
  BY DEF Upserted
<1>3. QED
  BY <1>1, <1>2, Shrinks DEF UpsertInv

(* Steps that end the run, or go on to a step other than the write.            *)
LEMMA UpsertOther ==
    ASSUME TypeInv, UpsertInv, NEW r \in Run, Active(r), UNCHANGED items,
           \/ \E pc \in (Step \cup {"ok", "failed"}) \ {"write"} : Goto(r, pc)
           \/ Deeper(r) \/ Fail(r) \/ Refused(r) \/ Lost(r)
    PROVE  UpsertInv'
<1>1. run[r] \in RunRow
  BY DEF TypeInv, TypeOK
<1>2. ASSUME NEW pc \in (Step \cup {"ok", "failed"}) \ {"write"}, Goto(r, pc)
      PROVE  UpsertInv'
  <2> DEFINE row == [run[r] EXCEPT !.pc = pc]
  <2>1. row.pc = pc
    BY <1>1 DEF RunRow
  <2>2. run' = [run EXCEPT ![r] = row]
    BY <1>2 DEF Goto
  <2> HIDE DEF row
  <2>3. QED
    BY <1>2, <2>1, <2>2, UpsertGoes DEF Creates
<1>3. CASE Deeper(r)
  <2> DEFINE pc == IF run[r].depth + 1 = Len(Path(r)) THEN "upload" ELSE "folder"
  <2> DEFINE deep == run[r].depth + 1
  <2> DEFINE row == [[run[r] EXCEPT !.depth = deep] EXCEPT !.pc = pc]
  <2>1. run' = [run EXCEPT ![r] = row]
    BY <1>3 DEF Deeper
  <2>2. pc # "write"
    OBVIOUS
  <2> HIDE DEF pc, deep
  <2>3. row.pc = pc
    BY <1>1 DEF RunRow
  <2> HIDE DEF row
  <2>4. QED
    BY <2>1, <2>2, <2>3, UpsertGoes DEF Creates
<1>4. CASE Fail(r) \/ Refused(r) \/ Lost(r)
  <2>1. Upserted' = Upserted
    BY DEF Upserted
  <2>2. QED
    BY <1>4, <2>1, UpsertEnd DEF Fail, Refused, Lost, UpsertInv
<1>5. QED
  BY <1>2, <1>3, <1>4

LEMMA UpsertToken == ASSUME TypeInv, UpsertInv, NEW r \in Run, Token(r) PROVE UpsertInv'
<1>1. Active(r) /\ UNCHANGED items
  BY DEF Token, Active, Step, graph
<1>2. CASE Refused(r) \/ Lost(r)
  BY <1>1, <1>2, UpsertOther
<1>3. CASE ~(Refused(r) \/ Lost(r))
  <2> DEFINE cfg == run[r].cfg
  <2> DEFINE next == CASE cfg.kind = "file" -> IF cfg.target THEN "fetch" ELSE "failed"
                       [] cfg.kind = "list" -> ListStep(cfg)
                       [] OTHER -> "probe"
  <2> DEFINE item == IF cfg.kind = "list" THEN cfg.item ELSE None
  <2> DEFINE row == [[run[r] EXCEPT !.pc = next] EXCEPT !.item = item]
  <2>1. run' = [run EXCEPT ![r] = row]
    BY <1>3 DEF Token
  <2>2. next = "write" => cfg.kind # "list" \/ cfg.op # "upsert"
    BY DEF ListStep
  <2> HIDE DEF next, item
  <2>3. run[r] \in RunRow
    BY DEF TypeInv, TypeOK
  <2>4. row.pc = next /\ row.cfg = cfg
    BY <2>3 DEF RunRow
  <2> HIDE DEF row
  <2>5. QED
    BY <1>1, <2>1, <2>2, <2>4, UpsertGoes DEF Creates
<1>4. QED
  BY <1>2, <1>3

(* Whoever comes to create has seen that nothing was found, so nothing an      *)
(* upsert created is there.                                                    *)
LEMMA UpsertLookup == ASSUME TypeInv, UpsertInv, NEW r \in Run, Lookup(r) PROVE UpsertInv'
<1>1. Active(r) /\ UNCHANGED items
  BY DEF Lookup, Active, Step, At, graph
<1>2. CASE Refused(r) \/ Lost(r)
  BY <1>1, <1>2, UpsertOther
<1>3. CASE ~(Refused(r) \/ Lost(r))
  <2> DEFINE cfg == run[r].cfg
  <2>1. PICK i \in IF cfg.keyed /\ Found # {} THEN Found ELSE {None} :
           run' = [run EXCEPT ![r].pc = AfterLookup(cfg, i), ![r].item = i]
    BY <1>3 DEF Lookup
  <2> DEFINE next == AfterLookup(cfg, i)
  <2> DEFINE row == [[run[r] EXCEPT !.pc = next] EXCEPT !.item = i]
  <2>2. run' = [run EXCEPT ![r] = row]
    BY <2>1
  <2>3. next \in {"ok", "failed", "write"}
    BY DEF AfterLookup
  <2> HIDE DEF next
  <2>4. run[r] \in RunRow
    BY DEF TypeInv, TypeOK
  <2>5. row.pc = next /\ row.cfg = cfg /\ row.item = i
    BY <2>4 DEF RunRow
  <2> HIDE DEF row
  <2>6. CASE ~Creates(row)
    BY <1>1, <2>2, <2>6, UpsertGoes
  <2>7. CASE Creates(row)
    <3>1. Found = {}
      BY <2>1, <2>5, <2>7, SharePointAssumption DEF Creates, Found
    <3>2. Upserted = {}
      BY <3>1 DEF Upserted, Found, UpsertInv
    <3>3. Upserted' = {}
      BY <1>1, <3>2 DEF Upserted
    <3>4. AtWork' = AtWork
      <4>1. row.pc \in Step
        BY <2>7 DEF Creates, Step
      <4>2. AtWork' = AtWork \cup {r}
        BY <2>2, <4>1, OneRun
      <4>3. r \in AtWork
        BY <1>1 DEF AtWork
      <4>4. QED
        BY <4>2, <4>3
    <3>5. Creators' \subseteq AtWork
      <4>1. Creators \subseteq AtWork /\ r \in AtWork
        BY <1>1, Finite DEF AtWork
      <4>2. QED
        BY <2>2, <4>1, OneRun
    <3>6. Cardinality(Creators') <= Cardinality(AtWork) /\ Cardinality(Creators') \in Nat
      BY <3>5, Finite, FS_Subset, FS_CardinalityType
    <3>7. Cardinality({}) = 0
      BY FS_EmptySet
    <3>8. QED
      BY <1>1, <3>3, <3>4, <3>6, <3>7, Finite, SharePointAssumption DEF UpsertInv
  <2>8. QED
    BY <2>6, <2>7
<1>4. QED
  BY <1>2, <1>3

(* A write adds an item of an upsert only in place of its creator.             *)
LEMMA UpsertWrite == ASSUME TypeInv, UpsertInv, NEW r \in Run, WriteList(r) PROVE UpsertInv'
<1> DEFINE cfg == run[r].cfg
<1> DEFINE row == IF Goto(r, "ok") THEN [run[r] EXCEPT !.pc = "ok"]
                  ELSE IF End(r, "failed") THEN [Idle EXCEPT !.pc = "failed"]
                  ELSE [Idle EXCEPT !.pc = "lost"]
<1>1. Active(r) /\ run[r].pc = "write" /\ cfg.kind = "list" /\ run[r] \in RunRow
  BY DEF WriteList, At, Active, Step, TypeInv, TypeOK
<1>2. cfg \in Lists /\ cfg.keyed \in BOOLEAN /\ cfg.writes \in BOOLEAN
  BY <1>1, Working, SharePointAssumption DEF ListRow
<1>3. run' = [run EXCEPT ![r] = row]
  BY DEF WriteList, Goto, End, Fail, Refused, Lost
<1>4. row.pc \in {"ok", "failed", "lost"}
  BY <1>1 DEF RunRow, Idle
<1> HIDE DEF row
<1>5. AtWork' \subseteq AtWork /\ Creators' = Creators \ {r}
  BY <1>3, <1>4, OneRun DEF Step, Creates
<1>6. items \in [Item -> ItemRow \cup {None}]
  BY DEF TypeInv, TypeOK
<1>7. CASE items' = items
  <2>1. Upserted' = Upserted
    BY <1>7 DEF Upserted
  <2>2. QED
    BY <1>5, <1>7, <2>1, Shrinks DEF UpsertInv
<1>8. CASE items' \in ListEffects(r) /\ ~(cfg.op = "create" \/ (cfg.op = "upsert" /\ run[r].item = None))
  <2>1. PICK j \in Item : /\ items[j] # None
                          /\ items' = [items EXCEPT ![j] = IF cfg.op = "delete" THEN None
                                                           ELSE Patched(items[j], r)]
    BY <1>8 DEF ListEffects
  <2>2. items[j] \in ItemRow
    BY <1>6, <2>1
  <2>3. /\ Patched(items[j], r).upsert = items[j].upsert
        /\ items[j].found => Patched(items[j], r).found
    BY <1>2, <2>2 DEF Patched, ItemRow
  <2>4. Upserted' \subseteq Upserted
    BY <1>6, <2>1, <2>3 DEF Upserted
  <2>5. \A i \in Item : (items'[i] # None /\ items'[i].upsert) => items'[i].found
    BY <1>6, <2>1, <2>3 DEF UpsertInv
  <2>6. QED
    BY <1>5, <2>4, <2>5, Shrinks
<1>9. CASE items' \in ListEffects(r) /\ (cfg.op = "create" \/ (cfg.op = "upsert" /\ run[r].item = None))
  <2> DEFINE new == [found |-> cfg.writes, by |-> r,
                     upsert |-> cfg.op = "upsert" /\ cfg.keyed /\ cfg.writes]
  <2>1. ListEffects(r) = {[items EXCEPT ![j] = new] : j \in {k \in Item : items[k] = None}}
    BY <1>9 DEF ListEffects
  <2>2. new.upsert => Creates(run[r]) /\ new.found
    BY <1>1, <1>9 DEF Creates
  <2> HIDE DEF new
  <2>3. PICK j \in Item : items[j] = None /\ items' = [items EXCEPT ![j] = new]
    BY <1>9, <2>1
  <2>4. \A i \in Item : items'[i] = IF i = j THEN new ELSE items[i]
    BY <1>6, <2>3
  <2>5. \A i \in Item : (items'[i] # None /\ items'[i].upsert) => items'[i].found
    BY <2>2, <2>4 DEF UpsertInv
  <2>6. CASE ~new.upsert
    <3>1. Upserted' \subseteq Upserted
      BY <2>4, <2>6 DEF Upserted
    <3>2. QED
      BY <1>5, <2>5, <3>1, Shrinks
  <2>7. CASE new.upsert
    <3>1. r \in Creators
      BY <2>2, <2>7 DEF Creators
    <3>2. Upserted' \subseteq Upserted \cup {j}
      BY <2>4 DEF Upserted
    <3>3. Cardinality(Upserted') <= Cardinality(Upserted) + 1 /\ Cardinality(Upserted') \in Nat
      <4>1. /\ IsFiniteSet(Upserted \cup {j})
            /\ Cardinality(Upserted \cup {j}) <= Cardinality(Upserted) + 1
            /\ Cardinality(Upserted \cup {j}) \in Nat
        BY Finite, AddOne
      <4>2. QED
        BY <3>2, <4>1, Finite, FS_Subset, FS_CardinalityType
    <3>4. Cardinality(Creators') = Cardinality(Creators) - 1
      BY <1>5, <3>1, Finite, FS_RemoveElement
    <3>5. Cardinality(AtWork') <= Cardinality(AtWork) /\ Cardinality(AtWork') \in Nat
      BY <1>5, Finite, FS_Subset, FS_CardinalityType
    <3>6. QED
      BY <2>5, <3>3, <3>4, <3>5, Finite, SharePointAssumption DEF UpsertInv
  <2>8. QED
    BY <2>6, <2>7
<1>10. QED
  BY <1>7, <1>8, <1>9 DEF WriteList

LEMMA UpsertBegin == ASSUME TypeInv, UpsertInv, NEW r \in Run, Begin(r) PROVE UpsertInv'
<1>1. UNCHANGED items
  BY DEF Begin, StartRun, StartProbe, graph
<1>2. CASE Fail(r)
  <2>1. Upserted' = Upserted
    BY <1>1 DEF Upserted
  <2>2. QED
    BY <1>1, <1>2, <2>1, UpsertEnd DEF Fail, UpsertInv
<1>3. ASSUME NEW cfg, run' = [run EXCEPT ![r] = Taken(cfg)], Cardinality(AtWork) < MaxThreads
      PROVE  UpsertInv'
  <2>1. Taken(cfg).pc = "connect"
    BY DEF Taken
  <2>2. AtWork' = AtWork \cup {r}
    BY <1>3, <2>1, OneRun DEF Step
  <2>3. Cardinality(AtWork') <= MaxThreads
    <3>1. Cardinality(AtWork \cup {r}) <= Cardinality(AtWork) + 1
          /\ Cardinality(AtWork \cup {r}) \in Nat
      BY Finite, AddOne
    <3>2. Cardinality(AtWork) + 1 <= MaxThreads
      BY <1>3, Finite, SharePointAssumption
    <3>3. QED
      BY <2>2, <3>1, <3>2, Finite, SharePointAssumption
  <2>4. Creators' \subseteq Creators
    BY <1>3, <2>1, OneRun DEF Creates
  <2>5. Cardinality(Creators') <= Cardinality(Creators) /\ Cardinality(Creators') \in Nat
    BY <2>4, Finite, FS_Subset, FS_CardinalityType
  <2>6. Upserted' = Upserted
    BY <1>1 DEF Upserted
  <2>7. QED
    BY <1>1, <2>3, <2>5, <2>6, Finite, SharePointAssumption DEF UpsertInv
<1>4. QED
  BY <1>2, <1>3 DEF Begin, StartRun, StartProbe, AtWork

LEMMA UpsertStep == TypeInv /\ UpsertInv /\ [Next]_vars => UpsertInv'
<1>1. SUFFICES ASSUME TypeInv, UpsertInv, [Next]_vars PROVE UpsertInv'
  OBVIOUS
<1>2. ASSUME NEW r \in Run, Proceed(r) PROVE UpsertInv'
  <2>1. CASE GetConnection(r) \/ Probe(r) \/ Fetch(r) \/ LookFolder(r) \/ MakeFolder(r)
    BY <1>1, <2>1, UpsertOther DEF GetConnection, Probe, Fetch, LookFolder, MakeFolder,
       Active, At, Step, graph
  <2>2. CASE Upload(r) \/ SetColumns(r) \/ CheckIn(r)
    BY <1>1, <2>2, UpsertOther DEF Upload, SetColumns, CheckIn, AfterUpload, AfterColumns,
       Active, At, Step
  <2>3. QED
    BY <1>1, <1>2, <2>1, <2>2, UpsertToken, UpsertLookup, UpsertWrite DEF Proceed
<1>3. ASSUME UNCHANGED <<run, items>> PROVE UpsertInv'
  <2>1. AtWork' = AtWork /\ Creators' = Creators /\ Upserted' = Upserted
    BY <1>3 DEF AtWork, Creators, Upserted, Active
  <2>2. QED
    BY <1>1, <1>3, <2>1, Shrinks DEF UpsertInv
<1>4. ASSUME NEW q \in Req, Administer(q) PROVE UNCHANGED <<run, items>>
  BY <1>4 DEF Administer, CreateConnection, UpdateConnection, DeleteConnection,
     CreateFileAction, UpdateFileAction, DeleteFileAction, CreateListAction,
     UpdateListAction, DeleteListAction, Write, Decide, graph
<1>5. CASE UNCHANGED vars
  BY <1>3, <1>5 DEF vars, graph
<1>6. QED
  BY <1>1, <1>2, <1>3, <1>4, <1>5, UpsertBegin DEF Next

(* However many events upsert one key, however their calls interleave, fail    *)
(* or lose their answers, and whatever is deleted in between, the list never   *)
(* holds more items of that key than there are threads to look it up at once.  *)
THEOREM UpsertsBounded == Spec => []UpsertBounded
<1>1. UpsertInv => UpsertBounded
  BY Finite, SharePointAssumption DEF UpsertInv, UpsertBounded
<1>2. QED
  BY <1>1, TypeInit, TypeStep, UpsertInit, UpsertStep, PTL DEF Spec
(***************************************************************************)
(* What a run reports as done                                               *)
(***************************************************************************)

(* The folders that the first n parts of a row's path name are there.          *)
Reached(cfg, n, dirs) == \A k \in 1 .. n : dirs[SubSeq(cfg.folder, 1, k)] # None

(* How far run r has come, in the folders dirs and the files docs: a folder is *)
(* looked for below those that are there, the upload comes after the last, and *)
(* each step after the upload leaves what the end will report, unless another  *)
(* run stored the file since.                                                  *)
Delivered(r, row, dirs, docs) ==
    LET cfg == row.cfg
        file == docs[cfg.folder]
    IN  /\ row.pc = "ok" => cfg # None
        /\ row.pc = "probe" => cfg.kind # "file"
        /\ row.pc \in {"connect", "token", "fetch"} => row.depth = 0
        /\ row.pc \in {"folder", "mkdir"} =>
              /\ cfg.kind = "file" /\ row.depth < Len(cfg.folder)
              /\ Reached(cfg, row.depth, dirs)
        /\ row.pc \in {"upload", "columns", "checkin", "ok"} =>
              (cfg.kind = "file" /\ cfg.create => Reached(cfg, Len(cfg.folder), dirs))
        /\ row.pc \in {"columns", "checkin", "ok"} => (cfg.kind = "file" => file # None)
        /\ row.pc \in {"checkin", "ok"} =>
              (cfg.kind = "file" /\ file.by = r /\ cfg.meta => file.fields # None)
        /\ row.pc = "ok" =>
              (cfg.kind = "file" /\ file.by = r /\ cfg.checkin => file.checked)

DeliverInv == \A r \in Run : Delivered(r, run[r], folders, files)

(* No step removes a folder or a file, and none takes from the file that run s *)
(* stored last its columns or its check-in.                                    *)
Later(s) ==
    /\ \A p \in Paths : folders[p] # None => folders'[p] # None
    /\ \A p \in Paths : files[p] # None =>
          /\ files'[p] # None
          /\ files'[p].by = s => /\ files[p].by = s
                                 /\ files[p].fields # None => files'[p].fields # None
                                 /\ files[p].checked => files'[p].checked

(* A folder a run looks for, or has passed, is among the paths.                *)
LEMMA PrefixKnown ==
    ASSUME NEW f \in Files, NEW k \in 0 .. Len(f.folder)
    PROVE  SubSeq(f.folder, 1, k) \in Paths
BY DEF Paths

LEMMA FolderType == ASSUME NEW f \in Files
                    PROVE  f.folder \in Seq(STRING) /\ Len(f.folder) \in Nat
<1>1. f.folder \in Seq(STRING)
  BY SharePointAssumption DEF FileRow
<1>2. QED
  BY <1>1

(* What is there for a run stays there.                                        *)
LEMMA DeliveredStays ==
    ASSUME NEW s \in Run, NEW row \in RunRow, row.pc \in Step => row.cfg # None,
           Delivered(s, row, folders, files), Later(s)
    PROVE  Delivered(s, row, folders', files')
<1> DEFINE cfg == row.cfg
<1> DEFINE dirs == folders'
<1> DEFINE docs == files'
<1>1. CASE row.pc \in Step \cup {"ok"} /\ cfg.kind = "file"
  <2>1. cfg \in Files
    BY <1>1, KindOf DEF RunRow, Delivered
  <2>2. cfg.folder \in Paths /\ Len(cfg.folder) \in Nat /\ row.depth \in Nat
    BY <2>1, FolderKnown, FolderType DEF RunRow
  <2>3. \A n \in 0 .. Len(cfg.folder) :
           Reached(cfg, n, folders) => Reached(cfg, n, dirs)
    <3>1. \A k \in 1 .. Len(cfg.folder) : SubSeq(cfg.folder, 1, k) \in Paths
      BY <2>1, <2>2, PrefixKnown
    <3>2. QED
      BY <2>2, <3>1 DEF Reached, Later
  <2>4. files[cfg.folder] # None =>
          /\ docs[cfg.folder] # None
          /\ docs[cfg.folder].by = s =>
               /\ files[cfg.folder].by = s
               /\ files[cfg.folder].fields # None => docs[cfg.folder].fields # None
               /\ files[cfg.folder].checked => docs[cfg.folder].checked
    BY <2>2 DEF Later
  <2>5. row.pc \in {"folder", "mkdir"} => Reached(cfg, row.depth, dirs)
    BY <2>2, <2>3 DEF Delivered
  <2>6. row.pc \in {"upload", "columns", "checkin", "ok"} /\ cfg.create
          => Reached(cfg, Len(cfg.folder), dirs)
    BY <1>1, <2>2, <2>3 DEF Delivered
  <2> HIDE DEF dirs, docs
  <2>7. Delivered(s, row, dirs, docs)
    BY <1>1, <2>4, <2>5, <2>6 DEF Delivered
  <2>8. QED
    BY <2>7 DEF dirs, docs
<1>2. CASE ~(row.pc \in Step \cup {"ok"} /\ cfg.kind = "file")
  BY <1>2 DEF Delivered, Step
<1>3. QED
  BY <1>1, <1>2

(* A step of run r, when what it reports is there and the others lose nothing. *)
LEMMA DeliverRun ==
    ASSUME TypeInv, DeliverInv, NEW r \in Run, NEW row, run' = [run EXCEPT ![r] = row],
           Delivered(r, row, folders', files'), \A s \in Run \ {r} : Later(s)
    PROVE  DeliverInv'
<1>1. \A s \in Run : run'[s] = IF s = r THEN row ELSE run[s]
  BY DEF TypeInv, TypeOK
<1>2. ASSUME NEW s \in Run \ {r}
      PROVE  Delivered(s, run[s], folders', files')
  <2>1. run[s] \in RunRow /\ (run[s].pc \in Step => run[s].cfg # None)
    BY DEF TypeInv, TypeOK, Active
  <2>2. QED
    BY <1>2, <2>1, DeliveredStays DEF DeliverInv
<1>3. QED
  BY <1>1, <1>2 DEF DeliverInv

LEMMA LaterSame ==
    ASSUME UNCHANGED <<folders, files>>, NEW s
    PROVE  Later(s)
BY DEF Later

(* A run that raises reports nothing.                                          *)
LEMMA DeliverEnd ==
    ASSUME TypeInv, DeliverInv, NEW r \in Run,
           Fail(r) \/ Refused(r) \/ Lost(r), \A s \in Run \ {r} : Later(s)
    PROVE  DeliverInv'
<1>1. PICK how \in {"failed", "lost"} : End(r, how)
  BY DEF Fail, Refused, Lost
<1> DEFINE row == [Idle EXCEPT !.pc = how]
<1>2. run' = [run EXCEPT ![r] = row] /\ row.pc = how
  BY <1>1 DEF End, Idle
<1> HIDE DEF row
<1>3. Delivered(r, row, folders', files')
  BY <1>2 DEF Delivered
<1>4. QED
  BY <1>2, <1>3, DeliverRun
(* The steps of a run that leave what Graph keeps of files alone.              *)
LEMMA DeliverLooks ==
    ASSUME TypeInv, DeliverInv, NEW r \in Run,
           \/ GetConnection(r) \/ Token(r) \/ Probe(r) \/ Fetch(r)
           \/ Lookup(r) \/ WriteList(r)
    PROVE  DeliverInv'
<1> DEFINE cfg == run[r].cfg
<1>1. Active(r) /\ UNCHANGED <<folders, files>>
  BY DEF GetConnection, Token, Probe, Fetch, Lookup, WriteList, Active, Step, At, graph
<1>2. run[r] \in RunRow /\ cfg # None /\ Delivered(r, run[r], folders, files)
  BY <1>1 DEF TypeInv, TypeOK, DeliverInv
<1>3. \A s \in Run \ {r} : Later(s)
  BY <1>1, LaterSame
<1>4. CASE Fail(r) \/ Refused(r) \/ Lost(r)
  BY <1>3, <1>4, DeliverEnd
<1>5. ASSUME NEW row, run' = [run EXCEPT ![r] = row], Delivered(r, row, folders, files)
      PROVE  DeliverInv'
  BY <1>1, <1>3, <1>5, DeliverRun
<1>6. ASSUME NEW pc, Goto(r, pc), Delivered(r, [run[r] EXCEPT !.pc = pc], folders, files)
      PROVE  DeliverInv'
  BY <1>5, <1>6 DEF Goto
<1>7. CASE GetConnection(r) /\ ~Fail(r)
  <2>1. Goto(r, "token") /\ run[r].pc = "connect"
    BY <1>7 DEF GetConnection
  <2>2. Delivered(r, [run[r] EXCEPT !.pc = "token"], folders, files)
    BY <1>2, <2>1 DEF Delivered, RunRow
  <2>3. QED
    BY <1>6, <2>1, <2>2
<1>8. CASE Token(r) /\ ~(Refused(r) \/ Lost(r))
  <2> DEFINE next == CASE cfg.kind = "file" -> IF cfg.target THEN "fetch" ELSE "failed"
                       [] cfg.kind = "list" -> ListStep(cfg)
                       [] OTHER -> "probe"
  <2> DEFINE item == IF cfg.kind = "list" THEN cfg.item ELSE None
  <2> DEFINE row == [[run[r] EXCEPT !.pc = next] EXCEPT !.item = item]
  <2>1. run' = [run EXCEPT ![r] = row] /\ run[r].pc = "token"
    BY <1>8 DEF Token
  <2>2. /\ next \in {"fetch", "failed", "write", "lookup", "probe"}
        /\ next = "probe" => cfg.kind # "file"
    BY DEF ListStep
  <2> HIDE DEF next, item
  <2>3. row.pc = next /\ row.cfg = cfg /\ row.depth = run[r].depth
    BY <1>2 DEF RunRow
  <2> HIDE DEF row
  <2>4. run[r].depth = 0
    BY <1>2, <2>1 DEF Delivered
  <2>5. Delivered(r, row, folders, files)
    BY <2>2, <2>3, <2>4 DEF Delivered
  <2>6. QED
    BY <1>5, <2>1, <2>5
<1>9. CASE Probe(r) /\ ~(Refused(r) \/ Lost(r))
  <2>1. Goto(r, "ok") /\ run[r].pc = "probe" /\ cfg.kind # "file"
    BY <1>2, <1>9 DEF Probe, Delivered
  <2>2. Delivered(r, [run[r] EXCEPT !.pc = "ok"], folders, files)
    BY <1>2, <2>1 DEF Delivered, RunRow
  <2>3. QED
    BY <1>6, <2>1, <2>2
<1>10. CASE Fetch(r) /\ ~(Fail(r) \/ Refused(r) \/ Lost(r))
  <2> DEFINE pc == IF cfg.create /\ cfg.folder # <<>> THEN "folder" ELSE "upload"
  <2>1. Goto(r, pc) /\ run[r].pc = "fetch" /\ cfg.kind = "file"
    BY <1>10 DEF Fetch, At
  <2>2. cfg.folder \in Seq(STRING) /\ run[r].depth = 0
    BY <1>1, <1>2, <2>1, Working, FolderType DEF Delivered
  <2>3. cfg.folder # <<>> => 0 < Len(cfg.folder)
    BY <2>2
  <2>4. cfg.folder = <<>> => Len(cfg.folder) = 0
    OBVIOUS
  <2>5. pc \in {"folder", "upload"} /\ (pc = "folder" => 0 < Len(cfg.folder))
        /\ (pc = "upload" /\ cfg.create => Len(cfg.folder) = 0)
    BY <2>3, <2>4
  <2> HIDE DEF pc
  <2> DEFINE row == [run[r] EXCEPT !.pc = pc]
  <2>6. row.pc = pc /\ row.cfg = cfg /\ row.depth = run[r].depth
    BY <1>2 DEF RunRow
  <2> HIDE DEF row
  <2>7. Reached(cfg, 0, folders)
    BY DEF Reached
  <2>8. Delivered(r, row, folders, files)
    BY <2>1, <2>2, <2>5, <2>6, <2>7 DEF Delivered
  <2>9. QED
    BY <1>6, <2>1, <2>8 DEF row
<1>11. CASE Lookup(r) /\ ~(Refused(r) \/ Lost(r))
  <2>1. PICK i : run' = [run EXCEPT ![r].pc = AfterLookup(cfg, i), ![r].item = i]
    BY <1>11 DEF Lookup
  <2> DEFINE next == AfterLookup(cfg, i)
  <2> DEFINE row == [[run[r] EXCEPT !.pc = next] EXCEPT !.item = i]
  <2>2. run' = [run EXCEPT ![r] = row] /\ cfg.kind = "list"
    BY <1>11, <2>1 DEF Lookup, At
  <2>3. next \in {"ok", "failed", "write"}
    BY DEF AfterLookup
  <2> HIDE DEF next
  <2>4. row.pc = next /\ row.cfg = cfg
    BY <1>2 DEF RunRow
  <2> HIDE DEF row
  <2>5. Delivered(r, row, folders, files)
    BY <1>2, <2>2, <2>3, <2>4 DEF Delivered
  <2>6. QED
    BY <1>5, <2>2, <2>5
<1>12. CASE WriteList(r) /\ ~(Fail(r) \/ Refused(r) \/ Lost(r))
  <2>1. Goto(r, "ok") /\ cfg.kind = "list"
    BY <1>12 DEF WriteList, At
  <2>2. Delivered(r, [run[r] EXCEPT !.pc = "ok"], folders, files)
    BY <1>2, <2>1 DEF Delivered, RunRow
  <2>3. QED
    BY <1>6, <2>1, <2>2
<1>13. QED
  BY <1>4, <1>7, <1>8, <1>9, <1>10, <1>11, <1>12

(* A part of the path that is there, or that the run has made.                 *)
LEMMA DeliverDeeper ==
    ASSUME TypeInv, DeliverInv, NEW r \in Run, Deeper(r), UNCHANGED files,
           run[r].pc \in {"folder", "mkdir"}, folders' \in {folders, Made(r)},
           folders'[Current(r)] # None
    PROVE  DeliverInv'
<1> DEFINE cfg == run[r].cfg
<1> DEFINE deep == run[r].depth + 1
<1> DEFINE pc == IF deep = Len(Path(r)) THEN "upload" ELSE "folder"
<1> DEFINE row == [[run[r] EXCEPT !.depth = deep] EXCEPT !.pc = pc]
<1> DEFINE dirs == folders'
<1>1. /\ run[r] \in RunRow /\ cfg.kind = "file" /\ run[r].depth < Len(cfg.folder)
      /\ Reached(cfg, run[r].depth, folders)
  BY DEF TypeInv, TypeOK, DeliverInv, Delivered
<1>2. Active(r) /\ cfg \in Files
  BY <1>1, Working DEF Active, Step
<1>3. /\ run[r].depth \in Nat /\ Len(cfg.folder) \in Nat /\ deep \in 1 .. Len(cfg.folder)
      /\ deep = run[r].depth + 1
  BY <1>1, <1>2, FolderType DEF RunRow
<1>4. run' = [run EXCEPT ![r] = row]
  BY DEF Deeper
<1>5. /\ pc \in {"upload", "folder"} /\ (pc = "upload") = (deep = Len(cfg.folder))
  BY DEF Path
<1>6. Current(r) = SubSeq(cfg.folder, 1, deep)
  BY DEF Current, Path
<1> HIDE DEF pc, deep
<1>7. row.pc = pc /\ row.cfg = cfg /\ row.depth = deep
  BY <1>1 DEF RunRow
<1> HIDE DEF row
<1>8. \A p \in Paths : folders[p] # None => folders'[p] # None
  BY SharePointAssumption DEF Made, TypeInv, TypeOK
<1>9. Reached(cfg, deep, dirs)
  <2>1. ASSUME NEW k \in 1 .. deep PROVE dirs[SubSeq(cfg.folder, 1, k)] # None
    <3>1. CASE k = deep
      BY <1>6, <3>1
    <3>2. CASE k # deep
      <4>1. k \in 1 .. run[r].depth /\ k \in 0 .. Len(cfg.folder)
        BY <1>3, <3>2
      <4>2. QED
        BY <1>1, <1>2, <1>8, <4>1, PrefixKnown DEF Reached
    <3>3. QED
      BY <3>1, <3>2
  <2>2. QED
    BY <2>1 DEF Reached
<1>10. \A s \in Run \ {r} : Later(s)
  BY <1>8 DEF Later
<1>11. Delivered(r, row, folders', files')
  <2>1. pc = "folder" => deep < Len(cfg.folder)
    BY <1>3, <1>5
  <2>2. QED
    BY <1>1, <1>5, <1>7, <1>9, <2>1 DEF Delivered
<1>12. QED
  BY <1>4, <1>10, <1>11, DeliverRun

LEMMA DeliverFolder ==
    ASSUME TypeInv, DeliverInv, NEW r \in Run, LookFolder(r) \/ MakeFolder(r)
    PROVE  DeliverInv'
<1>1. /\ run[r].pc \in {"folder", "mkdir"} /\ Active(r) /\ run[r].cfg.kind = "file"
      /\ files' = files /\ folders' \in {folders, Made(r)}
  BY DEF LookFolder, MakeFolder, At, Active, Step, graph
<1>2. \A p \in Paths : folders[p] # None => folders'[p] # None
  BY <1>1, SharePointAssumption DEF Made, TypeInv, TypeOK
<1>3. \A s \in Run : Later(s)
  BY <1>1, <1>2 DEF Later
<1>4. run[r] \in RunRow /\ Delivered(r, run[r], folders, files)
  BY DEF TypeInv, TypeOK, DeliverInv
<1>5. Current(r) \in Paths
  <2>1. run[r].cfg \in Files
    BY <1>1, Working
  <2>2. /\ run[r].depth \in Nat /\ Len(run[r].cfg.folder) \in Nat
        /\ run[r].depth < Len(run[r].cfg.folder)
    BY <1>1, <1>4, <2>1, FolderType DEF RunRow, Delivered
  <2>3. run[r].depth + 1 \in 0 .. Len(run[r].cfg.folder)
    BY <2>2
  <2>4. QED
    BY <2>1, <2>3, PrefixKnown DEF Current, Path
<1>6. CASE Fail(r) \/ Refused(r) \/ Lost(r)
  BY <1>3, <1>6, DeliverEnd
<1>7. CASE Deeper(r) /\ folders'[Current(r)] # None
  BY <1>1, <1>7, DeliverDeeper
<1>8. CASE LookFolder(r) /\ Goto(r, "mkdir")
  <2> DEFINE row == [run[r] EXCEPT !.pc = "mkdir"]
  <2>1. run' = [run EXCEPT ![r] = row] /\ run[r].pc = "folder"
    BY <1>8 DEF Goto, LookFolder, At
  <2>2. row.pc = "mkdir" /\ row.cfg = run[r].cfg /\ row.depth = run[r].depth
    BY <1>4 DEF RunRow
  <2> HIDE DEF row
  <2>3. Delivered(r, row, folders, files)
    BY <1>1, <1>4, <2>1, <2>2 DEF Delivered
  <2>4. folders' = folders
    BY <1>8 DEF LookFolder, graph
  <2>5. QED
    BY <1>1, <1>3, <2>1, <2>3, <2>4, DeliverRun
<1>9. QED
  <2>1. CASE LookFolder(r)
    BY <1>6, <1>7, <1>8, <2>1 DEF LookFolder, Exists, graph
  <2>2. CASE MakeFolder(r)
    <3>1. Made(r)[Current(r)] # None
      BY <1>5, SharePointAssumption DEF Made, Exists, TypeInv, TypeOK
    <3>2. QED
      BY <1>6, <1>7, <2>2, <3>1 DEF MakeFolder, Exists
  <2>3. QED
    BY <2>1, <2>2
(* Storing the file, and what follows it.                                      *)
LEMMA DeliverUpload ==
    ASSUME TypeInv, DeliverInv, NEW r \in Run, Upload(r) \/ SetColumns(r) \/ CheckIn(r)
    PROVE  DeliverInv'
<1> DEFINE cfg == run[r].cfg
<1> DEFINE p == cfg.folder
<1>1. /\ Active(r) /\ folders' = folders /\ cfg.kind = "file"
      /\ run[r].pc \in {"upload", "columns", "checkin"}
  BY DEF Upload, SetColumns, CheckIn, Active, Step, At
<1>2. run[r] \in RunRow /\ cfg \in Files /\ Delivered(r, run[r], folders, files)
  BY <1>1, Working DEF DeliverInv
<1>3. p \in Paths /\ files \in [Paths -> FileState \cup {None}] /\ cfg # None
  BY <1>2, FolderKnown, SharePointAssumption DEF TypeInv, TypeOK
<1>4. cfg.create => Reached(cfg, Len(p), folders)
  BY <1>1, <1>2 DEF Delivered
<1>5. cfg.meta \in BOOLEAN /\ cfg.checkin \in BOOLEAN
  BY <1>2, SharePointAssumption DEF FileRow
<1> DEFINE old == files[p]
<1> DEFINE new == files'[p]
<1>6. old \in FileState \cup {None}
  BY <1>3
<1>7. run[r].pc \in {"columns", "checkin"} => old \in FileState /\ old # None
  BY <1>1, <1>2, <1>3 DEF TypeInv, Uploaded, Delivered
(* What the step leaves in Graph.                                              *)
<1>8. /\ files' # files =>
            /\ new # None /\ \A x \in Paths \ {p} : files'[x] = files[x]
            /\ old # None =>
                 /\ old.fields # None => new.fields # None
                 /\ new.by # r => new.by = old.by /\ (old.checked => new.checked)
                 /\ run[r].pc # "upload" => new.by = old.by /\ (old.checked => new.checked)
      /\ run[r].pc = "upload" /\ files' = Stored(r) => new # None /\ new.by = r
      /\ SetColumns(r) /\ files' = [files EXCEPT ![Path(r)].fields = r] => new.fields # None
      /\ CheckIn(r) /\ files' = [files EXCEPT ![Path(r)].checked = TRUE] => new.checked
  <2>1. Path(r) = p /\ None \notin Run
    BY SharePointAssumption DEF Path
  <2>2. CASE Upload(r)
    <3> DEFINE file == [by |-> r, checked |-> FALSE,
                        fields |-> IF old = None THEN None ELSE old.fields]
    <3>1. Stored(r) = [files EXCEPT ![p] = file]
      BY <1>3, <2>1 DEF Stored
    <3>2. file.by = r /\ (old # None => file.fields = old.fields) /\ file # None
      <4>1. file \in FileState
        BY <1>6 DEF FileState
      <4>2. QED
        BY <4>1, SharePointAssumption
    <3>3. run[r].pc = "upload"
      BY <2>2 DEF Upload, At
    <3>4. files' \in {files, Stored(r)}
      BY <2>2 DEF Upload
    <3>5. ~SetColumns(r) /\ ~CheckIn(r)
      BY <3>3 DEF SetColumns, CheckIn, At
    <3> HIDE DEF file
    <3>6. QED
      BY <1>3, <3>1, <3>2, <3>3, <3>4, <3>5
  <2>3. CASE SetColumns(r)
    <3> DEFINE file == [old EXCEPT !.fields = r]
    <3>1. run[r].pc = "columns" /\ old \in FileState
      BY <1>7, <2>3 DEF SetColumns, At
    <3>2. [files EXCEPT ![Path(r)].fields = r] = [files EXCEPT ![p] = file]
      BY <2>1
    <3>3. /\ file.fields = r /\ file.by = old.by /\ file.checked = old.checked
          /\ file # None
      <4>1. file \in FileState
        BY <3>1 DEF FileState
      <4>2. QED
        BY <3>1, <4>1, SharePointAssumption DEF FileState
    <3>4. files' \in {files, [files EXCEPT ![Path(r)].fields = r]}
      BY <2>3 DEF SetColumns
    <3>5. ~Upload(r) /\ ~CheckIn(r)
      BY <3>1 DEF Upload, CheckIn, At
    <3> DEFINE set == [files EXCEPT ![Path(r)].fields = r]
    <3> HIDE DEF file
    <3>6. set[p] = file /\ \A x \in Paths \ {p} : set[x] = files[x]
      BY <1>3, <3>2
    <3> HIDE DEF set
    <3>7. files' \in {files, set} /\ (new = file \/ files' = files)
      BY <3>4, <3>6 DEF set
    <3>8. files' = set => new = file
      BY <3>6
    <3>9. files' # files => \A x \in Paths \ {p} : files'[x] = files[x]
      BY <3>6, <3>7
    <3>10. QED
      BY <2>1, <3>1, <3>3, <3>5, <3>7, <3>8, <3>9 DEF set
  <2>4. CASE CheckIn(r)
    <3> DEFINE file == [old EXCEPT !.checked = TRUE]
    <3>1. run[r].pc = "checkin" /\ old \in FileState
      BY <1>7, <2>4 DEF CheckIn, At
    <3>2. [files EXCEPT ![Path(r)].checked = TRUE] = [files EXCEPT ![p] = file]
      BY <2>1
    <3>3. /\ file.fields = old.fields /\ file.by = old.by /\ file.checked
          /\ file # None
      <4>1. file \in FileState
        BY <3>1 DEF FileState
      <4>2. QED
        BY <3>1, <4>1, SharePointAssumption DEF FileState
    <3>4. files' \in {files, [files EXCEPT ![Path(r)].checked = TRUE]}
      BY <2>4 DEF CheckIn
    <3>5. ~Upload(r) /\ ~SetColumns(r)
      BY <3>1 DEF Upload, SetColumns, At
    <3> DEFINE set == [files EXCEPT ![Path(r)].checked = TRUE]
    <3> HIDE DEF file
    <3>6. set[p] = file /\ \A x \in Paths \ {p} : set[x] = files[x]
      BY <1>3, <3>2
    <3> HIDE DEF set
    <3>7. files' \in {files, set} /\ (new = file \/ files' = files)
      BY <3>4, <3>6 DEF set
    <3>8. files' = set => new = file
      BY <3>6
    <3>9. files' # files => \A x \in Paths \ {p} : files'[x] = files[x]
      BY <3>6, <3>7
    <3>10. QED
      BY <2>1, <3>1, <3>3, <3>5, <3>7, <3>8, <3>9 DEF set
  <2>5. QED
    BY <2>2, <2>3, <2>4
<1>9. \A s \in Run \ {r} : Later(s)
  <2>1. CASE files' = files
    BY <1>1, <2>1, LaterSame
  <2>2. CASE files' # files
    <3>1. new # None /\ \A x \in Paths \ {p} : files'[x] = files[x]
      BY <1>8, <2>2
    <3>2. ASSUME NEW s \in Run \ {r}, old # None, new.by = s
          PROVE  /\ old.by = s /\ (old.fields # None => new.fields # None)
                 /\ (old.checked => new.checked)
      BY <1>8, <2>2, <3>2
    <3> HIDE DEF p
    <3>3. QED
      BY <1>1, <3>1, <3>2 DEF Later, new, old
  <2>3. QED
    BY <2>1, <2>2
<1>10. CASE Refused(r) \/ Lost(r)
  BY <1>9, <1>10, DeliverEnd
<1>11. ASSUME NEW pc, Goto(r, pc), pc \in {"columns", "checkin", "ok"}, new # None,
              pc \in {"checkin", "ok"} /\ new.by = r /\ cfg.meta => new.fields # None,
              pc = "ok" /\ new.by = r /\ cfg.checkin => new.checked
       PROVE  DeliverInv'
  <2> DEFINE row == [run[r] EXCEPT !.pc = pc]
  <2>1. run' = [run EXCEPT ![r] = row]
    BY <1>11 DEF Goto
  <2>2. row.pc = pc /\ row.cfg = cfg
    BY <1>2 DEF RunRow
  <2> HIDE DEF row
  <2> DEFINE docs == files'
  <2>3. docs[p] = new
    OBVIOUS
  <2> HIDE DEF docs, new
  <2>4. Delivered(r, row, folders, docs)
    BY <1>3, <1>4, <1>11, <2>2, <2>3 DEF Delivered
  <2>5. Delivered(r, row, folders', files')
    BY <1>1, <2>4 DEF docs
  <2>6. QED
    BY <1>9, <2>1, <2>5, DeliverRun
<1>12. CASE Upload(r) /\ ~(Refused(r) \/ Lost(r))
  <2>1. run[r].pc = "upload" /\ Goto(r, AfterUpload(cfg)) /\ files' = Stored(r)
    BY <1>12 DEF Upload, At
  <2>2. new # None
    BY <1>8, <2>1
  <2>3. AfterUpload(cfg) \in {"columns", "checkin", "ok"}
        /\ (AfterUpload(cfg) \in {"checkin", "ok"} => ~cfg.meta)
        /\ (AfterUpload(cfg) = "ok" => ~cfg.checkin)
    BY <1>5 DEF AfterUpload, AfterColumns
  <2>4. QED
    BY <1>11, <2>1, <2>2, <2>3
<1>13. CASE SetColumns(r) /\ ~(Refused(r) \/ Lost(r))
  <2>1. Goto(r, AfterColumns(cfg)) /\ files' = [files EXCEPT ![Path(r)].fields = r]
    BY <1>13 DEF SetColumns, At
  <2>2. new.fields # None
    BY <1>8, <1>13, <2>1
  <2>3. new # None
    <3>1. CASE files' = files
      BY <1>7, <1>13, <3>1 DEF SetColumns, At
    <3>2. QED
      BY <1>8, <3>1
  <2>4. AfterColumns(cfg) \in {"checkin", "ok"}
        /\ (AfterColumns(cfg) = "ok" => ~cfg.checkin)
    BY <1>5 DEF AfterColumns
  <2>5. QED
    BY <1>11, <2>1, <2>2, <2>3, <2>4
<1>14. CASE CheckIn(r) /\ ~(Refused(r) \/ Lost(r))
  <2>1. run[r].pc = "checkin" /\ Goto(r, "ok")
        /\ files' = [files EXCEPT ![Path(r)].checked = TRUE]
    BY <1>14 DEF CheckIn, At
  <2>2. new.checked
    BY <1>8, <1>14, <2>1
  <2>3. old # None /\ (old.by = r /\ cfg.meta => old.fields # None)
    BY <1>1, <1>2, <1>7, <2>1 DEF Delivered
  <2>4. new # None /\ (new.by = r /\ cfg.meta => new.fields # None)
    <3>1. CASE files' = files
      BY <2>3, <3>1
    <3>2. CASE files' # files
      BY <1>8, <2>1, <2>3, <3>2
    <3>3. QED
      BY <3>1, <3>2
  <2>5. QED
    BY <1>11, <2>1, <2>2, <2>4
<1>15. QED
  BY <1>10, <1>12, <1>13, <1>14

LEMMA DeliverBegin ==
    ASSUME TypeInv, DeliverInv, NEW r \in Run, Begin(r)
    PROVE  DeliverInv'
<1>1. UNCHANGED <<folders, files>>
  BY DEF Begin, StartRun, StartProbe, graph
<1>2. \A s \in Run \ {r} : Later(s)
  BY <1>1, LaterSame
<1>3. CASE Fail(r)
  BY <1>2, <1>3, DeliverEnd
<1>4. CASE \E cfg : run' = [run EXCEPT ![r] = Taken(cfg)]
  <2>1. PICK cfg : run' = [run EXCEPT ![r] = Taken(cfg)]
    BY <1>4
  <2>2. Delivered(r, Taken(cfg), folders', files')
    BY DEF Delivered, Taken
  <2>3. QED
    BY <1>2, <2>1, <2>2, DeliverRun
<1>5. QED
  BY <1>3, <1>4 DEF Begin, StartRun, StartProbe

LEMMA DeliverStep == TypeInv /\ DeliverInv /\ [Next]_vars => DeliverInv'
<1> SUFFICES ASSUME TypeInv, DeliverInv, [Next]_vars
             PROVE  DeliverInv'
  OBVIOUS
<1>1. CASE UNCHANGED vars
  BY <1>1 DEF vars, graph, DeliverInv
<1>2. ASSUME NEW q \in Req, Administer(q)
      PROVE  DeliverInv'
  <2>1. UNCHANGED <<run, graph>>
    BY <1>2 DEF Administer, CreateConnection, UpdateConnection, DeleteConnection,
       CreateFileAction, CreateListAction, UpdateFileAction, UpdateListAction,
       DeleteFileAction, DeleteListAction, Write, Decide
  <2>2. QED
    BY <2>1 DEF graph, DeliverInv
<1>3. ASSUME NEW r \in Run, Proceed(r)
      PROVE  DeliverInv'
  BY <1>3, DeliverLooks, DeliverFolder, DeliverUpload DEF Proceed
<1>4. QED
  BY <1>1, <1>2, <1>3, DeliverBegin DEF Next

LEMMA DeliverInit == Init => DeliverInv
<1> SUFFICES ASSUME Init, NEW r \in Run
             PROVE  Delivered(r, run[r], folders, files)
  BY DEF DeliverInv
<1>1. run[r].pc = "idle"
  BY DEF Init, Idle
<1>2. QED
  BY <1>1 DEF Delivered

(* A run that reports success has its folders, its file and, unless another    *)
(* run stored the file since, its columns and its check-in in SharePoint       *)
(* (run_sharepoint_file), whatever the other runs and Graph's faults do.       *)
THEOREM DoneIsDelivered == Spec => []OkIsDelivered
<1>1. TypeInv /\ DeliverInv => OkIsDelivered
  BY DEF DeliverInv, Delivered, Reached, OkIsDelivered, Exists
<1>2. QED
  BY <1>1, TypeInit, TypeStep, DeliverInit, DeliverStep, PTL DEF Spec

(* Only a refusal of a folder that is not there, never one that another run    *)
(* was faster to create, fails a run in _ensure_folder_path.                   *)
LEMMA RaceStep ==
    TypeInv /\ [Next]_vars =>
        [\A r \in Run :
            (run[r].pc = "mkdir" /\ run'[r].pc = "failed") => ~Exists(Current(r))]_vars
<1> SUFFICES ASSUME TypeInv, [Next]_vars, NEW r \in Run,
                    run[r].pc = "mkdir", run'[r].pc = "failed"
             PROVE  ~Exists(Current(r))
  OBVIOUS
<1>1. run \in [Run -> RunRow]
  BY DEF TypeInv, TypeOK
<1>2. ASSUME run'[r] = run[r] PROVE FALSE
  BY <1>2
<1>3. CASE UNCHANGED vars
  BY <1>2, <1>3 DEF vars
<1>4. CASE \E q \in Req : Administer(q)
  <2>1. run' = run
    BY <1>4 DEF Administer, CreateConnection, UpdateConnection, DeleteConnection,
       CreateFileAction, CreateListAction, UpdateFileAction, UpdateListAction,
       DeleteFileAction, DeleteListAction, Write, Decide
  <2>2. QED
    BY <1>2, <2>1
<1>5. CASE \E s \in Run : Begin(s) \/ Proceed(s)
  <2>1. PICK s \in Run : Begin(s) \/ Proceed(s)
    BY <1>5
  <2>2. \A q \in Run \ {s} : run'[q] = run[q]
    <3>1. CASE Begin(s)
      BY <1>1, <3>1 DEF Begin, StartRun, StartProbe, Fail, End
    <3>2. CASE Token(s) \/ Lookup(s)
      BY <1>1, <3>2 DEF Token, Lookup, Refused, Fail, Lost, End
    <3>3. CASE Proceed(s) /\ ~(Token(s) \/ Lookup(s))
      BY <1>1, <3>3 DEF Proceed, GetConnection, Probe, Fetch, LookFolder, MakeFolder,
         Upload, SetColumns, CheckIn, WriteList, Deeper, Goto, Fail, Refused, Lost, End
    <3>4. QED
      BY <2>1, <3>1, <3>2, <3>3
  <2>3. s = r
    BY <1>1, <1>2, <2>2
  <2>4. MakeFolder(r)
    <3>1. run[r] # Idle
      BY DEF Idle
    <3>2. ~Begin(r)
      BY <3>1 DEF Begin, StartRun, StartProbe
    <3>3. QED
      BY <2>1, <2>3, <3>2 DEF Proceed, GetConnection, Token, Probe, Fetch, LookFolder,
         Upload, SetColumns, CheckIn, Lookup, WriteList, At
  <2>5. CASE Deeper(r)
    BY <1>1, <2>5 DEF Deeper, RunRow
  <2>6. CASE Lost(r)
    BY <1>1, <2>6 DEF Lost, End, Idle
  <2>7. QED
    BY <2>4, <2>5, <2>6 DEF MakeFolder
<1>6. QED
  BY <1>3, <1>4, <1>5 DEF Next

(* The same of every behaviour.                                                *)
THEOREM RaceIsHarmless == Spec => FolderRaceHarmless
BY TypeInit, TypeStep, RaceStep, PTL DEF Spec, FolderRaceHarmless
============================================================================
