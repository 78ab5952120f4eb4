------------------------------ MODULE SharePoint ------------------------------
(* sharepoint.py and routers/sharepoint.py: the connections and the file and   *)
(* list actions an administrator keeps, the runs of those actions against      *)
(* Microsoft Graph, and the probes of a connection.                            *)
(*                                                                             *)
(* A run is one call of run_sharepoint_file or run_sharepoint_list on a worker *)
(* thread; each of its Graph calls is a step, so runs and administrator        *)
(* requests come between.  Graph itself is external: it keeps the folders,     *)
(* files and list items, and may refuse a call or lose its answer after doing  *)
(* it.  Templates are what they render to: the folder path, and whether a name *)
(* or a lookup value is left.                                                  *)
EXTENDS Naturals, Sequences, FiniteSets

CONSTANTS
    None,       \* no row, no item
    Run,        \* the runs and probes
    Req,        \* the administrator requests that may be open together
    Conn,       \* connection ids
    FileAct,    \* ids of file actions
    ListAct,    \* ids of list actions
    Item,       \* ids Graph gives to list items
    Secret,     \* client secrets
    Blank,      \* the empty secret of a form left alone
    Masked,     \* the dots a secret is shown as
    Files,      \* the rows a file action may have
    Lists,      \* the rows a list action may have
    Installed,  \* the tables a system may start with: [conns, acts]
    Budget,     \* bound: administrator requests
    MaxThreads, \* worker threads, the event loop's and the web server's
    Faults      \* subset of {"refused", "lost"}: what Graph may do to a call

(* A row of sharepoint_file_actions.  target: drive_id is set; renders: the    *)
(* source template gives an address and its org is known; named: the file name *)
(* template gives a name; folder: the parts of the rendered folder path.       *)
FileRow == [kind : {"file"}, conn : Conn, enabled : BOOLEAN, target : BOOLEAN,
            renders : BOOLEAN, named : BOOLEAN, folder : Seq(STRING),
            create : BOOLEAN, meta : BOOLEAN, checkin : BOOLEAN]

(* A row of sharepoint_list_actions.  target: site_id and list_id are set;     *)
(* keyed: a lookup field and value; writes: field_map sets the lookup field;   *)
(* item: what item_id_template renders to.                                     *)
ListRow == [kind : {"list"}, conn : Conn, enabled : BOOLEAN, target : BOOLEAN,
            op : {"create", "update", "upsert", "lookup", "delete"},
            keyed : BOOLEAN, writes : BOOLEAN, item : Item \cup {None}]

(* A row of sharepoint_connections, as far as a run looks at it.               *)
ConnRow == [enabled : BOOLEAN, secret : Secret \cup {Blank}]

(* What a probe asks of Graph, in place of an action's row.                    *)
ProbeRow == [kind : {"test", "browse"}, conn : Conn]

Act == FileAct \cup ListAct

(* What the tables may hold under the id of an action.                         *)
Kept == {f \in [Act -> Files \cup Lists \cup {None}] :
           \A a \in Act : f[a] \in (IF a \in FileAct THEN Files ELSE Lists) \cup {None}}

(* The folders that the rows name, and those above them.                       *)
Paths == UNION {{SubSeq(f.folder, 1, k) : k \in 0 .. Len(f.folder)} : f \in Files}

(* An item as Graph keeps it.  found: a lookup of the key finds it; upsert: a  *)
(* keyed upsert created it; by: the run whose fields it has.                   *)
ItemRow == [found : BOOLEAN, upsert : BOOLEAN, by : Run]

(* A file as Graph keeps it.  by: the run that stored it last; fields: the run *)
(* whose columns it has; checked: it is checked in.                            *)
FileState == [by : Run, fields : Run \cup {None}, checked : BOOLEAN]

ASSUME SharePointAssumption ==
    /\ Files \subseteq FileRow /\ Lists \subseteq ListRow
    /\ Installed \subseteq [conns : [Conn -> ConnRow \cup {None}], acts : Kept]
    /\ \A t \in Installed : \A a \in FileAct :
          t.acts[a] # None => t.conns[t.acts[a].conn] # None
    /\ FileAct \cap ListAct = {}
    /\ MaxThreads \in Nat /\ Budget \in Nat
    /\ None \notin Files \cup Lists \cup ProbeRow \cup Item \cup ConnRow \cup Run
                    \cup FileState
    /\ Blank \notin Secret /\ Masked \notin Secret /\ Masked # Blank
    /\ IsFiniteSet(Run) /\ IsFiniteSet(Item)

VARIABLES
    conns,    \* sharepoint_connections: row or None
    acts,     \* sharepoint_file_actions and sharepoint_list_actions
    pending,  \* the write an open request has decided on
    budget,   \* administrator requests left
    run,      \* the runs
    folders,  \* Graph: the run that created the folder of a path
    files,    \* Graph: the file in the folder of a path
    items     \* Graph: list items

admin == <<conns, acts, pending, budget>>
graph == <<folders, files, items>>
vars == <<admin, run, graph>>

Step == {"connect", "token", "fetch", "folder", "mkdir", "upload", "columns",
         "checkin", "lookup", "write", "probe"}

Idle == [pc |-> "idle", cfg |-> None, depth |-> 0, item |-> None]

Taken(cfg) == [pc |-> "connect", cfg |-> cfg, depth |-> 0, item |-> None]

Active(r) == run[r].pc \in Step

(***************************************************************************)
(* Administrator requests: decide on what the tables say, then write        *)
(***************************************************************************)

(* table.update merges the given fields into the row as it is by then, and     *)
(* does nothing when the row has gone.  The fields of an action are changed to *)
(* those of another row it may have.                                           *)
Merge(row, data) ==
    IF row = None THEN None
    ELSE [f \in DOMAIN row |-> IF f \in DOMAIN data THEN data[f] ELSE row[f]]

Decide(q, write) ==
    /\ pending[q] = None /\ budget > 0
    /\ budget' = budget - 1
    /\ pending' = [pending EXCEPT ![q] = write]
    /\ UNCHANGED <<conns, acts, run, graph>>

CreateConnection(q, c) ==
    \E secret \in Secret \cup {Blank}, on \in BOOLEAN :
        /\ conns[c] = None
        /\ Decide(q, [table |-> "conns", id |-> c, how |-> "insert",
                      data |-> [enabled |-> on, secret |-> secret]])

(* Faulty: only a blank secret is left out of the update.                      *)
SecretGivenMasked(secret) ==
    IF secret = Blank THEN [f \in {} |-> None] ELSE [f \in {"secret"} |-> secret]

(* A secret sent blank or as the dots leaves the stored one alone.             *)
SecretGiven(secret) ==
    IF secret \in {Blank, Masked} THEN [f \in {} |-> None]
    ELSE [f \in {"secret"} |-> secret]

UpdateConnection(q, c) ==
    /\ conns[c] # None
    /\ \/ \E secret \in Secret \cup {Blank, Masked} :
              Decide(q, [table |-> "conns", id |-> c, how |-> "update",
                         data |-> SecretGiven(secret)])
       \/ \E on \in BOOLEAN :
              Decide(q, [table |-> "conns", id |-> c, how |-> "update",
                         data |-> [f \in {"enabled"} |-> on]])

(* Refused while an action of either table uses the connection.                *)
DeleteConnection(q, c) ==
    /\ conns[c] # None
    /\ \A a \in Act : acts[a] # None => acts[a].conn # c
    /\ Decide(q, [table |-> "conns", id |-> c, how |-> "remove", data |-> None])

CreateFileAction(q, a) ==
    \E row \in Files :
        /\ a \in FileAct /\ acts[a] = None /\ conns[row.conn] # None
        /\ Decide(q, [table |-> "acts", id |-> a, how |-> "insert", data |-> row])

CreateListAction(q, a) ==
    \E row \in Lists :
        /\ a \in ListAct /\ acts[a] = None /\ conns[row.conn] # None
        /\ Decide(q, [table |-> "acts", id |-> a, how |-> "insert", data |-> row])

(* The new connection of a file action must exist.                             *)
UpdateFileAction(q, a) ==
    \E row \in Files :
        /\ a \in FileAct /\ acts[a] # None /\ conns[row.conn] # None
        /\ Decide(q, [table |-> "acts", id |-> a, how |-> "update", data |-> row])

(* The new connection of a list action is not looked up.                       *)
UpdateListAction(q, a) ==
    \E row \in Lists :
        /\ a \in ListAct /\ acts[a] # None
        /\ Decide(q, [table |-> "acts", id |-> a, how |-> "update", data |-> row])

DeleteFileAction(q, a) ==
    /\ a \in FileAct /\ acts[a] # None
    /\ Decide(q, [table |-> "acts", id |-> a, how |-> "remove", data |-> None])

DeleteListAction(q, a) ==
    /\ a \in ListAct /\ acts[a] # None
    /\ Decide(q, [table |-> "acts", id |-> a, how |-> "remove", data |-> None])

Written(row, w) ==
    CASE w.how = "insert" -> w.data
      [] w.how = "update" -> Merge(row, w.data)
      [] w.how = "remove" -> None

Write(q) ==
    /\ pending[q] # None
    /\ LET w == pending[q] IN
       IF w.table = "conns"
       THEN conns' = [conns EXCEPT ![w.id] = Written(conns[w.id], w)] /\ acts' = acts
       ELSE acts' = [acts EXCEPT ![w.id] = Written(acts[w.id], w)] /\ conns' = conns
    /\ pending' = [pending EXCEPT ![q] = None]
    /\ UNCHANGED <<budget, run, graph>>

(***************************************************************************)
(* Runs: the steps that both kinds of action share                          *)
(***************************************************************************)

Goto(r, pc) == run' = [run EXCEPT ![r].pc = pc]

(* The code raises, because of a row or of Graph's answer.                     *)
End(r, how) == run' = [run EXCEPT ![r] = [Idle EXCEPT !.pc = how]]
Fail(r) == End(r, "failed")
Refused(r) == "refused" \in Faults /\ Fail(r)

(* The call raises: no answer came, whatever Graph did.                        *)
Lost(r) == "lost" \in Faults /\ End(r, "lost")

At(r, pc, kind) == run[r].pc = pc /\ run[r].cfg.kind = kind

(* A thread takes up the action; a missing or disabled one raises at once.     *)
StartRun(r, a) ==
    /\ run[r] = Idle
    /\ Cardinality({s \in Run : Active(s)}) < MaxThreads
    /\ IF acts[a] # None /\ acts[a].enabled
       THEN run' = [run EXCEPT ![r] = Taken(acts[a])]
       ELSE Fail(r)
    /\ UNCHANGED <<admin, graph>>

(* test_connection and the browse routes, which only read.                     *)
StartProbe(r, c, kind) ==
    /\ run[r] = Idle
    /\ Cardinality({s \in Run : Active(s)}) < MaxThreads
    /\ run' = [run EXCEPT ![r] = Taken([kind |-> kind, conn |-> c])]
    /\ UNCHANGED <<admin, graph>>

(* _get_connection: found, enabled and with a secret.                          *)
Usable(c) == conns[c] # None /\ conns[c].enabled /\ conns[c].secret # Blank

GetConnection(r) ==
    /\ run[r].pc = "connect"
    /\ IF Usable(run[r].cfg.conn) THEN Goto(r, "token") ELSE Fail(r)
    /\ UNCHANGED <<admin, graph>>

(* What a list action does once it has a token: its explicit item, a lookup,   *)
(* or straight to the write.                                                   *)
ListStep(cfg) ==
    IF ~cfg.target THEN "failed"
    ELSE IF \/ cfg.op = "create"
            \/ cfg.op \in {"update", "delete"} /\ cfg.item # None
         THEN "write"
         ELSE "lookup"

(* get_graph_token, then the checks that the action names a target.            *)
Token(r) ==
    LET cfg == run[r].cfg
        next == CASE cfg.kind = "file" -> IF cfg.target THEN "fetch" ELSE "failed"
                  [] cfg.kind = "list" -> ListStep(cfg)
                  [] OTHER -> "probe"
    IN  /\ run[r].pc = "token"
        /\ \/ run' = [run EXCEPT ![r].pc = next,
                                 ![r].item = IF cfg.kind = "list" THEN cfg.item ELSE None]
           \/ Refused(r) \/ Lost(r)
        /\ UNCHANGED <<admin, graph>>

(* A probe with a token: a test says so whatever Graph answers, a browse needs *)
(* the answer.                                                                 *)
Probe(r) ==
    /\ run[r].pc = "probe"
    /\ \/ Goto(r, "ok")
       \/ run[r].cfg.kind = "browse" /\ (Refused(r) \/ Lost(r))
    /\ UNCHANGED <<admin, graph>>

(***************************************************************************)
(* run_sharepoint_file                                                      *)
(***************************************************************************)

(* The bytes come from a URL or from Salesforce, then the names are rendered.  *)
Fetch(r) ==
    LET cfg == run[r].cfg IN
    /\ At(r, "fetch", "file")
    /\ \/ /\ cfg.renders /\ cfg.named
          /\ Goto(r, IF cfg.create /\ cfg.folder # <<>> THEN "folder" ELSE "upload")
       \/ ~(cfg.renders /\ cfg.named) /\ Fail(r)
       \/ Refused(r) \/ Lost(r)
    /\ UNCHANGED <<admin, graph>>

Path(r) == run[r].cfg.folder
Current(r) == SubSeq(Path(r), 1, run[r].depth + 1)
Exists(p) == folders[p] # None

(* The next part of the path, or the upload after the last.                    *)
Deeper(r) ==
    run' = [run EXCEPT ![r].depth = @ + 1,
                       ![r].pc = IF run[r].depth + 1 = Len(Path(r)) THEN "upload"
                                 ELSE "folder"]

(* GET the folder: anything but 200 counts as missing.                         *)
LookFolder(r) ==
    /\ At(r, "folder", "file")
    /\ \/ Exists(Current(r)) /\ Deeper(r)
       \/ (~Exists(Current(r)) \/ "refused" \in Faults) /\ Goto(r, "mkdir")
       \/ Lost(r)
    /\ UNCHANGED <<admin, graph>>

Made(r) == IF Exists(Current(r)) THEN folders ELSE [folders EXCEPT ![Current(r)] = r]

(* Faulty: 409 is taken for an error.                                          *)
MakeFolderStrict(r) ==
    /\ At(r, "mkdir", "file")
    /\ \/ /\ Exists(Current(r))
          /\ Fail(r) /\ folders' = folders
       \/ /\ ~Exists(Current(r))
          /\ Deeper(r) /\ folders' = Made(r)
       \/ Lost(r) /\ folders' \in {folders, Made(r)}
    /\ UNCHANGED <<admin, files, items>>

(* POST it: created, already there (409, another run was faster), or refused.  *)
MakeFolder(r) ==
    /\ At(r, "mkdir", "file")
    /\ \/ /\ Exists(Current(r))
          /\ Deeper(r) /\ folders' = folders
       \/ /\ ~Exists(Current(r))
          /\ Deeper(r) /\ folders' = Made(r)
       \/ ~Exists(Current(r)) /\ Refused(r) /\ folders' = folders
       \/ Lost(r) /\ folders' \in {folders, Made(r)}
    /\ UNCHANGED <<admin, files, items>>

(* Faulty: an action with columns skips the check-in.                          *)
AfterColumnsShort(cfg) == IF cfg.checkin /\ ~cfg.meta THEN "checkin" ELSE "ok"

AfterColumns(cfg) == IF cfg.checkin THEN "checkin" ELSE "ok"
AfterUpload(cfg) == IF cfg.meta THEN "columns" ELSE AfterColumns(cfg)

(* Uploading over a file keeps its columns and checks it out.                  *)
Stored(r) ==
    [files EXCEPT ![Path(r)] =
       [by |-> r, checked |-> FALSE, fields |-> IF @ = None THEN None ELSE @.fields]]

Upload(r) ==
    /\ At(r, "upload", "file")
    /\ \/ Goto(r, AfterUpload(run[r].cfg)) /\ files' = Stored(r)
       \/ Refused(r) /\ files' = files
       \/ Lost(r) /\ files' \in {files, Stored(r)}
    /\ UNCHANGED <<admin, folders, items>>

SetColumns(r) ==
    /\ At(r, "columns", "file")
    /\ LET set == [files EXCEPT ![Path(r)].fields = r] IN
       \/ Goto(r, AfterColumns(run[r].cfg)) /\ files' = set
       \/ Refused(r) /\ files' = files
       \/ Lost(r) /\ files' \in {files, set}
    /\ UNCHANGED <<admin, folders, items>>

(* 400, the file was not checked out, is as good as an answer.                 *)
CheckIn(r) ==
    /\ At(r, "checkin", "file")
    /\ LET set == [files EXCEPT ![Path(r)].checked = TRUE] IN
       \/ Goto(r, "ok") /\ files' = set
       \/ Refused(r) /\ files' = files
       \/ Lost(r) /\ files' \in {files, set}
    /\ UNCHANGED <<admin, folders, items>>

(***************************************************************************)
(* run_sharepoint_list                                                      *)
(***************************************************************************)

Found == {i \in Item : items[i] # None /\ items[i].found}

(* What follows a lookup that found item i (None: nothing).                    *)
AfterLookup(cfg, i) ==
    CASE cfg.op = "lookup" -> IF cfg.keyed THEN "ok" ELSE "failed"
      [] cfg.op = "upsert" -> "write"
      [] OTHER -> IF i = None THEN "failed" ELSE "write"

(* Faulty: an upsert forgets what it found.                                    *)
LookupForgotten(r) ==
    LET cfg == run[r].cfg IN
    /\ At(r, "lookup", "list")
    /\ run' = [run EXCEPT ![r].pc = AfterLookup(cfg, None)]
    /\ UNCHANGED <<admin, graph>>

Lookup(r) ==
    LET cfg == run[r].cfg
        Answers == IF cfg.keyed /\ Found # {} THEN Found ELSE {None}
    IN  /\ At(r, "lookup", "list")
        /\ \/ \E i \in Answers :
                 run' = [run EXCEPT ![r].pc = AfterLookup(cfg, i), ![r].item = i]
           \/ cfg.keyed /\ (Refused(r) \/ Lost(r))
        /\ UNCHANGED <<admin, graph>>

Patched(row, r) == [row EXCEPT !.by = r, !.found = @ \/ run[r].cfg.writes]

(* What the write may make of Graph's list: create, delete or patch.           *)
ListEffects(r) ==
    LET cfg == run[r].cfg
        i == run[r].item
        new == [found |-> cfg.writes, by |-> r,
                upsert |-> cfg.op = "upsert" /\ cfg.keyed /\ cfg.writes]
        left(row) == IF cfg.op = "delete" THEN None ELSE Patched(row, r)
    IN  IF cfg.op = "create" \/ (cfg.op = "upsert" /\ i = None)
        THEN {[items EXCEPT ![j] = new] : j \in {k \in Item : items[k] = None}}
        ELSE {[items EXCEPT ![j] = left(items[j])] : j \in {k \in Item : k = i /\ items[k] # None}}

(* The write itself; the item may have been deleted since (404).               *)
WriteList(r) ==
    LET i == run[r].item IN
    /\ At(r, "write", "list")
    /\ \/ items' \in ListEffects(r) /\ Goto(r, "ok")
       \/ i # None /\ items[i] = None /\ Fail(r) /\ items' = items
       \/ Refused(r) /\ items' = items
       \/ Lost(r) /\ items' \in ListEffects(r) \cup {items}
    /\ UNCHANGED <<admin, folders, files>>

(***************************************************************************)
(* The specification                                                        *)
(***************************************************************************)

Init ==
    /\ \E t \in Installed : conns = t.conns /\ acts = t.acts
    /\ pending = [q \in Req |-> None] /\ budget = Budget
    /\ run = [r \in Run |-> Idle]
    /\ folders = [p \in Paths |-> None] /\ files = [p \in Paths |-> None]
    /\ items = [i \in Item |-> None]

Administer(q) ==
    \/ \E c \in Conn : CreateConnection(q, c) \/ UpdateConnection(q, c)
                      \/ DeleteConnection(q, c)
    \/ \E a \in Act : \/ CreateFileAction(q, a) \/ UpdateFileAction(q, a)
                     \/ DeleteFileAction(q, a) \/ CreateListAction(q, a)
                     \/ UpdateListAction(q, a) \/ DeleteListAction(q, a)
    \/ Write(q)

Begin(r) ==
    \/ \E a \in Act : StartRun(r, a)
    \/ \E c \in Conn, kind \in {"test", "browse"} : StartProbe(r, c, kind)

Proceed(r) ==
    \/ GetConnection(r) \/ Token(r) \/ Probe(r)
    \/ Fetch(r) \/ LookFolder(r) \/ MakeFolder(r) \/ Upload(r)
    \/ SetColumns(r) \/ CheckIn(r)
    \/ Lookup(r) \/ WriteList(r)

Next ==
    \/ \E q \in Req : Administer(q)
    \/ \E r \in Run : Begin(r) \/ Proceed(r)

Spec == Init /\ [][Next]_vars

(***************************************************************************)
(* Properties                                                               *)
(***************************************************************************)

RunRow == [pc : Step \cup {"idle", "ok", "failed", "lost"},
           cfg : Files \cup Lists \cup ProbeRow \cup {None},
           depth : Nat, item : Item \cup {None}]

(* Every variable has its type.  A stored secret is never the dots of a form,  *)
(* so update_connection tells them from a new secret.                          *)
TypeOK ==
    /\ conns \in [Conn -> ConnRow \cup {None}]
    /\ acts \in Kept
    /\ budget \in 0 .. Budget
    /\ run \in [Run -> RunRow]
    /\ \A r \in Run : Active(r) => run[r].cfg # None
    /\ folders \in [Paths -> Run \cup {None}]
    /\ files \in [Paths -> FileState \cup {None}]
    /\ items \in [Item -> ItemRow \cup {None}]

(* Upserts of one key never leave more items than may run at once: whoever     *)
(* looks after the first was created finds it, also when the answer to the     *)
(* creation was lost and the run is tried again (run_sharepoint_list looks up  *)
(* before it writes).                                                          *)
Upserted == {i \in Item : items[i] # None /\ items[i].upsert}
UpsertBounded == Cardinality(Upserted) <= MaxThreads

(* What a run reports as done is in SharePoint: the folders it was to create,  *)
(* the file, and, unless a later run stored the file again, its columns and    *)
(* its check-in.                                                               *)
OkIsDelivered ==
    \A r \in Run : (run[r].pc = "ok" /\ run[r].cfg.kind = "file") =>
        LET cfg == run[r].cfg
            file == files[cfg.folder]
        IN  /\ file # None
            /\ cfg.create => (\A k \in 1 .. Len(cfg.folder) : Exists(SubSeq(cfg.folder, 1, k)))
            /\ (file.by = r /\ cfg.meta) => (file.fields # None)
            /\ (file.by = r /\ cfg.checkin) => file.checked

(* A folder that another run was faster to create never fails a run: the 409   *)
(* of _ensure_folder_path is an answer like any other.                         *)
FolderRaceHarmless ==
    [][\A r \in Run :
          (run[r].pc = "mkdir" /\ run'[r].pc = "failed") => ~Exists(Current(r))]_vars
=============================================================================
