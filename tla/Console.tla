-------------------------------- MODULE Console -------------------------------
(* auth.py, sso.py, routers/users.py, projects.py, pipelines.py and            *)
(* admin_config.py: accounts, and the tables administrators edit.              *)
(*                                                                             *)
(* A request is authorised on the event loop, by its user's role at that       *)
(* moment; its handler then runs in a thread of its own: it reads, decides,    *)
(* and writes, and each read and each write is one step (database.py holds a   *)
(* lock for one table operation, never for two).  Nothing but doc_id is        *)
(* unique in a table: get returns the first of the rows that match, update     *)
(* and remove reach all of them.                                               *)
EXTENDS Naturals, Sequences, FiniteSets

CONSTANTS
    None,       \* no value
    User,       \* usernames
    Admin,      \* the one called "admin"
    Event,      \* ids of event configurations
    Setting,    \* ids of rows of admin_settings
    Tables,     \* the number of tables with a project_id, in the order they are attached
    Guarded,    \* those of them that keep a project from being deleted
    Req,        \* requests served at the same time
    MaxFailed,  \* settings.max_failed_login_attempts
    SSORole,    \* settings.sso_default_role
    Installed   \* what is in the tables, what may be asked: see Init

Role == {"viewer", "operator", "admin"}
Rank(role) == CASE role = "admin" -> 2 [] role = "operator" -> 1 [] OTHER -> 0

(* lock: locked_until is null, in the future, or past.                         *)
UserRow == [role : Role, sso : BOOLEAN, failed : Nat, lock : {"none", "on", "past"}]
NewUser(role, sso) == [role |-> role, sso |-> sso, failed |-> 0, lock |-> "none"]
Counted(row, failed, lock) == [role |-> row.role, sso |-> row.sso, failed |-> failed, lock |-> lock]

(* An id is the number of the request that made the row.                       *)
ProjectRow == [id : Nat, default : BOOLEAN]
PipelineRow == [id : Nat, default : BOOLEAN]

NeedAdmin == {"create_user", "update_user", "delete_user", "unlock",
              "create_project", "update_project", "delete_project", "upsert_setting"}
NeedOperator == {"create_pipeline", "delete_pipeline", "place"}
NeedAny == {"list_projects", "list_pipelines"}
NeedNone == {"login", "sso", "handle_event"}
Operation == NeedAdmin \cup NeedOperator \cup NeedAny \cup NeedNone

(* A request names what it is about.                                           *)
WellFormed(call) ==
    /\ call.op \in Operation
    /\ call.op \in {"create_user", "update_user", "delete_user", "unlock", "login", "sso"}
          => call.on \in User
    /\ call.op = "create_user" => call.arg \in Role
    /\ call.op = "update_user" => call.arg \in Role \cup {None}
    /\ call.op \in {"create_project", "update_project"} => call.arg \in BOOLEAN
    /\ call.op = "place" => call.arg \in Nat
    /\ call.op \in {"list_pipelines", "handle_event", "create_pipeline", "delete_pipeline"}
          => call.on \in Event
    /\ call.op = "upsert_setting" => call.on \in Setting

(* The tables of a server that nobody has used yet.                            *)
Fresh(system) ==
    /\ system.users \in [User -> Seq(UserRow)]
    /\ \A u \in User : /\ Len(system.users[u]) <= 1
                       /\ \A i \in DOMAIN system.users[u] : system.users[u][i].lock = "none"
                                                           /\ system.users[u][i].failed = 0
    /\ system.projects \in Seq(ProjectRow)
    /\ system.place \in [1 .. Tables -> Nat \cup {None}]
    /\ system.pipelines \in [Event -> SUBSET PipelineRow]
    /\ \A e \in Event : \A p, r \in system.pipelines[e] : p.default /\ r.default => p = r
    /\ system.settings \in [Setting -> Nat]
    /\ \A s \in Setting : system.settings[s] <= 1
    /\ \A call \in system.offers : WellFormed(call)
    /\ system.calls \in Nat /\ system.restarts \in Nat

ASSUME ConsoleAssumption ==
    /\ None \notin User \cup Event \cup Setting \cup Nat \cup Role \cup BOOLEAN
    /\ Admin \in User
    /\ Tables \in Nat /\ Guarded \subseteq 1 .. Tables
    /\ MaxFailed \in Nat \ {0} /\ SSORole \in Role
    /\ IsFiniteSet(Req) /\ Req # {}
    /\ \A system \in Installed : Fresh(system)

VARIABLES
    users,      \* the rows of each username, in the order of doc_id
    wrong,      \* how often a wrong password was given for each username
    projects,   \* the rows of projects, in the order of doc_id
    place,      \* project_id of the one row of each table
    pipelines,  \* the pipelines of each event
    settings,   \* the number of rows with each id in admin_settings
    req,        \* the requests being served
    plan        \* what may be asked, and how many requests and restarts are left

tables == <<users, wrong, projects, place, pipelines, settings>>
vars == <<users, wrong, projects, place, pipelines, settings, req, plan>>

Exists(u) == users[u] # <<>>
RoleOf(u) == Head(users[u]).role

(***************************************************************************)
(* Requests                                                                 *)
(***************************************************************************)

Idle == [op |-> "none", on |-> None, arg |-> None, by |-> None, no |-> 0,
         pc |-> "idle", seen |-> None]

Over(q) == [req EXCEPT ![q] = Idle]
Go(q, pc) == [req EXCEPT ![q].pc = pc]
GoSeen(q, pc, seen) == [req EXCEPT ![q] = [[@ EXCEPT !.pc = pc] EXCEPT !.seen = seen]]

At(q, op, pc) == req[q].op = op /\ req[q].pc = pc

(* require_role reads the row of the token's user, who may be gone.            *)
Authorised(by, op) ==
    \/ op \in NeedNone /\ by = None
    \/ /\ by \in User /\ Exists(by)
       /\ \/ op \in NeedAny
          \/ op \in NeedOperator /\ Rank(RoleOf(by)) >= 1
          \/ op \in NeedAdmin /\ Rank(RoleOf(by)) >= 2

(* The sign-on callback and the worker's part run on the event loop, which     *)
(* takes up nothing else until they are through.                               *)
LoopIsFree ==
    \A q \in Req : ~At(q, "sso", "vouched") /\ ~At(q, "sso", "write") /\ ~At(q, "handle_event", "write")

Arrive(q) ==
    /\ req[q].pc = "idle" /\ plan.calls > 0 /\ LoopIsFree
    /\ \E call \in plan.offers, by \in User \cup {None} :
          /\ Authorised(by, call.op)
          /\ req' = [req EXCEPT ![q] = [op |-> call.op, on |-> call.on, arg |-> call.arg, by |-> by,
                                        no |-> plan.calls, pc |-> "look", seen |-> None]]
    /\ plan' = [plan EXCEPT !.calls = @ - 1]
    /\ UNCHANGED tables

(* The handler has read: it goes on to write, or answers with an error.        *)
Decide(q, passes) ==
    /\ req' = IF passes THEN Go(q, "write") ELSE Over(q)
    /\ UNCHANGED <<tables, plan>>

(***************************************************************************)
(* Accounts                                                                 *)
(***************************************************************************)

OnlyUsers == UNCHANGED <<wrong, projects, place, pipelines, settings, plan>>

(* The callback of a sign-on: its state is one that start_login left pending,  *)
(* and the identity provider vouches for the user; or it answers with an error.*)
SignOn(q) ==
    /\ At(q, "sso", "look") /\ LoopIsFree
    /\ req' = Go(q, "vouched") \/ req' = Over(q)
    /\ UNCHANGED <<tables, plan>>

(* Faulty: no look.                                                            *)
FindUserBlindly(q) ==
    /\ At(q, "create_user", "look") \/ At(q, "sso", "vouched")
    /\ Decide(q, TRUE)

(* create_user, and find_or_create_sso_user for the callback; both insert when *)
(* get found nothing.                                                          *)
FindUser(q) ==
    /\ At(q, "create_user", "look") \/ At(q, "sso", "vouched")
    /\ Decide(q, ~Exists(req[q].on))

InsertUser(q) ==
    /\ At(q, "create_user", "write") \/ At(q, "sso", "write")
    /\ LET row == IF req[q].op = "sso" THEN NewUser(SSORole, TRUE) ELSE NewUser(req[q].arg, FALSE) IN
       users' = [users EXCEPT ![req[q].on] = Append(@, row)]
    /\ req' = Over(q) /\ OnlyUsers

(* Faulty: one may demote oneself.                                             *)
MayUpdateAnybody(r) == Exists(r.on) /\ (r.arg = None => ~Head(users[r.on]).sso)

(* update_user: a role, or a password when there is none.                      *)
MayUpdate(r) ==
    /\ Exists(r.on)
    /\ ~(r.on = r.by /\ r.arg # None /\ r.arg # "admin")
    /\ r.arg = None => ~Head(users[r.on]).sso

UpdateUser(q) ==
    \/ /\ At(q, "update_user", "look") /\ Decide(q, MayUpdate(req[q]))
    \/ /\ At(q, "update_user", "write")
       /\ users' = IF req[q].arg = None THEN users
                   ELSE [users EXCEPT ![req[q].on] =
                            [i \in DOMAIN @ |-> [@[i] EXCEPT !.role = req[q].arg]]]
       /\ req' = Over(q) /\ OnlyUsers

DeleteUser(q) ==
    \/ /\ At(q, "delete_user", "look")
       /\ Decide(q, req[q].on # req[q].by /\ Exists(req[q].on))
    \/ /\ At(q, "delete_user", "write")
       /\ users' = [users EXCEPT ![req[q].on] = <<>>]
       /\ req' = Over(q) /\ OnlyUsers

Cleared(u) == [users EXCEPT ![u] = [i \in DOMAIN @ |-> Counted(@[i], 0, "none")]]

Unlock(q) ==
    \/ /\ At(q, "unlock", "look") /\ Decide(q, Exists(req[q].on))
    \/ /\ At(q, "unlock", "write")
       /\ users' = Cleared(req[q].on)
       /\ req' = Over(q) /\ OnlyUsers

(* authenticate_user reads the row; checking a password takes a while.         *)
LoginLook(q) ==
    /\ At(q, "login", "look")
    /\ LET rows == users[req[q].on] IN
       req' = IF rows = <<>> \/ (rows # <<>> /\ (Head(rows).lock = "on" \/ Head(rows).sso))
              THEN Over(q)
              ELSE GoSeen(q, "write", Head(rows))
    /\ UNCHANGED <<tables, plan>>

(* Faulty: locks one attempt early.                                            *)
FailedEarly(u, seen) ==
    [users EXCEPT ![u] =
        [i \in DOMAIN @ |-> Counted(@[i], seen.failed + 1,
                                    IF seen.failed + 2 >= MaxFailed THEN "on" ELSE @[i].lock)]]

(* The counter of the row as it was read, plus one.                            *)
Failed(u, seen) ==
    [users EXCEPT ![u] =
        [i \in DOMAIN @ |-> Counted(@[i], seen.failed + 1,
                                    IF seen.failed + 1 >= MaxFailed THEN "on" ELSE @[i].lock)]]

LoginWrite(q) ==
    /\ At(q, "login", "write")
    /\ LET u == req[q].on
           seen == req[q].seen IN
       \/ /\ users' = Failed(u, seen)
          /\ wrong' = [wrong EXCEPT ![u] = @ + 1]
       \/ /\ users' = IF seen.failed > 0 \/ seen.lock # "none" THEN Cleared(u) ELSE users
          /\ wrong' = wrong
    /\ req' = Over(q)
    /\ UNCHANGED <<projects, place, pipelines, settings, plan>>

(* lockout_duration_seconds have passed.                                       *)
Expire(u) ==
    /\ \E i \in DOMAIN users[u] : users[u][i].lock = "on"
    /\ users' = [users EXCEPT ![u] =
                    [i \in DOMAIN @ |-> Counted(@[i], @[i].failed,
                                                IF @[i].lock = "on" THEN "past" ELSE @[i].lock)]]
    /\ UNCHANGED req /\ OnlyUsers

(***************************************************************************)
(* Projects                                                                 *)
(***************************************************************************)

OnlyProjects == UNCHANGED <<users, wrong, place, pipelines, settings, plan>>

ProjectIds == {projects[i].id : i \in DOMAIN projects}
Defaults == {i \in DOMAIN projects : projects[i].default}
First(S) == CHOOSE i \in S : \A k \in S : i <= k
Chosen == projects[First(IF Defaults # {} THEN Defaults ELSE DOMAIN projects)].id

(* ensure_default_project, in every list or get: the first project of the      *)
(* default name, or else the first project, or else a new one ...              *)
EnsureProject(q) ==
    \/ /\ At(q, "list_projects", "look")
       /\ req' = IF projects = <<>> THEN Go(q, "write")
                 ELSE GoSeen(q, "scan", [id |-> Chosen, table |-> 1])
       /\ UNCHANGED <<tables, plan>>
    \/ /\ At(q, "list_projects", "write")
       /\ projects' = Append(projects, [id |-> req[q].no, default |-> TRUE])
       /\ req' = GoSeen(q, "scan", [id |-> req[q].no, table |-> 1])
       /\ OnlyProjects

(* ... to which each row without a project is attached, table by table.        *)
Attach(q) ==
    LET seen == req[q].seen
        next == [seen EXCEPT !.table = @ + 1] IN
    \/ /\ At(q, "list_projects", "scan")
       /\ req' = IF seen.table > Tables THEN Over(q)
                 ELSE IF place[seen.table] = None THEN Go(q, "attach")
                 ELSE GoSeen(q, "scan", next)
       /\ UNCHANGED <<tables, plan>>
    \/ /\ At(q, "list_projects", "attach")
       /\ place' = [place EXCEPT ![seen.table] = seen.id]
       /\ req' = GoSeen(q, "scan", next)
       /\ UNCHANGED <<users, wrong, projects, pipelines, settings, plan>>

CreateProject(q) ==
    /\ At(q, "create_project", "look")
    /\ projects' = Append(projects, [id |-> req[q].no, default |-> req[q].arg])
    /\ req' = Over(q) /\ OnlyProjects

(* Every field may be edited, the name that makes a project the default too.   *)
UpdateProject(q) ==
    \/ /\ At(q, "update_project", "look") /\ Decide(q, req[q].on \in ProjectIds)
    \/ /\ At(q, "update_project", "write")
       /\ projects' = [i \in DOMAIN projects |->
                          IF projects[i].id = req[q].on THEN [projects[i] EXCEPT !.default = req[q].arg]
                          ELSE projects[i]]
       /\ req' = Over(q) /\ OnlyProjects

Without(id) ==
    IF id \notin ProjectIds THEN projects
    ELSE LET i == CHOOSE k \in DOMAIN projects : projects[k].id = id IN
         SubSeq(projects, 1, i - 1) \o SubSeq(projects, i + 1, Len(projects))

(* delete_project looks at the name, then at one guarded table after another.  *)
DeleteProject(q) ==
    \/ /\ At(q, "delete_project", "look")
       /\ req' = IF \E i \in DOMAIN projects : projects[i].id = req[q].on /\ ~projects[i].default
                 THEN GoSeen(q, "check", Guarded) ELSE Over(q)
       /\ UNCHANGED <<tables, plan>>
    \/ /\ At(q, "delete_project", "check")
       /\ LET left == req[q].seen IN
          req' = IF left = {} THEN Go(q, "write")
                 ELSE IF place[First(left)] = req[q].on THEN Over(q)
                 ELSE GoSeen(q, "check", left \ {First(left)})
       /\ UNCHANGED <<tables, plan>>
    \/ /\ At(q, "delete_project", "write")
       /\ projects' = Without(req[q].on)
       /\ req' = Over(q) /\ OnlyProjects

(* An org, event or other row is saved with a project, which nobody looks up.  *)
Place(q) ==
    /\ At(q, "place", "look")
    /\ place' = [place EXCEPT ![req[q].on] = req[q].arg]
    /\ req' = Over(q)
    /\ UNCHANGED <<users, wrong, projects, pipelines, settings, plan>>

(***************************************************************************)
(* Pipelines and settings                                                   *)
(***************************************************************************)

OnlyPipelines == UNCHANGED <<users, wrong, projects, place, settings, plan>>

Ids(e) == {p.id : p \in pipelines[e]}

(* ensure_default_pipeline, for a list and for every event the worker handles. *)
EnsurePipeline(q) ==
    \/ /\ At(q, "list_pipelines", "look") \/ (At(q, "handle_event", "look") /\ LoopIsFree)
       /\ Decide(q, pipelines[req[q].on] = {})
    \/ /\ At(q, "list_pipelines", "write") \/ At(q, "handle_event", "write")
       /\ pipelines' = [pipelines EXCEPT ![req[q].on] = @ \cup {[id |-> req[q].no, default |-> TRUE]}]
       /\ req' = Over(q) /\ OnlyPipelines

CreatePipeline(q) ==
    /\ At(q, "create_pipeline", "look")
    /\ pipelines' = [pipelines EXCEPT ![req[q].on] = @ \cup {[id |-> req[q].no, default |-> FALSE]}]
    /\ req' = Over(q) /\ OnlyPipelines

(* The pipelines that a deletion would leave on the event.                     *)
Remaining(r) == Ids(r.on) \ {r.arg}

DeletePipeline(q) ==
    \/ /\ At(q, "delete_pipeline", "look")
       /\ req' = IF req[q].arg \in Ids(req[q].on) /\ Remaining(req[q]) # {}
                 THEN GoSeen(q, "write", Remaining(req[q])) ELSE Over(q)
       /\ UNCHANGED <<tables, plan>>
    \/ /\ At(q, "delete_pipeline", "write")
       /\ pipelines' = [pipelines EXCEPT ![req[q].on] = {p \in @ : p.id # req[q].arg}]
       /\ req' = Over(q) /\ OnlyPipelines

(* The settings of DSS, processing mode, Langflow, e-mail, broker and console, *)
(* and the rows of an import: update when get found a row, or else insert.     *)
UpsertSetting(q) ==
    \/ /\ At(q, "upsert_setting", "look")
       /\ req' = IF settings[req[q].on] = 0 THEN Go(q, "write") ELSE Over(q)
       /\ UNCHANGED <<tables, plan>>
    \/ /\ At(q, "upsert_setting", "write")
       /\ settings' = [settings EXCEPT ![req[q].on] = @ + 1]
       /\ req' = Over(q)
       /\ UNCHANGED <<users, wrong, projects, place, pipelines, plan>>

(***************************************************************************)
(* The specification                                                        *)
(***************************************************************************)

(* The process ends and starts again; bootstrap_default_admin gives an empty   *)
(* table its first administrator, and the default project is seen to.          *)
Restart ==
    /\ plan.restarts > 0 /\ plan.calls > 0
    /\ plan' = [[plan EXCEPT !.restarts = @ - 1] EXCEPT !.calls = @ - 1]
    /\ req' = [q \in Req |-> Idle]
    /\ users' = IF \A u \in User : ~Exists(u)
                THEN [users EXCEPT ![Admin] = <<NewUser("admin", FALSE)>>] ELSE users
    /\ projects' = IF projects = <<>> THEN <<[id |-> plan.calls, default |-> TRUE]>> ELSE projects
    /\ place' = [t \in 1 .. Tables |->
                    IF place[t] # None THEN place[t]
                    ELSE IF projects = <<>> THEN plan.calls ELSE Chosen]
    /\ UNCHANGED <<wrong, pipelines, settings>>

Init ==
    /\ \E system \in Installed :
          /\ users = system.users /\ projects = system.projects /\ place = system.place
          /\ pipelines = system.pipelines /\ settings = system.settings
          /\ plan = [offers |-> system.offers, calls |-> system.calls, restarts |-> system.restarts]
    /\ wrong = [u \in User |-> 0]
    /\ req = [q \in Req |-> Idle]

Accounts(q) ==
    SignOn(q) \/ FindUser(q) \/ InsertUser(q) \/ UpdateUser(q) \/ DeleteUser(q) \/ Unlock(q)
        \/ LoginLook(q) \/ LoginWrite(q)

Workspace(q) ==
    EnsureProject(q) \/ Attach(q) \/ CreateProject(q) \/ UpdateProject(q) \/ DeleteProject(q)
        \/ Place(q) \/ EnsurePipeline(q) \/ CreatePipeline(q) \/ DeletePipeline(q) \/ UpsertSetting(q)

Next ==
    \/ \E q \in Req : Arrive(q) \/ Accounts(q) \/ Workspace(q)
    \/ \E u \in User : Expire(u)
    \/ Restart

Spec == Init /\ [][Next]_vars

(***************************************************************************)
(* Properties                                                               *)
(***************************************************************************)

(* Every variable has its type.                                                *)
TypeOK ==
    /\ users \in [User -> Seq(UserRow)]
    /\ wrong \in [User -> Nat]
    /\ projects \in Seq(ProjectRow)
    /\ place \in [1 .. Tables -> Nat \cup {None}]
    /\ pipelines \in [Event -> SUBSET PipelineRow]
    /\ settings \in [Setting -> Nat]
    /\ \A q \in Req : req[q].pc = "idle" \/ WellFormed(req[q])

Admins == {u \in User : Exists(u) /\ RoleOf(u) = "admin"}

(* The step of a request that ends.                                            *)
Ends(q) == req[q].pc = "write" /\ req'[q].pc = "idle"

(* The last administrator is demoted or deleted only by a request whose own    *)
(* user has lost the role since it was let in: nobody may demote or delete     *)
(* themselves (users.py:52, :72), so it takes two requests that overlap.       *)
AdminsLost ==
    Admins # {} /\ Admins' = {} =>
        \E q \in Req : Ends(q) /\ req[q].op \in {"update_user", "delete_user"} /\ req[q].by \notin Admins

(* An event loses its last pipeline only by a deletion that meant to leave     *)
(* others, which have gone since (pipelines.py:106).                           *)
PipelinesLost(e) ==
    pipelines[e] # {} /\ pipelines'[e] = {} =>
        \E q \in Req : Ends(q) /\ req[q].op = "delete_pipeline" /\ req[q].on = e
                        /\ req[q].seen # {} /\ req[q].seen \cap Ids(e) = {}

LostOnlyByRace == [][AdminsLost /\ \A e \in Event : PipelinesLost(e)]_vars

(* Rows that ought to be unique are looked for before they are inserted, in    *)
(* two steps.  However many requests come and go, a username, the promoted     *)
(* pipeline of an event and a setting have at most as many rows as requests    *)
(* are served at once; with one request at a time there is one.                *)
DuplicatesBounded ==
    LET bound == Cardinality(Req) IN
    /\ \A u \in User : Len(users[u]) <= bound
    /\ \A e \in Event : Cardinality({p \in pipelines[e] : p.default}) <= bound
    /\ \A s \in Setting : settings[s] <= bound

(* However logins, unlocks and edits of an account interleave, it is locked    *)
(* only if the configured number of wrong passwords was given for its name:    *)
(* a lost update of the counter (auth.py:106) may delay a lock, never hasten   *)
(* one.                                                                        *)
LockIsEarned ==
    \A u \in User : \A i \in DOMAIN users[u] : users[u][i].lock # "none" => wrong[u] >= MaxFailed
=============================================================================
