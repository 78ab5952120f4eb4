----------------------------- MODULE ConsoleProofs -----------------------------
(* What Console says of locks, of the last administrator and of the last       *)
(* pipeline, for any number of users, events and requests.                     *)
EXTENDS Console, SequenceTheorems, WellFoundedInduction, TLAPS

(***************************************************************************)
(* The invariant                                                            *)
(***************************************************************************)

(* A request is a record of these fields; before it writes it has looked.      *)
(* The login's part is the reason for LockIsEarned: what it has read of the    *)
(* counter is no more than the wrong passwords given by now.                   *)
Shaped(r) ==
    r = [op |-> r.op, on |-> r.on, arg |-> r.arg, by |-> r.by, no |-> r.no, pc |-> r.pc, seen |-> r.seen]

Fits(r, given) ==
    /\ Shaped(r)
    /\ r.no \in Nat
    /\ r.pc = "idle" \/ WellFormed(r)
    /\ r.op = "list_projects" /\ r.pc \in {"scan", "attach"} => r.seen \in [id : Nat, table : Nat]
    /\ r.op = "login" /\ r.pc = "write" => r.seen \in UserRow /\ r.seen.failed <= given[r.on]
    /\ r.op = "update_user" /\ r.pc = "write" => ~(r.on = r.by /\ r.arg # None /\ r.arg # "admin")
    /\ r.op = "delete_user" /\ r.pc = "write" => r.on # r.by
    /\ r.op = "delete_pipeline" /\ r.pc = "write" => r.seen # {} /\ r.arg \notin r.seen

RequestsOK ==
    /\ req = [q \in Req |-> req[q]]
    /\ \A q \in Req : Fits(req[q], wrong)

UsersOK == users \in [User -> Seq(UserRow)] /\ wrong \in [User -> Nat]

ProjectsOK == projects \in Seq(ProjectRow) /\ place \in [1 .. Tables -> Nat \cup {None}]

PipelinesOK == pipelines \in [Event -> SUBSET PipelineRow] /\ settings \in [Setting -> Nat]

PlanOK ==
    /\ plan = [offers |-> plan.offers, calls |-> plan.calls, restarts |-> plan.restarts]
    /\ \A call \in plan.offers : WellFormed(call)
    /\ plan.calls \in Nat /\ plan.restarts \in Nat

Earned(row, n) == row.failed <= n /\ (row.lock # "none" => MaxFailed <= n)
EarnedOK == \A u \in User : \A i \in DOMAIN users[u] : Earned(users[u][i], wrong[u])

Inv == RequestsOK /\ UsersOK /\ ProjectsOK /\ PipelinesOK /\ PlanOK /\ EarnedOK

(***************************************************************************)
(* Requests                                                                 *)
(***************************************************************************)

LEMMA IdleFits == ASSUME NEW given PROVE Fits(Idle, given)
BY ConsoleAssumption DEF Fits, Shaped, Idle

(* A request that changes while passwords are only counted up.                 *)
LEMMA RequestsKept ==
    ASSUME RequestsOK, UsersOK, wrong' \in [User -> Nat], \A u \in User : wrong[u] <= wrong'[u],
           NEW q \in Req, NEW row, Fits(row, wrong'),
           req' = [req EXCEPT ![q] = row]
    PROVE  RequestsOK'
<1>1. req' = [p \in Req |-> IF p = q THEN row ELSE req[p]]
  BY DEF RequestsOK
<1>2. req' = [p \in Req |-> req'[p]]
  BY <1>1
<1>3. ASSUME NEW p \in Req PROVE Fits(req'[p], wrong')
  <2>1. CASE p = q
    BY <1>1, <2>1
  <2>2. CASE p # q
    <3>1. req'[p] = req[p] /\ Fits(req[p], wrong)
      BY <1>1, <2>2 DEF RequestsOK
    <3>2. req[p].op = "login" /\ req[p].pc = "write" => req[p].seen.failed <= wrong'[req[p].on]
      <4>1. SUFFICES ASSUME req[p].op = "login", req[p].pc = "write"
                     PROVE  req[p].seen.failed <= wrong'[req[p].on]
        OBVIOUS
      <4>2. req[p].on \in User /\ req[p].seen.failed \in Nat /\ req[p].seen.failed <= wrong[req[p].on]
        BY <3>1, <4>1 DEF Fits, WellFormed, UserRow
      <4>3. wrong[req[p].on] \in Nat /\ wrong'[req[p].on] \in Nat /\ wrong[req[p].on] <= wrong'[req[p].on]
        BY <4>2 DEF UsersOK
      <4>4. QED
        BY <4>2, <4>3
    <3>3. QED
      BY <3>1, <3>2 DEF Fits
  <2>3. QED
    BY <2>1, <2>2
<1>4. QED
  BY <1>2, <1>3 DEF RequestsOK

LEMMA RequestsAsBefore ==
    ASSUME RequestsOK, UNCHANGED <<req, wrong>> PROVE RequestsOK'
BY DEF RequestsOK

LEMMA OverKeeps ==
    ASSUME RequestsOK, UsersOK, wrong' \in [User -> Nat], \A u \in User : wrong[u] <= wrong'[u],
           NEW q \in Req, req' = Over(q)
    PROVE  RequestsOK'
BY RequestsKept, IdleFits DEF Over

(* What Go and GoSeen do to a request.                                         *)
Moved(r, pc, seen) ==
    [op |-> r.op, on |-> r.on, arg |-> r.arg, by |-> r.by, no |-> r.no, pc |-> pc, seen |-> seen]

LEMMA GoIs ==
    ASSUME RequestsOK, NEW q \in Req, NEW pc
    PROVE  Go(q, pc) = [req EXCEPT ![q] = Moved(req[q], pc, req[q].seen)]
<1>1. Shaped(req[q])
  BY DEF RequestsOK, Fits
<1>2. [req[q] EXCEPT !.pc = pc] = Moved(req[q], pc, req[q].seen)
  BY <1>1 DEF Shaped, Moved
<1>3. QED
  BY <1>2 DEF Go

LEMMA SetSeen ==
    ASSUME NEW r, Shaped(r), NEW seen PROVE [r EXCEPT !.seen = seen] = Moved(r, r.pc, seen)
BY DEF Shaped, Moved

LEMMA GoSeenIs ==
    ASSUME RequestsOK, NEW q \in Req, NEW pc, NEW seen
    PROVE  GoSeen(q, pc, seen) = [req EXCEPT ![q] = Moved(req[q], pc, seen)]
<1>1. Shaped(req[q])
  BY DEF RequestsOK, Fits
<1>2. [req[q] EXCEPT !.pc = pc] = Moved(req[q], pc, req[q].seen)
  BY <1>1 DEF Shaped, Moved
<1> DEFINE m == Moved(req[q], pc, req[q].seen)
<1>3. Shaped(m) /\ Moved(m, m.pc, seen) = Moved(req[q], pc, seen)
  BY DEF Shaped, Moved
<1> HIDE DEF m
<1>4. [m EXCEPT !.seen = seen] = Moved(req[q], pc, seen)
  BY <1>3, SetSeen
<1>5. [[req[q] EXCEPT !.pc = pc] EXCEPT !.seen = seen] = Moved(req[q], pc, seen)
  BY <1>2, <1>4 DEF m
<1>6. QED
  BY <1>5 DEF GoSeen

(* A handler that goes on, for the operations whose writes need no more than   *)
(* that the request is well formed.                                            *)
LEMMA GoKeeps ==
    ASSUME RequestsOK, UsersOK, UNCHANGED wrong, NEW q \in Req, NEW pc, req[q].pc # "idle",
           NEW seen, Fits(Moved(req[q], pc, seen), wrong),
           req' = [req EXCEPT ![q] = Moved(req[q], pc, seen)]
    PROVE  RequestsOK'
<1>1. wrong' = wrong
  OBVIOUS
<1>2. \A u \in User : wrong[u] <= wrong'[u]
  BY <1>1 DEF UsersOK
<1>3. wrong' \in [User -> Nat]
  BY <1>1 DEF UsersOK
<1> DEFINE row == Moved(req[q], pc, seen)
<1>4. Fits(row, wrong')
  <2>1. \A given : given = wrong => Fits(row, given)
    OBVIOUS
  <2>2. QED
    BY <1>1, <2>1
<1>5. req' = [req EXCEPT ![q] = row]
  OBVIOUS
<1> HIDE DEF row
<1>6. QED
  BY <1>2, <1>3, <1>4, <1>5, RequestsKept

LEMMA DecideKeeps ==
    ASSUME RequestsOK, UsersOK, NEW q \in Req, req[q].pc # "idle", NEW passes \in BOOLEAN,
           passes => Fits(Moved(req[q], "write", req[q].seen), wrong),
           Decide(q, passes)
    PROVE  RequestsOK'
<1>1. UNCHANGED wrong /\ wrong' \in [User -> Nat] /\ \A u \in User : wrong[u] <= wrong'[u]
  BY DEF Decide, tables, UsersOK
<1>2. CASE passes
  <2>1. req' = [req EXCEPT ![q] = Moved(req[q], "write", req[q].seen)]
    BY <1>2, GoIs DEF Decide
  <2>2. QED
    BY <1>1, <1>2, <2>1, GoKeeps
<1>3. CASE ~passes
  BY <1>1, <1>3, OverKeeps DEF Decide
<1>4. QED
  BY <1>2, <1>3

(* A request that is not asked to keep anything may go to any place.           *)
Free(op) == op \notin {"list_projects", "login", "update_user", "delete_user", "delete_pipeline"}

LEMMA FreeFits ==
    ASSUME NEW r, NEW given, Fits(r, given), r.pc # "idle", NEW pc, NEW seen, Free(r.op)
    PROVE  Fits(Moved(r, pc, seen), given)
BY DEF Fits, Shaped, Moved, Free, WellFormed

(***************************************************************************)
(* Rows of users                                                            *)
(***************************************************************************)

LEMMA MapRows ==
    ASSUME NEW Row, NEW rows \in Seq(Row), NEW g, g = [i \in DOMAIN rows |-> g[i]],
           \A i \in DOMAIN rows : g[i] \in Row
    PROVE  g \in Seq(Row) /\ DOMAIN g = DOMAIN rows
<1>1. Len(rows) \in Nat /\ DOMAIN rows = 1 .. Len(rows)
  BY LenProperties
<1>2. g \in [1 .. Len(rows) -> Row]
  BY <1>1
<1>3. QED
  BY <1>1, <1>2, SeqDef

LEMMA UsersKept ==
    ASSUME UsersOK, EarnedOK, wrong' \in [User -> Nat], \A u \in User : wrong[u] <= wrong'[u],
           NEW u \in User, NEW rows \in Seq(UserRow),
           \A i \in DOMAIN rows : Earned(rows[i], wrong'[u]),
           users' = [users EXCEPT ![u] = rows]
    PROVE  UsersOK' /\ EarnedOK'
<1>1. UsersOK'
  BY DEF UsersOK
<1>2. ASSUME NEW v \in User, NEW i \in DOMAIN users'[v] PROVE Earned(users'[v][i], wrong'[v])
  <2>1. CASE v = u
    BY <1>2, <2>1 DEF UsersOK
  <2>2. CASE v # u
    <3>1. users'[v] = users[v] /\ i \in DOMAIN users[v]
      BY <1>2, <2>2 DEF UsersOK
    <3>2. users[v] \in Seq(UserRow) /\ users[v][i] \in UserRow
      BY <3>1, ElementOfSeq, LenProperties DEF UsersOK
    <3>3. Earned(users[v][i], wrong[v]) /\ wrong[v] \in Nat /\ wrong'[v] \in Nat /\ wrong[v] <= wrong'[v]
      BY <3>1 DEF EarnedOK, UsersOK
    <3>4. QED
      BY <3>1, <3>2, <3>3, ConsoleAssumption DEF Earned, UserRow
  <2>3. QED
    BY <2>1, <2>2
<1>3. QED
  BY <1>1, <1>2 DEF EarnedOK

LEMMA UsersAsBefore ==
    ASSUME UsersOK, EarnedOK, UNCHANGED <<users, wrong>> PROVE UsersOK' /\ EarnedOK'
BY DEF UsersOK, EarnedOK

(* Every row of a user has its type and has earned its lock.                   *)
LEMMA RowIs ==
    ASSUME UsersOK, EarnedOK, NEW u \in User, NEW i \in DOMAIN users[u]
    PROVE  users[u][i] \in UserRow /\ Earned(users[u][i], wrong[u]) /\ wrong[u] \in Nat
<1>1. users[u] \in Seq(UserRow)
  BY DEF UsersOK
<1>2. QED
  BY <1>1, ElementOfSeq, LenProperties DEF UsersOK, EarnedOK

LEMMA ClearedKeeps ==
    ASSUME UsersOK, EarnedOK, UNCHANGED wrong, NEW u \in User, users' = Cleared(u)
    PROVE  UsersOK' /\ EarnedOK'
<1> DEFINE rows == [i \in DOMAIN users[u] |-> Counted(users[u][i], 0, "none")]
<1>1. users[u] \in Seq(UserRow) /\ wrong[u] \in Nat
  BY DEF UsersOK
<1>2. \A i \in DOMAIN users[u] : Counted(users[u][i], 0, "none") \in UserRow
                                 /\ Earned(Counted(users[u][i], 0, "none"), wrong[u])
  BY <1>1, RowIs DEF Counted, UserRow, Earned
<1>3. rows \in Seq(UserRow) /\ DOMAIN rows = DOMAIN users[u]
  BY <1>1, <1>2, MapRows
<1>4. users' = [users EXCEPT ![u] = rows]
  BY DEF Cleared
<1>5. wrong' \in [User -> Nat] /\ \A v \in User : wrong[v] <= wrong'[v]
  BY DEF UsersOK
<1>6. \A i \in DOMAIN rows : Earned(rows[i], wrong'[u])
  BY <1>2, <1>3
<1> HIDE DEF rows
<1>7. QED
  BY <1>3, <1>4, <1>5, <1>6, UsersKept

(***************************************************************************)
(* The steps                                                                *)
(***************************************************************************)

(* The tables a step leaves alone.                                             *)
LEMMA ProjectsAsBefore == ASSUME ProjectsOK, UNCHANGED <<projects, place>> PROVE ProjectsOK'
BY DEF ProjectsOK

LEMMA PipelinesAsBefore == ASSUME PipelinesOK, UNCHANGED <<pipelines, settings>> PROVE PipelinesOK'
BY DEF PipelinesOK

LEMMA PlanAsBefore == ASSUME PlanOK, UNCHANGED plan PROVE PlanOK'
BY DEF PlanOK

(* A step of a request that changes no table.                                  *)
LEMMA LookKeeps ==
    ASSUME Inv, UNCHANGED <<tables, plan>>, RequestsOK' PROVE Inv'
BY UsersAsBefore, ProjectsAsBefore, PipelinesAsBefore, PlanAsBefore DEF Inv, tables

LEMMA OverStays ==
    ASSUME Inv, UNCHANGED wrong, NEW q \in Req, req' = Over(q) PROVE RequestsOK'
<1>1. wrong' \in [User -> Nat] /\ \A u \in User : wrong[u] <= wrong'[u]
  BY DEF Inv, UsersOK
<1>2. QED
  BY <1>1, OverKeeps DEF Inv

LEMMA GoStays ==
    ASSUME Inv, UNCHANGED wrong, NEW q \in Req, NEW pc, req[q].pc # "idle",
           Fits(Moved(req[q], pc, req[q].seen), wrong), req' = Go(q, pc)
    PROVE  RequestsOK'
<1>1. req' = [req EXCEPT ![q] = Moved(req[q], pc, req[q].seen)]
  BY GoIs DEF Inv
<1>2. QED
  BY <1>1, GoKeeps DEF Inv

LEMMA GoSeenStays ==
    ASSUME Inv, UNCHANGED wrong, NEW q \in Req, NEW pc, NEW seen, req[q].pc # "idle",
           Fits(Moved(req[q], pc, seen), wrong), req' = GoSeen(q, pc, seen)
    PROVE  RequestsOK'
<1>1. req' = [req EXCEPT ![q] = Moved(req[q], pc, seen)]
  BY GoSeenIs DEF Inv
<1>2. QED
  BY <1>1, GoKeeps DEF Inv

LEMMA DecideStays ==
    ASSUME Inv, NEW q \in Req, req[q].pc # "idle", NEW passes \in BOOLEAN,
           passes => Fits(Moved(req[q], "write", req[q].seen), wrong), Decide(q, passes)
    PROVE  Inv'
<1>1. RequestsOK'
  BY DecideKeeps DEF Inv
<1>2. QED
  BY <1>1, LookKeeps DEF Decide

LEMMA FitsNow == ASSUME Inv, NEW q \in Req PROVE Fits(req[q], wrong)
BY DEF Inv, RequestsOK

LEMMA ArriveKeeps == ASSUME Inv, NEW q \in Req, Arrive(q) PROVE Inv'
<1>1. PICK call \in plan.offers, by \in User \cup {None} :
        req' = [req EXCEPT ![q] = [op |-> call.op, on |-> call.on, arg |-> call.arg, by |-> by,
                                   no |-> plan.calls, pc |-> "look", seen |-> None]]
  BY DEF Arrive
<1> DEFINE row == [op |-> call.op, on |-> call.on, arg |-> call.arg, by |-> by,
                   no |-> plan.calls, pc |-> "look", seen |-> None]
<1>2. WellFormed(call) /\ plan.calls \in Nat /\ plan.calls > 0
  BY DEF Inv, PlanOK, Arrive
<1>3. Fits(row, wrong)
  <2>1. Shaped(row)
    BY DEF Shaped
  <2>2. WellFormed(row)
    BY <1>2 DEF WellFormed
  <2>3. row.pc = "look" /\ row.no = plan.calls
    OBVIOUS
  <2>4. QED
    BY <1>2, <2>1, <2>2, <2>3 DEF Fits
<1>4. UNCHANGED tables /\ wrong' = wrong
  BY DEF Arrive, tables
<1>5. wrong' \in [User -> Nat] /\ \A u \in User : wrong[u] <= wrong'[u]
  BY <1>4 DEF Inv, UsersOK
<1>6. Fits(row, wrong')
  <2>1. \A given : given = wrong => Fits(row, given)
    BY <1>3
  <2>2. QED
    BY <1>4, <2>1
<1>7. req' = [req EXCEPT ![q] = row]
  BY <1>1
<1> HIDE DEF row
<1>8. RequestsOK'
  BY <1>5, <1>6, <1>7, RequestsKept DEF Inv
<1>9. PlanOK'
  <2>1. plan' = [plan EXCEPT !.calls = @ - 1]
    BY DEF Arrive
  <2>2. plan = [offers |-> plan.offers, calls |-> plan.calls, restarts |-> plan.restarts]
    BY DEF Inv, PlanOK
  <2>3. plan' = [offers |-> plan.offers, calls |-> plan.calls - 1, restarts |-> plan.restarts]
    BY <2>1, <2>2
  <2>4. QED
    BY <1>2, <2>3 DEF Inv, PlanOK
<1>10. QED
  BY <1>4, <1>8, <1>9, UsersAsBefore, ProjectsAsBefore, PipelinesAsBefore DEF Inv, tables

LEMMA SignOnKeeps == ASSUME Inv, NEW q \in Req, SignOn(q) PROVE Inv'
<1>1. req[q].op = "sso" /\ req[q].pc = "look" /\ UNCHANGED <<tables, plan>>
  BY DEF SignOn, At
<1>2. Fits(Moved(req[q], "vouched", req[q].seen), wrong)
  BY <1>1, FitsNow, FreeFits DEF Free
<1>3. UNCHANGED wrong
  BY <1>1 DEF tables
<1>4. RequestsOK'
  BY <1>1, <1>2, <1>3, OverStays, GoStays DEF SignOn
<1>5. QED
  BY <1>1, <1>4, LookKeeps

LEMMA FindUserKeeps == ASSUME Inv, NEW q \in Req, FindUser(q) PROVE Inv'
<1>1. req[q].op \in {"create_user", "sso"} /\ req[q].pc # "idle" /\ Decide(q, ~Exists(req[q].on))
  BY DEF FindUser, At
<1>2. Fits(Moved(req[q], "write", req[q].seen), wrong)
  BY <1>1, FitsNow, FreeFits DEF Free
<1>3. (~Exists(req[q].on)) \in BOOLEAN
  BY DEF Exists
<1>4. QED
  BY <1>1, <1>2, <1>3, DecideStays

(* A step that ends a request and writes to users.                             *)
LEMMA UsersWritten ==
    ASSUME Inv, NEW q \in Req, req' = Over(q), OnlyUsers, UsersOK' /\ EarnedOK'
    PROVE  Inv'
<1>1. RequestsOK'
  BY OverStays DEF OnlyUsers
<1>2. QED
  BY <1>1, ProjectsAsBefore, PipelinesAsBefore, PlanAsBefore DEF Inv, OnlyUsers

LEMMA WrongKept ==
    ASSUME Inv, UNCHANGED wrong
    PROVE  /\ wrong' \in [User -> Nat]
           /\ \A u \in User : wrong[u] <= wrong'[u] /\ wrong'[u] = wrong[u] /\ wrong[u] \in Nat
BY DEF Inv, UsersOK

LEMMA InsertUserKeeps == ASSUME Inv, NEW q \in Req, InsertUser(q) PROVE Inv'
<1> DEFINE r == req[q]
           row == IF r.op = "sso" THEN NewUser(SSORole, TRUE) ELSE NewUser(r.arg, FALSE)
           u == r.on
<1>1. /\ r.op \in {"create_user", "sso"} /\ r.pc = "write"
      /\ users' = [users EXCEPT ![u] = Append(@, row)]
      /\ req' = Over(q) /\ OnlyUsers
  BY DEF InsertUser, At
<1>2. u \in User /\ (r.op = "create_user" => r.arg \in Role)
  BY <1>1, FitsNow DEF Fits, WellFormed
<1>3. row \in UserRow /\ row.failed = 0 /\ row.lock = "none"
  BY <1>1, <1>2, ConsoleAssumption DEF NewUser, UserRow
<1>4. users[u] \in Seq(UserRow)
  BY <1>2 DEF Inv, UsersOK
<1> DEFINE rows == Append(users[u], row)
<1>5. users' = [users EXCEPT ![u] = rows]
  BY <1>1
<1> HIDE DEF row, u
<1>6. rows \in Seq(UserRow) /\ Len(rows) = Len(users[u]) + 1
      /\ \A i \in 1 .. Len(rows) : rows[i] = IF i <= Len(users[u]) THEN users[u][i] ELSE row
  <2>1. \A i \in 1 .. Len(users[u]) : rows[i] = users[u][i]
    BY <1>3, <1>4, AppendProperties
  <2>2. rows[Len(users[u]) + 1] = row /\ rows \in Seq(UserRow) /\ Len(rows) = Len(users[u]) + 1
    BY <1>3, <1>4, AppendProperties
  <2>3. Len(users[u]) \in Nat
    BY <1>4, LenProperties
  <2> HIDE DEF rows
  <2>4. QED
    BY <2>1, <2>2, <2>3
<1> HIDE DEF rows
<1>7. UNCHANGED wrong
  BY <1>1 DEF OnlyUsers
<1>8. \A i \in DOMAIN rows : Earned(rows[i], wrong'[u])
  <2>1. SUFFICES ASSUME NEW i \in DOMAIN rows PROVE Earned(rows[i], wrong'[u])
    OBVIOUS
  <2>2. i \in 1 .. Len(rows) /\ Len(users[u]) \in Nat /\ DOMAIN users[u] = 1 .. Len(users[u])
    BY <1>4, <1>6, LenProperties
  <2>3. CASE i <= Len(users[u])
    BY <1>2, <1>6, <1>7, <2>2, <2>3, WrongKept, RowIs DEF Inv
  <2>4. CASE ~(i <= Len(users[u]))
    <3>1. rows[i] = row /\ wrong'[u] \in Nat
      BY <1>2, <1>6, <1>7, <2>2, <2>4, WrongKept
    <3>2. QED
      BY <1>3, <3>1 DEF Earned
  <2>5. QED
    BY <2>3, <2>4
<1>9. UsersOK' /\ EarnedOK'
  BY <1>2, <1>5, <1>6, <1>7, <1>8, WrongKept, UsersKept DEF Inv
<1>10. QED
  BY <1>1, <1>9, UsersWritten

LEMMA UpdateUserKeeps == ASSUME Inv, NEW q \in Req, UpdateUser(q) PROVE Inv'
<1> DEFINE r == req[q]
<1>1. CASE At(q, "update_user", "look") /\ Decide(q, MayUpdate(req[q]))
  <2>1. r.op = "update_user" /\ r.pc = "look" /\ Fits(r, wrong)
    BY <1>1, FitsNow DEF At
  <2>2. MayUpdate(r) => Fits(Moved(r, "write", r.seen), wrong)
    BY <2>1 DEF MayUpdate, Fits, Moved, Shaped, WellFormed
  <2>3. MayUpdate(r) \in BOOLEAN
    BY DEF MayUpdate
  <2>4. QED
    BY <1>1, <2>1, <2>2, <2>3, DecideStays
<1>2. CASE /\ At(q, "update_user", "write")
           /\ users' = IF req[q].arg = None THEN users
                       ELSE [users EXCEPT ![req[q].on] =
                                [i \in DOMAIN @ |-> [@[i] EXCEPT !.role = req[q].arg]]]
           /\ req' = Over(q) /\ OnlyUsers
  <2>1. r.on \in User /\ (r.arg # None => r.arg \in Role) /\ UNCHANGED wrong
    BY <1>2, FitsNow DEF At, Fits, WellFormed, OnlyUsers
  <2>2. CASE r.arg = None
    <3>1. UsersOK' /\ EarnedOK'
      BY <1>2, <2>1, <2>2, UsersAsBefore DEF Inv
    <3>2. QED
      BY <1>2, <3>1, UsersWritten
  <2>3. CASE r.arg # None
    <3> DEFINE u == r.on
               rows == [i \in DOMAIN users[u] |-> [users[u][i] EXCEPT !.role = r.arg]]
    <3>1. users[u] \in Seq(UserRow)
      BY <2>1 DEF Inv, UsersOK
    <3>2. \A i \in DOMAIN users[u] : /\ [users[u][i] EXCEPT !.role = r.arg] \in UserRow
                                     /\ Earned([users[u][i] EXCEPT !.role = r.arg], wrong[u])
      <4>1. SUFFICES ASSUME NEW i \in DOMAIN users[u]
                     PROVE  /\ [users[u][i] EXCEPT !.role = r.arg] \in UserRow
                            /\ Earned([users[u][i] EXCEPT !.role = r.arg], wrong[u])
        OBVIOUS
      <4>2. users[u][i] \in UserRow /\ Earned(users[u][i], wrong[u])
        BY <2>1, RowIs DEF Inv
      <4>3. QED
        BY <2>1, <2>3, <4>2 DEF UserRow, Earned
    <3>3. rows \in Seq(UserRow) /\ DOMAIN rows = DOMAIN users[u]
      <4>1. rows = [i \in DOMAIN users[u] |-> rows[i]]
        OBVIOUS
      <4>2. \A i \in DOMAIN users[u] : rows[i] \in UserRow
        BY <3>2
      <4> HIDE DEF rows
      <4>3. QED
        BY <3>1, <4>1, <4>2, MapRows
    <3>4. users' = [users EXCEPT ![u] = rows]
      BY <1>2, <2>3
    <3>5. \A i \in DOMAIN rows : Earned(rows[i], wrong'[u])
      BY <2>1, <3>2, <3>3, WrongKept
    <3> HIDE DEF rows
    <3>6. UsersOK' /\ EarnedOK'
      BY <2>1, <3>3, <3>4, <3>5, WrongKept, UsersKept DEF Inv
    <3>7. QED
      BY <1>2, <3>6, UsersWritten
  <2>4. QED
    BY <2>2, <2>3
<1>3. QED
  BY <1>1, <1>2 DEF UpdateUser

LEMMA DeleteUserKeeps == ASSUME Inv, NEW q \in Req, DeleteUser(q) PROVE Inv'
<1> DEFINE r == req[q]
<1>1. CASE At(q, "delete_user", "look") /\ Decide(q, req[q].on # req[q].by /\ Exists(req[q].on))
  <2>1. r.op = "delete_user" /\ r.pc = "look" /\ Fits(r, wrong)
    BY <1>1, FitsNow DEF At
  <2>2. r.on # r.by /\ Exists(r.on) => Fits(Moved(r, "write", r.seen), wrong)
    BY <2>1 DEF Fits, Moved, Shaped, WellFormed
  <2>3. (r.on # r.by /\ Exists(r.on)) \in BOOLEAN
    OBVIOUS
  <2>4. QED
    BY <1>1, <2>1, <2>2, <2>3, DecideStays
<1>2. CASE /\ At(q, "delete_user", "write")
           /\ users' = [users EXCEPT ![req[q].on] = <<>>]
           /\ req' = Over(q) /\ OnlyUsers
  <2>1. r.on \in User /\ UNCHANGED wrong
    BY <1>2, FitsNow DEF At, Fits, WellFormed, OnlyUsers
  <2>2. <<>> \in Seq(UserRow) /\ \A i \in DOMAIN <<>> : Earned(<<>>[i], wrong'[r.on])
    OBVIOUS
  <2>3. UsersOK' /\ EarnedOK'
    BY <1>2, <2>1, <2>2, WrongKept, UsersKept DEF Inv
  <2>4. QED
    BY <1>2, <2>3, UsersWritten
<1>3. QED
  BY <1>1, <1>2 DEF DeleteUser

LEMMA UnlockKeeps == ASSUME Inv, NEW q \in Req, Unlock(q) PROVE Inv'
<1> DEFINE r == req[q]
<1>1. CASE At(q, "unlock", "look") /\ Decide(q, Exists(req[q].on))
  <2>1. Fits(Moved(r, "write", r.seen), wrong) /\ r.pc # "idle"
    BY <1>1, FitsNow, FreeFits DEF At, Free
  <2>2. Exists(r.on) \in BOOLEAN
    BY DEF Exists
  <2>3. QED
    BY <1>1, <2>1, <2>2, DecideStays
<1>2. CASE At(q, "unlock", "write") /\ users' = Cleared(req[q].on) /\ req' = Over(q) /\ OnlyUsers
  <2>1. r.on \in User /\ UNCHANGED wrong
    BY <1>2, FitsNow DEF At, Fits, WellFormed, OnlyUsers
  <2>2. UsersOK' /\ EarnedOK'
    BY <1>2, <2>1, ClearedKeeps DEF Inv
  <2>3. QED
    BY <1>2, <2>2, UsersWritten
<1>3. QED
  BY <1>1, <1>2 DEF Unlock

LEMMA LoginLookKeeps == ASSUME Inv, NEW q \in Req, LoginLook(q) PROVE Inv'
<1> DEFINE r == req[q]
           rows == users[r.on]
<1>1. r.op = "login" /\ r.pc = "look" /\ UNCHANGED <<tables, plan>> /\ UNCHANGED wrong
  BY DEF LoginLook, At, tables
<1>2. Fits(r, wrong) /\ r.on \in User
  BY <1>1, FitsNow DEF Fits, WellFormed
<1>3. CASE rows = <<>> \/ (rows # <<>> /\ (Head(rows).lock = "on" \/ Head(rows).sso))
  <2>1. req' = Over(q)
    BY <1>3 DEF LoginLook
  <2>2. QED
    BY <1>1, <2>1, OverStays, LookKeeps
<1>4. CASE ~(rows = <<>> \/ (rows # <<>> /\ (Head(rows).lock = "on" \/ Head(rows).sso)))
  <2>1. req' = GoSeen(q, "write", Head(rows))
    BY <1>4 DEF LoginLook
  <2>2. rows \in Seq(UserRow) /\ rows # <<>>
    BY <1>2, <1>4 DEF Inv, UsersOK
  <2>3. 1 \in DOMAIN rows /\ Head(rows) = rows[1]
    BY <2>2
  <2>4. Head(rows) \in UserRow /\ Head(rows).failed <= wrong[r.on]
    BY <1>2, <2>3, RowIs DEF Inv, Earned
  <2> HIDE DEF rows
  <2>5. Fits(Moved(r, "write", Head(rows)), wrong)
    BY <1>1, <1>2, <2>4 DEF Fits, Moved, Shaped, WellFormed
  <2>6. QED
    BY <1>1, <2>1, <2>5, GoSeenStays, LookKeeps
<1>5. QED
  BY <1>3, <1>4

(* A login that ends, with one more wrong password or as many as before.       *)
LEMMA LoginEnds ==
    ASSUME Inv, NEW q \in Req, LoginWrite(q), UsersOK' /\ EarnedOK',
           \A u \in User : wrong[u] <= wrong'[u]
    PROVE  Inv'
<1>1. req' = Over(q) /\ UNCHANGED <<projects, place, pipelines, settings, plan>>
  BY DEF LoginWrite
<1>2. RequestsOK'
  BY <1>1, OverKeeps DEF Inv, UsersOK
<1>3. QED
  BY <1>1, <1>2, ProjectsAsBefore, PipelinesAsBefore, PlanAsBefore DEF Inv

(* The counter that was read was earned by then, and is set to one more.       *)
LEMMA FailedRow ==
    ASSUME NEW row \in UserRow, NEW seen \in UserRow, NEW n \in Nat, Earned(row, n), seen.failed <= n,
           NEW lock, lock = IF seen.failed + 1 >= MaxFailed THEN "on" ELSE row.lock
    PROVE  /\ Counted(row, seen.failed + 1, lock) \in UserRow
           /\ Earned(Counted(row, seen.failed + 1, lock), n + 1)
<1>1. seen.failed \in Nat /\ MaxFailed \in Nat /\ lock \in {"none", "on", "past"}
  BY ConsoleAssumption DEF UserRow
<1>2. row.role \in Role /\ row.sso \in BOOLEAN
  BY DEF UserRow
<1>3. lock # "none" => MaxFailed <= n + 1
  BY <1>1 DEF Earned
<1>4. Counted(row, seen.failed + 1, lock) \in UserRow
  BY <1>1, <1>2 DEF Counted, UserRow
<1>5. QED
  BY <1>1, <1>3, <1>4 DEF Counted, Earned

LEMMA LoginWriteKeeps == ASSUME Inv, NEW q \in Req, LoginWrite(q) PROVE Inv'
<1> DEFINE u == req[q].on
           seen == req[q].seen
<1>1. /\ u \in User /\ seen \in UserRow /\ seen.failed <= wrong[u]
      /\ users[u] \in Seq(UserRow) /\ wrong[u] \in Nat
  BY FitsNow DEF LoginWrite, At, Fits, WellFormed, Inv, UsersOK
<1>2. CASE users' = Failed(u, seen) /\ wrong' = [wrong EXCEPT ![u] = @ + 1]
  <2> DEFINE lock(i) == IF seen.failed + 1 >= MaxFailed THEN "on" ELSE users[u][i].lock
             rows == [i \in DOMAIN users[u] |-> Counted(users[u][i], seen.failed + 1, lock(i))]
  <2>1. wrong' \in [User -> Nat] /\ wrong'[u] = wrong[u] + 1 /\ \A v \in User : wrong[v] <= wrong'[v]
    BY <1>1, <1>2 DEF Inv, UsersOK
  <2>2. ASSUME NEW i \in DOMAIN users[u]
        PROVE  /\ Counted(users[u][i], seen.failed + 1, lock(i)) \in UserRow
               /\ Earned(Counted(users[u][i], seen.failed + 1, lock(i)), wrong[u] + 1)
    <3>1. users[u][i] \in UserRow /\ Earned(users[u][i], wrong[u])
      BY <1>1, RowIs DEF Inv
    <3> HIDE DEF u, seen
    <3>2. QED
      BY <1>1, <3>1, FailedRow
  <2>3. rows \in Seq(UserRow) /\ DOMAIN rows = DOMAIN users[u]
    <3>1. rows = [i \in DOMAIN users[u] |-> rows[i]]
      OBVIOUS
    <3>2. \A i \in DOMAIN users[u] : rows[i] \in UserRow
      BY <2>2
    <3> HIDE DEF rows
    <3>3. QED
      BY <1>1, <3>1, <3>2, MapRows
  <2>4. \A i \in DOMAIN rows : Earned(rows[i], wrong'[u])
    BY <2>1, <2>2, <2>3
  <2>5. users' = [users EXCEPT ![u] = rows]
    BY <1>2 DEF Failed
  <2> HIDE DEF rows, u
  <2>6. UsersOK' /\ EarnedOK'
    BY <1>1, <2>1, <2>3, <2>4, <2>5, UsersKept DEF Inv
  <2>7. QED
    BY <2>1, <2>6, LoginEnds
<1>3. CASE /\ users' = IF seen.failed > 0 \/ seen.lock # "none" THEN Cleared(u) ELSE users
           /\ wrong' = wrong
  <2>1. UsersOK' /\ EarnedOK'
    BY <1>1, <1>3, ClearedKeeps, UsersAsBefore DEF Inv
  <2>2. \A v \in User : wrong[v] <= wrong'[v]
    BY <1>3, WrongKept
  <2>3. QED
    BY <2>1, <2>2, LoginEnds
<1>4. QED
  BY <1>2, <1>3 DEF LoginWrite

LEMMA ExpireKeeps == ASSUME Inv, NEW u \in User, Expire(u) PROVE Inv'
<1> DEFINE lock(i) == IF users[u][i].lock = "on" THEN "past" ELSE users[u][i].lock
           rows == [i \in DOMAIN users[u] |-> Counted(users[u][i], users[u][i].failed, lock(i))]
<1>1. users' = [users EXCEPT ![u] = rows] /\ UNCHANGED req /\ OnlyUsers /\ UNCHANGED wrong
  BY DEF Expire, OnlyUsers
<1>2. users[u] \in Seq(UserRow)
  BY DEF Inv, UsersOK
<1>3. ASSUME NEW i \in DOMAIN users[u]
      PROVE  /\ Counted(users[u][i], users[u][i].failed, lock(i)) \in UserRow
             /\ Earned(Counted(users[u][i], users[u][i].failed, lock(i)), wrong[u])
  <2>1. users[u][i] \in UserRow /\ Earned(users[u][i], wrong[u])
    BY RowIs DEF Inv
  <2>2. lock(i) \in {"none", "on", "past"} /\ (lock(i) # "none" => users[u][i].lock # "none")
    BY <2>1 DEF UserRow
  <2> HIDE DEF lock
  <2>3. QED
    BY <2>1, <2>2 DEF Counted, UserRow, Earned
<1>4. rows \in Seq(UserRow) /\ DOMAIN rows = DOMAIN users[u]
  <2>1. rows = [i \in DOMAIN users[u] |-> rows[i]]
    OBVIOUS
  <2>2. \A i \in DOMAIN users[u] : rows[i] \in UserRow
    BY <1>3
  <2> HIDE DEF rows
  <2>3. QED
    BY <1>2, <2>1, <2>2, MapRows
<1>5. \A i \in DOMAIN rows : Earned(rows[i], wrong'[u])
  BY <1>1, <1>3, <1>4
<1> HIDE DEF rows
<1>6. UsersOK' /\ EarnedOK'
  BY <1>1, <1>4, <1>5, WrongKept, UsersKept DEF Inv
<1>7. RequestsOK'
  BY <1>1, RequestsAsBefore DEF Inv
<1>8. QED
  BY <1>1, <1>6, <1>7, ProjectsAsBefore, PipelinesAsBefore, PlanAsBefore DEF Inv, OnlyUsers

(***************************************************************************)
(* Projects                                                                 *)
(***************************************************************************)

LEMMA FirstIs == ASSUME NEW S \in SUBSET Nat, S # {} PROVE First(S) \in S
<1>1. IsWellFoundedOn(OpToRel(<, Nat), Nat)
  BY NatLessThanWellFounded
<1>2. PICK least \in S : \A k \in S : ~(<<k, least>> \in OpToRel(<, Nat))
  BY <1>1, WFMin
<1>3. \A k \in S : k < least => <<k, least>> \in OpToRel(<, Nat)
  BY DEF OpToRel
<1>4. \A k \in S : ~(k < least)
  BY <1>2, <1>3, Zenon
<1>5. \A k \in S : least <= k
  BY <1>4
<1>6. QED
  BY <1>5 DEF First

LEMMA ProjectIs ==
    ASSUME projects \in Seq(ProjectRow)
    PROVE  /\ Len(projects) \in Nat /\ DOMAIN projects = 1 .. Len(projects)
           /\ \A i \in DOMAIN projects : projects[i] \in ProjectRow /\ projects[i].id \in Nat
<1>1. Len(projects) \in Nat /\ DOMAIN projects = 1 .. Len(projects)
  BY LenProperties
<1>2. \A i \in DOMAIN projects : projects[i] \in ProjectRow
  BY <1>1, ElementOfSeq
<1>3. QED
  BY <1>1, <1>2 DEF ProjectRow

LEMMA ChosenIs == ASSUME projects \in Seq(ProjectRow), projects # <<>> PROVE Chosen \in Nat
<1>1. DOMAIN projects # {} /\ DOMAIN projects \in SUBSET Nat /\ Defaults \subseteq DOMAIN projects
  BY ProjectIs, EmptySeq DEF Defaults
<1> DEFINE S == IF Defaults # {} THEN Defaults ELSE DOMAIN projects
<1>2. S \in SUBSET Nat /\ S # {} /\ S \subseteq DOMAIN projects
  BY <1>1
<1>3. First(S) \in DOMAIN projects
  BY <1>2, FirstIs
<1>4. QED
  BY <1>3, ProjectIs DEF Chosen

(* A step of a request that writes to projects.                                *)
LEMMA ProjectsWritten ==
    ASSUME Inv, OnlyProjects, projects' \in Seq(ProjectRow), RequestsOK' PROVE Inv'
<1>1. ProjectsOK'
  BY DEF Inv, ProjectsOK, OnlyProjects
<1>2. QED
  BY <1>1, UsersAsBefore, PipelinesAsBefore, PlanAsBefore DEF Inv, OnlyProjects

LEMMA PlaceWritten ==
    ASSUME Inv, UNCHANGED <<users, wrong, projects, pipelines, settings, plan>>, RequestsOK',
           NEW t, NEW id \in Nat, place' = [place EXCEPT ![t] = id]
    PROVE  Inv'
<1>1. ProjectsOK'
  BY DEF Inv, ProjectsOK
<1>2. QED
  BY <1>1, UsersAsBefore, PipelinesAsBefore, PlanAsBefore DEF Inv

LEMMA EnsureProjectKeeps == ASSUME Inv, NEW q \in Req, EnsureProject(q) PROVE Inv'
<1> DEFINE r == req[q]
<1>1. r.op = "list_projects" /\ r.pc # "idle" /\ Fits(r, wrong) /\ r.no \in Nat
  BY FitsNow DEF EnsureProject, At, Fits
<1>2. ASSUME NEW id \in Nat PROVE Fits(Moved(r, "scan", [id |-> id, table |-> 1]), wrong)
  <2> DEFINE seen == [id |-> id, table |-> 1]
  <2>1. seen \in [id : Nat, table : Nat]
    OBVIOUS
  <2> HIDE DEF seen
  <2>2. QED
    BY <1>1, <2>1 DEF Fits, Moved, Shaped, WellFormed, seen
<1>3. CASE At(q, "list_projects", "look")
  <2>1. UNCHANGED <<tables, plan>> /\ UNCHANGED wrong
        /\ req' = IF projects = <<>> THEN Go(q, "write")
                  ELSE GoSeen(q, "scan", [id |-> Chosen, table |-> 1])
    BY <1>3 DEF EnsureProject, At, tables
  <2>2. CASE projects = <<>>
    <3>1. Fits(Moved(r, "write", r.seen), wrong)
      BY <1>1 DEF Fits, Moved, Shaped, WellFormed
    <3>2. QED
      BY <1>1, <2>1, <2>2, <3>1, GoStays, LookKeeps
  <2>3. CASE projects # <<>>
    <3>1. Chosen \in Nat
      BY <2>3, ChosenIs DEF Inv, ProjectsOK
    <3>2. QED
      BY <1>1, <1>2, <2>1, <2>3, <3>1, GoSeenStays, LookKeeps
  <2>4. QED
    BY <2>2, <2>3
<1>4. CASE At(q, "list_projects", "write")
  <2>1. /\ projects' = Append(projects, [id |-> r.no, default |-> TRUE])
        /\ req' = GoSeen(q, "scan", [id |-> r.no, table |-> 1])
        /\ OnlyProjects /\ UNCHANGED wrong
    BY <1>4 DEF EnsureProject, At, OnlyProjects
  <2>2. [id |-> r.no, default |-> TRUE] \in ProjectRow
    BY <1>1 DEF ProjectRow
  <2>3. projects' \in Seq(ProjectRow)
    BY <2>1, <2>2, AppendProperties DEF Inv, ProjectsOK
  <2>4. QED
    BY <1>1, <1>2, <2>1, <2>3, GoSeenStays, ProjectsWritten
<1>5. QED
  BY <1>3, <1>4 DEF EnsureProject

LEMMA AttachKeeps == ASSUME Inv, NEW q \in Req, Attach(q) PROVE Inv'
<1> DEFINE r == req[q]
           seen == r.seen
           next == [seen EXCEPT !.table = @ + 1]
<1>1. /\ r.op = "list_projects" /\ r.pc \in {"scan", "attach"} /\ r.pc # "idle"
      /\ Fits(r, wrong) /\ seen \in [id : Nat, table : Nat]
  BY FitsNow DEF Attach, At, Fits
<1>2. next \in [id : Nat, table : Nat] /\ seen.id \in Nat /\ UNCHANGED wrong
  BY <1>1 DEF Attach, tables
<1> HIDE DEF next
<1>3. Fits(Moved(r, "scan", next), wrong) /\ Fits(Moved(r, "attach", seen), wrong)
  BY <1>1, <1>2 DEF Fits, Moved, Shaped, WellFormed
<1>4. CASE At(q, "list_projects", "scan")
  <2>1. UNCHANGED <<tables, plan>>
        /\ (req' = Over(q) \/ req' = Go(q, "attach") \/ req' = GoSeen(q, "scan", next))
    BY <1>4 DEF Attach, At, next
  <2>2. RequestsOK'
    BY <1>1, <1>2, <1>3, <2>1, OverStays, GoStays, GoSeenStays
  <2>3. QED
    BY <2>1, <2>2, LookKeeps
<1>5. CASE At(q, "list_projects", "attach")
  <2>1. /\ place' = [place EXCEPT ![seen.table] = seen.id]
        /\ req' = GoSeen(q, "scan", next)
        /\ UNCHANGED <<users, wrong, projects, pipelines, settings, plan>>
    BY <1>5 DEF Attach, At, next
  <2>2. RequestsOK'
    BY <1>1, <1>2, <1>3, <2>1, GoSeenStays
  <2>3. QED
    BY <1>2, <2>1, <2>2, PlaceWritten
<1>6. QED
  BY <1>4, <1>5 DEF Attach

LEMMA CreateProjectKeeps == ASSUME Inv, NEW q \in Req, CreateProject(q) PROVE Inv'
<1> DEFINE row == [id |-> req[q].no, default |-> req[q].arg]
<1>1. row \in ProjectRow
  BY FitsNow DEF CreateProject, At, Fits, WellFormed, ProjectRow
<1>2. projects' = Append(projects, row) /\ req' = Over(q) /\ OnlyProjects /\ UNCHANGED wrong
  BY DEF CreateProject, OnlyProjects
<1> HIDE DEF row
<1>3. projects' \in Seq(ProjectRow)
  BY <1>1, <1>2, AppendProperties DEF Inv, ProjectsOK
<1>4. QED
  BY <1>2, <1>3, OverStays, ProjectsWritten

LEMMA UpdateProjectKeeps == ASSUME Inv, NEW q \in Req, UpdateProject(q) PROVE Inv'
<1> DEFINE r == req[q]
<1>1. r.op = "update_project" /\ r.pc # "idle" /\ Fits(r, wrong) /\ r.arg \in BOOLEAN
  BY FitsNow DEF UpdateProject, At, Fits, WellFormed
<1>2. CASE At(q, "update_project", "look") /\ Decide(q, req[q].on \in ProjectIds)
  <2>1. Fits(Moved(r, "write", r.seen), wrong)
    BY <1>1, FreeFits DEF Free
  <2>2. (r.on \in ProjectIds) \in BOOLEAN
    OBVIOUS
  <2>3. QED
    BY <1>1, <1>2, <2>1, <2>2, DecideStays
<1>3. CASE /\ At(q, "update_project", "write")
           /\ projects' = [i \in DOMAIN projects |->
                              IF projects[i].id = req[q].on
                              THEN [projects[i] EXCEPT !.default = req[q].arg] ELSE projects[i]]
           /\ req' = Over(q) /\ OnlyProjects
  <2>1. projects \in Seq(ProjectRow)
    BY DEF Inv, ProjectsOK
  <2>2. \A i \in DOMAIN projects : projects'[i] \in ProjectRow
    BY <1>1, <1>3, <2>1, ProjectIs DEF ProjectRow
  <2>3. projects' = [i \in DOMAIN projects |-> projects'[i]]
    BY <1>3
  <2>4. projects' \in Seq(ProjectRow)
    BY <2>1, <2>2, <2>3, MapRows
  <2>5. UNCHANGED wrong
    BY <1>3 DEF OnlyProjects
  <2>6. QED
    BY <1>3, <2>4, <2>5, OverStays, ProjectsWritten
<1>4. QED
  BY <1>2, <1>3 DEF UpdateProject

LEMMA WithoutIs == ASSUME projects \in Seq(ProjectRow), NEW id PROVE Without(id) \in Seq(ProjectRow)
<1>1. CASE id \notin ProjectIds
  BY <1>1 DEF Without
<1>2. CASE id \in ProjectIds
  <2> DEFINE i == CHOOSE k \in DOMAIN projects : projects[k].id = id
  <2>1. i \in 1 .. Len(projects) /\ Len(projects) \in Nat
    BY <1>2, ProjectIs DEF ProjectIds
  <2> HIDE DEF i
  <2>2. \A k \in 1 .. i - 1 : projects[k] \in ProjectRow
    BY <2>1, ProjectIs
  <2>3. \A k \in i + 1 .. Len(projects) : projects[k] \in ProjectRow
    BY <2>1, ProjectIs
  <2>4. SubSeq(projects, 1, i - 1) \in Seq(ProjectRow)
    BY <2>1, <2>2, SubSeqProperties
  <2>5. SubSeq(projects, i + 1, Len(projects)) \in Seq(ProjectRow)
    BY <2>1, <2>3, SubSeqProperties
  <2>6. SubSeq(projects, 1, i - 1) \o SubSeq(projects, i + 1, Len(projects)) \in Seq(ProjectRow)
    BY <2>4, <2>5, ConcatProperties
  <2>7. QED
    BY <1>2, <2>6 DEF Without, i
<1>3. QED
  BY <1>1, <1>2

LEMMA DeleteProjectKeeps == ASSUME Inv, NEW q \in Req, DeleteProject(q) PROVE Inv'
<1> DEFINE r == req[q]
           left == r.seen
<1>1. r.op = "delete_project" /\ r.pc # "idle" /\ Fits(r, wrong) /\ UNCHANGED wrong
  BY FitsNow DEF DeleteProject, At, tables, OnlyProjects
<1>2. \A pc, seen : Fits(Moved(r, pc, seen), wrong)
  BY <1>1, FreeFits DEF Free
<1>3. CASE At(q, "delete_project", "look") \/ At(q, "delete_project", "check")
  <2>1. UNCHANGED <<tables, plan>>
    BY <1>3 DEF DeleteProject, At
  <2>2. \/ req' = Over(q) \/ req' = Go(q, "write")
        \/ \E seen : req' = GoSeen(q, "check", seen)
    BY <1>3 DEF DeleteProject, At
  <2>3. RequestsOK'
    BY <1>1, <1>2, <2>2, OverStays, GoStays, GoSeenStays
  <2>4. QED
    BY <2>1, <2>3, LookKeeps
<1>4. CASE At(q, "delete_project", "write")
  <2>1. projects' = Without(r.on) /\ req' = Over(q) /\ OnlyProjects
    BY <1>4 DEF DeleteProject, At
  <2>2. projects' \in Seq(ProjectRow)
    BY <2>1, WithoutIs DEF Inv, ProjectsOK
  <2>3. QED
    BY <1>1, <2>1, <2>2, OverStays, ProjectsWritten
<1>5. QED
  BY <1>3, <1>4 DEF DeleteProject

LEMMA PlaceKeeps == ASSUME Inv, NEW q \in Req, Place(q) PROVE Inv'
<1>1. req[q].arg \in Nat
  BY FitsNow DEF Place, At, Fits, WellFormed
<1>2. /\ place' = [place EXCEPT ![req[q].on] = req[q].arg] /\ req' = Over(q)
      /\ UNCHANGED <<users, wrong, projects, pipelines, settings, plan>> /\ UNCHANGED wrong
  BY DEF Place
<1>3. RequestsOK'
  BY <1>2, OverStays
<1>4. QED
  BY <1>1, <1>2, <1>3, PlaceWritten

(***************************************************************************)
(* Pipelines and settings                                                   *)
(***************************************************************************)

LEMMA PipelinesWritten ==
    ASSUME Inv, NEW q \in Req, req' = Over(q), OnlyPipelines,
           NEW e, NEW S \in SUBSET PipelineRow, pipelines' = [pipelines EXCEPT ![e] = S]
    PROVE  Inv'
<1>1. PipelinesOK'
  BY DEF Inv, PipelinesOK, OnlyPipelines
<1>2. RequestsOK'
  BY OverStays DEF OnlyPipelines
<1>3. QED
  BY <1>1, <1>2, UsersAsBefore, ProjectsAsBefore, PlanAsBefore DEF Inv, OnlyPipelines

LEMMA RowAdded ==
    ASSUME Inv, NEW e \in Event, NEW no \in Nat, NEW default \in BOOLEAN
    PROVE  pipelines[e] \cup {[id |-> no, default |-> default]} \in SUBSET PipelineRow
<1>1. pipelines[e] \in SUBSET PipelineRow
  BY DEF Inv, PipelinesOK
<1>2. [id |-> no, default |-> default] \in PipelineRow
  BY DEF PipelineRow
<1>3. QED
  BY <1>1, <1>2

LEMMA EnsurePipelineKeeps == ASSUME Inv, NEW q \in Req, EnsurePipeline(q) PROVE Inv'
<1> DEFINE r == req[q]
<1>1. /\ r.op \in {"list_pipelines", "handle_event"} /\ r.pc # "idle"
      /\ Fits(r, wrong) /\ r.no \in Nat /\ r.on \in Event
  BY FitsNow DEF EnsurePipeline, At, Fits, WellFormed
<1>2. CASE Decide(q, pipelines[req[q].on] = {})
  <2>1. Fits(Moved(r, "write", r.seen), wrong)
    BY <1>1, FreeFits DEF Free
  <2>2. (pipelines[r.on] = {}) \in BOOLEAN
    OBVIOUS
  <2>3. QED
    BY <1>1, <1>2, <2>1, <2>2, DecideStays
<1>3. CASE /\ pipelines' = [pipelines EXCEPT ![req[q].on] = @ \cup {[id |-> req[q].no, default |-> TRUE]}]
           /\ req' = Over(q) /\ OnlyPipelines
  <2> DEFINE S == pipelines[r.on] \cup {[id |-> r.no, default |-> TRUE]}
  <2>1. S \in SUBSET PipelineRow
    BY <1>1, RowAdded
  <2>2. pipelines' = [pipelines EXCEPT ![r.on] = S]
    BY <1>3
  <2> HIDE DEF S, r
  <2>3. QED
    BY <1>3, <2>1, <2>2, PipelinesWritten
<1>4. QED
  BY <1>2, <1>3 DEF EnsurePipeline

LEMMA CreatePipelineKeeps == ASSUME Inv, NEW q \in Req, CreatePipeline(q) PROVE Inv'
<1> DEFINE r == req[q]
           S == pipelines[r.on] \cup {[id |-> r.no, default |-> FALSE]}
<1>1. r.no \in Nat /\ r.on \in Event
  BY FitsNow DEF CreatePipeline, At, Fits, WellFormed
<1>2. pipelines' = [pipelines EXCEPT ![r.on] = S] /\ req' = Over(q) /\ OnlyPipelines
  BY DEF CreatePipeline
<1>3. S \in SUBSET PipelineRow
  BY <1>1, RowAdded
<1> HIDE DEF S, r
<1>4. QED
  BY <1>2, <1>3, PipelinesWritten

LEMMA DeletePipelineKeeps == ASSUME Inv, NEW q \in Req, DeletePipeline(q) PROVE Inv'
<1> DEFINE r == req[q]
           left == Remaining(r)
<1>1. r.op = "delete_pipeline" /\ r.pc # "idle" /\ Fits(r, wrong) /\ r.on \in Event
  BY FitsNow DEF DeletePipeline, At, Fits, WellFormed
<1>2. CASE At(q, "delete_pipeline", "look")
  <2>1. UNCHANGED <<tables, plan>> /\ UNCHANGED wrong
    BY <1>2 DEF DeletePipeline, At, tables
  <2>2. CASE r.arg \in Ids(r.on) /\ left # {}
    <3>1. req' = GoSeen(q, "write", left)
      BY <1>2, <2>2 DEF DeletePipeline, At
    <3>2. r.arg \notin left
      BY DEF Remaining
    <3> HIDE DEF left
    <3>3. Fits(Moved(r, "write", left), wrong)
      BY <1>1, <2>2, <3>2 DEF Fits, Moved, Shaped, WellFormed
    <3>4. QED
      BY <1>1, <2>1, <3>1, <3>3, GoSeenStays, LookKeeps
  <2>3. CASE ~(r.arg \in Ids(r.on) /\ left # {})
    <3>1. req' = Over(q)
      BY <1>2, <2>3 DEF DeletePipeline, At
    <3>2. QED
      BY <2>1, <3>1, OverStays, LookKeeps
  <2>4. QED
    BY <2>2, <2>3
<1>3. CASE At(q, "delete_pipeline", "write")
  <2> DEFINE S == {p \in pipelines[r.on] : p.id # r.arg}
  <2>1. pipelines' = [pipelines EXCEPT ![r.on] = S] /\ req' = Over(q) /\ OnlyPipelines
    BY <1>3 DEF DeletePipeline, At
  <2>2. S \in SUBSET PipelineRow
    BY <1>1 DEF Inv, PipelinesOK
  <2> HIDE DEF S, r
  <2>3. QED
    BY <2>1, <2>2, PipelinesWritten
<1>4. QED
  BY <1>2, <1>3 DEF DeletePipeline

LEMMA UpsertSettingKeeps == ASSUME Inv, NEW q \in Req, UpsertSetting(q) PROVE Inv'
<1> DEFINE r == req[q]
<1>1. r.op = "upsert_setting" /\ r.pc # "idle" /\ Fits(r, wrong) /\ r.on \in Setting /\ UNCHANGED wrong
  BY FitsNow DEF UpsertSetting, At, Fits, WellFormed, tables
<1>2. CASE At(q, "upsert_setting", "look")
  <2>1. Fits(Moved(r, "write", r.seen), wrong)
    BY <1>1, FreeFits DEF Free
  <2>2. UNCHANGED <<tables, plan>> /\ (req' = Go(q, "write") \/ req' = Over(q))
    BY <1>2 DEF UpsertSetting, At
  <2>3. RequestsOK'
    BY <1>1, <2>1, <2>2, OverStays, GoStays
  <2>4. QED
    BY <2>2, <2>3, LookKeeps
<1>3. CASE At(q, "upsert_setting", "write")
  <2>1. /\ settings' = [settings EXCEPT ![r.on] = @ + 1] /\ req' = Over(q)
        /\ UNCHANGED <<users, wrong, projects, place, pipelines, plan>>
    BY <1>3 DEF UpsertSetting, At
  <2>2. PipelinesOK'
    BY <1>1, <2>1 DEF Inv, PipelinesOK
  <2>3. QED
    BY <1>1, <2>1, <2>2, OverStays, UsersAsBefore, ProjectsAsBefore, PlanAsBefore DEF Inv
<1>4. QED
  BY <1>2, <1>3 DEF UpsertSetting

(***************************************************************************)
(* The specification                                                        *)
(***************************************************************************)

LEMMA RestartKeeps == ASSUME Inv, Restart PROVE Inv'
<1>1. PlanOK'
  <2> DEFINE once == [plan EXCEPT !.restarts = @ - 1]
  <2>1. plan = [offers |-> plan.offers, calls |-> plan.calls, restarts |-> plan.restarts]
        /\ plan.calls \in Nat /\ plan.calls > 0 /\ plan.restarts \in Nat /\ plan.restarts > 0
    BY DEF Inv, PlanOK, Restart
  <2>2. once = [offers |-> plan.offers, calls |-> plan.calls, restarts |-> plan.restarts - 1]
    BY <2>1
  <2>3. plan' = [once EXCEPT !.calls = @ - 1]
    BY DEF Restart
  <2>4. plan' = [offers |-> plan.offers, calls |-> plan.calls - 1, restarts |-> plan.restarts - 1]
    <3> HIDE DEF once
    <3>1. QED
      BY <2>2, <2>3
  <2>5. QED
    BY <2>1, <2>4 DEF Inv, PlanOK
<1>2. RequestsOK'
  <2>1. req' = [q \in Req |-> Idle]
    BY DEF Restart
  <2>2. \A q \in Req : Fits(req'[q], wrong')
    BY <2>1, IdleFits
  <2>3. QED
    BY <2>1, <2>2 DEF RequestsOK
<1>3. UNCHANGED wrong /\ PipelinesOK'
  BY PipelinesAsBefore DEF Restart, Inv
<1>4. UsersOK' /\ EarnedOK'
  <2>1. CASE \A u \in User : ~Exists(u)
    <3> DEFINE row == NewUser("admin", FALSE)
               rows == <<row>>
    <3>1. row \in UserRow /\ row.failed = 0 /\ row.lock = "none"
      BY DEF NewUser, UserRow, Role
    <3> HIDE DEF row
    <3>2. rows \in Seq(UserRow) /\ \A i \in DOMAIN rows : rows[i] = row
      <4>1. rows \in [1 .. 1 -> UserRow] /\ DOMAIN rows = 1 .. 1
        BY <3>1
      <4>2. rows \in Seq(UserRow)
        BY <4>1, SeqDef
      <4>3. QED
        BY <4>1, <4>2
    <3>3. Admin \in User /\ wrong'[Admin] \in Nat
      BY <1>3, ConsoleAssumption, WrongKept
    <3>4. \A i \in DOMAIN rows : Earned(rows[i], wrong'[Admin])
      BY <3>1, <3>2, <3>3 DEF Earned
    <3>5. users' = [users EXCEPT ![Admin] = rows]
      BY <2>1 DEF Restart, row
    <3> HIDE DEF rows
    <3>6. QED
      BY <1>3, <3>2, <3>3, <3>4, <3>5, WrongKept, UsersKept DEF Inv
  <2>2. CASE ~(\A u \in User : ~Exists(u))
    BY <1>3, <2>2, UsersAsBefore DEF Restart, Inv
  <2>3. QED
    BY <2>1, <2>2
<1>5. ProjectsOK'
  <2>1. plan.calls \in Nat /\ projects \in Seq(ProjectRow) /\ place \in [1 .. Tables -> Nat \cup {None}]
    BY DEF Inv, PlanOK, ProjectsOK
  <2>2. CASE projects = <<>>
    <3>1. [id |-> plan.calls, default |-> TRUE] \in ProjectRow
      BY <2>1 DEF ProjectRow
    <3>2. projects' \in Seq(ProjectRow)
      BY <2>2, <3>1 DEF Restart
    <3>3. place' \in [1 .. Tables -> Nat \cup {None}]
      BY <2>1, <2>2 DEF Restart
    <3>4. QED
      BY <3>2, <3>3 DEF ProjectsOK
  <2>3. CASE projects # <<>>
    <3>1. Chosen \in Nat
      BY <2>1, <2>3, ChosenIs
    <3>2. QED
      BY <2>1, <2>3, <3>1 DEF Restart, ProjectsOK
  <2>4. QED
    BY <2>2, <2>3
<1>6. QED
  BY <1>1, <1>2, <1>3, <1>4, <1>5 DEF Inv

LEMMA InitInv == ASSUME Init PROVE Inv
<1>1. PICK system \in Installed :
        /\ users = system.users /\ projects = system.projects /\ place = system.place
        /\ pipelines = system.pipelines /\ settings = system.settings
        /\ plan = [offers |-> system.offers, calls |-> system.calls, restarts |-> system.restarts]
  BY DEF Init
<1>2. Fresh(system)
  BY ConsoleAssumption
<1>3. UsersOK /\ ProjectsOK
  BY <1>1, <1>2 DEF Init, Fresh, UsersOK, ProjectsOK
<1>4. PipelinesOK
  BY <1>1, <1>2 DEF Fresh, PipelinesOK
<1>5. PlanOK
  BY <1>1, <1>2 DEF Fresh, PlanOK
<1>6. RequestsOK
  <2>1. req = [q \in Req |-> Idle]
    BY DEF Init
  <2>2. QED
    BY <2>1, IdleFits DEF RequestsOK
<1>7. EarnedOK
  BY <1>1, <1>2 DEF Init, Fresh, EarnedOK, Earned
<1>8. QED
  BY <1>3, <1>4, <1>5, <1>6, <1>7 DEF Inv

LEMMA NextKeeps == ASSUME Inv, [Next]_vars PROVE Inv'
<1>1. ASSUME NEW q \in Req, Arrive(q) \/ Accounts(q) PROVE Inv'
  BY <1>1, ArriveKeeps, SignOnKeeps, FindUserKeeps, InsertUserKeeps, UpdateUserKeeps, DeleteUserKeeps,
     UnlockKeeps, LoginLookKeeps, LoginWriteKeeps DEF Accounts
<1>2. ASSUME NEW q \in Req, Workspace(q) PROVE Inv'
  BY <1>2, EnsureProjectKeeps, AttachKeeps, CreateProjectKeeps, UpdateProjectKeeps, DeleteProjectKeeps,
     PlaceKeeps, EnsurePipelineKeeps, CreatePipelineKeeps, DeletePipelineKeeps, UpsertSettingKeeps
     DEF Workspace
<1>3. ASSUME NEW u \in User, Expire(u) PROVE Inv'
  BY <1>3, ExpireKeeps
<1>4. ASSUME Restart PROVE Inv'
  BY <1>4, RestartKeeps
<1>5. ASSUME UNCHANGED vars PROVE Inv'
  <2>1. UNCHANGED <<tables, plan>> /\ UNCHANGED <<req, wrong>>
    BY <1>5 DEF vars, tables
  <2>2. QED
    BY <2>1, RequestsAsBefore, LookKeeps DEF Inv
<1>6. QED
  BY <1>1, <1>2, <1>3, <1>4, <1>5 DEF Next

LEMMA InvAlways == Spec => []Inv
<1>1. Init => Inv
  BY InitInv
<1>2. Inv /\ [Next]_vars => Inv'
  BY NextKeeps
<1>3. QED
  BY <1>1, <1>2, PTL DEF Spec

(* Every reachable state has its type: the tables keep the shape that the      *)
(* models give them, whatever the handlers interleave to write there.          *)
THEOREM TypeCorrect == Spec => []TypeOK
<1>1. Inv => TypeOK
  BY DEF Inv, TypeOK, RequestsOK, UsersOK, ProjectsOK, PipelinesOK, Fits
<1>2. QED
  BY <1>1, InvAlways, PTL

(* An account is locked only if MaxFailed wrong passwords were given for its   *)
(* name: a login that writes back an old counter (auth.py:106) writes one that *)
(* was earned when it was read.                                                *)
THEOREM LocksAreEarned == Spec => []LockIsEarned
<1>1. Inv => LockIsEarned
  <2>1. SUFFICES ASSUME Inv, NEW u \in User, NEW i \in DOMAIN users[u], users[u][i].lock # "none"
                 PROVE  wrong[u] >= MaxFailed
    BY DEF LockIsEarned
  <2>2. Earned(users[u][i], wrong[u]) /\ wrong[u] \in Nat /\ MaxFailed \in Nat
    BY <2>1, RowIs, ConsoleAssumption DEF Inv
  <2>3. QED
    BY <2>1, <2>2 DEF Earned
<1>2. QED
  BY <1>1, InvAlways, PTL

(***************************************************************************)
(* The last administrator and the last pipeline                             *)
(***************************************************************************)

LEMMA AdminsSame == ASSUME UNCHANGED users PROVE Admins' = Admins
BY DEF Admins, Exists, RoleOf

(* A write to one username leaves the other administrators, and this one if    *)
(* its first row still has the role.                                           *)
LEMMA AdminsKept ==
    ASSUME UsersOK, NEW u \in User, NEW rows, users' = [users EXCEPT ![u] = rows]
    PROVE  /\ Admins \ {u} \subseteq Admins'
           /\ (u \in Admins => rows # <<>> /\ Head(rows).role = "admin") => Admins \subseteq Admins'
<1>1. users'[u] = rows /\ \A v \in User : v # u => users'[v] = users[v]
  BY DEF UsersOK
<1>2. ASSUME NEW v \in Admins, v # u PROVE v \in Admins'
  BY <1>1, <1>2 DEF Admins, Exists, RoleOf
<1>3. ASSUME rows # <<>> /\ Head(rows).role = "admin" PROVE u \in Admins'
  BY <1>1, <1>3 DEF Admins, Exists, RoleOf
<1>4. QED
  BY <1>2, <1>3

(* Counted keeps the role of every row.                                        *)
LEMMA AdminsCounted ==
    ASSUME UsersOK, NEW u \in User, NEW rows, rows = [i \in DOMAIN users[u] |-> rows[i]],
           \A i \in DOMAIN users[u] : rows[i].role = users[u][i].role,
           users' = [users EXCEPT ![u] = rows]
    PROVE  Admins \subseteq Admins'
<1>1. users[u] \in Seq(UserRow)
  BY DEF UsersOK
<1>2. Len(users[u]) \in Nat /\ DOMAIN users[u] = 1 .. Len(users[u])
  BY <1>1, LenProperties
<1>3. ASSUME u \in Admins PROVE rows # <<>> /\ Head(rows).role = "admin"
  <2>1. users[u] # <<>> /\ Head(users[u]).role = "admin"
    BY <1>3 DEF Admins, Exists, RoleOf
  <2>2. 1 \in DOMAIN users[u] /\ Head(users[u]) = users[u][1]
    BY <1>1, <1>2, <2>1
  <2>3. rows[1].role = "admin" /\ DOMAIN rows = DOMAIN users[u]
    BY <2>1, <2>2
  <2>4. rows # <<>> /\ Head(rows) = rows[1]
    BY <2>2, <2>3
  <2>5. QED
    BY <2>3, <2>4
<1>4. QED
  BY <1>3, AdminsKept

LEMMA AdminsCleared == ASSUME UsersOK, NEW u \in User, users' = Cleared(u) PROVE Admins \subseteq Admins'
<1> DEFINE rows == [i \in DOMAIN users[u] |-> Counted(users[u][i], 0, "none")]
<1>1. users' = [users EXCEPT ![u] = rows]
  BY DEF Cleared
<1>2. \A i \in DOMAIN users[u] : rows[i].role = users[u][i].role
  BY DEF Counted
<1>3. rows = [i \in DOMAIN users[u] |-> rows[i]]
  OBVIOUS
<1> HIDE DEF rows
<1>4. QED
  BY <1>1, <1>2, <1>3, AdminsCounted

LEMMA LoginKeepsAdmins == ASSUME Inv, NEW q \in Req, LoginWrite(q) PROVE Admins \subseteq Admins'
<1> DEFINE u == req[q].on
           seen == req[q].seen
<1>1. u \in User /\ UsersOK
  BY FitsNow DEF LoginWrite, At, Fits, WellFormed, Inv
<1>2. CASE users' = Failed(u, seen)
  <2> DEFINE rows == [i \in DOMAIN users[u] |->
                        Counted(users[u][i], seen.failed + 1,
                                IF seen.failed + 1 >= MaxFailed THEN "on" ELSE users[u][i].lock)]
  <2>1. users' = [users EXCEPT ![u] = rows]
    BY <1>2 DEF Failed
  <2>2. \A i \in DOMAIN users[u] : rows[i].role = users[u][i].role
    BY DEF Counted
  <2>3. rows = [i \in DOMAIN users[u] |-> rows[i]]
    OBVIOUS
  <2> HIDE DEF rows, u
  <2>4. QED
    BY <1>1, <2>1, <2>2, <2>3, AdminsCounted
<1>3. CASE users' = Cleared(u) \/ users' = users
  BY <1>1, <1>3, AdminsCleared, AdminsSame
<1>4. QED
  BY <1>2, <1>3 DEF LoginWrite

LEMMA ExpireKeepsAdmins == ASSUME Inv, NEW u \in User, Expire(u) PROVE Admins \subseteq Admins'
<1> DEFINE rows == [i \in DOMAIN users[u] |->
                      Counted(users[u][i], users[u][i].failed,
                              IF users[u][i].lock = "on" THEN "past" ELSE users[u][i].lock)]
<1>1. users' = [users EXCEPT ![u] = rows]
  BY DEF Expire
<1>2. \A i \in DOMAIN users[u] : rows[i].role = users[u][i].role
  BY DEF Counted
<1>3. rows = [i \in DOMAIN users[u] |-> rows[i]]
  OBVIOUS
<1> HIDE DEF rows
<1>4. QED
  BY <1>1, <1>2, <1>3, AdminsCounted DEF Inv

LEMMA InsertKeepsAdmins == ASSUME Inv, NEW q \in Req, InsertUser(q) PROVE Admins \subseteq Admins'
<1> DEFINE u == req[q].on
           row == IF req[q].op = "sso" THEN NewUser(SSORole, TRUE) ELSE NewUser(req[q].arg, FALSE)
           rows == Append(users[u], row)
<1>1. users' = [users EXCEPT ![u] = rows]
  BY DEF InsertUser
<1>2. u \in User /\ UsersOK /\ users[u] \in Seq(UserRow)
  BY FitsNow DEF InsertUser, At, Fits, WellFormed, Inv, UsersOK
<1> HIDE DEF row
<1>3. ASSUME u \in Admins PROVE rows # <<>> /\ Head(rows).role = "admin"
  <2>1. users[u] # <<>> /\ Head(users[u]).role = "admin"
    BY <1>3 DEF Admins, Exists, RoleOf
  <2>2. rows # <<>> /\ Head(rows) = Head(users[u])
    BY <1>2, <2>1
  <2>3. QED
    BY <2>1, <2>2
<1> HIDE DEF rows, u
<1>4. QED
  BY <1>1, <1>2, <1>3, AdminsKept

LEMMA RestartKeepsAdmins == ASSUME Inv, Restart PROVE Admins \subseteq Admins'
<1>1. CASE \A u \in User : ~Exists(u)
  BY <1>1 DEF Admins
<1>2. CASE ~(\A u \in User : ~Exists(u))
  <2>1. UNCHANGED users
    BY <1>2 DEF Restart
  <2>2. QED
    BY <2>1, AdminsSame
<1>3. QED
  BY <1>1, <1>2

(* A request whose own user is still an administrator leaves that one.         *)
LEMMA WriteLosesByRace ==
    ASSUME Inv, NEW q \in Req, At(q, "update_user", "write") \/ At(q, "delete_user", "write"),
           UpdateUser(q) \/ DeleteUser(q)
    PROVE  AdminsLost
<1> DEFINE r == req[q]
<1>1. r.pc = "write" /\ r.op \in {"update_user", "delete_user"} /\ r.on \in User /\ Fits(r, wrong) /\ UsersOK
  BY FitsNow DEF At, Fits, WellFormed, Inv
<1>2. req' = Over(q) /\ Ends(q)
  <2>1. req' = Over(q)
    BY DEF UpdateUser, DeleteUser, At
  <2>2. req'[q] = Idle
    BY <2>1 DEF Over, Inv, RequestsOK
  <2>3. QED
    BY <1>1, <2>1, <2>2 DEF Ends, Idle
<1>3. SUFFICES ASSUME r.by \in Admins PROVE Admins' # {}
  BY <1>1, <1>2 DEF AdminsLost
<1>4. CASE r.op = "delete_user"
  <2>1. users' = [users EXCEPT ![r.on] = <<>>] /\ r.on # r.by
    BY <1>1, <1>4 DEF UpdateUser, DeleteUser, At, Fits
  <2>2. QED
    BY <1>1, <1>3, <2>1, AdminsKept
<1>5. CASE r.op = "update_user" /\ r.arg = None
  <2>1. UNCHANGED users
    BY <1>1, <1>5 DEF UpdateUser, DeleteUser, At
  <2>2. QED
    BY <1>3, <2>1, AdminsSame
<1>6. CASE r.op = "update_user" /\ r.arg # None
  <2> DEFINE rows == [i \in DOMAIN users[r.on] |-> [users[r.on][i] EXCEPT !.role = r.arg]]
  <2>1. users' = [users EXCEPT ![r.on] = rows]
    BY <1>1, <1>6 DEF UpdateUser, DeleteUser, At
  <2>2. CASE r.on # r.by
    <3> HIDE DEF rows
    <3>1. QED
      BY <1>1, <1>3, <2>1, <2>2, AdminsKept
  <2>3. CASE r.arg = "admin"
    <3>1. users[r.on] \in Seq(UserRow)
      BY <1>1 DEF UsersOK
    <3>2. ASSUME r.on \in Admins PROVE rows # <<>> /\ Head(rows).role = "admin"
      <4>1. users[r.on] # <<>>
        BY <3>2 DEF Admins, Exists
      <4>2. 1 \in DOMAIN users[r.on] /\ users[r.on][1] \in UserRow
        BY <3>1, <4>1, ElementOfSeq, LenProperties
      <4>3. rows[1].role = "admin" /\ 1 \in DOMAIN rows
        BY <2>3, <4>2 DEF UserRow
      <4>4. rows # <<>> /\ Head(rows) = rows[1]
        <5> HIDE DEF rows
        <5>1. QED
          BY <4>3
      <4>5. QED
        BY <4>3, <4>4
    <3> HIDE DEF rows
    <3>3. QED
      BY <1>1, <1>3, <2>1, <3>2, AdminsKept
  <2>4. QED
    BY <1>1, <1>6, <2>2, <2>3 DEF Fits
<1>7. QED
  BY <1>1, <1>4, <1>5, <1>6

LEMMA AdminsNext == ASSUME Inv, [Next]_vars PROVE AdminsLost
<1>1. ASSUME Admins \subseteq Admins' PROVE AdminsLost
  BY <1>1 DEF AdminsLost
<1>2. ASSUME UNCHANGED users PROVE AdminsLost
  BY <1>1, <1>2, AdminsSame
<1>3. ASSUME NEW q \in Req, UpdateUser(q) \/ DeleteUser(q) PROVE AdminsLost
  <2>1. CASE At(q, "update_user", "write") \/ At(q, "delete_user", "write")
    BY <1>3, <2>1, WriteLosesByRace
  <2>2. CASE ~(At(q, "update_user", "write") \/ At(q, "delete_user", "write"))
    BY <1>2, <1>3, <2>2 DEF UpdateUser, DeleteUser, Decide, tables
  <2>3. QED
    BY <2>1, <2>2
<1>4. ASSUME NEW q \in Req, Unlock(q) PROVE AdminsLost
  <2>1. CASE At(q, "unlock", "write")
    <3>1. users' = Cleared(req[q].on) /\ req[q].on \in User /\ UsersOK
      BY <1>4, <2>1, FitsNow DEF Unlock, At, Fits, WellFormed, Inv
    <3>2. QED
      BY <1>1, <3>1, AdminsCleared
  <2>2. CASE ~At(q, "unlock", "write")
    BY <1>2, <1>4, <2>2 DEF Unlock, Decide, tables
  <2>3. QED
    BY <2>1, <2>2
<1>5. ASSUME NEW q \in Req, Arrive(q) \/ SignOn(q) \/ FindUser(q) \/ LoginLook(q) PROVE AdminsLost
  BY <1>2, <1>5 DEF Arrive, SignOn, FindUser, LoginLook, Decide, tables
<1>6. ASSUME NEW q \in Req, Workspace(q) PROVE AdminsLost
  <2>1. UNCHANGED users
    BY <1>6 DEF Workspace, EnsureProject, Attach, CreateProject, UpdateProject, DeleteProject, Place,
                EnsurePipeline, CreatePipeline, DeletePipeline, UpsertSetting, Decide, tables,
                OnlyProjects, OnlyPipelines
  <2>2. QED
    BY <1>2, <2>1
<1>7. ASSUME NEW q \in Req, InsertUser(q) \/ LoginWrite(q) PROVE AdminsLost
  BY <1>1, <1>7, InsertKeepsAdmins, LoginKeepsAdmins
<1>8. ASSUME Restart \/ \E u \in User : Expire(u) PROVE AdminsLost
  BY <1>1, <1>8, RestartKeepsAdmins, ExpireKeepsAdmins
<1>9. ASSUME UNCHANGED vars PROVE AdminsLost
  BY <1>2, <1>9 DEF vars, tables
<1>10. QED
  BY <1>3, <1>4, <1>5, <1>6, <1>7, <1>8, <1>9 DEF Next, Accounts

(* A deletion that leaves nothing finds none of the pipelines it meant to      *)
(* leave.                                                                      *)
LEMMA DeletionLosesByRace ==
    ASSUME Inv, NEW q \in Req, At(q, "delete_pipeline", "write"), DeletePipeline(q), NEW e \in Event
    PROVE  PipelinesLost(e)
<1> DEFINE r == req[q]
<1>1. /\ r.op = "delete_pipeline" /\ r.pc = "write" /\ Fits(r, wrong) /\ r.on \in Event
      /\ r.seen # {} /\ r.arg \notin r.seen
  BY FitsNow DEF At, Fits, WellFormed
<1>2. pipelines' = [pipelines EXCEPT ![r.on] = {p \in pipelines[r.on] : p.id # r.arg}] /\ req' = Over(q)
  BY <1>1 DEF DeletePipeline, At
<1>3. req'[q] = Idle
  BY <1>2 DEF Over, Inv, RequestsOK
<1>4. Ends(q)
  BY <1>1, <1>3 DEF Ends, Idle
<1>5. ASSUME pipelines[e] # {}, pipelines'[e] = {}
      PROVE  r.on = e /\ r.seen \cap Ids(e) = {}
  <2>1. r.on = e
    BY <1>2, <1>5 DEF Inv, PipelinesOK
  <2>2. \A p \in pipelines[e] : p.id = r.arg
    BY <1>1, <1>2, <1>5, <2>1 DEF Inv, PipelinesOK
  <2>3. Ids(e) \subseteq {r.arg}
    BY <2>2 DEF Ids
  <2>4. QED
    BY <1>1, <2>1, <2>3
<1>6. QED
  BY <1>1, <1>4, <1>5 DEF PipelinesLost

LEMMA PipelinesNext == ASSUME Inv, [Next]_vars, NEW e \in Event PROVE PipelinesLost(e)
<1>1. ASSUME UNCHANGED pipelines PROVE PipelinesLost(e)
  BY <1>1 DEF PipelinesLost
<1>2. ASSUME NEW q \in Req, DeletePipeline(q) PROVE PipelinesLost(e)
  <2>1. CASE At(q, "delete_pipeline", "write")
    BY <1>2, <2>1, DeletionLosesByRace
  <2>2. CASE ~At(q, "delete_pipeline", "write")
    BY <1>1, <1>2, <2>2 DEF DeletePipeline, tables
  <2>3. QED
    BY <2>1, <2>2
<1>3. ASSUME NEW q \in Req, EnsurePipeline(q) \/ CreatePipeline(q) PROVE PipelinesLost(e)
  <2>1. \/ UNCHANGED pipelines
        \/ \E new : pipelines' = [pipelines EXCEPT ![req[q].on] = @ \cup {new}]
    BY <1>3 DEF EnsurePipeline, CreatePipeline, Decide, tables
  <2>2. ASSUME NEW new, pipelines' = [pipelines EXCEPT ![req[q].on] = @ \cup {new}]
        PROVE  pipelines[e] \subseteq pipelines'[e]
    BY <2>2 DEF Inv, PipelinesOK
  <2>3. QED
    BY <1>1, <2>1, <2>2 DEF PipelinesLost
<1>4. ASSUME NEW q \in Req, Arrive(q) \/ Accounts(q) PROVE PipelinesLost(e)
  <2>1. UNCHANGED pipelines
    BY <1>4 DEF Arrive, Accounts, SignOn, FindUser, InsertUser, UpdateUser, DeleteUser, Unlock, LoginLook,
                LoginWrite, Decide, tables, OnlyUsers
  <2>2. QED
    BY <1>1, <2>1
<1>5. ASSUME NEW q \in Req, \/ EnsureProject(q) \/ Attach(q) \/ CreateProject(q) \/ UpdateProject(q)
                            \/ DeleteProject(q) \/ Place(q) \/ UpsertSetting(q)
      PROVE  PipelinesLost(e)
  <2>1. UNCHANGED pipelines
    BY <1>5 DEF EnsureProject, Attach, CreateProject, UpdateProject, DeleteProject, Place, UpsertSetting,
                Decide, tables, OnlyProjects
  <2>2. QED
    BY <1>1, <2>1
<1>6. ASSUME Restart \/ UNCHANGED vars \/ \E u \in User : Expire(u) PROVE PipelinesLost(e)
  <2>1. UNCHANGED pipelines
    BY <1>6 DEF Restart, Expire, OnlyUsers, vars, tables
  <2>2. QED
    BY <1>1, <2>1
<1>7. QED
  BY <1>2, <1>3, <1>4, <1>5, <1>6 DEF Next, Workspace

(* The last administrator, and the last pipeline of an event, go only when two *)
(* requests overlap (users.py:52, :72; pipelines.py:106).                      *)
THEOREM RacesOnly == Spec => LostOnlyByRace
<1>1. Inv /\ [Next]_vars => [AdminsLost /\ \A e \in Event : PipelinesLost(e)]_vars
  BY AdminsNext, PipelinesNext
<1>2. QED
  BY <1>1, InvAlways, PTL DEF Spec, LostOnlyByRace
=============================================================================
