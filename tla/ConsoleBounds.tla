----------------------------- MODULE ConsoleBounds -----------------------------
(* How many rows with one name there may be in tables that look before they    *)
(* insert, for any number of users, events, settings and requests.             *)
EXTENDS ConsoleProofs, FiniteSetTheorems

(***************************************************************************)
(* The invariant                                                            *)
(***************************************************************************)

(* The requests that have looked, found nothing and are about to insert.       *)
Writers(ops, key) == {q \in Req : req[q].op \in ops /\ req[q].pc = "write" /\ req[q].on = key}

UserOps == {"create_user", "sso"}
PipelineOps == {"list_pipelines", "handle_event"}
SettingOps == {"upsert_setting"}

Promoted(e) == {p \in pipelines[e] : p.default}

(* Rows and writers share the requests: a writer looked before there was a     *)
(* row, and gives its place up for the row it inserts.                         *)
Room(n, writers) == n + Cardinality(writers) <= Cardinality(Req)

UsersRoom == \A u \in User : Room(Len(users[u]), Writers(UserOps, u))
PipelinesRoom ==
    \A e \in Event : IsFiniteSet(Promoted(e)) /\ Room(Cardinality(Promoted(e)), Writers(PipelineOps, e))
SettingsRoom == \A s \in Setting : Room(settings[s], Writers(SettingOps, s))

(***************************************************************************)
(* Counting                                                                 *)
(***************************************************************************)

LEMMA RoomKept ==
    ASSUME NEW n \in Nat, NEW m \in Nat, m <= n, NEW W \in SUBSET Req, NEW V \in SUBSET W, Room(n, W)
    PROVE  Room(m, V)
<1>1. IsFiniteSet(W) /\ IsFiniteSet(V)
  BY ConsoleAssumption, FS_Subset
<1>2. Cardinality(V) \in Nat /\ Cardinality(W) \in Nat /\ Cardinality(Req) \in Nat
      /\ Cardinality(V) <= Cardinality(W)
  BY <1>1, ConsoleAssumption, FS_Subset, FS_CardinalityType
<1>3. QED
  BY <1>2 DEF Room

LEMMA RoomFilled ==
    ASSUME NEW n \in Nat, NEW m \in Nat, m <= n + 1, NEW W \in SUBSET Req, NEW q \in W,
           NEW V \in SUBSET (W \ {q}), Room(n, W)
    PROVE  Room(m, V)
<1>1. IsFiniteSet(W) /\ IsFiniteSet(W \ {q})
  BY ConsoleAssumption, FS_Subset
<1>2. Cardinality(W \ {q}) = Cardinality(W) - 1
  BY <1>1, FS_RemoveElement
<1>3. Cardinality(V) <= Cardinality(W \ {q})
  BY <1>1, FS_Subset
<1>4. Cardinality(V) \in Nat /\ Cardinality(W) \in Nat /\ Cardinality(Req) \in Nat
  BY <1>1, ConsoleAssumption, FS_Subset, FS_CardinalityType
<1>5. QED
  BY <1>2, <1>3, <1>4 DEF Room

LEMMA RoomFound == ASSUME NEW V \in SUBSET Req PROVE Room(0, V)
<1>1. Cardinality(V) <= Cardinality(Req) /\ Cardinality(V) \in Nat /\ Cardinality(Req) \in Nat
  BY ConsoleAssumption, FS_Subset, FS_CardinalityType
<1>2. QED
  BY <1>1 DEF Room

LEMMA RoomFirst == ASSUME NEW n \in {0, 1} PROVE Room(n, {})
<1>1. Cardinality(Req) \in Nat /\ Cardinality(Req) # 0 /\ Cardinality({}) = 0
  BY ConsoleAssumption, FS_CardinalityType, FS_EmptySet
<1>2. QED
  BY <1>1 DEF Room

(***************************************************************************)
(* Who is about to insert                                                   *)
(***************************************************************************)

(* A step of q leaves the other requests alone, and q, unless it is over, with *)
(* its operation.                                                              *)
Alone(q) ==
    /\ \A p \in Req : p # q => req'[p] = req[p]
    /\ req'[q] = Idle \/ (req'[q].op = req[q].op /\ req'[q].on = req[q].on)

LEMMA OverAlone == ASSUME Inv, NEW q \in Req, req' = Over(q) PROVE Alone(q) /\ req'[q] = Idle
BY DEF Over, Inv, RequestsOK, Alone

LEMMA GoAlone ==
    ASSUME Inv, NEW q \in Req, NEW pc, req' = Go(q, pc) PROVE Alone(q) /\ req'[q].pc = pc
<1>1. req' = [req EXCEPT ![q] = Moved(req[q], pc, req[q].seen)]
  BY GoIs DEF Inv
<1>2. req'[q] = Moved(req[q], pc, req[q].seen) /\ \A p \in Req : p # q => req'[p] = req[p]
  BY <1>1 DEF Inv, RequestsOK
<1>3. QED
  BY <1>2 DEF Moved, Alone

LEMMA GoSeenAlone ==
    ASSUME Inv, NEW q \in Req, NEW pc, NEW seen, req' = GoSeen(q, pc, seen) PROVE Alone(q)
<1>1. req' = [req EXCEPT ![q] = Moved(req[q], pc, seen)]
  BY GoSeenIs DEF Inv
<1>2. req'[q] = Moved(req[q], pc, seen) /\ \A p \in Req : p # q => req'[p] = req[p]
  BY <1>1 DEF Inv, RequestsOK
<1>3. QED
  BY <1>2 DEF Moved, Alone

LEMMA DecideAlone == ASSUME Inv, NEW q \in Req, NEW passes, Decide(q, passes) PROVE Alone(q)
<1>1. req' = Go(q, "write") \/ req' = Over(q)
  BY DEF Decide
<1>2. QED
  BY <1>1, GoAlone, OverAlone

LEMMA AccountsAlone == ASSUME Inv, NEW q \in Req, Accounts(q) PROVE Alone(q)
<1>1. ASSUME SignOn(q) PROVE Alone(q)
  BY <1>1, GoAlone, OverAlone DEF SignOn
<1>2. ASSUME FindUser(q) PROVE Alone(q)
  BY <1>2, DecideAlone DEF FindUser
<1>3. ASSUME InsertUser(q) \/ LoginWrite(q) PROVE Alone(q)
  BY <1>3, OverAlone DEF InsertUser, LoginWrite
<1>4. ASSUME UpdateUser(q) PROVE Alone(q)
  BY <1>4, DecideAlone, OverAlone DEF UpdateUser
<1>5. ASSUME DeleteUser(q) PROVE Alone(q)
  BY <1>5, DecideAlone, OverAlone DEF DeleteUser
<1>6. ASSUME Unlock(q) PROVE Alone(q)
  BY <1>6, DecideAlone, OverAlone DEF Unlock
<1>7. ASSUME LoginLook(q) PROVE Alone(q)
  BY <1>7, GoSeenAlone, OverAlone DEF LoginLook
<1>8. QED
  BY <1>1, <1>2, <1>3, <1>4, <1>5, <1>6, <1>7 DEF Accounts

LEMMA WorkspaceAlone == ASSUME Inv, NEW q \in Req, Workspace(q) PROVE Alone(q)
<1>1. ASSUME EnsureProject(q) PROVE Alone(q)
  BY <1>1, GoAlone, GoSeenAlone DEF EnsureProject
<1>2. ASSUME Attach(q) PROVE Alone(q)
  BY <1>2, GoAlone, GoSeenAlone, OverAlone DEF Attach
<1>3. ASSUME CreateProject(q) \/ Place(q) \/ CreatePipeline(q) PROVE Alone(q)
  BY <1>3, OverAlone DEF CreateProject, Place, CreatePipeline
<1>4. ASSUME UpdateProject(q) PROVE Alone(q)
  BY <1>4, DecideAlone, OverAlone DEF UpdateProject
<1>5. ASSUME DeleteProject(q) PROVE Alone(q)
  BY <1>5, GoAlone, GoSeenAlone, OverAlone DEF DeleteProject
<1>6. ASSUME EnsurePipeline(q) PROVE Alone(q)
  BY <1>6, DecideAlone, OverAlone DEF EnsurePipeline
<1>7. ASSUME DeletePipeline(q) PROVE Alone(q)
  BY <1>7, GoSeenAlone, OverAlone DEF DeletePipeline
<1>8. ASSUME UpsertSetting(q) PROVE Alone(q)
  BY <1>8, GoAlone, OverAlone DEF UpsertSetting
<1>9. QED
  BY <1>1, <1>2, <1>3, <1>4, <1>5, <1>6, <1>7, <1>8 DEF Workspace

(* Nobody comes to insert but by a step of such an operation.                  *)
LEMMA WritersKept ==
    ASSUME NEW q \in Req, Alone(q), NEW ops, NEW key,
           req'[q].pc # "write" \/ req[q].op \notin ops \/ req[q].on # key
    PROVE  Writers(ops, key)' \subseteq Writers(ops, key)
<1>1. Writers(ops, key)' = {p \in Req : req'[p].op \in ops /\ req'[p].pc = "write" /\ req'[p].on = key}
  BY DEF Writers
<1>2. req'[q] = Idle => req'[q].pc # "write"
  BY DEF Idle
<1>3. QED
  BY <1>1, <1>2 DEF Writers, Alone

LEMMA WritersLess ==
    ASSUME NEW q \in Req, Alone(q), req'[q] = Idle, NEW ops, NEW key
    PROVE  Writers(ops, key)' \subseteq Writers(ops, key) \ {q}
<1>1. Writers(ops, key)' = {p \in Req : req'[p].op \in ops /\ req'[p].pc = "write" /\ req'[p].on = key}
  BY DEF Writers
<1>2. req'[q].pc # "write"
  BY DEF Idle
<1>3. QED
  BY <1>1, <1>2 DEF Writers, Alone

(* A request that arrives has yet to look.                                     *)
LEMMA ArriveAdds ==
    ASSUME Inv, NEW q \in Req, Arrive(q), NEW ops, NEW key
    PROVE  Writers(ops, key)' \subseteq Writers(ops, key)
<1>1. PICK call \in plan.offers, by \in User \cup {None} :
        req' = [req EXCEPT ![q] = [op |-> call.op, on |-> call.on, arg |-> call.arg, by |-> by,
                                   no |-> plan.calls, pc |-> "look", seen |-> None]]
  BY DEF Arrive
<1>2. req'[q].pc = "look" /\ \A p \in Req : p # q => req'[p] = req[p]
  BY <1>1 DEF Inv, RequestsOK
<1>3. Writers(ops, key)' = {p \in Req : req'[p].op \in ops /\ req'[p].pc = "write" /\ req'[p].on = key}
  BY DEF Writers
<1>4. QED
  BY <1>2, <1>3 DEF Writers

(* After a restart there is nobody.                                            *)
LEMMA RestartClears == ASSUME Restart, NEW ops, NEW key PROVE Writers(ops, key)' = {}
<1>1. \A p \in Req : req'[p].pc = "idle"
  BY DEF Restart, Idle
<1>2. Writers(ops, key)' = {p \in Req : req'[p].op \in ops /\ req'[p].pc = "write" /\ req'[p].on = key}
  BY DEF Writers
<1>3. QED
  BY <1>1, <1>2

LEMMA WritersSame ==
    ASSUME UNCHANGED req, NEW ops, NEW key PROVE Writers(ops, key)' = Writers(ops, key)
BY DEF Writers

LEMMA WritersAre == \A ops, key : Writers(ops, key) \subseteq Req /\ Writers(ops, key)' \subseteq Req
BY DEF Writers

(***************************************************************************)
(* Usernames                                                                *)
(***************************************************************************)

LEMMA LenOf == ASSUME Inv, NEW u \in User PROVE Len(users[u]) \in Nat /\ DOMAIN users[u] = 1 .. Len(users[u])
<1>1. users[u] \in Seq(UserRow)
  BY DEF Inv, UsersOK
<1>2. QED
  BY <1>1, LenProperties

(* A step that adds no row and lets nobody come to insert one.                 *)
LEMMA UsersShrink ==
    ASSUME Inv, Inv', UsersRoom, \A u \in User : Len(users'[u]) <= Len(users[u]),
           \A u \in User : Writers(UserOps, u)' \subseteq Writers(UserOps, u)
    PROVE  UsersRoom'
<1>1. ASSUME NEW u \in User PROVE Room(Len(users'[u]), Writers(UserOps, u)')
  <2>1. Len(users[u]) \in Nat /\ Len(users'[u]) \in Nat
    BY LenOf DEF Inv, UsersOK
  <2>2. Writers(UserOps, u) \in SUBSET Req /\ Room(Len(users[u]), Writers(UserOps, u))
    BY WritersAre DEF UsersRoom
  <2>3. QED
    BY <2>1, <2>2, RoomKept
<1>2. QED
  BY <1>1 DEF UsersRoom, Room

(* The same rows, changed in place.                                            *)
LEMMA RowsInPlace ==
    ASSUME Inv, Inv', \A u \in User : DOMAIN users'[u] = DOMAIN users[u]
    PROVE  \A u \in User : Len(users'[u]) <= Len(users[u])
<1>1. ASSUME NEW u \in User PROVE Len(users'[u]) <= Len(users[u])
  <2>1. users[u] \in Seq(UserRow) /\ users'[u] \in Seq(UserRow)
    BY DEF Inv, UsersOK
  <2>2. /\ Len(users[u]) \in Nat /\ DOMAIN users[u] = 1 .. Len(users[u])
        /\ Len(users'[u]) \in Nat /\ DOMAIN users'[u] = 1 .. Len(users'[u])
    BY <2>1, LenProperties
  <2>3. 1 .. Len(users[u]) = 1 .. Len(users'[u])
    BY <2>2
  <2>4. QED
    BY <2>2, <2>3
<1>2. QED
  BY <1>1

LEMMA FindUserRoom == ASSUME Inv, UsersRoom, NEW q \in Req, FindUser(q) PROVE UsersRoom'
<1>1. Alone(q) /\ UNCHANGED users
  BY DecideAlone DEF FindUser, Decide, tables
<1>2. ASSUME NEW u \in User PROVE Room(Len(users[u]), Writers(UserOps, u)')
  <2>1. CASE req[q].on = u /\ Exists(u)
    <3>1. req' = Over(q)
      BY <2>1 DEF FindUser, Decide
    <3>2. req'[q].pc # "write"
      BY <3>1, OverAlone DEF Idle
    <3>3. Writers(UserOps, u)' \subseteq Writers(UserOps, u)
      BY <1>1, <3>2, WritersKept
    <3>4. QED
      BY <3>3, LenOf, WritersAre, RoomKept DEF UsersRoom
  <2>2. CASE req[q].on = u /\ ~Exists(u)
    <3>1. Len(users[u]) = 0
      BY <2>2 DEF Exists
    <3>2. QED
      BY <3>1, WritersAre, RoomFound
  <2>3. CASE req[q].on # u
    <3>1. Writers(UserOps, u)' \subseteq Writers(UserOps, u)
      BY <1>1, <2>3, WritersKept
    <3>2. QED
      BY <3>1, LenOf, WritersAre, RoomKept DEF UsersRoom
  <2>4. QED
    BY <2>1, <2>2, <2>3
<1>3. QED
  BY <1>1, <1>2 DEF UsersRoom, Room

LEMMA InsertUserRoom == ASSUME Inv, Inv', UsersRoom, NEW q \in Req, InsertUser(q) PROVE UsersRoom'
<1> DEFINE r == req[q]
<1>1. Alone(q) /\ req'[q] = Idle /\ r.op \in UserOps /\ r.pc = "write" /\ r.on \in User
  BY OverAlone, FitsNow DEF InsertUser, At, UserOps, Fits, WellFormed
<1>2. PICK row : users' = [users EXCEPT ![r.on] = Append(users[r.on], row)]
  BY DEF InsertUser
<1>3. ASSUME NEW u \in User PROVE Room(Len(users'[u]), Writers(UserOps, u)')
  <2>1. /\ Writers(UserOps, u)' \subseteq Writers(UserOps, u) \ {q}
        /\ Room(Len(users[u]), Writers(UserOps, u))
        /\ Writers(UserOps, u) \in SUBSET Req
    BY <1>1, WritersLess, WritersAre DEF UsersRoom
  <2>2. Len(users[u]) \in Nat /\ users[u] \in Seq(UserRow) /\ Len(users'[u]) \in Nat
    BY LenOf DEF Inv, UsersOK
  <2>3. CASE u = r.on
    <3>1. q \in Writers(UserOps, u)
      BY <1>1, <2>3 DEF Writers
    <3>2. users'[u] = Append(users[u], row)
      BY <1>2, <2>3 DEF Inv, UsersOK
    <3>3. Len(users'[u]) = Len(users[u]) + 1
      BY <2>2, <3>2
    <3>4. QED
      BY <2>1, <2>2, <3>1, <3>3, RoomFilled
  <2>4. CASE u # r.on
    <3>1. users'[u] = users[u]
      BY <1>2, <2>4 DEF Inv, UsersOK
    <3>2. QED
      BY <2>1, <2>2, <3>1, RoomKept
  <2>5. QED
    BY <2>3, <2>4
<1>4. QED
  BY <1>3 DEF UsersRoom, Room

(* The requests that only change rows, or take them away.                      *)
LEMMA OtherAccountsRoom ==
    ASSUME Inv, Inv', UsersRoom, NEW q \in Req,
           SignOn(q) \/ UpdateUser(q) \/ DeleteUser(q) \/ Unlock(q) \/ LoginLook(q) \/ LoginWrite(q)
    PROVE  UsersRoom'
<1>1. Alone(q) /\ (req'[q].pc # "write" \/ req[q].op \notin UserOps)
  <2>1. Alone(q)
    BY AccountsAlone DEF Accounts
  <2>2. ASSUME SignOn(q) PROVE req'[q].pc # "write"
    <3>1. req' = Go(q, "vouched") \/ req' = Over(q)
      BY <2>2 DEF SignOn
    <3>2. req'[q].pc = "vouched" \/ req'[q] = Idle
      BY <3>1, GoAlone, OverAlone
    <3>3. QED
      BY <3>2 DEF Idle
  <2>3. ASSUME UpdateUser(q) \/ DeleteUser(q) \/ Unlock(q) \/ LoginLook(q) \/ LoginWrite(q)
        PROVE  req[q].op \notin UserOps
    BY <2>3 DEF UpdateUser, DeleteUser, Unlock, LoginLook, LoginWrite, At, UserOps
  <2>4. QED
    BY <2>1, <2>2, <2>3
<1>2. \A u \in User : Writers(UserOps, u)' \subseteq Writers(UserOps, u)
  BY <1>1, WritersKept
<1>3. ASSUME UNCHANGED users PROVE \A u \in User : DOMAIN users'[u] = DOMAIN users[u]
  BY <1>3
<1>4. ASSUME NEW u, users' = Cleared(u) PROVE \A v \in User : DOMAIN users'[v] = DOMAIN users[v]
  BY <1>4 DEF Cleared, Inv, UsersOK
<1>5. ASSUME SignOn(q) \/ LoginLook(q) PROVE UNCHANGED users
  BY <1>5 DEF SignOn, LoginLook, tables
<1>6. ASSUME Unlock(q) PROVE \A v \in User : DOMAIN users'[v] = DOMAIN users[v]
  BY <1>3, <1>4, <1>6 DEF Unlock, Decide, tables
<1>7. ASSUME UpdateUser(q) PROVE \A v \in User : DOMAIN users'[v] = DOMAIN users[v]
  <2>1. \/ UNCHANGED users
        \/ users' = [users EXCEPT ![req[q].on] = [i \in DOMAIN @ |-> [@[i] EXCEPT !.role = req[q].arg]]]
    BY <1>7 DEF UpdateUser, Decide, tables
  <2>2. ASSUME users' = [users EXCEPT ![req[q].on] = [i \in DOMAIN @ |-> [@[i] EXCEPT !.role = req[q].arg]]]
        PROVE  \A v \in User : DOMAIN users'[v] = DOMAIN users[v]
    BY <2>2 DEF Inv, UsersOK
  <2>3. QED
    BY <1>3, <2>1, <2>2
<1>8. ASSUME LoginWrite(q) PROVE \A v \in User : DOMAIN users'[v] = DOMAIN users[v]
  <2>1. users' = Failed(req[q].on, req[q].seen) \/ users' = Cleared(req[q].on) \/ UNCHANGED users
    BY <1>8 DEF LoginWrite
  <2>2. ASSUME users' = Failed(req[q].on, req[q].seen)
        PROVE  \A v \in User : DOMAIN users'[v] = DOMAIN users[v]
    BY <2>2 DEF Failed, Inv, UsersOK
  <2>3. QED
    BY <1>3, <1>4, <2>1, <2>2
<1>9. ASSUME DeleteUser(q) PROVE \A u \in User : Len(users'[u]) <= Len(users[u])
  <2>1. UNCHANGED users \/ users' = [users EXCEPT ![req[q].on] = <<>>]
    BY <1>9 DEF DeleteUser, Decide, tables
  <2>2. TAKE u \in User
  <2>3. users'[u] = users[u] \/ users'[u] = <<>>
    BY <2>1 DEF Inv, UsersOK
  <2>4. QED
    BY <2>3, LenOf
<1>10. QED
  BY <1>2, <1>3, <1>5, <1>6, <1>7, <1>8, <1>9, RowsInPlace, UsersShrink

LEMMA UsersRoomNext == ASSUME Inv, Inv', UsersRoom, [Next]_vars PROVE UsersRoom'
<1>1. ASSUME UNCHANGED users, \A u \in User : Writers(UserOps, u)' \subseteq Writers(UserOps, u)
      PROVE  UsersRoom'
  <2>1. \A u \in User : DOMAIN users'[u] = DOMAIN users[u]
    BY <1>1
  <2>2. QED
    BY <1>1, <2>1, RowsInPlace, UsersShrink
<1>2. ASSUME NEW q \in Req, Arrive(q) PROVE UsersRoom'
  BY <1>1, <1>2, ArriveAdds DEF Arrive, tables
<1>3. ASSUME NEW q \in Req, Accounts(q) PROVE UsersRoom'
  BY <1>3, FindUserRoom, InsertUserRoom, OtherAccountsRoom DEF Accounts
<1>4. ASSUME NEW q \in Req, Workspace(q) PROVE UsersRoom'
  <2>1. UNCHANGED users /\ req[q].op \notin UserOps
    BY <1>4 DEF Workspace, EnsureProject, Attach, CreateProject, UpdateProject, DeleteProject, Place,
                EnsurePipeline, CreatePipeline, DeletePipeline, UpsertSetting, Decide, tables,
                OnlyProjects, OnlyPipelines, At, UserOps
  <2>2. QED
    BY <1>1, <1>4, <2>1, WorkspaceAlone, WritersKept
<1>5. ASSUME NEW u \in User, Expire(u) PROVE UsersRoom'
  <2>1. \A v \in User : DOMAIN users'[v] = DOMAIN users[v]
    BY <1>5 DEF Expire, Inv, UsersOK
  <2>2. UNCHANGED req
    BY <1>5 DEF Expire
  <2>3. QED
    BY <2>1, <2>2, WritersSame, RowsInPlace, UsersShrink
<1>6. ASSUME Restart PROVE UsersRoom'
  <2>1. CASE UNCHANGED users
    BY <1>1, <1>6, <2>1, RestartClears
  <2>2. CASE ~UNCHANGED users
    <3>1. (\A u \in User : ~Exists(u)) /\ users' = [users EXCEPT ![Admin] = <<NewUser("admin", FALSE)>>]
      BY <1>6, <2>2 DEF Restart
    <3>2. \A u \in User : users'[u] = <<>> \/ users'[u] = <<NewUser("admin", FALSE)>>
      BY <3>1 DEF Exists, Inv, UsersOK
    <3>3. \A u \in User : Len(users'[u]) \in {0, 1}
      <4>1. \A row : Len(<<row>>) = 1
        OBVIOUS
      <4>2. Len(<<>>) = 0
        OBVIOUS
      <4>3. Len(<<NewUser("admin", FALSE)>>) = 1
        BY <4>1
      <4>4. QED
        BY <3>2, <4>2, <4>3
    <3>4. \A u \in User : Room(Len(users'[u]), Writers(UserOps, u)')
      BY <1>6, <3>3, RestartClears, RoomFirst
    <3>5. QED
      BY <3>4 DEF UsersRoom, Room
  <2>3. QED
    BY <2>1, <2>2
<1>7. ASSUME UNCHANGED vars PROVE UsersRoom'
  <2>1. UNCHANGED users /\ UNCHANGED req
    BY <1>7 DEF vars
  <2>2. QED
    BY <1>1, <2>1, WritersSame
<1>8. QED
  BY <1>2, <1>3, <1>4, <1>5, <1>6, <1>7 DEF Next

(***************************************************************************)
(* Promoted pipelines                                                       *)
(***************************************************************************)

LEMMA PromotedIs == \A e : Promoted(e)' = {p \in pipelines'[e] : p.default}
BY DEF Promoted

(* A step that promotes nothing and lets nobody come to promote.               *)
LEMMA PipelinesShrink ==
    ASSUME PipelinesRoom, \A e \in Event : Promoted(e)' \subseteq Promoted(e),
           \A e \in Event : Writers(PipelineOps, e)' \subseteq Writers(PipelineOps, e)
    PROVE  PipelinesRoom'
<1>1. ASSUME NEW e \in Event
      PROVE  IsFiniteSet(Promoted(e)') /\ Room(Cardinality(Promoted(e)'), Writers(PipelineOps, e)')
  <2>1. IsFiniteSet(Promoted(e)) /\ Room(Cardinality(Promoted(e)), Writers(PipelineOps, e))
    BY DEF PipelinesRoom
  <2>2. /\ IsFiniteSet(Promoted(e)') /\ Cardinality(Promoted(e)') <= Cardinality(Promoted(e))
        /\ Cardinality(Promoted(e)') \in Nat /\ Cardinality(Promoted(e)) \in Nat
    BY <2>1, FS_Subset, FS_CardinalityType
  <2>3. Room(Cardinality(Promoted(e)'), Writers(PipelineOps, e)')
    BY <2>1, <2>2, WritersAre, RoomKept
  <2>4. QED
    BY <2>2, <2>3
<1>2. QED
  BY <1>1 DEF PipelinesRoom, Room

LEMMA EnsurePipelineRoom == ASSUME Inv, PipelinesRoom, NEW q \in Req, EnsurePipeline(q) PROVE PipelinesRoom'
<1> DEFINE r == req[q]
<1>1. Alone(q) /\ r.op \in PipelineOps /\ r.on \in Event
  BY WorkspaceAlone, FitsNow DEF Workspace, EnsurePipeline, At, PipelineOps, Fits, WellFormed
<1>2. CASE Decide(q, pipelines[req[q].on] = {})
  <2>1. \A e \in Event : Promoted(e)' = Promoted(e)
    BY <1>2 DEF Decide, tables, Promoted
  <2>2. CASE pipelines[r.on] # {}
    <3>1. req' = Over(q)
      BY <1>2, <2>2 DEF Decide
    <3>2. req'[q].pc # "write"
      BY <3>1, OverAlone DEF Idle
    <3>3. \A e \in Event : Writers(PipelineOps, e)' \subseteq Writers(PipelineOps, e)
      BY <1>1, <3>2, WritersKept
    <3>4. QED
      BY <2>1, <3>3, PipelinesShrink
  <2>3. CASE pipelines[r.on] = {}
    <3>1. ASSUME NEW e \in Event
          PROVE  IsFiniteSet(Promoted(e)) /\ Room(Cardinality(Promoted(e)), Writers(PipelineOps, e)')
      <4>1. CASE e = r.on
        <5>1. Promoted(e) = {}
          BY <2>3, <4>1 DEF Promoted
        <5>2. IsFiniteSet(Promoted(e)) /\ Cardinality(Promoted(e)) = 0
          BY <5>1, FS_EmptySet
        <5>3. QED
          BY <5>2, WritersAre, RoomFound
      <4>2. CASE e # r.on
        <5>1. Writers(PipelineOps, e)' \subseteq Writers(PipelineOps, e)
          BY <1>1, <4>2, WritersKept
        <5>2. /\ IsFiniteSet(Promoted(e)) /\ Room(Cardinality(Promoted(e)), Writers(PipelineOps, e))
              /\ Cardinality(Promoted(e)) \in Nat
          BY FS_CardinalityType DEF PipelinesRoom
        <5>3. QED
          BY <5>1, <5>2, WritersAre, RoomKept
      <4>3. QED
        BY <4>1, <4>2
    <3>2. QED
      BY <2>1, <3>1 DEF PipelinesRoom, Room
  <2>4. QED
    BY <2>2, <2>3
<1>3. CASE /\ At(q, "list_pipelines", "write") \/ At(q, "handle_event", "write")
           /\ pipelines' = [pipelines EXCEPT ![r.on] = @ \cup {[id |-> r.no, default |-> TRUE]}]
           /\ req' = Over(q)
  <2> DEFINE row == [id |-> r.no, default |-> TRUE]
  <2>1. Alone(q) /\ req'[q] = Idle /\ r.pc = "write"
    BY <1>3, OverAlone DEF At
  <2>2. pipelines' = [pipelines EXCEPT ![r.on] = pipelines[r.on] \cup {row}] /\ row.default
    BY <1>3
  <2> HIDE DEF row
  <2>3. ASSUME NEW e \in Event
        PROVE  IsFiniteSet(Promoted(e)') /\ Room(Cardinality(Promoted(e)'), Writers(PipelineOps, e)')
    <3>1. /\ IsFiniteSet(Promoted(e)) /\ Room(Cardinality(Promoted(e)), Writers(PipelineOps, e))
          /\ Cardinality(Promoted(e)) \in Nat
      BY FS_CardinalityType DEF PipelinesRoom
    <3>2. Writers(PipelineOps, e)' \subseteq Writers(PipelineOps, e) \ {q}
      BY <2>1, WritersLess
    <3>3. CASE e = r.on
      <4>1. q \in Writers(PipelineOps, e)
        BY <1>1, <2>1, <3>3 DEF Writers
      <4>2. pipelines'[e] = pipelines[e] \cup {row}
        BY <2>2, <3>3 DEF Inv, PipelinesOK
      <4>3. Promoted(e)' = Promoted(e) \cup {row}
        BY <2>2, <4>2, PromotedIs DEF Promoted
      <4>4. /\ IsFiniteSet(Promoted(e) \cup {row})
            /\ Cardinality(Promoted(e) \cup {row}) =
                 IF row \in Promoted(e) THEN Cardinality(Promoted(e)) ELSE Cardinality(Promoted(e)) + 1
        BY <3>1, FS_AddElement, Zenon
      <4>5. Cardinality(Promoted(e)') \in Nat /\ Cardinality(Promoted(e)') <= Cardinality(Promoted(e)) + 1
        BY <3>1, <4>3, <4>4
      <4>6. QED
        BY <3>1, <3>2, <4>1, <4>3, <4>4, <4>5, WritersAre, RoomFilled
    <3>4. CASE e # r.on
      <4>1. pipelines'[e] = pipelines[e]
        BY <2>2, <3>4 DEF Inv, PipelinesOK
      <4>2. Promoted(e)' = Promoted(e)
        BY <4>1, PromotedIs DEF Promoted
      <4>3. QED
        BY <3>1, <3>2, <4>2, WritersAre, RoomKept
    <3>5. QED
      BY <3>3, <3>4
  <2>4. QED
    BY <2>3 DEF PipelinesRoom, Room
<1>4. QED
  BY <1>2, <1>3 DEF EnsurePipeline

LEMMA PipelinesRoomNext == ASSUME Inv, PipelinesRoom, [Next]_vars PROVE PipelinesRoom'
<1>1. ASSUME UNCHANGED pipelines, \A e \in Event : Writers(PipelineOps, e)' \subseteq Writers(PipelineOps, e)
      PROVE  PipelinesRoom'
  <2>1. \A e \in Event : Promoted(e)' \subseteq Promoted(e)
    BY <1>1 DEF Promoted
  <2>2. QED
    BY <1>1, <2>1, PipelinesShrink
<1>2. ASSUME NEW q \in Req, Arrive(q) PROVE PipelinesRoom'
  BY <1>1, <1>2, ArriveAdds DEF Arrive, tables
<1>3. ASSUME NEW q \in Req, Accounts(q) PROVE PipelinesRoom'
  <2>1. UNCHANGED pipelines /\ req[q].op \notin PipelineOps
    BY <1>3 DEF Accounts, SignOn, FindUser, InsertUser, UpdateUser, DeleteUser, Unlock, LoginLook,
                LoginWrite, Decide, tables, OnlyUsers, At, PipelineOps
  <2>2. QED
    BY <1>1, <1>3, <2>1, AccountsAlone, WritersKept
<1>4. ASSUME NEW q \in Req, \/ EnsureProject(q) \/ Attach(q) \/ CreateProject(q) \/ UpdateProject(q)
                            \/ DeleteProject(q) \/ Place(q) \/ UpsertSetting(q)
      PROVE  PipelinesRoom'
  <2>1. UNCHANGED pipelines /\ req[q].op \notin PipelineOps /\ Workspace(q)
    BY <1>4 DEF EnsureProject, Attach, CreateProject, UpdateProject, DeleteProject, Place, UpsertSetting,
                Decide, tables, OnlyProjects, At, PipelineOps, Workspace
  <2>2. QED
    BY <1>1, <2>1, WorkspaceAlone, WritersKept
<1>5. ASSUME NEW q \in Req, CreatePipeline(q) \/ DeletePipeline(q) PROVE PipelinesRoom'
  <2>1. Alone(q) /\ req[q].op \notin PipelineOps
    BY <1>5, WorkspaceAlone DEF Workspace, CreatePipeline, DeletePipeline, At, PipelineOps
  <2>2. ASSUME NEW e \in Event PROVE Promoted(e)' \subseteq Promoted(e)
    <3>1. CASE CreatePipeline(q)
      BY <3>1 DEF CreatePipeline, Promoted, Inv, PipelinesOK
    <3>2. CASE DeletePipeline(q)
      <4>1. \/ UNCHANGED pipelines
            \/ pipelines' = [pipelines EXCEPT ![req[q].on] = {p \in @ : p.id # req[q].arg}]
        BY <3>2 DEF DeletePipeline, tables
      <4>2. pipelines'[e] \subseteq pipelines[e]
        BY <4>1 DEF Inv, PipelinesOK
      <4>3. QED
        BY <4>2 DEF Promoted
    <3>3. QED
      BY <1>5, <3>1, <3>2
  <2>3. QED
    BY <2>1, <2>2, WritersKept, PipelinesShrink
<1>6. ASSUME NEW q \in Req, EnsurePipeline(q) PROVE PipelinesRoom'
  BY <1>6, EnsurePipelineRoom
<1>7. ASSUME Restart PROVE PipelinesRoom'
  BY <1>1, <1>7, RestartClears DEF Restart
<1>8. ASSUME UNCHANGED vars \/ \E u \in User : Expire(u) PROVE PipelinesRoom'
  <2>1. UNCHANGED pipelines /\ UNCHANGED req
    BY <1>8 DEF vars, tables, Expire, OnlyUsers
  <2>2. QED
    BY <1>1, <2>1, WritersSame
<1>9. QED
  BY <1>2, <1>3, <1>4, <1>5, <1>6, <1>7, <1>8 DEF Next, Workspace

(***************************************************************************)
(* Settings                                                                 *)
(***************************************************************************)

LEMMA SettingsShrink ==
    ASSUME Inv, SettingsRoom, UNCHANGED settings,
           \A s \in Setting : Writers(SettingOps, s)' \subseteq Writers(SettingOps, s)
    PROVE  SettingsRoom'
<1>1. ASSUME NEW s \in Setting PROVE Room(settings'[s], Writers(SettingOps, s)')
  <2>1. settings[s] \in Nat /\ Room(settings[s], Writers(SettingOps, s)) /\ settings'[s] = settings[s]
    BY DEF Inv, PipelinesOK, SettingsRoom
  <2>2. QED
    BY <2>1, WritersAre, RoomKept
<1>2. QED
  BY <1>1 DEF SettingsRoom, Room

LEMMA UpsertSettingRoom == ASSUME Inv, SettingsRoom, NEW q \in Req, UpsertSetting(q) PROVE SettingsRoom'
<1> DEFINE r == req[q]
<1>1. Alone(q) /\ r.op \in SettingOps /\ r.on \in Setting /\ settings \in [Setting -> Nat]
  BY WorkspaceAlone, FitsNow DEF Workspace, UpsertSetting, At, SettingOps, Fits, WellFormed, Inv, PipelinesOK
<1>2. ASSUME NEW s \in Setting PROVE settings[s] \in Nat /\ Room(settings[s], Writers(SettingOps, s))
  BY <1>1 DEF SettingsRoom
<1>3. CASE At(q, "upsert_setting", "look")
  <2>1. UNCHANGED settings
    BY <1>3 DEF UpsertSetting, At, tables
  <2>2. ASSUME NEW s \in Setting PROVE Room(settings[s], Writers(SettingOps, s)')
    <3>1. CASE s = r.on /\ settings[s] = 0
      BY <3>1, WritersAre, RoomFound
    <3>2. CASE s = r.on /\ settings[s] # 0
      <4>1. req' = Over(q)
        BY <1>3, <3>2 DEF UpsertSetting, At
      <4>2. req'[q].pc # "write"
        BY <4>1, OverAlone DEF Idle
      <4>3. Writers(SettingOps, s)' \subseteq Writers(SettingOps, s)
        BY <1>1, <4>2, WritersKept
      <4>4. QED
        BY <1>2, <4>3, WritersAre, RoomKept
    <3>3. CASE s # r.on
      <4>1. Writers(SettingOps, s)' \subseteq Writers(SettingOps, s)
        BY <1>1, <3>3, WritersKept
      <4>2. QED
        BY <1>2, <4>1, WritersAre, RoomKept
    <3>4. QED
      BY <3>1, <3>2, <3>3
  <2>3. QED
    BY <2>1, <2>2 DEF SettingsRoom, Room
<1>4. CASE At(q, "upsert_setting", "write")
  <2>1. settings' = [settings EXCEPT ![r.on] = @ + 1] /\ req' = Over(q) /\ r.pc = "write"
    BY <1>4 DEF UpsertSetting, At
  <2>2. req'[q] = Idle
    BY <2>1, OverAlone
  <2>3. ASSUME NEW s \in Setting PROVE Room(settings'[s], Writers(SettingOps, s)')
    <3>1. Writers(SettingOps, s)' \subseteq Writers(SettingOps, s) \ {q}
      BY <1>1, <2>2, WritersLess
    <3>2. CASE s = r.on
      <4>1. q \in Writers(SettingOps, s) /\ settings'[s] = settings[s] + 1
        BY <1>1, <2>1, <3>2 DEF Writers
      <4>2. QED
        BY <1>2, <3>1, <4>1, WritersAre, RoomFilled
    <3>3. CASE s # r.on
      <4>1. settings'[s] = settings[s]
        BY <1>1, <2>1, <3>3
      <4>2. QED
        BY <1>2, <3>1, <4>1, WritersAre, RoomKept
    <3>4. QED
      BY <3>2, <3>3
  <2>4. QED
    BY <2>3 DEF SettingsRoom, Room
<1>5. QED
  BY <1>3, <1>4 DEF UpsertSetting

LEMMA SettingsRoomNext == ASSUME Inv, SettingsRoom, [Next]_vars PROVE SettingsRoom'
<1>1. ASSUME NEW q \in Req, Arrive(q) PROVE SettingsRoom'
  BY <1>1, ArriveAdds, SettingsShrink DEF Arrive, tables
<1>2. ASSUME NEW q \in Req, Accounts(q) PROVE SettingsRoom'
  <2>1. UNCHANGED settings /\ req[q].op \notin SettingOps
    BY <1>2 DEF Accounts, SignOn, FindUser, InsertUser, UpdateUser, DeleteUser, Unlock, LoginLook,
                LoginWrite, Decide, tables, OnlyUsers, At, SettingOps
  <2>2. QED
    BY <1>2, <2>1, AccountsAlone, WritersKept, SettingsShrink
<1>3. ASSUME NEW q \in Req, \/ EnsureProject(q) \/ Attach(q) \/ CreateProject(q) \/ UpdateProject(q)
                            \/ DeleteProject(q) \/ Place(q) \/ EnsurePipeline(q) \/ CreatePipeline(q)
                            \/ DeletePipeline(q)
      PROVE  SettingsRoom'
  <2>1. UNCHANGED settings /\ req[q].op \notin SettingOps /\ Workspace(q)
    BY <1>3 DEF EnsureProject, Attach, CreateProject, UpdateProject, DeleteProject, Place, EnsurePipeline,
                CreatePipeline, DeletePipeline, Decide, tables, OnlyProjects, OnlyPipelines, At, SettingOps,
                Workspace
  <2>2. QED
    BY <2>1, WorkspaceAlone, WritersKept, SettingsShrink
<1>4. ASSUME NEW q \in Req, UpsertSetting(q) PROVE SettingsRoom'
  BY <1>4, UpsertSettingRoom
<1>5. ASSUME Restart PROVE SettingsRoom'
  BY <1>5, RestartClears, SettingsShrink DEF Restart
<1>6. ASSUME UNCHANGED vars \/ \E u \in User : Expire(u) PROVE SettingsRoom'
  <2>1. UNCHANGED settings /\ UNCHANGED req
    BY <1>6 DEF vars, tables, Expire, OnlyUsers
  <2>2. QED
    BY <2>1, WritersSame, SettingsShrink
<1>7. QED
  BY <1>1, <1>2, <1>3, <1>4, <1>5, <1>6 DEF Next, Workspace

(***************************************************************************)
(* The theorem                                                              *)
(***************************************************************************)

LEMMA RoomInit == ASSUME Init PROVE UsersRoom /\ PipelinesRoom /\ SettingsRoom
<1>1. PICK system \in Installed :
        users = system.users /\ pipelines = system.pipelines /\ settings = system.settings
  BY DEF Init
<1>2. Fresh(system)
  BY ConsoleAssumption
<1>3. \A ops, key : Writers(ops, key) = {}
  BY DEF Init, Writers, Idle
<1>4. ASSUME NEW n \in Nat, n <= 1 PROVE Room(n, {})
  BY <1>4, RoomFirst
<1>5. UsersRoom
  <2>1. ASSUME NEW u \in User PROVE Len(users[u]) \in Nat /\ Len(users[u]) <= 1
    <3>1. users[u] \in Seq(UserRow) /\ Len(users[u]) <= 1
      BY <1>1, <1>2 DEF Fresh
    <3>2. QED
      BY <3>1, LenProperties
  <2>2. QED
    BY <1>3, <1>4, <2>1 DEF UsersRoom
<1>6. SettingsRoom
  <2>1. \A s \in Setting : settings[s] \in Nat /\ settings[s] <= 1
    BY <1>1, <1>2 DEF Fresh
  <2>2. QED
    BY <1>3, <1>4, <2>1 DEF SettingsRoom
<1>7. PipelinesRoom
  <2>1. ASSUME NEW e \in Event PROVE IsFiniteSet(Promoted(e)) /\ Cardinality(Promoted(e)) \in {0, 1}
    <3>1. \A p, r \in Promoted(e) : p = r
      BY <1>1, <1>2 DEF Fresh, Promoted
    <3>2. CASE Promoted(e) = {}
      BY <3>2, FS_EmptySet
    <3>3. CASE Promoted(e) # {}
      <4>1. PICK p : Promoted(e) = {p}
        BY <3>1, <3>3
      <4>2. QED
        BY <4>1, FS_Singleton
    <3>4. QED
      BY <3>2, <3>3
  <2>2. QED
    BY <1>3, <2>1, RoomFirst DEF PipelinesRoom
<1>8. QED
  BY <1>5, <1>6, <1>7

(* However many requests come and go, a username, the promoted pipeline of an  *)
(* event and a setting have at most as many rows as requests are served at     *)
(* once (users.py:30, pipelines.py:16, admin_config.py: get, then insert).     *)
THEOREM FewDuplicates == Spec => []DuplicatesBounded
<1> DEFINE Rooms == UsersRoom /\ PipelinesRoom /\ SettingsRoom
<1>1. Init => Inv /\ Rooms
  BY InitInv, RoomInit
<1>2. Inv /\ Rooms /\ [Next]_vars => (Inv /\ Rooms)'
  <2>1. SUFFICES ASSUME Inv, Rooms, [Next]_vars PROVE (Inv /\ Rooms)'
    OBVIOUS
  <2>2. Inv'
    BY <2>1, NextKeeps
  <2>3. UsersRoom' /\ PipelinesRoom' /\ SettingsRoom'
    BY <2>1, <2>2, UsersRoomNext, PipelinesRoomNext, SettingsRoomNext
  <2>4. QED
    BY <2>2, <2>3
<1>3. Inv /\ Rooms => DuplicatesBounded
  <2>1. SUFFICES ASSUME Inv, Rooms PROVE DuplicatesBounded
    OBVIOUS
  <2>2. ASSUME NEW n \in Nat, NEW W \in SUBSET Req, Room(n, W) PROVE n <= Cardinality(Req)
    <3>1. Cardinality(W) \in Nat /\ Cardinality(Req) \in Nat
      BY ConsoleAssumption, FS_Subset, FS_CardinalityType
    <3>2. QED
      BY <2>2, <3>1 DEF Room
  <2>3. \A u \in User : Len(users[u]) <= Cardinality(Req)
    BY <2>1, <2>2, LenOf, WritersAre DEF UsersRoom
  <2>4. \A e \in Event : Cardinality(Promoted(e)) <= Cardinality(Req)
    BY <2>1, <2>2, WritersAre, FS_CardinalityType DEF PipelinesRoom
  <2>5. \A s \in Setting : settings[s] <= Cardinality(Req)
    BY <2>1, <2>2, WritersAre DEF SettingsRoom, Inv, PipelinesOK
  <2>6. QED
    BY <2>3, <2>4, <2>5 DEF DuplicatesBounded, Promoted
<1> HIDE DEF Rooms
<1>4. QED
  BY <1>1, <1>2, <1>3, PTL DEF Spec
=============================================================================
