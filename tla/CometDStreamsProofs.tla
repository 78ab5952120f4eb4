------------------------ MODULE CometDStreamsProofs ------------------------
(* What holds of the streams for every number of orgs, managers and          *)
(* overlapping requests.                                                     *)
EXTENDS CometDStreams, TLAPS

USE StreamsAssumption

LEMMA NewIsManager ==
    ASSUME NEW o \in Org, NEW c \in Conf \cup {None}
    PROVE  /\ New(o, c) \in Manager
           /\ New(o, c).pc = "top" /\ New(o, c).org = o
           /\ ~New(o, c).stopped /\ ~New(o, c).cancelled
BY DEF New, Unused, Manager, Waiting, Over

(* A task that is not done knows its org.                                    *)
OrgKnown == \A m \in Mgr : mgr[m].pc \in Waiting \cup {"stream"} => mgr[m].org \in Org

(* A request that waits for a stop knows the manager and the org.            *)
StoppingOK ==
    \A r \in Req : req[r].pc = "stopping" => req[r].stopping \in Mgr /\ req[r].at \in Org

Typed == TypeOK /\ OrgKnown /\ StoppingOK

LEMMA StopTaskType ==
    ASSUME Typed, NEW m \in Mgr
    PROVE  /\ StopTask(m) \in [Mgr -> Manager]
           /\ \A n \in Mgr : /\ StopTask(m)[n].pc = mgr[n].pc
                             /\ StopTask(m)[n].org = mgr[n].org
BY DEF StopTask, Typed, TypeOK, Unused, Manager, Waiting, Over

LEMMA DoneType ==
    ASSUME Typed, NEW m \in Mgr, NEW pc \in Over, Done(m, pc)
    PROVE  mgr' \in [Mgr -> Manager] /\ OrgKnown'
BY DEF Done, Typed, TypeOK, OrgKnown, Unused, Manager, Waiting, Over

LEMMA GoType ==
    ASSUME Typed, NEW m \in Mgr, NEW pc \in {"stream"} \cup Waiting, Go(m, pc),
           mgr[m].pc \in Waiting
    PROVE  mgr' \in [Mgr -> Manager] /\ OrgKnown'
BY DEF Go, Typed, TypeOK, OrgKnown, Manager, Waiting, Over

LEMMA AtRestType == AtRest \in Request
BY DEF AtRest, Request

LEMMA AfterType ==
    ASSUME Typed, NEW m \in Mgr, NEW c \in BOOLEAN, After(m, c),
           mgr[m].pc \in Waiting \cup {"stream"}
    PROVE  TypeOK' /\ OrgKnown'
<1>1. mgr' \in [Mgr -> Manager] /\ OrgKnown'
  <2>1. CASE mgr[m].stopped
    BY <2>1, DoneType DEF After, Over
  <2>2. CASE ~mgr[m].stopped
    BY <2>2 DEF After, Typed, TypeOK, OrgKnown, Manager, Waiting, Over
  <2> QED BY <2>1, <2>2
<1>2. told' \in [Org -> 0..2]
  BY DEF After, Typed, TypeOK, Manager
<1> QED BY <1>1, <1>2 DEF After, Typed, TypeOK

-----------------------------------------------------------------------------
LEMMA SyncType ==
    ASSUME Typed, NEW r \in Req, NEW table \in [Org -> Row \cup {None}],
           NEW only \in SUBSET Org, Sync(r, table, only),
           channels' \in [Org -> SUBSET Channel],
           phase' \in {"starting", "up", "stopping", "down"}
    PROVE  Typed'
<1> DEFINE snap == [o \in Org |-> IF o \in Active(table) THEN table[o].conf ELSE None]
           q == [AtRest EXCEPT !.pc = "run", !.purge = Tracked \ Active(table),
                               !.start = only \cap Active(table), !.snap = snap]
<1>1. snap \in [Org -> Conf \cup {None}]
  BY DEF Active, Row
<1>2. q \in Request /\ q.pc = "run"
  BY <1>1, AtRestType DEF Request, Tracked, AtRest
<1>3. req' = [req EXCEPT ![r] = q] /\ loop' = r /\ rows' = table
  BY DEF Sync
<1>4. UNCHANGED <<managers, mgr, told>>
  BY DEF Sync
<1> HIDE DEF q
<1> QED BY <1>2, <1>3, <1>4 DEF Typed, TypeOK, OrgKnown, StoppingOK

LEMMA FailedType ==
    LET q == [AtRest EXCEPT !.pc = "failed"] IN q \in Request /\ q.pc = "failed"
BY AtRestType DEF Request, AtRest

LEMMA ToStopping ==
    ASSUME Typed, NEW r \in Req, NEW m \in Mgr, NEW o \in Org,
           req' = [req EXCEPT ![r].pc = "stopping", ![r].stopping = m, ![r].at = o]
    PROVE  req' \in [Req -> Request] /\ StoppingOK'
<1> DEFINE q == req'[r]
<1>1. q \in Request
  <2>1. req[r] \in Request /\ q = [req[r] EXCEPT !.pc = "stopping", !.stopping = m, !.at = o]
    BY DEF Typed, TypeOK
  <2> HIDE DEF q
  <2>2. [req[r] EXCEPT !.pc = "stopping"] \in Request
    BY <2>1 DEF Request
  <2>3. [[req[r] EXCEPT !.pc = "stopping"] EXCEPT !.stopping = m] \in Request
    BY <2>2 DEF Request
  <2>4. [[[req[r] EXCEPT !.pc = "stopping"] EXCEPT !.stopping = m] EXCEPT !.at = o] \in Request
    BY <2>3 DEF Request
  <2> QED BY <2>1, <2>4
<1>2. req' = [req EXCEPT ![r] = q]
  BY DEF Typed, TypeOK
<1>3. q.pc = "stopping"
  BY DEF Typed, TypeOK, Request
<1>4. q.stopping = m
  BY DEF Typed, TypeOK, Request
<1>5. q.at = o
  BY DEF Typed, TypeOK, Request
<1> HIDE DEF q
<1>6. req' \in [Req -> Request]
  BY <1>1, <1>2 DEF Typed, TypeOK
<1>7. \A n \in Req : n # r => req'[n] = req[n]
  BY <1>2 DEF Typed, TypeOK
<1>8. req'[r] = q
  BY <1>2 DEF Typed, TypeOK
<1> QED BY <1>3, <1>4, <1>5, <1>6, <1>7, <1>8 DEF Typed, StoppingOK

LEMMA StopType ==
    ASSUME Typed, NEW r \in Req, NEW o \in Org, Stop(r, o)
    PROVE  Typed'
<1> DEFINE m == managers[o]
<1>1. /\ m \in Mgr
      /\ mgr' = [mgr EXCEPT ![m].stopped = TRUE]
      /\ req' = [req EXCEPT ![r].pc = "stopping", ![r].stopping = m, ![r].at = o]
  BY DEF Stop, Typed, TypeOK
<1>2. req' \in [Req -> Request] /\ StoppingOK'
  <2> HIDE DEF m
  <2> QED BY <1>1, ToStopping
<1>3. mgr' \in [Mgr -> Manager] /\ OrgKnown'
  <2> HIDE DEF m
  <2>1. mgr \in [Mgr -> Manager]
    BY DEF Typed, TypeOK
  <2>2. mgr' \in [Mgr -> Manager]
    BY <1>1, <2>1 DEF Manager
  <2>3. \A n \in Mgr : mgr'[n].pc = mgr[n].pc /\ mgr'[n].org = mgr[n].org
    BY <1>1, <2>1 DEF Manager
  <2> QED BY <2>2, <2>3 DEF Typed, OrgKnown
<1> QED BY <1>2, <1>3 DEF Stop, Typed, TypeOK

(* A request moves on to its next org.                                       *)
LEMMA MovesOn ==
    ASSUME Typed, NEW r \in Req, NEW S \in SUBSET Org,
           \/ req' = [req EXCEPT ![r].pc = "run", ![r].start = S,
                                 ![r].stopping = None, ![r].at = None]
           \/ req' = [req EXCEPT ![r].pc = "run", ![r].purge = S,
                                 ![r].stopping = None, ![r].at = None]
    PROVE  req' \in [Req -> Request] /\ StoppingOK'
<1> DEFINE q == req'[r]
<1>1. q \in Request /\ q.pc = "run"
  BY DEF Typed, TypeOK, Request
<1>2. req' = [req EXCEPT ![r] = q]
  BY DEF Typed, TypeOK, OrgKnown
<1> HIDE DEF q
<1> QED BY <1>1, <1>2 DEF Typed, TypeOK, StoppingOK

LEMMA ForgetType ==
    ASSUME Typed, NEW r \in Req, Forget(r)
    PROVE  Typed'
<1>1. req[r].stopping \in Mgr /\ req[r].at \in Org
  BY DEF Forget, Returning, Typed, StoppingOK
<1>2. mgr' \in [Mgr -> Manager] /\ OrgKnown'
  BY <1>1, StopTaskType DEF Forget, Typed, OrgKnown
<1>3. CASE managers[req[r].at] = None
  <2>1. req' = [req EXCEPT ![r] = [AtRest EXCEPT !.pc = "failed"]]
    BY <1>3 DEF Forget
  <2>2. req' \in [Req -> Request] /\ StoppingOK'
    BY <2>1, FailedType DEF Typed, TypeOK, StoppingOK
  <2> QED BY <1>2, <1>3, <2>2 DEF Forget, Typed, TypeOK, OrgKnown
<1>4. CASE managers[req[r].at] # None
  <2> DEFINE S == req[r].purge \ {req[r].at}
  <2>1. S \in SUBSET Org
    BY DEF Typed, TypeOK, Request
  <2>2. req' = [req EXCEPT ![r].pc = "run", ![r].purge = S,
                           ![r].stopping = None, ![r].at = None]
    BY <1>4 DEF Forget
  <2>3. req' \in [Req -> Request] /\ StoppingOK'
    <3> HIDE DEF S
    <3> QED BY <2>1, <2>2, MovesOn
  <2> QED BY <1>2, <1>4, <2>3 DEF Forget, Typed, TypeOK, OrgKnown
<1> QED BY <1>3, <1>4

LEMMA StartedType ==
    ASSUME Typed, NEW r \in Req, NEW o \in Org, req' = Started(r, o)
    PROVE  req' \in [Req -> Request] /\ StoppingOK'
<1> DEFINE S == req[r].start \ {o}
<1>1. S \in SUBSET Org
  BY DEF Typed, TypeOK, Request
<1>2. req' = [req EXCEPT ![r].pc = "run", ![r].start = S,
                         ![r].stopping = None, ![r].at = None]
  BY DEF Started
<1> HIDE DEF S
<1> QED BY <1>1, <1>2, MovesOn

LEMMA LaunchType ==
    ASSUME Typed, NEW r \in Req, NEW o \in Org, NEW m \in Mgr, Launch(r, o, m)
    PROVE  Typed'
<1>1. New(o, req[r].snap[o]) \in Manager /\ New(o, req[r].snap[o]).org = o
  BY NewIsManager DEF Typed, TypeOK, Request
<1>2. req' \in [Req -> Request] /\ StoppingOK'
  BY StartedType DEF Launch
<1>3. mgr' \in [Mgr -> Manager] /\ managers' \in [Org -> Mgr \cup {None}] /\ OrgKnown'
  BY <1>1 DEF Launch, Typed, TypeOK, OrgKnown
<1> QED BY <1>2, <1>3 DEF Launch, Typed, TypeOK, OrgKnown

LEMMA RelaunchType ==
    ASSUME Typed, NEW r \in Req, NEW m \in Mgr, Relaunch(r, m)
    PROVE  Typed'
<1>1. req[r].stopping \in Mgr /\ req[r].at \in Org
  BY DEF Relaunch, Returning, Typed, StoppingOK
<1>2. /\ New(req[r].at, req[r].snap[req[r].at]) \in Manager
      /\ New(req[r].at, req[r].snap[req[r].at]).org = req[r].at
  BY <1>1, NewIsManager DEF Typed, TypeOK, Request
<1>3. req' \in [Req -> Request] /\ StoppingOK'
  BY <1>1, StartedType DEF Relaunch
<1>4. /\ StopTask(req[r].stopping) \in [Mgr -> Manager]
      /\ \A n \in Mgr : /\ StopTask(req[r].stopping)[n].pc = mgr[n].pc
                        /\ StopTask(req[r].stopping)[n].org = mgr[n].org
  BY <1>1, StopTaskType DEF Typed
<1>5. mgr' \in [Mgr -> Manager] /\ managers' \in [Org -> Mgr \cup {None}] /\ OrgKnown'
  BY <1>1, <1>2, <1>4 DEF Relaunch, Typed, TypeOK, OrgKnown
<1> QED BY <1>3, <1>5 DEF Relaunch, Typed, TypeOK, OrgKnown

LEMMA StoppedOneType ==
    ASSUME Typed, NEW r \in Req, StoppedOne(r)
    PROVE  Typed'
<1> DEFINE S == req[r].purge \ {req[r].at}
<1>1. S \in SUBSET Org
  BY DEF Typed, TypeOK, Request
<1>2. req' = [req EXCEPT ![r].pc = "run", ![r].purge = S,
                         ![r].stopping = None, ![r].at = None]
  BY DEF StoppedOne
<1>3. req' \in [Req -> Request] /\ StoppingOK'
  <2> HIDE DEF S
  <2> QED BY <1>1, <1>2, MovesOn
<1>4. mgr' \in [Mgr -> Manager] /\ OrgKnown'
  BY StopTaskType DEF StoppedOne, Returning, Typed, StoppingOK, OrgKnown
<1> QED BY <1>3, <1>4 DEF StoppedOne, Typed, TypeOK, OrgKnown

LEMMA RestType ==
    ASSUME Typed, NEW r \in Req, NEW q \in Request, q.pc # "stopping",
           req' = [req EXCEPT ![r] = q]
    PROVE  req' \in [Req -> Request] /\ StoppingOK'
BY DEF Typed, TypeOK, StoppingOK

LEMMA AskType ==
    ASSUME Typed, NEW r \in Req, Ask(r)
    PROVE  Typed'
<1>1. CASE Startup(r)
  <2>1. Org \in SUBSET Org
    OBVIOUS
  <2> QED BY <1>1, <2>1, SyncType DEF Startup, Typed, TypeOK
<1>2. CASE Resync(r)
  <2>1. Org \in SUBSET Org
    OBVIOUS
  <2> QED BY <1>2, <2>1, SyncType DEF Resync, Serving, Typed, TypeOK
<1>3. CASE Shutdown(r)
  <2> DEFINE q == [AtRest EXCEPT !.pc = "run", !.all = TRUE, !.purge = Tracked]
  <2>1. q \in Request /\ q.pc = "run"
    BY AtRestType DEF Request, AtRest, Tracked
  <2>2. req' = [req EXCEPT ![r] = q]
    BY <1>3 DEF Shutdown
  <2> HIDE DEF q
  <2> QED BY <1>3, <2>1, <2>2, RestType DEF Shutdown, Typed, TypeOK, OrgKnown
<1>4. ASSUME NEW o \in Org, NEW row \in Row,
             CreateOrg(r, o, row) \/ UpdateOrg(r, o, row)
      PROVE  Typed'
  <2>1. [rows EXCEPT ![o] = row] \in [Org -> Row \cup {None}]
    BY DEF Typed, TypeOK, OrgKnown
  <2>2. Sync(r, [rows EXCEPT ![o] = row], {o}) /\ phase' = phase /\ channels' = channels
    BY <1>4 DEF CreateOrg, UpdateOrg, Serving
  <2>3. {o} \in SUBSET Org
    OBVIOUS
  <2> QED BY <2>1, <2>2, <2>3, SyncType DEF Typed, TypeOK
<1>5. ASSUME NEW o \in Org, DeleteOrg(r, o)
      PROVE  Typed'
  <2>1. [rows EXCEPT ![o] = None] \in [Org -> Row \cup {None}]
    BY DEF Typed, TypeOK, OrgKnown
  <2>2. Sync(r, [rows EXCEPT ![o] = None], {o}) /\ phase' = phase /\ channels' = channels
    BY <1>5 DEF DeleteOrg, Serving
  <2>3. {o} \in SUBSET Org
    OBVIOUS
  <2> QED BY <2>1, <2>2, <2>3, SyncType DEF Typed, TypeOK
<1>6. ASSUME NEW o \in Org, NEW new \in SUBSET Channel, EditEvents(r, o, new)
      PROVE  Typed'
  <2>1. Sync(r, rows, {o}) /\ phase' = phase
    BY <1>6 DEF EditEvents, Serving
  <2>2. channels' \in [Org -> SUBSET Channel]
    BY <1>6 DEF EditEvents, Typed, TypeOK
  <2>3. {o} \in SUBSET Org
    OBVIOUS
  <2> QED BY <2>1, <2>2, <2>3, SyncType DEF Typed, TypeOK
<1>7. ASSUME NEW orgs \in SUBSET Org, NEW row \in Row, NEW new \in SUBSET Channel,
             ImportConfig(r, orgs, row, new)
      PROVE  Typed'
  <2> DEFINE table == [o \in Org |-> IF o \in orgs THEN row ELSE rows[o]]
  <2>1. table \in [Org -> Row \cup {None}]
    BY DEF Typed, TypeOK, OrgKnown
  <2>2. channels' \in [Org -> SUBSET Channel]
    BY <1>7 DEF ImportConfig, Typed, TypeOK, OrgKnown
  <2>3. Sync(r, table, Org) /\ phase' = phase
    BY <1>7 DEF ImportConfig, Serving
  <2> HIDE DEF table
  <2>4. Org \in SUBSET Org
    OBVIOUS
  <2> QED BY <2>1, <2>2, <2>3, <2>4, SyncType DEF Typed, TypeOK
<1> QED BY <1>1, <1>2, <1>3, <1>4, <1>5, <1>6, <1>7 DEF Ask

LEMMA TaskType ==
    ASSUME Typed, NEW m \in Mgr, Task(m)
    PROVE  Typed'
<1>1. Typed /\ TypeOK /\ UNCHANGED <<managers, req, loop>>
  BY DEF Task, Typed, Begin, LoginRefused, LoginMalformed, LoggedIn, HandshakeFailed,
         Connected, Lost, Cancelled, After
<1>2. CASE LoginRefused(m) \/ HandshakeFailed(m) \/ Lost(m)
  <2>1. TypeOK' /\ OrgKnown'
    BY <1>1, <1>2, AfterType DEF LoginRefused, HandshakeFailed, Lost, Resumed, Waiting
  <2> QED BY <1>1, <2>1 DEF Typed, StoppingOK
<1>3. CASE LoginMalformed(m) \/ Cancelled(m)
  <2>1. mgr' \in [Mgr -> Manager] /\ OrgKnown'
    BY <1>1, <1>3, DoneType DEF LoginMalformed, Cancelled, Over
  <2> QED BY <1>1, <1>3, <2>1 DEF LoginMalformed, Cancelled, Typed, TypeOK, StoppingOK
<1>4. CASE LoggedIn(m) \/ Connected(m)
  <2>1. mgr' \in [Mgr -> Manager] /\ OrgKnown'
    BY <1>1, <1>4, GoType DEF LoggedIn, Connected, Resumed, Waiting
  <2>2. told' \in [Org -> 0..2]
    BY <1>1, <1>4 DEF LoggedIn, Connected, TypeOK
  <2> QED BY <1>1, <1>4, <2>1, <2>2 DEF LoggedIn, Connected, Typed, TypeOK, StoppingOK
<1>5. CASE Begin(m)
  <2>1. mgr[m] \in Manager /\ mgr[m].pc \in {"top", "sleep"}
    BY <1>1, <1>5 DEF Begin, Resumed, TypeOK
  <2>2. mgr' \in [Mgr -> Manager] /\ OrgKnown'
    <3>1. CASE Done(m, "ended") \/ Done(m, "idle")
      BY <1>1, <3>1, DoneType DEF Over
    <3>2. CASE ~(Done(m, "ended") \/ Done(m, "idle"))
      <4> DEFINE S == channels[mgr[m].org]
      <4>1. mgr' = [mgr EXCEPT ![m].pc = "login", ![m].subs = S]
        BY <1>5, <3>2 DEF Begin
      <4>2. S \in SUBSET Channel
        BY <1>1, <1>5, <2>1 DEF Typed, OrgKnown, TypeOK, Waiting
      <4> HIDE DEF S
      <4> QED BY <1>1, <1>5, <2>1, <4>1, <4>2 DEF Typed, TypeOK, OrgKnown, Manager, Waiting
    <3> QED BY <3>1, <3>2
  <2> QED BY <1>1, <1>5, <2>2 DEF Begin, Typed, TypeOK, StoppingOK
<1> QED BY <1>2, <1>3, <1>4, <1>5 DEF Task

LEMMA ServeType ==
    ASSUME Typed, NEW r \in Req, Serve(r)
    PROVE  Typed'
<1>1. ASSUME NEW o \in Org, Missing(r, o)
      PROVE  Typed'
  BY <1>1, FailedType, RestType DEF Missing, Typed, TypeOK, OrgKnown
<1>2. CASE Finish(r) \/ Clear(r)
  <2>1. req' = [req EXCEPT ![r] = AtRest] /\ AtRest.pc = "idle"
    BY <1>2 DEF Finish, Clear, AtRest
  <2> QED BY <1>2, <2>1, AtRestType, RestType DEF Finish, Clear, Typed, TypeOK, OrgKnown
<1> QED BY <1>1, <1>2, StopType, ForgetType, StoppedOneType, LaunchType, RelaunchType DEF Serve

LEMMA TypedInit == Init => Typed
<1> SUFFICES ASSUME Init PROVE Typed
  OBVIOUS
<1>1. Unused \in Manager /\ Unused.pc = "unused"
  BY DEF Unused, Manager
<1>2. AtRest \in Request /\ AtRest.pc = "idle"
  BY AtRestType DEF AtRest
<1> QED BY <1>1, <1>2 DEF Init, Typed, TypeOK, OrgKnown, StoppingOK, Waiting

LEMMA TypedStep == Typed /\ [Next]_vars => Typed'
<1> SUFFICES ASSUME Typed, [Next]_vars PROVE Typed'
  OBVIOUS
<1>1. CASE UNCHANGED vars
  BY <1>1 DEF vars, Typed, TypeOK, OrgKnown, StoppingOK
<1> QED BY <1>1, TaskType, AskType, ServeType DEF Next

(* Every reachable state is well typed.                                      *)
THEOREM TypeCorrect == Spec => []TypeOK
BY TypedInit, TypedStep, PTL DEF Spec, Typed

-----------------------------------------------------------------------------
(* What the steps of a supervisor and the ends of a stop do to the managers. *)

LEMMA TaskKeeps ==
    ASSUME Typed, NEW m \in Mgr, Task(m)
    PROVE  /\ UNCHANGED <<managers, req, loop, phase>>
           /\ loop = None
           /\ \A n \in Mgr \ {m} : mgr'[n] = mgr[n]
           /\ mgr'[m].stopped => mgr[m].stopped
           /\ mgr'[m].cancelled => mgr[m].cancelled
           /\ mgr'[m].pc \in Waiting \cup {"stream"}
                 => /\ mgr[m].pc \in Waiting \cup {"stream"}
                    /\ ~mgr[m].cancelled
                    /\ mgr'[m].org = mgr[m].org
           /\ mgr[m].stopped /\ mgr[m].pc = "stream" => mgr'[m].pc \notin Waiting
<1> USE DEF Typed, TypeOK
<1>1. ASSUME NEW pc \in Over, Done(m, pc)
      PROVE  /\ \A n \in Mgr \ {m} : mgr'[n] = mgr[n]
             /\ mgr'[m].stopped => mgr[m].stopped
             /\ ~mgr'[m].cancelled
             /\ mgr'[m].pc \in Over \cup {"unused"}
  BY <1>1 DEF Done, Unused, Over
<1>2. ASSUME NEW pc \in Waiting \cup {"stream"}, Go(m, pc)
      PROVE  /\ \A n \in Mgr \ {m} : mgr'[n] = mgr[n]
             /\ mgr'[m].stopped = mgr[m].stopped
             /\ mgr'[m].cancelled = mgr[m].cancelled
             /\ mgr'[m].org = mgr[m].org /\ mgr'[m].pc = pc
  BY <1>2 DEF Go, Manager
<1>3. ASSUME NEW c \in BOOLEAN, After(m, c), ~mgr[m].stopped
      PROVE  /\ \A n \in Mgr \ {m} : mgr'[n] = mgr[n]
             /\ mgr'[m].stopped = mgr[m].stopped
             /\ mgr'[m].cancelled = mgr[m].cancelled
             /\ mgr'[m].org = mgr[m].org
  BY <1>3 DEF After, Manager
<1>4. CASE LoginMalformed(m) \/ Cancelled(m)
  BY <1>1, <1>4 DEF LoginMalformed, Cancelled, Resumed, Over, Waiting
<1>5. CASE LoggedIn(m) \/ Connected(m)
  BY <1>2, <1>5 DEF LoggedIn, Connected, Resumed, Waiting
<1>6. CASE LoginRefused(m) \/ HandshakeFailed(m) \/ Lost(m)
  <2>1. mgr[m].stopped => Done(m, "ended")
    BY <1>6 DEF LoginRefused, HandshakeFailed, Lost, After
  <2> QED BY <1>1, <1>3, <1>6, <2>1
          DEF LoginRefused, HandshakeFailed, Lost, Resumed, After, Over, Waiting
<1>7. CASE Begin(m)
  <2>1. ~Done(m, "ended") /\ ~Done(m, "idle")
           => mgr' = [mgr EXCEPT ![m].pc = "login", ![m].subs = channels[mgr[m].org]]
    BY <1>7 DEF Begin
  <2>2. CASE Done(m, "ended") \/ Done(m, "idle")
    BY <1>1, <1>7, <2>2 DEF Begin, Resumed, Over, Waiting
  <2>3. CASE ~Done(m, "ended") /\ ~Done(m, "idle")
    BY <1>7, <2>1, <2>3 DEF Begin, Resumed, Waiting, Manager
  <2> QED BY <2>2, <2>3
<1> QED BY <1>4, <1>5, <1>6, <1>7 DEF Task

LEMMA StopTaskKeeps ==
    ASSUME Typed, NEW m \in Mgr
    PROVE  /\ \A n \in Mgr \ {m} : StopTask(m)[n] = mgr[n]
           /\ StopTask(m)[m].pc = mgr[m].pc
           /\ StopTask(m)[m].org = mgr[m].org
           /\ StopTask(m)[m].stopped = mgr[m].stopped
           /\ StopTask(m)[m].pc \notin Over => StopTask(m)[m].cancelled
<1>1. CASE mgr[m].pc \in Over
  BY <1>1 DEF StopTask
<1>2. CASE mgr[m].pc \notin Over
  <2> DEFINE n == [Unused EXCEPT !.pc = mgr[m].pc, !.org = mgr[m].org,
                                 !.stopped = mgr[m].stopped, !.cancelled = TRUE]
  <2>1. /\ n.pc = mgr[m].pc /\ n.org = mgr[m].org
        /\ n.stopped = mgr[m].stopped /\ n.cancelled
    BY DEF Unused
  <2>2. StopTask(m) = [mgr EXCEPT ![m] = n]
    BY <1>2 DEF StopTask
  <2> HIDE DEF n
  <2> QED BY <2>1, <2>2 DEF Typed, TypeOK
<1> QED BY <1>1, <1>2

LEMMA AskKeeps ==
    ASSUME Typed, NEW r \in Req, Ask(r)
    PROVE  /\ UNCHANGED <<managers, mgr>>
           /\ loop = None /\ ~Busy(r)
           /\ \A s \in Req \ {r} : req'[s] = req[s]
           /\ req'[r].pc = "run"
           /\ req'[r].all => phase' = "stopping"
           /\ \/ phase = "starting" /\ phase' = "up"
              \/ phase = "up" /\ phase' \in {"up", "stopping"}
<1> USE DEF Typed, TypeOK
<1>1. ASSUME NEW table, NEW only, Sync(r, table, only)
      PROVE  /\ UNCHANGED <<managers, mgr>>
             /\ loop = None /\ ~Busy(r)
             /\ \A s \in Req \ {r} : req'[s] = req[s]
             /\ req'[r].pc = "run" /\ ~req'[r].all
  BY <1>1 DEF Sync, AtRest
<1>2. CASE Startup(r)
  BY <1>1, <1>2 DEF Startup
<1>3. CASE Shutdown(r)
  BY <1>3 DEF Shutdown, Quiet, AtRest
<1>4. CASE Resync(r)
  BY <1>1, <1>4 DEF Resync, Serving
<1>5. ASSUME NEW o \in Org, NEW row \in Row, CreateOrg(r, o, row) \/ UpdateOrg(r, o, row)
      PROVE  /\ Sync(r, [rows EXCEPT ![o] = row], {o}) /\ phase = "up" /\ phase' = "up"
  BY <1>5 DEF CreateOrg, UpdateOrg, Serving
<1>6. ASSUME NEW o \in Org, DeleteOrg(r, o)
      PROVE  Sync(r, [rows EXCEPT ![o] = None], {o}) /\ phase = "up" /\ phase' = "up"
  BY <1>6 DEF DeleteOrg, Serving
<1>7. ASSUME NEW o \in Org, NEW new \in SUBSET Channel, EditEvents(r, o, new)
      PROVE  Sync(r, rows, {o}) /\ phase = "up" /\ phase' = "up"
  BY <1>7 DEF EditEvents, Serving
<1>8. ASSUME NEW orgs \in SUBSET Org, NEW row \in Row, NEW new \in SUBSET Channel,
             ImportConfig(r, orgs, row, new)
      PROVE  /\ Sync(r, [o \in Org |-> IF o \in orgs THEN row ELSE rows[o]], Org)
             /\ phase = "up" /\ phase' = "up"
  BY <1>8 DEF ImportConfig, Serving
<1> QED BY <1>1, <1>2, <1>3, <1>4, <1>5, <1>6, <1>7, <1>8 DEF Ask

(* The end of a stop: its task is asked to end, its org loses the manager or *)
(* gets a new one.                                                           *)
Returned(r) == Forget(r) \/ StoppedOne(r) \/ \E m \in Mgr : Relaunch(r, m)

(* What changes nothing but the request itself.                              *)
Turn(r) == Finish(r) \/ \E o \in Org : Missing(r, o)

LEMMA TurnKeeps ==
    ASSUME Typed, NEW r \in Req, Turn(r)
    PROVE  /\ UNCHANGED <<managers, mgr, phase>>
           /\ loop = r /\ req[r].pc = "run"
           /\ \A s \in Req \ {r} : req'[s] = req[s]
           /\ req'[r].pc \in {"idle", "failed"} /\ ~req'[r].all
BY DEF Turn, Finish, Missing, Typed, TypeOK, AtRest

LEMMA StopKeeps ==
    ASSUME Typed, NEW r \in Req, NEW o \in Org, NEW m \in Mgr, m = managers[o], Stop(r, o)
    PROVE  /\ \A n \in Mgr : mgr'[n].pc = mgr[n].pc /\ mgr'[n].org = mgr[n].org
           /\ \A n \in Mgr : mgr'[n].cancelled => mgr[n].cancelled
           /\ \A n \in Mgr : mgr[n].cancelled => mgr'[n].cancelled
           /\ \A n \in Mgr \ {m} : mgr'[n].stopped => mgr[n].stopped
<1>1. mgr' = [mgr EXCEPT ![m].stopped = TRUE]
  BY DEF Stop
<1> QED BY <1>1 DEF Typed, TypeOK, Manager

LEMMA StopRequest ==
    ASSUME Typed, NEW r \in Req, NEW o \in Org, NEW m \in Mgr, m = managers[o], Stop(r, o)
    PROVE  /\ managers' = managers /\ phase' = phase
           /\ loop = r /\ req[r].pc = "run"
           /\ loop' = IF mgr[m].pc = "stream" THEN None ELSE r
           /\ \A s \in Req \ {r} : req'[s] = req[s]
           /\ req'[r].pc = "stopping" /\ req'[r].stopping = m /\ req'[r].at = o
           /\ req'[r].all => req[r].all
<1>1. req' = [req EXCEPT ![r].pc = "stopping", ![r].stopping = m, ![r].at = o]
  BY DEF Stop
<1>2. /\ req'[r].pc = "stopping" /\ req'[r].stopping = m /\ req'[r].at = o
      /\ req'[r].all => req[r].all
  <2>1. req'[r].pc = "stopping"
    BY <1>1 DEF Typed, TypeOK, Request
  <2>2. req'[r].stopping = m
    BY <1>1 DEF Typed, TypeOK, Request
  <2>3. req'[r].at = o
    BY <1>1 DEF Typed, TypeOK, Request
  <2>4. req'[r].all => req[r].all
    BY <1>1 DEF Typed, TypeOK, Request
  <2> QED BY <2>1, <2>2, <2>3, <2>4
<1>3. \A s \in Req \ {r} : req'[s] = req[s]
  BY <1>1 DEF Typed, TypeOK
<1>4. /\ managers' = managers /\ phase' = phase /\ loop = r /\ req[r].pc = "run"
      /\ loop' = IF mgr[m].pc = "stream" THEN None ELSE r
  BY DEF Stop
<1> QED BY <1>2, <1>3, <1>4

LEMMA ReturnedKeeps ==
    ASSUME Typed, NEW r \in Req, Returned(r)
    PROVE  /\ req[r].pc = "stopping" /\ loop \in {None, r}
           /\ req[r].stopping \in Mgr /\ req[r].at \in Org
           /\ phase' = phase
           /\ \A s \in Req \ {r} : req'[s] = req[s]
           /\ req'[r].pc \in {"run", "failed"}
           /\ req'[r].all => req[r].all
           /\ loop' \in {None, r}
<1>1. /\ req[r].pc = "stopping" /\ loop \in {None, r} /\ phase' = phase
      /\ loop' \in {None, r}
  BY DEF Returned, Forget, StoppedOne, Relaunch, Returning
<1>2. req[r].stopping \in Mgr /\ req[r].at \in Org
  BY <1>1 DEF Typed, StoppingOK
<1>3. \A s \in Req \ {r} : req'[s] = req[s]
  BY DEF Returned, Forget, StoppedOne, Relaunch, Started, Typed, TypeOK
<1>4. req'[r].pc \in {"run", "failed"} /\ (req'[r].all => req[r].all)
  BY DEF Returned, Forget, StoppedOne, Relaunch, Started, Typed, TypeOK, Request, AtRest
<1> QED BY <1>1, <1>2, <1>3, <1>4

(* What a return makes of the dictionary and of the manager objects.         *)
LEMMA ReturnedManagers ==
    ASSUME Typed, NEW r \in Req, Returned(r)
    PROVE  \/ mgr' = StopTask(req[r].stopping) /\ managers' = managers
              /\ (req[r].all \/ managers[req[r].at] = None)
           \/ mgr' = StopTask(req[r].stopping)
              /\ managers' = [managers EXCEPT ![req[r].at] = None]
           \/ \E m \in Mgr :
                 /\ Free(m)
                 /\ mgr' = [StopTask(req[r].stopping) EXCEPT
                               ![m] = New(req[r].at, req[r].snap[req[r].at])]
                 /\ managers' = [managers EXCEPT ![req[r].at] = m]
BY DEF Returned, Forget, StoppedOne, Relaunch

LEMMA LaunchKeeps ==
    ASSUME Typed, NEW r \in Req, NEW o \in Org, NEW m \in Mgr, Launch(r, o, m)
    PROVE  /\ UNCHANGED <<loop, phase>>
           /\ loop = r /\ req[r].pc = "run" /\ managers[o] = None /\ Free(m)
           /\ mgr' = [mgr EXCEPT ![m] = New(o, req[r].snap[o])]
           /\ managers' = [managers EXCEPT ![o] = m]
           /\ \A s \in Req \ {r} : req'[s] = req[s]
           /\ req'[r].pc = "run" /\ (req'[r].all => req[r].all)
<1>1. req'[r].pc = "run" /\ (req'[r].all => req[r].all)
  BY DEF Launch, Started, Typed, TypeOK, Request
<1>2. \A s \in Req \ {r} : req'[s] = req[s]
  BY DEF Launch, Started, Typed, TypeOK
<1> QED BY <1>1, <1>2 DEF Launch

(* The step of a request is one of these.                                    *)
LEMMA ServeCases ==
    ASSUME NEW r \in Req, Serve(r)
    PROVE  \/ Returned(r) \/ Turn(r) \/ Clear(r)
           \/ \E o \in Org : Stop(r, o)
           \/ \E o \in Org, m \in Mgr : Launch(r, o, m)
BY DEF Serve, Returned, Turn

LEMMA StopManagerKnown ==
    ASSUME Typed, NEW r \in Req, NEW o \in Org, Stop(r, o)
    PROVE  \E m \in Mgr : m = managers[o]
BY DEF Stop, Typed, TypeOK

LEMMA NewKeeps ==
    ASSUME Typed, NEW f \in [Mgr -> Manager], NEW m \in Mgr, NEW o \in Org, NEW r \in Req,
           mgr' = [f EXCEPT ![m] = New(o, req[r].snap[o])]
    PROVE  /\ \A n \in Mgr \ {m} : mgr'[n] = f[n]
           /\ ~mgr'[m].stopped /\ ~mgr'[m].cancelled
           /\ mgr'[m].pc = "top" /\ mgr'[m].org = o
<1>1. req[r].snap[o] \in Conf \cup {None}
  BY DEF Typed, TypeOK, Request
<1> QED BY <1>1, NewIsManager

-----------------------------------------------------------------------------
(* A stopped supervisor without an open client has been cancelled, or the    *)
(* request that stops it has not yielded since: it never gets to connect.    *)

StopAtomic ==
    \A m \in Mgr : mgr[m].stopped /\ mgr[m].pc \in Waiting /\ ~mgr[m].cancelled
        => /\ loop \in Req
           /\ req[loop].pc = "stopping" /\ req[loop].stopping = m

LEMMA StopAtomicTask ==
    ASSUME Typed, StopAtomic, NEW m \in Mgr, Task(m)
    PROVE  StopAtomic'
<1>1. \A n \in Mgr : mgr[n].stopped /\ mgr[n].pc \in Waiting => mgr[n].cancelled
  BY TaskKeeps DEF StopAtomic
<1>2. \A n \in Mgr : mgr'[n].stopped /\ mgr'[n].pc \in Waiting => mgr'[n].cancelled
  BY <1>1, TaskKeeps
<1> QED BY <1>2 DEF StopAtomic

LEMMA StopAtomicStop ==
    ASSUME Typed, StopAtomic, NEW r \in Req, NEW o \in Org, Stop(r, o)
    PROVE  StopAtomic'
<1>1. PICK m \in Mgr : m = managers[o]
  BY StopManagerKnown
<1>2. \A n \in Mgr : mgr[n].stopped /\ mgr[n].pc \in Waiting => mgr[n].cancelled
  BY <1>1, StopRequest DEF StopAtomic
<1>3. \A n \in Mgr \ {m} : mgr'[n].stopped /\ mgr'[n].pc \in Waiting => mgr'[n].cancelled
  BY <1>1, <1>2, StopKeeps
<1>4. mgr'[m].pc \in Waiting
        => loop' = r /\ req'[r].pc = "stopping" /\ req'[r].stopping = m
  BY <1>1, StopKeeps, StopRequest DEF Waiting
<1> QED BY <1>3, <1>4 DEF StopAtomic

LEMMA StopAtomicReturn ==
    ASSUME Typed, StopAtomic, NEW r \in Req, Returned(r)
    PROVE  StopAtomic'
<1> DEFINE s == req[r].stopping
           f == StopTask(s)
<1>1. s \in Mgr /\ req[r].pc = "stopping" /\ loop \in {None, r} /\ req[r].at \in Org
  BY ReturnedKeeps
<1>2. \A n \in Mgr \ {s} : mgr[n].stopped /\ mgr[n].pc \in Waiting => mgr[n].cancelled
  BY <1>1 DEF StopAtomic
<1>3. f \in [Mgr -> Manager]
  BY <1>1, StopTaskType
<1>4. \A n \in Mgr : f[n].stopped /\ f[n].pc \in Waiting => f[n].cancelled
  BY <1>1, <1>2, StopTaskKeeps DEF Waiting, Over
<1>5. CASE mgr' = f
  BY <1>4, <1>5 DEF StopAtomic
<1>6. ASSUME NEW m \in Mgr, mgr' = [f EXCEPT ![m] = New(req[r].at, req[r].snap[req[r].at])]
      PROVE  StopAtomic'
  <2>1. ~mgr'[m].stopped /\ \A n \in Mgr \ {m} : mgr'[n] = f[n]
    BY <1>1, <1>3, <1>6, NewKeeps
  <2> QED BY <1>4, <2>1 DEF StopAtomic
<1> QED BY <1>5, <1>6, ReturnedManagers

LEMMA StopAtomicStep == Typed /\ StopAtomic /\ [Next]_vars => StopAtomic'
<1> SUFFICES ASSUME Typed, StopAtomic, [Next]_vars PROVE StopAtomic'
  OBVIOUS
<1>1. ASSUME NEW r \in Req, Ask(r) PROVE StopAtomic'
  <2>1. mgr' = mgr /\ loop = None
    BY <1>1, AskKeeps
  <2> QED BY <2>1 DEF StopAtomic
<1>2. ASSUME NEW r \in Req, Turn(r) \/ Clear(r) PROVE StopAtomic'
  <2>1. mgr' = mgr /\ loop = r /\ req[r].pc = "run"
    BY <1>2, TurnKeeps DEF Clear
  <2> QED BY <2>1 DEF StopAtomic
<1>3. ASSUME NEW r \in Req, NEW o \in Org, NEW m \in Mgr, Launch(r, o, m) PROVE StopAtomic'
  <2>1. /\ loop = r /\ req[r].pc = "run"
        /\ mgr' = [mgr EXCEPT ![m] = New(o, req[r].snap[o])]
    BY <1>3, LaunchKeeps
  <2>2. ~mgr'[m].stopped /\ \A n \in Mgr \ {m} : mgr'[n] = mgr[n]
    BY <2>1, NewKeeps DEF Typed, TypeOK
  <2> QED BY <2>1, <2>2 DEF StopAtomic
<1>4. CASE UNCHANGED vars
  BY <1>4 DEF vars, StopAtomic
<1> QED BY <1>1, <1>2, <1>3, <1>4, StopAtomicTask, StopAtomicStop, StopAtomicReturn,
           ServeCases DEF Next

(* No step takes a stopped supervisor from anywhere else into streaming.     *)
LEMMA StopIsFinalStep ==
    ASSUME Typed, StopAtomic, [Next]_vars, NEW m \in Mgr,
           mgr[m].stopped, mgr[m].pc # "stream"
    PROVE  mgr'[m].pc # "stream"
<1>1. ASSUME NEW n \in Mgr, Task(n) PROVE mgr'[m].pc # "stream"
  <2>1. CASE n = m
    <3>1. mgr'[m].pc = "stream" => mgr[m].pc \in Waiting /\ ~mgr[m].cancelled /\ loop = None
      BY <1>1, <2>1, TaskKeeps
    <3> QED BY <3>1 DEF StopAtomic, Typed
  <2>2. CASE n # m
    BY <1>1, <2>2, TaskKeeps
  <2> QED BY <2>1, <2>2
<1>2. ASSUME NEW r \in Req, Ask(r) \/ Turn(r) \/ Clear(r) PROVE mgr'[m].pc # "stream"
  BY <1>2, AskKeeps, TurnKeeps DEF Clear
<1>3. ASSUME NEW r \in Req, NEW o \in Org, Stop(r, o) PROVE mgr'[m].pc # "stream"
  BY <1>3, StopManagerKnown, StopKeeps
<1>4. ASSUME NEW r \in Req, NEW o \in Org, NEW n \in Mgr, Launch(r, o, n)
      PROVE  mgr'[m].pc # "stream"
  BY <1>4, LaunchKeeps, NewKeeps DEF Typed, TypeOK
<1>5. ASSUME NEW r \in Req, Returned(r) PROVE mgr'[m].pc # "stream"
  <2> DEFINE s == req[r].stopping
             f == StopTask(s)
  <2>1. s \in Mgr /\ req[r].at \in Org
    BY <1>5, ReturnedKeeps
  <2>2. f \in [Mgr -> Manager] /\ f[m].pc = mgr[m].pc
    BY <2>1, StopTaskType
  <2>3. ASSUME NEW n \in Mgr, mgr' = [f EXCEPT ![n] = New(req[r].at, req[r].snap[req[r].at])]
        PROVE  mgr'[m].pc # "stream"
    BY <2>1, <2>2, <2>3, NewKeeps
  <2> QED BY <1>5, <2>2, <2>3, ReturnedManagers
<1>6. CASE UNCHANGED vars
  BY <1>6 DEF vars
<1> QED BY <1>1, <1>2, <1>3, <1>4, <1>5, <1>6, ServeCases DEF Next

(* A supervisor without an open client that has been told to stop never      *)
(* connects any more (OrgStreamManager.stop, cometd_client.py:100-109).      *)
THEOREM StoppedStaysStopped == Spec => StopIsFinal
<1>1. Init => Typed /\ StopAtomic
  BY TypedInit DEF Init, StopAtomic, Unused
<1>2. Typed /\ StopAtomic /\ [Next]_vars
        => [\A m \in Mgr : mgr[m].stopped /\ mgr[m].pc # "stream"
                => mgr'[m].pc # "stream"]_vars
  BY StopIsFinalStep
<1> QED BY <1>1, <1>2, TypedStep, StopAtomicStep, PTL DEF Spec, StopIsFinal

-----------------------------------------------------------------------------
(* No manager in the dictionary is stopped and forgotten, in any overlap of  *)
(* syncs: each org has a manager of its own, and stop_all runs only when the *)
(* server goes down.                                                         *)

Apart == \A o, p \in Org : managers[o] = managers[p] /\ managers[o] # None => o = p

Phases ==
    /\ phase = "starting" => \A o \in Org : managers[o] = None
    /\ phase = "starting" => \A r \in Req : ~Busy(r)
    /\ \A r \in Req : req[r].all => phase \in {"stopping", "down"}

Cared ==
    \A o \in Org : managers[o] # None /\ mgr[managers[o]].stopped
        => \E r \in Req : /\ req[r].pc = "stopping"
                          /\ req[r].stopping = managers[o] /\ req[r].at = o

Kept == Typed /\ Apart /\ Phases /\ (phase = "up" => Cared)

LEMMA KeptTask ==
    ASSUME Kept, NEW m \in Mgr, Task(m)
    PROVE  Kept'
<1>1. Typed /\ Typed'
  BY TypedStep DEF Kept, Next
<1>2. /\ UNCHANGED <<managers, req, phase>>
      /\ \A n \in Mgr : mgr'[n].stopped => mgr[n].stopped
  BY <1>1, TaskKeeps
<1>3. Apart' /\ Phases'
  BY <1>2 DEF Kept, Apart, Phases, Busy
<1>4. Cared => Cared'
  BY <1>1, <1>2 DEF Cared, Typed, TypeOK
<1> QED BY <1>1, <1>2, <1>3, <1>4 DEF Kept

LEMMA KeptAsk ==
    ASSUME Kept, NEW r \in Req, Ask(r)
    PROVE  Kept'
<1>1. Typed /\ Typed'
  BY TypedStep DEF Kept, Next
<1>2. /\ UNCHANGED <<managers, mgr>> /\ ~Busy(r)
      /\ \A s \in Req \ {r} : req'[s] = req[s]
      /\ req'[r].all => phase' = "stopping"
      /\ \/ phase = "starting" /\ phase' = "up"
         \/ phase = "up" /\ phase' \in {"up", "stopping"}
  BY <1>1, AskKeeps
<1>3. Apart' /\ Phases'
  BY <1>2 DEF Kept, Apart, Phases
<1>4. ASSUME phase' = "up" PROVE Cared'
  <2>1. CASE phase = "starting"
    BY <1>2, <2>1 DEF Kept, Phases, Cared
  <2>2. CASE phase = "up"
    <3> SUFFICES ASSUME NEW o \in Org, managers[o] # None, mgr[managers[o]].stopped
                 PROVE  \E s \in Req : /\ req'[s].pc = "stopping"
                                       /\ req'[s].stopping = managers[o] /\ req'[s].at = o
      BY <1>2 DEF Cared
    <3>1. PICK s \in Req : /\ req[s].pc = "stopping"
                           /\ req[s].stopping = managers[o] /\ req[s].at = o
      BY <2>2 DEF Kept, Cared
    <3>2. s # r
      BY <1>2, <3>1 DEF Busy
    <3> QED BY <1>2, <3>1, <3>2
  <2> QED BY <1>2, <2>1, <2>2
<1> QED BY <1>1, <1>3, <1>4 DEF Kept

LEMMA KeptStop ==
    ASSUME Kept, NEW r \in Req, NEW o \in Org, Stop(r, o)
    PROVE  Kept'
<1>1. Typed /\ Typed'
  BY TypedStep DEF Kept, Next, Serve
<1>2. PICK m \in Mgr : m = managers[o]
  BY <1>1, StopManagerKnown
<1>3. /\ managers' = managers /\ phase' = phase /\ req[r].pc = "run"
      /\ \A s \in Req \ {r} : req'[s] = req[s]
      /\ req'[r].pc = "stopping" /\ req'[r].stopping = m /\ req'[r].at = o
      /\ req'[r].all => req[r].all
  BY <1>1, <1>2, StopRequest
<1>4. Apart' /\ Phases'
  BY <1>3 DEF Kept, Apart, Phases, Busy
<1>5. ASSUME phase = "up" PROVE Cared'
  <2> SUFFICES ASSUME NEW p \in Org, managers[p] # None, mgr'[managers[p]].stopped
               PROVE  \E s \in Req : /\ req'[s].pc = "stopping"
                                     /\ req'[s].stopping = managers[p] /\ req'[s].at = p
    BY <1>3 DEF Cared
  <2>1. CASE p = o
    BY <1>2, <1>3, <2>1
  <2>2. CASE p # o
    <3>1. managers[p] \in Mgr \ {m}
      BY <1>1, <1>2, <2>2 DEF Kept, Apart, Typed, TypeOK
    <3>2. mgr[managers[p]].stopped
      BY <1>1, <1>2, <3>1, StopKeeps
    <3>3. PICK s \in Req : /\ req[s].pc = "stopping"
                           /\ req[s].stopping = managers[p] /\ req[s].at = p
      BY <1>5, <3>2 DEF Kept, Cared
    <3> QED BY <1>3, <3>3
  <2> QED BY <2>1, <2>2
<1> QED BY <1>1, <1>3, <1>4, <1>5 DEF Kept

LEMMA KeptReturn ==
    ASSUME Kept, NEW r \in Req, Returned(r)
    PROVE  Kept'
<1> DEFINE s == req[r].stopping
           a == req[r].at
           f == StopTask(s)
<1>1. Typed /\ Typed'
  BY TypedStep DEF Kept, Next, Serve, Returned
<1>2. /\ s \in Mgr /\ a \in Org /\ phase' = phase /\ req[r].pc = "stopping"
      /\ \A q \in Req \ {r} : req'[q] = req[q]
      /\ req'[r].all => req[r].all
  BY <1>1, ReturnedKeeps
<1>3. /\ f \in [Mgr -> Manager]
      /\ \A n \in Mgr : f[n].stopped => mgr[n].stopped
  BY <1>1, <1>2, StopTaskType, StopTaskKeeps
<1>4. Phases'
  <2>1. phase # "starting"
    BY <1>2 DEF Kept, Phases, Busy
  <2> QED BY <1>2, <2>1 DEF Kept, Phases
(* Every other org keeps its manager, and that manager its flag.             *)
<1>5. /\ \A p \in Org \ {a} : managers'[p] = managers[p]
      /\ \A p \in Org \ {a} : managers[p] # None /\ mgr'[managers[p]].stopped
                                => mgr[managers[p]].stopped
      /\ managers'[a] # None /\ ~req[r].all => ~mgr'[managers'[a]].stopped
      /\ Apart'
  <2>1. CASE mgr' = f /\ managers' = managers /\ (req[r].all \/ managers[a] = None)
    BY <1>1, <1>3, <2>1 DEF Kept, Apart, Typed, TypeOK
  <2>2. CASE mgr' = f /\ managers' = [managers EXCEPT ![a] = None]
    BY <1>1, <1>2, <1>3, <2>2 DEF Kept, Apart, Typed, TypeOK
  <2>3. ASSUME NEW m \in Mgr, Free(m), mgr' = [f EXCEPT ![m] = New(a, req[r].snap[a])],
               managers' = [managers EXCEPT ![a] = m]
        PROVE  /\ \A p \in Org \ {a} : managers'[p] = managers[p]
               /\ \A p \in Org \ {a} : managers[p] # None /\ mgr'[managers[p]].stopped
                                         => mgr[managers[p]].stopped
               /\ managers'[a] # None /\ ~req[r].all => ~mgr'[managers'[a]].stopped
               /\ Apart'
    <3>1. ~mgr'[m].stopped /\ \A n \in Mgr \ {m} : mgr'[n] = f[n]
      BY <1>1, <1>2, <1>3, <2>3, NewKeeps
    <3>2. \A p \in Org : managers[p] # m
      BY <2>3 DEF Free, Dropped
    <3>3. /\ managers'[a] = m
          /\ \A p \in Org \ {a} : managers'[p] = managers[p]
      BY <1>1, <1>2, <2>3 DEF Typed, TypeOK
    <3>4. \A p \in Org : managers[p] \in Mgr \cup {None}
      BY <1>1 DEF Typed, TypeOK
    <3>5. \A p \in Org \ {a} : managers[p] # None /\ mgr'[managers[p]].stopped
                                => mgr[managers[p]].stopped
      BY <1>3, <3>1, <3>2, <3>4
    <3>6. Apart'
      BY <3>2, <3>3 DEF Kept, Apart
    <3> QED BY <3>1, <3>3, <3>5, <3>6
  <2> QED BY <1>1, <2>1, <2>2, <2>3, ReturnedManagers
<1>6. ASSUME phase = "up" PROVE Cared'
  <2>1. ~req[r].all
    BY <1>6 DEF Kept, Phases
  <2> SUFFICES ASSUME NEW p \in Org, managers'[p] # None, mgr'[managers'[p]].stopped
               PROVE  \E q \in Req : /\ req'[q].pc = "stopping"
                                     /\ req'[q].stopping = managers'[p] /\ req'[q].at = p
    BY DEF Cared
  <2>2. p # a
    BY <1>5, <2>1
  <2>3. managers'[p] = managers[p] /\ mgr[managers[p]].stopped
    BY <1>5, <2>2
  <2>4. PICK q \in Req : /\ req[q].pc = "stopping"
                         /\ req[q].stopping = managers[p] /\ req[q].at = p
    BY <1>6, <2>3 DEF Kept, Cared
  <2>5. q # r
    BY <2>2, <2>4
  <2> QED BY <1>2, <2>3, <2>4, <2>5
<1> QED BY <1>1, <1>2, <1>4, <1>5, <1>6 DEF Kept

LEMMA KeptLaunch ==
    ASSUME Kept, NEW r \in Req, NEW o \in Org, NEW m \in Mgr, Launch(r, o, m)
    PROVE  Kept'
<1>1. Typed /\ Typed'
  BY TypedStep DEF Kept, Next, Serve
<1>2. /\ phase' = phase /\ req[r].pc = "run" /\ managers[o] = None /\ Free(m)
      /\ mgr' = [mgr EXCEPT ![m] = New(o, req[r].snap[o])]
      /\ managers' = [managers EXCEPT ![o] = m]
      /\ \A s \in Req \ {r} : req'[s] = req[s]
      /\ req'[r].all => req[r].all
  BY <1>1, LaunchKeeps
<1>3. ~mgr'[m].stopped /\ \A n \in Mgr \ {m} : mgr'[n] = mgr[n]
  BY <1>1, <1>2, NewKeeps DEF Typed, TypeOK
<1>4. \A p \in Org : managers[p] # m /\ managers[p] \in Mgr \cup {None}
  BY <1>1, <1>2 DEF Free, Dropped, Typed, TypeOK
<1>5. managers'[o] = m /\ \A p \in Org \ {o} : managers'[p] = managers[p]
  BY <1>1, <1>2 DEF Typed, TypeOK
<1>6. Apart'
  BY <1>4, <1>5 DEF Kept, Apart
<1>7. Phases'
  BY <1>2 DEF Kept, Phases, Busy
<1>8. ASSUME phase = "up" PROVE Cared'
  <2> SUFFICES ASSUME NEW p \in Org, managers'[p] # None, mgr'[managers'[p]].stopped
               PROVE  \E q \in Req : /\ req'[q].pc = "stopping"
                                     /\ req'[q].stopping = managers'[p] /\ req'[q].at = p
    BY DEF Cared
  <2>1. p # o /\ managers'[p] = managers[p] /\ mgr[managers[p]].stopped
    BY <1>3, <1>4, <1>5
  <2>2. PICK q \in Req : /\ req[q].pc = "stopping"
                         /\ req[q].stopping = managers[p] /\ req[q].at = p
    BY <1>8, <2>1 DEF Kept, Cared
  <2>3. q # r
    BY <1>2, <2>2
  <2> QED BY <1>2, <2>1, <2>2, <2>3
<1> QED BY <1>1, <1>2, <1>6, <1>7, <1>8 DEF Kept

LEMMA KeptTurn ==
    ASSUME Kept, NEW r \in Req, Turn(r) \/ Clear(r)
    PROVE  Kept'
<1>1. Typed /\ Typed'
  BY TypedStep DEF Kept, Next, Serve, Turn
<1>2. CASE Turn(r)
  <2>1. /\ UNCHANGED <<managers, mgr, phase>> /\ req[r].pc = "run"
        /\ \A s \in Req \ {r} : req'[s] = req[s]
        /\ req'[r].pc \in {"idle", "failed"} /\ ~req'[r].all
    BY <1>1, <1>2, TurnKeeps
  <2>2. Apart' /\ Phases'
    BY <2>1 DEF Kept, Apart, Phases, Busy
  <2>3. Cared => Cared'
    BY <2>1 DEF Cared
  <2> QED BY <1>1, <2>1, <2>2, <2>3 DEF Kept
<1>3. CASE Clear(r)
  <2>1. phase' = "down" /\ \A o \in Org : managers'[o] = None
    BY <1>3 DEF Clear
  <2> QED BY <1>1, <2>1 DEF Kept, Apart, Phases
<1> QED BY <1>2, <1>3

(* Whatever syncs overlap, no org is left with a stopped manager             *)
(* (CometDManager.sync, cometd_client.py:226-240).                           *)
THEOREM NoZombieHolds == Spec => []NoZombie
<1>1. Init => Kept
  BY TypedInit DEF Init, Kept, Apart, Phases, Busy, AtRest
<1>2. Kept /\ [Next]_vars => Kept'
  <2> SUFFICES ASSUME Kept, [Next]_vars PROVE Kept'
    OBVIOUS
  <2>1. CASE UNCHANGED vars
    BY <2>1, TypedStep DEF vars, Kept, Apart, Phases, Cared, Busy
  <2> QED BY <2>1, KeptTask, KeptAsk, KeptStop, KeptReturn, KeptLaunch, KeptTurn,
             ServeCases DEF Next
<1>3. Kept => NoZombie
  BY DEF Kept, Cared, NoZombie, Tracked
<1> QED BY <1>1, <1>2, <1>3, PTL DEF Spec

-----------------------------------------------------------------------------
(* With one request at a time - which nothing in the server enforces - the   *)
(* dictionary holds every supervisor that may stream.                        *)

Known ==
    /\ phase # "down" => \A m \in Mgr : Live(m) => managers[mgr[m].org] = m
    /\ \A r \in Req : req[r].pc = "stopping" => managers[req[r].at] = req[r].stopping

Solo == \A r, s \in Req : r = s

LEMMA KnownTask ==
    ASSUME Typed, Known, NEW m \in Mgr, Task(m)
    PROVE  Known'
<1>1. \A n \in Mgr : Live(n)' => Live(n) /\ mgr'[n].org = mgr[n].org
  BY TaskKeeps DEF Live
<1> QED BY <1>1, TaskKeeps DEF Known

LEMMA KnownStop ==
    ASSUME Typed, Known, NEW r \in Req, NEW o \in Org, Stop(r, o)
    PROVE  Known'
<1>1. PICK m \in Mgr : m = managers[o]
  BY StopManagerKnown
<1>2. \A n \in Mgr : Live(n)' => Live(n) /\ mgr'[n].org = mgr[n].org
  BY <1>1, StopKeeps DEF Live
<1> QED BY <1>1, <1>2, StopRequest DEF Known

LEMMA KnownReturn ==
    ASSUME Typed, Known, Solo, NEW r \in Req, Returned(r)
    PROVE  Known'
<1> DEFINE s == req[r].stopping
           a == req[r].at
           f == StopTask(s)
<1>1. /\ s \in Mgr /\ a \in Org /\ phase' = phase /\ managers[a] = s
      /\ \A q \in Req : req'[q].pc # "stopping"
  BY ReturnedKeeps DEF Solo, Known
<1>2. /\ f \in [Mgr -> Manager]
      /\ f[s].pc \notin Over => f[s].cancelled
      /\ \A n \in Mgr \ {s} : f[n] = mgr[n]
  BY <1>1, StopTaskType, StopTaskKeeps
(* The one that was stopped is not live any more, the others are elsewhere.  *)
<1>3. ASSUME phase # "down", NEW n \in Mgr,
             f[n].pc \in Waiting \cup {"stream"}, ~f[n].cancelled
      PROVE  /\ managers[f[n].org] = n /\ f[n].org # a /\ f[n].org \in Org
  <2>1. n # s
    BY <1>2, <1>3 DEF Waiting, Over
  <2>2. Live(n) /\ f[n] = mgr[n]
    BY <1>2, <1>3, <2>1 DEF Live
  <2> QED BY <1>1, <1>3, <2>1, <2>2 DEF Known, Live, Typed, OrgKnown
<1>4. CASE mgr' = f /\ managers' = managers
  BY <1>1, <1>3, <1>4 DEF Known, Live
<1>5. CASE mgr' = f /\ managers' = [managers EXCEPT ![a] = None]
  BY <1>1, <1>3, <1>5 DEF Known, Live, Typed, TypeOK
<1>6. ASSUME NEW m \in Mgr, mgr' = [f EXCEPT ![m] = New(a, req[r].snap[a])],
             managers' = [managers EXCEPT ![a] = m]
      PROVE  Known'
  <2>1. mgr'[m].org = a /\ \A n \in Mgr \ {m} : mgr'[n] = f[n]
    BY <1>1, <1>2, <1>6, NewKeeps
  <2>2. managers'[a] = m /\ \A p \in Org \ {a} : managers'[p] = managers[p]
    BY <1>1, <1>6 DEF Typed, TypeOK
  <2> QED BY <1>1, <1>3, <2>1, <2>2 DEF Known, Live
<1> QED BY <1>4, <1>5, <1>6, ReturnedManagers

LEMMA KnownLaunch ==
    ASSUME Typed, Known, NEW r \in Req, NEW o \in Org, NEW m \in Mgr, Solo, Launch(r, o, m)
    PROVE  Known'
<1>1. mgr'[m].org = o /\ \A n \in Mgr \ {m} : mgr'[n] = mgr[n]
  BY LaunchKeeps, NewKeeps DEF Typed, TypeOK
<1>2. managers'[o] = m /\ \A p \in Org \ {o} : managers'[p] = managers[p]
  BY LaunchKeeps DEF Typed, TypeOK
<1>3. \A n \in Mgr : Live(n) => mgr[n].org \in Org
  BY DEF Live, Typed, OrgKnown
<1>4. managers[o] = None /\ None \notin Mgr /\ phase' = phase
  BY LaunchKeeps
<1>5. \A q \in Req : req'[q].pc # "stopping"
  BY LaunchKeeps DEF Solo
<1>6. ASSUME phase # "down", NEW n \in Mgr, Live(n)' PROVE managers'[mgr'[n].org] = n
  <2>1. CASE n = m
    BY <1>1, <1>2, <2>1
  <2>2. CASE n # m
    <3>1. Live(n) /\ mgr'[n] = mgr[n]
      BY <1>1, <1>6, <2>2 DEF Live
    <3>2. mgr[n].org # o
      BY <1>4, <1>6, <3>1 DEF Known
    <3> QED BY <1>2, <1>3, <1>6, <3>1, <3>2 DEF Known
  <2> QED BY <2>1, <2>2
<1> QED BY <1>4, <1>5, <1>6 DEF Known

LEMMA KnownStep == Typed /\ Known /\ Solo /\ [Next]_vars => Known'
<1> SUFFICES ASSUME Typed, Known, Solo, [Next]_vars PROVE Known'
  OBVIOUS
<1>1. ASSUME NEW r \in Req, Ask(r) PROVE Known'
  <2>1. /\ UNCHANGED <<managers, mgr>> /\ phase # "down"
        /\ \A q \in Req : req'[q].pc # "stopping"
    BY <1>1, AskKeeps DEF Solo
  <2> QED BY <2>1 DEF Known, Live
<1>2. ASSUME NEW r \in Req, Turn(r) PROVE Known'
  BY <1>2, TurnKeeps DEF Known, Live
<1>3. ASSUME NEW r \in Req, Clear(r) PROVE Known'
  <2>1. phase' = "down" /\ req' = [req EXCEPT ![r] = AtRest]
    BY <1>3 DEF Clear
  <2>2. \A q \in Req : req'[q].pc = "idle"
    BY <2>1 DEF Solo, Typed, TypeOK, AtRest
  <2> QED BY <2>1, <2>2 DEF Known
<1>4. CASE UNCHANGED vars
  BY <1>4 DEF vars, Known, Live
<1> QED BY <1>1, <1>2, <1>3, <1>4, KnownTask, KnownStop, KnownReturn, KnownLaunch,
           ServeCases DEF Next

(* One request at a time: at most one stream per org, the one in the         *)
(* dictionary (the class docstring, cometd_client.py:215).                   *)
THEOREM OneStreamIfSequential == ASSUME Solo PROVE Spec => []OneStreamPerOrg
<1>1. Init => Typed /\ Known
  BY TypedInit DEF Init, Known, Live, Unused, AtRest, Waiting
<1>2. Typed /\ Known /\ [Next]_vars => Typed' /\ Known'
  BY TypedStep, KnownStep
<1>3. Known => OneStreamPerOrg
  BY DEF Known, OneStreamPerOrg
<1> QED BY <1>1, <1>2, <1>3, PTL DEF Spec
-----------------------------------------------------------------------------
(* With one request at a time, what the streams are when no request is       *)
(* served, and when the server is down.                                      *)

(* While the server stops, what may still stream is of an org that stop_all  *)
(* has yet to see to.                                                        *)
Closing ==
    /\ phase = "stopping" =>
          \E r \in Req : /\ Busy(r) /\ req[r].all /\ req[r].start = {}
                         /\ req[r].purge \subseteq Tracked
                         /\ \A m \in Mgr : Live(m) => mgr[m].org \in req[r].purge
    /\ phase = "down" => (\A r \in Req : ~Busy(r)) /\ (\A m \in Mgr : ~Live(m))

(* The manager of org o has the row and the channels the org has now, and    *)
(* has not given up for want of channels that it has.                        *)
Right(o) ==
    LET m == managers[o]
    IN m # None =>
          /\ Live(m) => /\ mgr[m].conf = rows[o].conf
                        /\ mgr[m].pc \in {"login", "handshake", "stream"}
                              => mgr[m].subs = channels[o]
          /\ mgr[m].pc = "idle" => channels[o] = {}

(* What sync has yet to do for request r makes up for all that is out of     *)
(* date.                                                                     *)
Fit(r) ==
    LET q == req[r]
    IN /\ ~q.all
       /\ q.purge = Tracked \ Active(rows)
       /\ q.start \subseteq Active(rows)
       /\ Active(rows) \subseteq Tracked \cup q.start
       /\ \A o \in q.start : q.snap[o] = rows[o].conf
       /\ Busy(r) \/ (q.purge = {} /\ q.start = {})
       /\ \A o \in Org \ (q.purge \cup q.start) : Right(o)

Current == phase = "up" => \E r \in Req : Fit(r)

(* A supervisor that waits, and has alerted, has told of the outage since a  *)
(* stream of its org last connected.                                         *)
Rung ==
    \A m \in Mgr : Live(m) /\ mgr[m].pc \in Waiting /\ mgr[m].alarmed
        => told[mgr[m].org] >= 1

(* What the steps of a supervisor do to what a sync reads and to the alerts. *)
LEMMA TaskTells ==
    ASSUME Typed, NEW m \in Mgr, Task(m)
    PROVE  /\ UNCHANGED <<rows, channels, managers, req, phase>>
           /\ \A n \in Mgr \ {m} : mgr'[n] = mgr[n]
           /\ \A o \in Org : told'[o] # told[o] => Live(m) /\ mgr[m].org = o
           /\ Live(m)' => Live(m) /\ mgr'[m].org = mgr[m].org /\ mgr'[m].conf = mgr[m].conf
           /\ Live(m)' /\ mgr'[m].pc \in {"login", "handshake", "stream"} =>
                 \/ mgr'[m].subs = channels[mgr[m].org]
                 \/ mgr'[m].subs = mgr[m].subs /\ mgr[m].pc \in {"login", "handshake", "stream"}
           /\ mgr'[m].pc = "idle" => Live(m) /\ channels[mgr[m].org] = {}
           /\ Live(m)' /\ mgr'[m].pc \in Waiting /\ mgr'[m].alarmed =>
                 \/ told'[mgr[m].org] >= 1
                 \/ /\ mgr[m].alarmed /\ mgr[m].pc \in Waiting
                    /\ told' = told
           /\ mgr[m].pc \in {"login", "handshake"} /\ mgr'[m].pc = "sleep" =>
                 mgr'[m].alarmed
<1> USE DEF Typed, TypeOK, Live
<1>1. ASSUME NEW pc \in Over, Done(m, pc)
      PROVE  /\ \A n \in Mgr \ {m} : mgr'[n] = mgr[n]
             /\ mgr'[m].pc \in {pc, "unused"}
  BY <1>1 DEF Done, Unused
<1>2. CASE LoginMalformed(m) \/ Cancelled(m)
  BY <1>1, <1>2 DEF LoginMalformed, Cancelled, Over, Waiting
<1>3. ASSUME NEW pc \in {"handshake", "stream"}, Go(m, pc)
      PROVE  /\ \A n \in Mgr \ {m} : mgr'[n] = mgr[n]
             /\ mgr'[m].cancelled = mgr[m].cancelled /\ mgr'[m].pc = pc
             /\ mgr'[m].org = mgr[m].org /\ mgr'[m].conf = mgr[m].conf
             /\ mgr'[m].subs = mgr[m].subs /\ mgr'[m].alarmed = mgr[m].alarmed
  BY <1>3 DEF Go, Manager
<1>4. CASE LoggedIn(m)
  BY <1>3, <1>4 DEF LoggedIn, Resumed, Waiting
<1>5. CASE Connected(m)
  BY <1>3, <1>5 DEF Connected, Resumed, Waiting
<1>6. ASSUME NEW c \in BOOLEAN, After(m, c), mgr[m].pc \in {"login", "handshake", "stream"},
             ~mgr[m].cancelled, mgr[m].pc \in {"login", "handshake"} => ~c
      PROVE  /\ UNCHANGED <<rows, channels, managers, req, phase>>
             /\ \A n \in Mgr \ {m} : mgr'[n] = mgr[n]
             /\ \A o \in Org : told'[o] # told[o] => mgr[m].org = o
             /\ mgr[m].stopped => mgr'[m].pc \in {"ended", "unused"}
             /\ ~mgr[m].stopped =>
                   /\ mgr'[m].pc = "sleep" /\ mgr'[m].org = mgr[m].org
                   /\ mgr'[m].conf = mgr[m].conf /\ mgr'[m].alarmed = ~c
                   /\ ~c => told'[mgr[m].org] >= 1 \/ (mgr[m].alarmed /\ told' = told)
  <2>1. CASE mgr[m].stopped
    BY <1>1, <1>6, <2>1 DEF After, Over
  <2>2. CASE ~mgr[m].stopped
    <3>1. mgr[m].org \in Org
      BY <1>6 DEF OrgKnown, Waiting
    <3>2. told[mgr[m].org] \in 0 .. 2
      BY <3>1
    <3>3. ~c /\ ~mgr[m].alarmed => told'[mgr[m].org] >= 1
      BY <1>6, <2>2, <3>1, <3>2 DEF After
    <3>4. c \/ mgr[m].alarmed => told' = told
      BY <1>6, <2>2 DEF After
    <3>5. \A o \in Org : told'[o] # told[o] => mgr[m].org = o
      BY <1>6, <3>1 DEF After
    <3>6. mgr' = [mgr EXCEPT ![m].pc = "sleep", ![m].subs = {}, ![m].alarmed = ~c]
      BY <1>6, <2>2 DEF After
    <3>7. /\ \A n \in Mgr \ {m} : mgr'[n] = mgr[n]
          /\ mgr'[m].pc = "sleep" /\ mgr'[m].org = mgr[m].org
          /\ mgr'[m].conf = mgr[m].conf /\ mgr'[m].alarmed = ~c
      BY <3>6 DEF Manager
    <3> QED BY <1>6, <2>2, <3>3, <3>4, <3>5, <3>7 DEF After
  <2> QED BY <2>1, <2>2
<1>7. CASE LoginRefused(m) \/ HandshakeFailed(m) \/ Lost(m)
  <2>1. CASE Lost(m)
    BY <1>6, <1>7, <2>1 DEF Lost, Resumed, Waiting
  <2>2. CASE LoginRefused(m) \/ HandshakeFailed(m)
    BY <1>6, <1>7, <2>2 DEF LoginRefused, HandshakeFailed, Resumed, Waiting
  <2> QED BY <1>7, <2>1, <2>2
<1>8. CASE Begin(m)
  <2>1. /\ UNCHANGED <<rows, channels, managers, req, phase, told>>
        /\ mgr[m].pc \in {"top", "sleep"} /\ ~mgr[m].cancelled
    BY <1>8 DEF Begin, Resumed
  <2>2. CASE Done(m, "ended")
    BY <1>1, <2>1, <2>2 DEF Over, Waiting
  <2>3. CASE Done(m, "idle") /\ channels[mgr[m].org] = {}
    BY <1>1, <2>1, <2>3 DEF Over, Waiting
  <2>4. CASE mgr' = [mgr EXCEPT ![m].pc = "login", ![m].subs = channels[mgr[m].org]]
    <3>1. /\ \A n \in Mgr \ {m} : mgr'[n] = mgr[n]
          /\ mgr'[m].pc = "login" /\ mgr'[m].org = mgr[m].org
          /\ mgr'[m].conf = mgr[m].conf /\ mgr'[m].alarmed = mgr[m].alarmed
          /\ mgr'[m].subs = channels[mgr[m].org]
      BY <2>4 DEF Manager
    <3> QED BY <2>1, <3>1 DEF Waiting
  <2> QED BY <1>8, <2>2, <2>3, <2>4 DEF Begin
<1> QED BY <1>2, <1>4, <1>5, <1>7, <1>8 DEF Task

(* A request is either the shutdown or a sync after a change that leaves the *)
(* orgs it does not look at alone.                                           *)
LEMMA AskCases ==
    ASSUME Typed, NEW r \in Req, Ask(r)
    PROVE  \/ Shutdown(r)
           \/ \E table \in [Org -> Row \cup {None}], only \in SUBSET Org :
                 /\ Sync(r, table, only) /\ phase' = "up"
                 /\ \/ phase = "starting" /\ only = Org
                    \/ phase = "up"
                 /\ \A o \in Org \ only : table[o] = rows[o] /\ channels'[o] = channels[o]
<1> USE DEF Typed, TypeOK
<1> DEFINE Goes ==
             \E table \in [Org -> Row \cup {None}], only \in SUBSET Org :
                /\ Sync(r, table, only) /\ phase' = "up"
                /\ \/ phase = "starting" /\ only = Org
                   \/ phase = "up"
                /\ \A o \in Org \ only : table[o] = rows[o] /\ channels'[o] = channels[o]
<1>1. Org \in SUBSET Org /\ \A o \in Org : {o} \in SUBSET Org
  OBVIOUS
<1>2. ASSUME Startup(r) \/ Resync(r) PROVE Goes
  BY <1>1, <1>2 DEF Startup, Resync, Serving
<1>3. ASSUME NEW o \in Org, NEW row \in Row \cup {None},
             Sync(r, [rows EXCEPT ![o] = row], {o}), UNCHANGED channels, phase = "up", phase' = phase
      PROVE  Goes
  <2> DEFINE table == [rows EXCEPT ![o] = row]
  <2>1. table \in [Org -> Row \cup {None}] /\ \A p \in Org \ {o} : table[p] = rows[p]
    OBVIOUS
  <2>2. Sync(r, table, {o})
    BY <1>3
  <2> HIDE DEF table
  <2> QED BY <1>1, <1>3, <2>1, <2>2
<1>4. ASSUME NEW o \in Org, NEW row \in Row, CreateOrg(r, o, row) \/ UpdateOrg(r, o, row)
      PROVE  Goes
  <2>1. /\ Sync(r, [rows EXCEPT ![o] = row], {o})
        /\ UNCHANGED channels /\ phase = "up" /\ phase' = phase
    BY <1>4 DEF CreateOrg, UpdateOrg, Serving
  <2> HIDE DEF Goes
  <2> QED BY <1>3, <2>1
<1>5. ASSUME NEW o \in Org, DeleteOrg(r, o)
      PROVE  Goes
  <2>1. /\ Sync(r, [rows EXCEPT ![o] = None], {o})
        /\ UNCHANGED channels /\ phase = "up" /\ phase' = phase
    BY <1>5 DEF DeleteOrg, Serving
  <2> HIDE DEF Goes
  <2> QED BY <1>3, <2>1
<1>6. ASSUME NEW o \in Org, NEW new \in SUBSET Channel, EditEvents(r, o, new)
      PROVE  Goes
  <2>1. /\ Sync(r, rows, {o}) /\ phase = "up" /\ phase' = "up"
        /\ \A p \in Org \ {o} : channels'[p] = channels[p]
    BY <1>6 DEF EditEvents, Serving
  <2> QED BY <1>1, <2>1
<1>7. ASSUME NEW orgs \in SUBSET Org, NEW row \in Row, NEW new \in SUBSET Channel,
             ImportConfig(r, orgs, row, new)
      PROVE  Goes
  <2> DEFINE table == [o \in Org |-> IF o \in orgs THEN row ELSE rows[o]]
  <2>1. table \in [Org -> Row \cup {None}]
    OBVIOUS
  <2>2. Sync(r, table, Org) /\ phase = "up" /\ phase' = "up"
    BY <1>7 DEF ImportConfig, Serving
  <2>3. \A o \in Org \ Org : table[o] = rows[o] /\ channels'[o] = channels[o]
    OBVIOUS
  <2> HIDE DEF table
  <2> QED BY <1>1, <2>1, <2>2, <2>3
<1>8. Shutdown(r) \/ Goes
  <2> HIDE DEF Goes
  <2> QED BY <1>2, <1>4, <1>5, <1>6, <1>7 DEF Ask
<1> QED BY <1>8
(* What is left of a request's plan after each of its steps.                 *)
LEMMA PlanAfter ==
    ASSUME Typed, NEW r \in Req, NEW S \in SUBSET Org,
           \/ req' = [req EXCEPT ![r].pc = "run", ![r].purge = S,
                                 ![r].stopping = None, ![r].at = None]
           \/ req' = [req EXCEPT ![r].pc = "run", ![r].start = S,
                                 ![r].stopping = None, ![r].at = None]
    PROVE  /\ req'[r].all = req[r].all /\ req'[r].snap = req[r].snap
           /\ req'[r].pc = "run"
           /\ \/ req'[r].purge = S /\ req'[r].start = req[r].start
              \/ req'[r].purge = req[r].purge /\ req'[r].start = S
BY DEF Typed, TypeOK, Request

LEMMA PurgeAfter ==
    ASSUME Typed, NEW r \in Req, NEW S \in SUBSET Org,
           req' = [req EXCEPT ![r].pc = "run", ![r].purge = S,
                              ![r].stopping = None, ![r].at = None]
    PROVE  req'[r].purge = S /\ req'[r].start = req[r].start
BY DEF Typed, TypeOK, Request

LEMMA StartAfter ==
    ASSUME Typed, NEW r \in Req, NEW S \in SUBSET Org,
           req' = [req EXCEPT ![r].pc = "run", ![r].start = S,
                              ![r].stopping = None, ![r].at = None]
    PROVE  req'[r].start = S /\ req'[r].purge = req[r].purge
BY DEF Typed, TypeOK, Request

LEMMA StopPlan ==
    ASSUME Typed, NEW r \in Req, NEW o \in Org, Stop(r, o)
    PROVE  /\ req'[r].all = req[r].all /\ req'[r].snap = req[r].snap
           /\ req'[r].purge = req[r].purge /\ req'[r].start = req[r].start
           /\ req'[r].pc = "stopping"
<1>1. PICK m \in Mgr : m = managers[o]
  BY StopManagerKnown
<1>2. req' = [req EXCEPT ![r].pc = "stopping", ![r].stopping = m, ![r].at = o]
  BY <1>1 DEF Stop
<1> QED BY <1>2 DEF Typed, TypeOK, Request

(* A sync removes, stop_all goes on to the next org: either way the org of   *)
(* the stop is done with.                                                    *)
LEMMA PurgedOne ==
    ASSUME Typed, NEW r \in Req,
           StoppedOne(r) \/ (Forget(r) /\ managers[req[r].at] # None)
    PROVE  /\ req'[r].all = req[r].all /\ req'[r].snap = req[r].snap
           /\ req'[r].pc = "run"
           /\ req'[r].purge = req[r].purge \ {req[r].at}
           /\ req'[r].start = req[r].start
<1> DEFINE S == req[r].purge \ {req[r].at}
<1>1. S \in SUBSET Org
  BY DEF Typed, TypeOK, Request
<1>2. req' = [req EXCEPT ![r].pc = "run", ![r].purge = S,
                         ![r].stopping = None, ![r].at = None]
  BY DEF StoppedOne, Forget
<1> HIDE DEF S
<1>3. req'[r].purge = S /\ req'[r].start = req[r].start
  BY <1>1, <1>2, PurgeAfter
<1>4. req'[r].all = req[r].all /\ req'[r].snap = req[r].snap /\ req'[r].pc = "run"
  BY <1>1, <1>2, PlanAfter
<1> QED BY <1>3, <1>4 DEF S

LEMMA StartedOne ==
    ASSUME Typed, NEW r \in Req, NEW o \in Org, req' = Started(r, o)
    PROVE  /\ req'[r].all = req[r].all /\ req'[r].snap = req[r].snap
           /\ req'[r].pc = "run"
           /\ req'[r].purge = req[r].purge /\ req'[r].start = req[r].start \ {o}
<1> DEFINE S == req[r].start \ {o}
<1>1. S \in SUBSET Org
  BY DEF Typed, TypeOK, Request
<1>2. req' = [req EXCEPT ![r].pc = "run", ![r].start = S,
                         ![r].stopping = None, ![r].at = None]
  BY DEF Started
<1> HIDE DEF S
<1>3. req'[r].start = S /\ req'[r].purge = req[r].purge
  BY <1>1, <1>2, StartAfter
<1>4. req'[r].all = req[r].all /\ req'[r].snap = req[r].snap /\ req'[r].pc = "run"
  BY <1>1, <1>2, PlanAfter
<1> QED BY <1>3, <1>4 DEF S

(* A supervisor that may stream is in the dictionary.                        *)
LEMMA LiveTracked ==
    ASSUME Typed, Known, phase # "down", NEW m \in Mgr, Live(m)
    PROVE  mgr[m].org \in Tracked
BY DEF Typed, OrgKnown, Known, Live, Tracked

LEMMA ClosingTask ==
    ASSUME Typed, Closing, NEW m \in Mgr, Task(m)
    PROVE  Closing'
<1>1. UNCHANGED <<managers, req, phase>> /\ Tracked' = Tracked
  BY TaskTells DEF Tracked
<1>2. \A n \in Mgr : Live(n)' => Live(n) /\ mgr'[n].org = mgr[n].org
  BY TaskTells DEF Live
<1> QED BY <1>1, <1>2 DEF Closing, Busy

LEMMA ClosingAsk ==
    ASSUME Typed, Known, NEW r \in Req, Ask(r)
    PROVE  Closing'
<1>1. /\ UNCHANGED <<managers, mgr>> /\ phase' \in {"up", "stopping"}
      /\ phase # "down" /\ req'[r].pc = "run"
  BY AskKeeps
<1>2. SUFFICES ASSUME phase' = "stopping" PROVE Closing'
  BY <1>1 DEF Closing
<1>3. Shutdown(r)
  BY <1>2, AskCases
<1>4. /\ req'[r].all /\ req'[r].start = {} /\ req'[r].purge = Tracked
  BY <1>3 DEF Shutdown, Typed, TypeOK, AtRest
<1>5. Tracked' = Tracked /\ \A m \in Mgr : Live(m)' => mgr'[m].org \in Tracked
  BY <1>1, LiveTracked DEF Tracked, Live
<1>6. Busy(r)'
  BY <1>1 DEF Busy
<1> QED BY <1>1, <1>2, <1>4, <1>5, <1>6 DEF Closing

(* stop_all is through with an org: nothing of it may stream any more.       *)
LEMMA ClosingReturn ==
    ASSUME Typed, Known, Closing, Solo, NEW r \in Req, Returned(r)
    PROVE  Closing'
<1> DEFINE s == req[r].stopping
           a == req[r].at
           f == StopTask(s)
<1>1. /\ s \in Mgr /\ a \in Org /\ phase' = phase /\ req[r].pc = "stopping"
      /\ managers[a] = s
  BY ReturnedKeeps DEF Known
<1>2. CASE phase = "stopping"
  <2>1. /\ req[r].all /\ req[r].start = {} /\ req[r].purge \subseteq Tracked
        /\ \A m \in Mgr : Live(m) => mgr[m].org \in req[r].purge
    BY <1>2 DEF Closing, Solo
  <2>2. StoppedOne(r)
    BY <2>1 DEF Returned, Forget, Relaunch
  <2>3. /\ req'[r].all /\ req'[r].pc = "run" /\ req'[r].start = {}
        /\ req'[r].purge = req[r].purge \ {a}
    BY <2>1, <2>2, PurgedOne
  <2>4. mgr' = f /\ managers' = managers /\ Tracked' = Tracked
    BY <2>2 DEF StoppedOne, Tracked
  <2>5. ASSUME NEW m \in Mgr, Live(m)' PROVE mgr'[m].org \in req'[r].purge
    <3>1. m # s
      BY <1>1, <2>4, <2>5, StopTaskKeeps DEF Live, Waiting, Over
    <3>2. mgr'[m] = mgr[m] /\ Live(m)
      BY <1>1, <2>4, <2>5, <3>1, StopTaskKeeps DEF Live
    <3>3. mgr[m].org # a
      BY <1>1, <1>2, <3>1, <3>2 DEF Known
    <3> QED BY <2>1, <2>3, <3>2, <3>3
  <2>6. Busy(r)'
    BY <2>3 DEF Busy
  <2> QED BY <1>1, <1>2, <2>1, <2>3, <2>4, <2>5, <2>6 DEF Closing
<1>3. CASE phase # "stopping"
  BY <1>1, <1>3 DEF Closing, Busy
<1> QED BY <1>2, <1>3
LEMMA ClosingServe ==
    ASSUME Kept, Known, Closing, Solo, NEW r \in Req, Serve(r)
    PROVE  Closing'
<1> USE DEF Kept
<1>1. phase # "down" /\ req[r].pc \in {"run", "stopping"}
  BY DEF Closing, Busy, Serve, Stop, Missing, Forget, Finish, StoppedOne, Clear,
         Launch, Relaunch, Returning
<1>2. phase = "stopping" =>
         /\ req[r].all /\ req[r].start = {} /\ req[r].purge \subseteq Tracked
         /\ \A m \in Mgr : Live(m) => mgr[m].org \in req[r].purge
  BY DEF Closing, Solo
<1>3. CASE Clear(r)
  <2>1. req[r].all /\ req[r].purge = {} /\ phase' = "down" /\ mgr' = mgr
        /\ req' = [req EXCEPT ![r] = AtRest]
    BY <1>3 DEF Clear
  <2>2. phase = "stopping"
    BY <1>1, <2>1 DEF Phases
  <2>3. \A m \in Mgr : ~Live(m)'
    BY <1>2, <2>1, <2>2 DEF Live
  <2>4. \A q \in Req : ~Busy(q)'
    BY <2>1 DEF Solo, Busy, AtRest, Typed, TypeOK
  <2> QED BY <2>1, <2>3, <2>4 DEF Closing
<1>4. CASE Turn(r)
  <2>1. phase' = phase
    BY <1>4, TurnKeeps
  <2>2. phase # "stopping"
    BY <1>2, <1>4 DEF Turn, Finish, Missing, Tracked
  <2> QED BY <1>1, <2>1, <2>2 DEF Closing
<1>5. ASSUME NEW o \in Org, Stop(r, o) PROVE Closing'
  <2>1. PICK m \in Mgr : m = managers[o]
    BY <1>5, StopManagerKnown
  <2>2. managers' = managers /\ phase' = phase /\ Tracked' = Tracked
    BY <1>5, <2>1, StopRequest DEF Tracked
  <2>3. \A n \in Mgr : Live(n)' => Live(n) /\ mgr'[n].org = mgr[n].org
    BY <1>5, <2>1, StopKeeps DEF Live
  <2>4. /\ req'[r].all = req[r].all /\ req'[r].pc = "stopping"
        /\ req'[r].purge = req[r].purge /\ req'[r].start = req[r].start
    BY <1>5, StopPlan
  <2>5. Busy(r)'
    BY <2>4 DEF Busy
  <2> QED BY <1>1, <1>2, <2>2, <2>3, <2>4, <2>5 DEF Closing
<1>6. ASSUME NEW o \in Org, NEW m \in Mgr, Launch(r, o, m) PROVE Closing'
  <2>1. phase' = phase /\ o \in req[r].start
    BY <1>6 DEF Launch
  <2> QED BY <1>1, <1>2, <2>1 DEF Closing
<1>7. CASE Returned(r)
  BY <1>7, ClosingReturn
<1> QED BY <1>3, <1>4, <1>5, <1>6, <1>7, ServeCases

LEMMA ClosingStep == Kept /\ Known /\ Closing /\ Solo /\ [Next]_vars => Closing'
<1> SUFFICES ASSUME Kept, Known, Closing, Solo, [Next]_vars PROVE Closing'
  OBVIOUS
<1>1. CASE UNCHANGED vars
  BY <1>1 DEF vars, Closing, Busy, Live, Tracked
<1>2. Typed
  BY DEF Kept
<1> QED BY <1>1, <1>2, ClosingTask, ClosingAsk, ClosingServe DEF Next

(* What holds from the start and of every step, whatever requests overlap;   *)
(* stated apart from NoZombieHolds for the theorems below.                   *)
LEMMA KeptInit == Init => Kept
BY TypedInit DEF Init, Kept, Apart, Phases, Busy, AtRest

LEMMA KeptStep == Kept /\ [Next]_vars => Kept'
<1> SUFFICES ASSUME Kept, [Next]_vars PROVE Kept'
  OBVIOUS
<1>1. CASE UNCHANGED vars
  BY <1>1, TypedStep DEF vars, Kept, Apart, Phases, Cared, Busy
<1> QED BY <1>1, KeptTask, KeptAsk, KeptStop, KeptReturn, KeptLaunch, KeptTurn,
           ServeCases DEF Next

(* The dictionary and the supervisors of a server whose requests come one at *)
(* a time.                                                                   *)
Orderly == Kept /\ Known /\ Closing

LEMMA OrderlyInit == Init => Orderly
BY KeptInit DEF Init, Orderly, Known, Live, Unused, AtRest, Waiting, Closing

LEMMA OrderlyStep == Solo /\ Orderly /\ [Next]_vars => Orderly'
BY KeptStep, KnownStep, ClosingStep DEF Orderly, Kept

(* One request at a time: after stop_all no supervisor streams or may        *)
(* connect any more (CometDManager.stop_all).                                *)
THEOREM SilentWhenDown == ASSUME Solo PROVE Spec => []DownIsSilent
<1>1. Orderly => DownIsSilent
  BY DEF Orderly, Closing, DownIsSilent
<1>2. Orderly /\ [Next]_vars => Orderly'
  BY OrderlyStep
<1> QED BY <1>1, <1>2, OrderlyInit, PTL DEF Spec

(* An outage is told once per outage: no step takes the alert back while the *)
(* supervisor still waits.                                                   *)
LEMMA RungTask ==
    ASSUME Orderly, Rung, NEW m \in Mgr, Task(m)
    PROVE  Rung'
<1>1. Typed /\ Known /\ (\A n \in Mgr : Live(n) => phase # "down")
  BY DEF Orderly, Kept, Closing
<1>2. told \in [Org -> 0 .. 2] /\ told' \in [Org -> 0 .. 2]
  BY <1>1, TaskType DEF Typed, TypeOK
<1> SUFFICES ASSUME NEW n \in Mgr, Live(n)', mgr'[n].pc \in Waiting, mgr'[n].alarmed
             PROVE  told'[mgr'[n].org] >= 1
  BY DEF Rung
<1>3. CASE n = m
  <2>1. Live(m) /\ mgr'[m].org = mgr[m].org
    BY <1>1, <1>3, TaskTells
  <2>2. CASE told'[mgr[m].org] >= 1
    BY <1>3, <2>1, <2>2
  <2>3. CASE mgr[m].alarmed /\ mgr[m].pc \in Waiting /\ told' = told
    BY <1>3, <2>1, <2>3 DEF Rung
  <2> QED BY <1>1, <1>3, <2>2, <2>3, TaskTells
<1>4. CASE n # m
  <2>1. mgr'[n] = mgr[n] /\ Live(n) /\ mgr[n].org \in Org
    BY <1>1, <1>4, TaskTells DEF Live, Typed, OrgKnown
  <2>2. ~(Live(m) /\ mgr[m].org = mgr[n].org)
    BY <1>1, <1>4, <2>1 DEF Known
  <2>3. told'[mgr[n].org] = told[mgr[n].org]
    BY <1>1, <2>1, <2>2, TaskTells
  <2> QED BY <2>1, <2>3 DEF Rung
<1> QED BY <1>3, <1>4

LEMMA NewSilent ==
    ASSUME Typed, NEW f \in [Mgr -> Manager], NEW m \in Mgr, NEW o \in Org, NEW r \in Req,
           mgr' = [f EXCEPT ![m] = New(o, req[r].snap[o])]
    PROVE  ~mgr'[m].alarmed /\ mgr'[m].conf = req[r].snap[o]
BY DEF New, Unused

LEMMA RungRequest ==
    ASSUME Orderly, Rung, NEW r \in Req, Ask(r) \/ Serve(r)
    PROVE  Rung'
<1>1. Typed /\ mgr \in [Mgr -> Manager]
  BY DEF Orderly, Kept, Typed, TypeOK
<1>2. told' = told
  BY DEF Ask, Serve, Startup, Resync, Shutdown, CreateOrg, UpdateOrg, DeleteOrg, EditEvents,
         ImportConfig, Sync, Stop, Missing, Forget, Finish, StoppedOne, Clear, Launch, Relaunch
<1>3. ASSUME NEW f \in [Mgr -> Manager],
             \A n \in Mgr : f[n].pc \in Waiting /\ ~f[n].cancelled /\ f[n].alarmed =>
                Live(n) /\ f[n].pc = mgr[n].pc /\ f[n].org = mgr[n].org /\ mgr[n].alarmed
      PROVE  /\ mgr' = f => Rung'
             /\ \A o \in Org, m \in Mgr : mgr' = [f EXCEPT ![m] = New(o, req[r].snap[o])] => Rung'
  <2>1. mgr' = f => Rung'
    BY <1>2, <1>3 DEF Rung, Live
  <2>2. ASSUME NEW o \in Org, NEW m \in Mgr, mgr' = [f EXCEPT ![m] = New(o, req[r].snap[o])]
        PROVE  Rung'
    <3>1. ~mgr'[m].alarmed /\ \A n \in Mgr \ {m} : mgr'[n] = f[n]
      BY <1>1, <2>2, NewSilent, NewKeeps
    <3> QED BY <1>2, <1>3, <3>1 DEF Rung, Live
  <2> QED BY <2>1, <2>2
<1>4. \A n \in Mgr : mgr[n].pc \in Waiting /\ ~mgr[n].cancelled => Live(n)
  BY DEF Live
<1>5. CASE mgr' = mgr
  BY <1>1, <1>3, <1>4, <1>5
<1>6. ASSUME NEW o \in Org, Stop(r, o) PROVE Rung'
  <2>1. PICK m \in Mgr : m = managers[o]
    BY <1>1, <1>6, StopManagerKnown
  <2>2. mgr' = [mgr EXCEPT ![m].stopped = TRUE]
    BY <1>6, <2>1 DEF Stop
  <2>3. \A n \in Mgr : /\ mgr'[n].pc = mgr[n].pc /\ mgr'[n].org = mgr[n].org
                       /\ mgr'[n].cancelled = mgr[n].cancelled
                       /\ mgr'[n].alarmed = mgr[n].alarmed
    BY <1>1, <2>2 DEF Manager
  <2> QED BY <1>2, <2>3 DEF Rung, Live
<1>7. CASE Returned(r)
  <2> DEFINE s == req[r].stopping
             f == StopTask(s)
  <2>1. s \in Mgr /\ req[r].at \in Org /\ f \in [Mgr -> Manager]
    BY <1>1, <1>7, ReturnedKeeps, StopTaskType
  <2>2. \A n \in Mgr : f[n].pc \in Waiting /\ ~f[n].cancelled => f[n] = mgr[n]
    BY <1>1, <2>1, StopTaskKeeps DEF Waiting, Over
  <2> HIDE DEF f
  <2>3. mgr' = f => Rung'
    BY <1>3, <1>4, <2>1, <2>2
  <2>4. \A m \in Mgr : mgr' = [f EXCEPT ![m] = New(req[r].at, req[r].snap[req[r].at])] => Rung'
    BY <1>3, <1>4, <2>1, <2>2
  <2> QED BY <1>1, <1>7, <2>3, <2>4, ReturnedManagers DEF f
<1>8. ASSUME NEW o \in Org, NEW m \in Mgr, Launch(r, o, m) PROVE Rung'
  <2>1. mgr' = [mgr EXCEPT ![m] = New(o, req[r].snap[o])]
    BY <1>8 DEF Launch
  <2> QED BY <1>1, <1>3, <1>4, <2>1
<1>9. CASE Turn(r) \/ Clear(r)
  BY <1>1, <1>5, <1>9, TurnKeeps DEF Clear
<1>10. CASE Ask(r)
  BY <1>1, <1>5, <1>10, AskKeeps
<1> QED BY <1>6, <1>7, <1>8, <1>9, <1>10, ServeCases

LEMMA RungStep == Orderly /\ Rung /\ [Next]_vars => Rung'
<1> SUFFICES ASSUME Orderly, Rung, [Next]_vars PROVE Rung'
  OBVIOUS
<1>1. CASE UNCHANGED vars
  BY <1>1 DEF vars, Rung, Live
<1> QED BY <1>1, RungTask, RungRequest DEF Next

(* Whoever goes to sleep without a connection has rung.                      *)
LEMMA OutageStep ==
    ASSUME Orderly, Rung, [Next]_vars, NEW m \in Mgr,
           mgr[m].pc \in {"login", "handshake"}, mgr'[m].pc = "sleep"
    PROVE  told'[mgr[m].org] >= 1
<1>1. Typed
  BY DEF Orderly, Kept
<1>2. ASSUME NEW n \in Mgr, Task(n) PROVE told'[mgr[m].org] >= 1
  <2>1. n = m
    BY <1>1, <1>2, TaskTells
  <2>2. mgr'[m].alarmed /\ mgr'[m].pc \in Waiting
    BY <1>1, <1>2, <2>1, TaskTells DEF Waiting
  <2>3. ~mgr'[m].cancelled
    BY <1>1, <1>2, <2>1, <2>2, TaskKeeps
  <2>4. Live(m)' /\ mgr'[m].org = mgr[m].org
    BY <1>1, <1>2, <2>1, <2>2, <2>3, TaskKeeps DEF Live
  <2>5. Rung'
    BY <1>2, RungTask
  <2> QED BY <2>2, <2>4, <2>5 DEF Rung
<1>3. ASSUME NEW r \in Req, Ask(r) \/ Turn(r) \/ Clear(r) PROVE FALSE
  BY <1>1, <1>3, AskKeeps, TurnKeeps DEF Clear
<1>4. ASSUME NEW r \in Req, NEW o \in Org, Stop(r, o) PROVE FALSE
  BY <1>1, <1>4, StopManagerKnown, StopKeeps
<1>5. ASSUME NEW r \in Req, NEW o \in Org, NEW n \in Mgr, Launch(r, o, n) PROVE FALSE
  BY <1>1, <1>5, LaunchKeeps, NewKeeps DEF Typed, TypeOK
<1>6. ASSUME NEW r \in Req, Returned(r) PROVE FALSE
  <2> DEFINE s == req[r].stopping
             f == StopTask(s)
  <2>1. s \in Mgr /\ req[r].at \in Org
    BY <1>1, <1>6, ReturnedKeeps
  <2>2. f \in [Mgr -> Manager] /\ f[m].pc = mgr[m].pc
    BY <1>1, <2>1, StopTaskType
  <2>3. ASSUME NEW n \in Mgr, mgr' = [f EXCEPT ![n] = New(req[r].at, req[r].snap[req[r].at])]
        PROVE  FALSE
    BY <1>1, <2>1, <2>2, <2>3, NewKeeps
  <2> QED BY <1>1, <1>6, <2>2, <2>3, ReturnedManagers
<1>7. CASE UNCHANGED vars
  BY <1>7 DEF vars
<1> QED BY <1>2, <1>3, <1>4, <1>5, <1>6, <1>7, ServeCases DEF Next

(* One request at a time: a supervisor that goes to sleep without having     *)
(* connected has told of the outage (_note_failure, README.md:716).          *)
THEOREM OutagesAreTold == ASSUME Solo PROVE Spec => OutageIsTold
<1>1. Init => Orderly /\ Rung
  BY OrderlyInit DEF Init, Rung, Live, Unused, Waiting
<1>2. Orderly /\ Rung /\ [Next]_vars => Orderly' /\ Rung'
  BY OrderlyStep, RungStep
<1>3. Orderly /\ Rung /\ [Next]_vars
        => [\A m \in Mgr : mgr[m].pc \in {"login", "handshake"} /\ mgr'[m].pc = "sleep"
               => told'[mgr[m].org] >= 1]_vars
  BY OutageStep
<1> QED BY <1>1, <1>2, <1>3, PTL DEF Spec, OutageIsTold
(* A step of a supervisor leaves the manager of an org right.                *)
LEMMA RightTask ==
    ASSUME Orderly, NEW m \in Mgr, Task(m), NEW o \in Org, Right(o)
    PROVE  Right(o)'
<1>1. /\ Typed /\ Apart /\ (\A n \in Mgr : Live(n) => managers[mgr[n].org] = n)
      /\ \A n \in Mgr : Live(n) => mgr[n].org \in Org
  BY DEF Orderly, Kept, Known, Closing, Live, Typed, OrgKnown
<1>2. managers' = managers /\ rows' = rows /\ channels' = channels
  BY <1>1, TaskTells
<1>3. managers[o] \in Mgr \cup {None}
  BY <1>1 DEF Typed, TypeOK
<1>4. CASE managers[o] # m
  <2>1. managers[o] # None => mgr'[managers[o]] = mgr[managers[o]]
    BY <1>1, <1>3, <1>4, TaskTells
  <2> QED BY <1>2, <2>1 DEF Right, Live
<1>5. CASE managers[o] = m
  <2>1. Live(m) => mgr[m].org = o
    BY <1>1, <1>5 DEF Apart
  <2>2. Live(m)' => mgr'[m].conf = rows[o].conf
    BY <1>1, <1>5, TaskTells DEF Right
  <2>3. Live(m)' /\ mgr'[m].pc \in {"login", "handshake", "stream"} => mgr'[m].subs = channels[o]
    <3>1. CASE mgr'[m].subs = channels[mgr[m].org]
      BY <1>1, <2>1, <3>1, TaskTells
    <3>2. CASE mgr'[m].subs = mgr[m].subs /\ mgr[m].pc \in {"login", "handshake", "stream"}
      BY <1>1, <1>5, <3>2, TaskTells DEF Right
    <3> QED BY <1>1, <3>1, <3>2, TaskTells
  <2>4. mgr'[m].pc = "idle" => channels[o] = {}
    BY <1>1, <2>1, TaskTells
  <2> QED BY <1>2, <1>5, <2>2, <2>3, <2>4 DEF Right, Live
<1> QED BY <1>4, <1>5

LEMMA CurrentTask ==
    ASSUME Orderly, Current, NEW m \in Mgr, Task(m)
    PROVE  Current'
<1>1. Typed
  BY DEF Orderly, Kept
<1>2. UNCHANGED <<rows, channels, managers, req, phase>> /\ Tracked' = Tracked
  BY <1>1, TaskTells DEF Tracked
<1> SUFFICES ASSUME phase = "up" PROVE \E r \in Req : Fit(r)'
  BY <1>2 DEF Current
<1>3. PICK r \in Req : Fit(r)
  BY DEF Current
<1>4. \A o \in Org : Right(o) => Right(o)'
  BY RightTask
<1> QED BY <1>2, <1>3, <1>4 DEF Fit, Busy, Active

(* A change and the snapshot after it: what is out of date by now is in the  *)
(* plan of the sync.                                                         *)
LEMMA CurrentSync ==
    ASSUME Orderly, Current, Solo, NEW r \in Req,
           NEW table \in [Org -> Row \cup {None}], NEW only \in SUBSET Org,
           Sync(r, table, only),
           phase = "up" \/ (phase = "starting" /\ only = Org),
           \A o \in Org \ only : table[o] = rows[o] /\ channels'[o] = channels[o]
    PROVE  Fit(r)'
<1> DEFINE active == Active(table)
           snap == [o \in Org |-> IF o \in active THEN table[o].conf ELSE None]
           q == [AtRest EXCEPT !.pc = "run", !.purge = Tracked \ active,
                               !.start = only \cap active, !.snap = snap]
<1>1. req \in [Req -> Request] /\ ~Busy(r)
  BY DEF Orderly, Kept, Typed, TypeOK, Sync
<1>2. req' = [req EXCEPT ![r] = q] /\ rows' = table /\ UNCHANGED <<managers, mgr>>
  BY DEF Sync
<1>3. /\ q.pc = "run" /\ ~q.all /\ q.purge = Tracked \ active
      /\ q.start = only \cap active /\ q.snap = snap
  BY DEF AtRest
<1> HIDE DEF q
<1>4. req'[r] = q /\ Tracked' = Tracked /\ Active(rows)' = active
  BY <1>1, <1>2 DEF Tracked, Active
<1>5. active \subseteq Org /\ Tracked \subseteq Org
  BY DEF Active, Tracked
<1>6. active \subseteq Tracked \cup only
  <2>1. CASE phase = "starting"
    BY <1>5, <2>1
  <2>2. CASE phase = "up"
    <3>1. Active(rows) \subseteq Tracked
      BY <1>1, <2>2 DEF Current, Solo, Fit
    <3>2. \A o \in active \ only : o \in Active(rows)
      BY <1>5 DEF Active
    <3> QED BY <3>1, <3>2
  <2> QED BY <2>1, <2>2
<1>7. \A o \in only \cap active : snap[o] = table[o].conf
  BY <1>5
<1> HIDE DEF snap
<1>8. ASSUME NEW o \in Org, o \notin q.purge, o \notin q.start PROVE Right(o)'
  <2>1. CASE managers[o] = None
    BY <1>2, <2>1 DEF Right
  <2>2. CASE managers[o] # None
    <3>1. o \in Tracked /\ o \in active /\ o \notin only
      BY <1>3, <1>8, <2>2 DEF Tracked
    <3>2. phase = "up" /\ table[o] = rows[o] /\ channels'[o] = channels[o]
      BY <3>1
    <3>3. Right(o)
      BY <1>1, <3>2 DEF Current, Solo, Fit
    <3> QED BY <1>2, <3>2, <3>3 DEF Right, Live
  <2> QED BY <2>1, <2>2
<1>9. Busy(r)'
  BY <1>3, <1>4 DEF Busy
<1> HIDE DEF active
<1> QED BY <1>2, <1>3, <1>4, <1>6, <1>7, <1>8, <1>9 DEF Fit

LEMMA CurrentAsk ==
    ASSUME Orderly, Current, Solo, NEW r \in Req, Ask(r)
    PROVE  Current'
<1>1. Typed
  BY DEF Orderly, Kept
<1>2. CASE Shutdown(r)
  BY <1>2 DEF Shutdown, Current
<1>3. ASSUME NEW table \in [Org -> Row \cup {None}], NEW only \in SUBSET Org,
             Sync(r, table, only),
             (phase = "starting" /\ only = Org) \/ phase = "up",
             \A o \in Org \ only : table[o] = rows[o] /\ channels'[o] = channels[o]
      PROVE  Current'
  <2>1. Fit(r)'
    BY <1>3, CurrentSync
  <2> QED BY <2>1 DEF Current
<1> QED BY <1>1, <1>2, <1>3, AskCases

(* Stopping leaves the rest of what a manager is alone.                      *)
LEMMA CurrentStop ==
    ASSUME Orderly, Current, Solo, NEW r \in Req, NEW o \in Org, Stop(r, o)
    PROVE  Current'
<1>1. Typed
  BY DEF Orderly, Kept
<1>2. PICK m \in Mgr : m = managers[o]
  BY <1>1, StopManagerKnown
<1>3. /\ managers' = managers /\ phase' = phase /\ rows' = rows /\ channels' = channels
      /\ mgr' = [mgr EXCEPT ![m].stopped = TRUE]
  BY <1>2 DEF Stop
<1> SUFFICES ASSUME phase = "up" PROVE Fit(r)'
  BY <1>3 DEF Current
<1>4. Fit(r)
  BY DEF Current, Solo
<1>5. \A n \in Mgr : /\ mgr'[n].pc = mgr[n].pc /\ mgr'[n].cancelled = mgr[n].cancelled
                     /\ mgr'[n].conf = mgr[n].conf /\ mgr'[n].subs = mgr[n].subs
  BY <1>1, <1>3 DEF Typed, TypeOK, Manager
<1>6. ASSUME NEW p \in Org, Right(p) PROVE Right(p)'
  <2>1. managers[p] \in Mgr \cup {None}
    BY <1>1 DEF Typed, TypeOK
  <2> QED BY <1>3, <1>5, <1>6, <2>1 DEF Right, Live
<1>7. /\ req'[r].all = req[r].all /\ req'[r].snap = req[r].snap
      /\ req'[r].purge = req[r].purge /\ req'[r].start = req[r].start
      /\ Busy(r)'
  BY <1>1, StopPlan DEF Busy
<1>8. Tracked' = Tracked /\ Active(rows)' = Active(rows)
  BY <1>3 DEF Tracked, Active
<1> QED BY <1>3, <1>4, <1>6, <1>7, <1>8 DEF Fit

(* The dictionary has a new manager for an org that is to be started.        *)
LEMMA RightNew ==
    ASSUME Typed, NEW r \in Req, Fit(r), NEW o \in Org, o \in req[r].start,
           NEW f \in [Mgr -> Manager], NEW m \in Mgr,
           mgr' = [f EXCEPT ![m] = New(o, req[r].snap[o])],
           managers' = [managers EXCEPT ![o] = m], req' = Started(r, o),
           UNCHANGED <<rows, channels>>, req[r].purge = {},
           \A p \in Org : managers[p] # m,
           \A p \in Org \ {o} : managers[p] # None => f[managers[p]] = mgr[managers[p]]
    PROVE  Fit(r)'
<1>1. /\ \A n \in Mgr \ {m} : mgr'[n] = f[n]
      /\ mgr'[m].pc = "top" /\ mgr'[m].conf = req[r].snap[o]
  <2>1. (\A n \in Mgr \ {m} : mgr'[n] = f[n]) /\ mgr'[m].pc = "top"
    BY NewKeeps
  <2>2. mgr'[m].conf = req[r].snap[o]
    BY DEF New, Unused
  <2> QED BY <2>1, <2>2
<1>2. managers'[o] = m /\ \A p \in Org \ {o} : managers'[p] = managers[p]
  BY DEF Typed, TypeOK
<1>3. Tracked' = Tracked \cup {o} /\ Active(rows)' = Active(rows)
  BY <1>2 DEF Tracked, Active
<1>4. /\ req'[r].all = req[r].all /\ req'[r].snap = req[r].snap
      /\ req'[r].purge = {} /\ req'[r].start = req[r].start \ {o}
      /\ Busy(r)'
  BY StartedOne DEF Busy
<1>5. Right(o)'
  BY <1>1, <1>2 DEF Right, Fit
<1>6. ASSUME NEW p \in Org \ {o}, Right(p) PROVE Right(p)'
  <2>1. managers[p] # None => mgr'[managers[p]] = mgr[managers[p]]
    BY <1>1 DEF Typed, TypeOK
  <2> QED BY <1>2, <1>6, <2>1 DEF Right, Live
<1>7. \A p \in Org \ req'[r].start : Right(p)'
  BY <1>4, <1>5, <1>6 DEF Fit
<1> QED BY <1>3, <1>4, <1>7 DEF Fit

LEMMA CurrentReturn ==
    ASSUME Orderly, Current, Solo, NEW r \in Req, Returned(r)
    PROVE  Current'
<1>1. Typed /\ Apart
  BY DEF Orderly, Kept
<1>2. PICK s \in Mgr, a \in Org :
         /\ s = req[r].stopping /\ a = req[r].at /\ phase' = phase /\ req[r].pc = "stopping"
         /\ managers[a] = s /\ rows' = rows /\ channels' = channels
  BY <1>1, ReturnedKeeps DEF Orderly, Known, Returned, Forget, StoppedOne, Relaunch
<1> SUFFICES ASSUME phase = "up" PROVE Fit(r)'
  BY <1>2 DEF Current
<1>3. Fit(r)
  BY DEF Current, Solo
<1>4. PICK f \in [Mgr -> Manager] : f = StopTask(s) /\ \A n \in Mgr \ {s} : f[n] = mgr[n]
  BY <1>1, StopTaskType, StopTaskKeeps
<1>5. \A p \in Org \ {a} : managers[p] # None => f[managers[p]] = mgr[managers[p]]
  BY <1>1, <1>2, <1>4 DEF Apart, Typed, TypeOK
<1>6. CASE Forget(r)
  <2>1. a \in req[r].purge /\ mgr' = f /\ managers[a] # None
    BY <1>2, <1>4, <1>6 DEF Forget
  <2>2. managers' = [managers EXCEPT ![a] = None]
    BY <1>2, <1>6, <2>1 DEF Forget
  <2>3. managers'[a] = None /\ \A p \in Org \ {a} : managers'[p] = managers[p]
    BY <1>1, <1>2, <2>2 DEF Typed, TypeOK
  <2>4. Tracked' = Tracked \ {a} /\ Active(rows)' = Active(rows)
    BY <1>2, <2>3 DEF Tracked, Active
  <2>5. /\ req'[r].all = req[r].all /\ req'[r].snap = req[r].snap
        /\ req'[r].purge = req[r].purge \ {a} /\ req'[r].start = req[r].start
        /\ Busy(r)'
    BY <1>1, <1>2, <1>6, <2>1, PurgedOne DEF Busy
  <2>6. Right(a)'
    BY <2>3 DEF Right
  <2>7. ASSUME NEW p \in Org \ {a}, Right(p) PROVE Right(p)'
    BY <1>2, <1>5, <2>1, <2>3, <2>7 DEF Right, Live
  <2>8. \A p \in Org \ (req'[r].purge \cup req'[r].start) : Right(p)'
    BY <1>3, <2>5, <2>6, <2>7 DEF Fit
  <2>9. a \notin Active(rows)
    BY <1>3, <2>1 DEF Fit
  <2> QED BY <1>2, <1>3, <2>4, <2>5, <2>8, <2>9 DEF Fit
<1>7. ASSUME NEW m \in Mgr, Relaunch(r, m) PROVE Fit(r)'
  <2>1. /\ a \in req[r].start /\ req[r].purge = {}
        /\ mgr' = [f EXCEPT ![m] = New(a, req[r].snap[a])]
        /\ managers' = [managers EXCEPT ![a] = m] /\ req' = Started(r, a)
    BY <1>2, <1>4, <1>7 DEF Relaunch
  <2>2. \A p \in Org : managers[p] # m
    BY <1>7 DEF Relaunch, Free, Dropped
  <2> QED BY <1>1, <1>2, <1>3, <1>4, <1>5, <2>1, <2>2, RightNew
<1>8. ~StoppedOne(r)
  BY <1>3 DEF StoppedOne, Fit
<1> QED BY <1>6, <1>7, <1>8 DEF Returned

LEMMA CurrentServe ==
    ASSUME Orderly, Current, Solo, NEW r \in Req, Serve(r)
    PROVE  Current'
<1>1. Typed /\ mgr \in [Mgr -> Manager]
  BY DEF Orderly, Kept, Typed, TypeOK
<1>2. CASE Clear(r)
  BY <1>2 DEF Clear, Current
<1>3. ASSUME NEW o \in Org, NEW m \in Mgr, Launch(r, o, m) PROVE Current'
  <2>1. /\ o \in req[r].start /\ req[r].purge = {}
        /\ mgr' = [mgr EXCEPT ![m] = New(o, req[r].snap[o])]
        /\ managers' = [managers EXCEPT ![o] = m] /\ req' = Started(r, o)
        /\ UNCHANGED <<rows, channels, phase>>
    BY <1>3 DEF Launch
  <2>2. \A p \in Org : managers[p] # m
    BY <1>3 DEF Launch, Free, Dropped
  <2>3. ASSUME phase = "up" PROVE Fit(r)'
    <3>1. Fit(r)
      BY <2>3 DEF Current, Solo
    <3> QED BY <1>1, <2>1, <2>2, <3>1, RightNew
  <2> QED BY <2>1, <2>3 DEF Current
<1>4. CASE Turn(r)
  <2>1. /\ UNCHANGED <<rows, channels, managers, mgr, phase>> /\ req[r].pc = "run"
        /\ Tracked' = Tracked /\ Active(rows)' = Active(rows)
    BY <1>1, <1>4, TurnKeeps DEF Turn, Finish, Missing, Tracked, Active
  <2>2. ASSUME phase = "up" PROVE Fit(r)'
    <3>1. Fit(r)
      BY <2>2 DEF Current, Solo
    <3>2. ~\E o \in Org : Missing(r, o)
      BY <3>1 DEF Missing, Fit, Tracked
    <3>3. req[r].purge = {} /\ req[r].start = {} /\ req' = [req EXCEPT ![r] = AtRest]
      BY <1>4, <3>2 DEF Turn, Finish, Pending
    <3>4. req'[r].purge = {} /\ req'[r].start = {} /\ ~req'[r].all
      BY <1>1, <3>3 DEF AtRest, Typed, TypeOK
    <3>5. \A o \in Org : Right(o) => Right(o)'
      BY <2>1 DEF Right, Live
    <3> QED BY <2>1, <3>1, <3>3, <3>4, <3>5 DEF Fit
  <2> QED BY <2>1, <2>2 DEF Current
<1> QED BY <1>2, <1>3, <1>4, CurrentStop, CurrentReturn, ServeCases

LEMMA CurrentStep == Solo /\ Orderly /\ Current /\ [Next]_vars => Current'
<1> SUFFICES ASSUME Solo, Orderly, Current, [Next]_vars PROVE Current'
  OBVIOUS
<1>1. CASE UNCHANGED vars
  BY <1>1 DEF vars, Current, Fit, Right, Busy, Live, Tracked, Active
<1> QED BY <1>1, CurrentTask, CurrentAsk, CurrentServe DEF Next

(* One request at a time: whenever none is served, the streams are those of  *)
(* the current rows and channels (CometDManager.sync after each edit).       *)
THEOREM StreamsUpToDate == ASSUME Solo PROVE Spec => []UpToDate
<1>1. Orderly /\ Current => UpToDate
  <2> SUFFICES ASSUME Orderly, Current, Quiet PROVE UpToDate
    BY DEF UpToDate
  <2>1. PICK r \in Req : Fit(r) /\ ~Busy(r)
    BY DEF Current, Quiet
  <2>2. req[r].purge = {} /\ req[r].start = {}
    BY <2>1 DEF Fit
  <2>3. Tracked = Active(rows) /\ \A o \in Org : Right(o)
    <3>1. Tracked \subseteq Active(rows)
      BY <2>1, <2>2 DEF Fit
    <3>2. Active(rows) \subseteq Tracked
      BY <2>1, <2>2 DEF Fit
    <3> QED BY <2>1, <2>2, <3>1, <3>2 DEF Fit
  <2>4. ASSUME NEW m \in Mgr, Live(m)
        PROVE  /\ mgr[m].org \in Active(rows)
               /\ mgr[m].conf = rows[mgr[m].org].conf
               /\ mgr[m].pc \in {"login", "handshake", "stream"}
                     => mgr[m].subs = channels[mgr[m].org]
    <3>1. managers[mgr[m].org] = m /\ mgr[m].org \in Tracked
      BY <2>4, LiveTracked DEF Orderly, Kept, Known, Quiet
    <3>2. Right(mgr[m].org)
      BY <2>3, <3>1 DEF Tracked
    <3>3. m # None
      OBVIOUS
    <3> QED BY <2>3, <2>4, <3>1, <3>2, <3>3 DEF Right
  <2>5. \A o \in Tracked : mgr[managers[o]].pc = "idle" => channels[o] = {}
    BY <2>3 DEF Right, Tracked
  <2> QED BY <2>3, <2>4, <2>5 DEF UpToDate
<1>2. Init => Current
  BY DEF Init, Current
<1>3. Orderly /\ Current /\ [Next]_vars => Orderly' /\ Current'
  BY OrderlyStep, CurrentStep
<1> QED BY <1>1, <1>2, <1>3, OrderlyInit, PTL DEF Spec
============================================================================
