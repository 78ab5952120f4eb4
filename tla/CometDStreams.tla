---------------------------- MODULE CometDStreams ----------------------------
(* The per-org streams of backend/app/cometd_client.py: one supervisor task  *)
(* per OrgStreamManager, and CometDManager.sync / stop_all, which the org,   *)
(* event, resync and import endpoints and the server's own start and stop    *)
(* call.  Everything runs on one asyncio loop: a coroutine keeps the loop    *)
(* from one await that suspends to the next, so `loop` names the request     *)
(* that is in the middle of such a stretch.                                  *)
EXTENDS Naturals, FiniteSets, FiniteSetsExt

CONSTANTS
    Org,          \* org ids
    Conf,         \* contents of an org row: credentials, URL, API version
    Channel,      \* channels an org may subscribe to
    Mgr,          \* OrgStreamManager objects
    Req,          \* HTTP requests (and the server's own start and stop)
    None,
    Calls,        \* the kinds of request that are made
    LoginFaults   \* the ways in which a login may fail

AllCalls == {"org", "event", "resync", "import", "shutdown"}
AllFaults == {"refused", "malformed"}

ASSUME StreamsAssumption ==
    /\ None \notin Org \cup Conf \cup Mgr \cup Req
    /\ Calls \subseteq AllCalls
    /\ LoginFaults \subseteq AllFaults
    /\ IsFiniteSet(Org) /\ IsFiniteSet(Mgr) /\ IsFiniteSet(Req)

VARIABLES
    rows,       \* orgs_table: the row of each org, None when there is none
    channels,   \* event_configs_table: enabled subscribe channels of each org
    managers,   \* CometDManager._managers
    mgr,        \* the manager objects with their supervisor tasks
    req,        \* the sync or stop_all call each request is in
    loop,       \* the request that runs without having yielded, or None
    phase,      \* the life of the server
    told        \* history: alerts for an org since a stream of it connected

vars == <<rows, channels, managers, mgr, req, loop, phase, told>>

Row == [active: BOOLEAN, conf: Conf]
Waiting == {"top", "login", "handshake", "sleep"}  \* no open client
Over == {"ended", "idle", "crashed"}               \* task.done()
Manager == [pc: {"unused", "stream"} \cup Waiting \cup Over,
            org: Org \cup {None}, conf: Conf \cup {None}, subs: SUBSET Channel,
            stopped: BOOLEAN, alarmed: BOOLEAN, cancelled: BOOLEAN]
Request == [pc: {"idle", "run", "stopping", "failed"}, all: BOOLEAN,
            purge: SUBSET Org, start: SUBSET Org,
            snap: [Org -> Conf \cup {None}],
            stopping: Mgr \cup {None}, at: Org \cup {None}]

Unused == [pc |-> "unused", org |-> None, conf |-> None, subs |-> {},
           stopped |-> FALSE, alarmed |-> FALSE, cancelled |-> FALSE]
AtRest == [pc |-> "idle", all |-> FALSE, purge |-> {}, start |-> {},
           snap |-> [o \in Org |-> None], stopping |-> None, at |-> None]

Tracked == {o \in Org : managers[o] # None}
Active(table) == {o \in Org : table[o] # None /\ table[o].active}
Busy(r) == req[r].pc \in {"run", "stopping"}
Quiet == phase = "up" /\ \A r \in Req : ~Busy(r)

(* Nothing but its own task refers to a manager object; one whose task is    *)
(* done can stand for a new object.                                          *)
Dropped(m) ==
    /\ \A o \in Org : managers[o] # m
    /\ \A r \in Req : req[r].stopping # m

Free(m) == Dropped(m) /\ mgr[m].pc \in Over \cup {"unused"}

(* Bound: a sync begins only while there are manager objects for every       *)
(* stream that it, and the syncs in progress, may start.                     *)
Room(n) ==
    n + MapThenSumSet(LAMBDA r : Cardinality(req[r].start), Req)
        <= Cardinality({m \in Mgr : Free(m)})

TypeOK ==
    /\ rows \in [Org -> Row \cup {None}]
    /\ channels \in [Org -> SUBSET Channel]
    /\ managers \in [Org -> Mgr \cup {None}]
    /\ mgr \in [Mgr -> Manager]
    /\ req \in [Req -> Request]
    /\ loop \in Req \cup {None}
    /\ phase \in {"starting", "up", "stopping", "down"}
    /\ told \in [Org -> 0..2]

Init ==
    /\ rows \in [Org -> Row \cup {None}]
    /\ channels \in [Org -> SUBSET Channel]
    /\ managers = [o \in Org |-> None]
    /\ mgr = [m \in Mgr |-> Unused]
    /\ req = [r \in Req |-> AtRest]
    /\ loop = None
    /\ phase = "starting"
    /\ told = [o \in Org |-> 0]

-----------------------------------------------------------------------------
(* The supervisor task, OrgStreamManager._run_forever                        *)

(* The task is resumed: nothing else holds the loop, and no cancellation is  *)
(* waiting to be thrown into it.                                             *)
Resumed(m, pcs) ==
    /\ loop = None
    /\ mgr[m].pc \in pcs
    /\ ~mgr[m].cancelled

Go(m, pc) == mgr' = [mgr EXCEPT ![m].pc = pc]

(* A task that is done leaves its manager only what sync still reads, and    *)
(* nothing at all once nobody refers to it.                                  *)
Done(m, pc) ==
    mgr' = [mgr EXCEPT ![m] = IF Dropped(m) THEN Unused
                              ELSE [Unused EXCEPT !.pc = pc, !.stopped = mgr[m].stopped]]

(* The head of the loop, first reached when the task starts and then after   *)
(* each back-off sleep: stop, give up without channels, or try to connect.   *)
Begin(m) ==
    /\ Resumed(m, {"top", "sleep"})
    /\ LET subs == channels[mgr[m].org]
       IN IF mgr[m].stopped THEN Done(m, "ended")
          ELSE IF subs = {} THEN Done(m, "idle")
          ELSE mgr' = [mgr EXCEPT ![m].pc = "login", ![m].subs = subs]
    /\ UNCHANGED <<rows, channels, managers, req, loop, phase, told>>

(* Faulty: the alert flag is not reset by a round that connected.            *)
FaultyRearm(m, connected) ==
    /\ IF mgr[m].stopped THEN Done(m, "ended")
       ELSE mgr' = [mgr EXCEPT ![m].pc = "sleep", ![m].subs = {},
                               ![m].alarmed = @ \/ ~connected]
    /\ told' = IF mgr[m].stopped \/ connected \/ mgr[m].alarmed THEN told
               ELSE [told EXCEPT ![mgr[m].org] = IF @ < 2 THEN @ + 1 ELSE @]
    /\ UNCHANGED <<rows, channels, managers, req, loop, phase>>

(* Faulty: a round that did not connect ends the supervisor.                 *)
FaultyRetry(m, connected) ==
    /\ IF mgr[m].stopped \/ ~connected THEN Done(m, "ended")
       ELSE mgr' = [mgr EXCEPT ![m].pc = "sleep", ![m].subs = {}, ![m].alarmed = FALSE]
    /\ UNCHANGED <<rows, channels, managers, req, loop, phase, told>>

(* What follows one round of _connect_and_stream: a round that connected     *)
(* re-arms the alert; of the rounds that did not, the first one alerts.      *)
After(m, connected) ==
    /\ IF mgr[m].stopped THEN Done(m, "ended")
       ELSE mgr' = [mgr EXCEPT ![m].pc = "sleep", ![m].subs = {}, ![m].alarmed = ~connected]
    /\ told' = IF mgr[m].stopped \/ connected \/ mgr[m].alarmed THEN told
               ELSE [told EXCEPT ![mgr[m].org] = IF @ < 2 THEN @ + 1 ELSE @]
    /\ UNCHANGED <<rows, channels, managers, req, loop, phase>>

(* sf_client.get_session raised SalesforceAuthError: a status other than 200 *)
(* or a network error.                                                       *)
LoginRefused(m) ==
    /\ "refused" \in LoginFaults
    /\ Resumed(m, {"login"})
    /\ After(m, FALSE)

(* A 200 whose body is not JSON or has no token: login raises ValueError or  *)
(* KeyError, which nothing up to the task catches.                           *)
LoginMalformed(m) ==
    /\ "malformed" \in LoginFaults
    /\ Resumed(m, {"login"})
    /\ Done(m, "crashed")
    /\ UNCHANGED <<rows, channels, managers, req, loop, phase, told>>

LoggedIn(m) ==
    /\ Resumed(m, {"login"})
    /\ Go(m, "handshake")
    /\ UNCHANGED <<rows, channels, managers, req, loop, phase, told>>

HandshakeFailed(m) == Resumed(m, {"handshake"}) /\ After(m, FALSE)

Connected(m) ==
    /\ Resumed(m, {"handshake"})
    /\ Go(m, "stream")
    /\ told' = [told EXCEPT ![mgr[m].org] = 0]
    /\ UNCHANGED <<rows, channels, managers, req, loop, phase>>

(* Subscribing or streaming raised, or the client was closed under it.       *)
Lost(m) == Resumed(m, {"stream"}) /\ After(m, TRUE)

(* The CancelledError that task.cancel() asked for reaches the task.         *)
Cancelled(m) ==
    /\ loop = None
    /\ mgr[m].cancelled
    /\ mgr[m].pc \notin Over
    /\ Done(m, "ended")
    /\ UNCHANGED <<rows, channels, managers, req, loop, phase, told>>

-----------------------------------------------------------------------------
(* CometDManager.sync: what each request does first, without yielding, and   *)
(* the snapshot sync takes of the active orgs right after it.                *)

(* Faulty: orgs that are not active any more are left alone.                 *)
FaultyPurge(r, table, only) ==
    LET active == Active(table)
    IN /\ loop = None
       /\ ~Busy(r)
       /\ Room(Cardinality(only \cap active))
       /\ req' = [req EXCEPT ![r] =
                    [AtRest EXCEPT !.pc = "run", !.start = only \cap active,
                        !.snap = [o \in Org |-> IF o \in active THEN table[o].conf ELSE None]]]
       /\ loop' = r
       /\ rows' = table
       /\ UNCHANGED <<managers, mgr, told>>

(* Faulty: the snapshot mixes the rows up with their contents.               *)
FaultySnap(r, table, only) ==
    LET active == Active(table)
    IN /\ loop = None
       /\ ~Busy(r)
       /\ Room(Cardinality(only \cap active))
       /\ req' = [req EXCEPT ![r] =
                    [AtRest EXCEPT !.pc = "run", !.start = only \cap active,
                                   !.purge = Tracked \ active, !.snap = table]]
       /\ loop' = r
       /\ rows' = table
       /\ UNCHANGED <<managers, mgr, told>>

Sync(r, table, only) ==
    LET active == Active(table)
    IN /\ loop = None
       /\ ~Busy(r)
       /\ Room(Cardinality(only \cap active))
       /\ req' = [req EXCEPT ![r] =
                    [AtRest EXCEPT !.pc = "run", !.purge = Tracked \ active,
                        !.start = only \cap active,
                        !.snap = [o \in Org |-> IF o \in active THEN table[o].conf ELSE None]]]
       /\ loop' = r
       /\ rows' = table
       /\ UNCHANGED <<managers, mgr, told>>

Startup(r) ==
    /\ phase = "starting"
    /\ phase' = "up"
    /\ Sync(r, rows, Org)
    /\ UNCHANGED channels

Serving(call) == phase = "up" /\ call \in Calls /\ UNCHANGED phase

(* A new id: nothing in the process knows it.                                *)
CreateOrg(r, o, row) ==
    /\ Serving("org")
    /\ rows[o] = None /\ managers[o] = None
    /\ \A m \in Mgr : mgr[m].org # o \/ mgr[m].pc \in Over
    /\ Sync(r, [rows EXCEPT ![o] = row], {o})
    /\ UNCHANGED channels

UpdateOrg(r, o, row) ==
    /\ Serving("org")
    /\ rows[o] # None
    /\ Sync(r, [rows EXCEPT ![o] = row], {o})
    /\ UNCHANGED channels

DeleteOrg(r, o) ==
    /\ Serving("org")
    /\ rows[o] # None
    /\ Sync(r, [rows EXCEPT ![o] = None], {o})
    /\ UNCHANGED channels

(* create_config, update_config and delete_config of the event service.      *)
EditEvents(r, o, new) ==
    /\ Serving("event")
    /\ channels' = [channels EXCEPT ![o] = new]
    /\ Sync(r, rows, {o})

Resync(r) ==
    /\ Serving("resync")
    /\ Sync(r, rows, Org)
    /\ UNCHANGED channels

(* A bundle upserts orgs and event configurations, deleted ones included.    *)
ImportConfig(r, orgs, row, new) ==
    /\ Serving("import")
    /\ channels' = [o \in Org |-> IF o \in orgs THEN channels[o] \cup new ELSE channels[o]]
    /\ Sync(r, [o \in Org |-> IF o \in orgs THEN row ELSE rows[o]], Org)

-----------------------------------------------------------------------------
(* The loops of sync.  Orgs that are no longer active come first.            *)

Pending(r) == IF req[r].purge # {} THEN req[r].purge ELSE req[r].start

(* Faulty: stop always yields before it cancels the task.                    *)
FaultyStop(r, o) ==
    LET m == managers[o]
    IN /\ loop = r
       /\ req[r].pc = "run"
       /\ o \in Pending(r)
       /\ m # None
       /\ mgr' = [mgr EXCEPT ![m].stopped = TRUE]
       /\ req' = [req EXCEPT ![r].pc = "stopping", ![r].stopping = m, ![r].at = o]
       /\ loop' = None
       /\ UNCHANGED <<rows, channels, managers, phase, told>>

(* OrgStreamManager.stop: closing the client suspends only while the client  *)
(* is open; the coroutine keeps the loop otherwise.                          *)
Stop(r, o) ==
    LET m == managers[o]
    IN /\ loop = r
       /\ req[r].pc = "run"
       /\ o \in Pending(r)
       /\ m # None
       /\ mgr' = [mgr EXCEPT ![m].stopped = TRUE]
       /\ req' = [req EXCEPT ![r].pc = "stopping", ![r].stopping = m, ![r].at = o]
       /\ loop' = IF mgr[m].pc = "stream" THEN None ELSE r
       /\ UNCHANGED <<rows, channels, managers, phase, told>>

(* self._managers[org_id] of an org that another sync has removed meanwhile. *)
Missing(r, o) ==
    /\ loop = r
    /\ req[r].pc = "run"
    /\ o \in req[r].purge
    /\ managers[o] = None
    /\ req' = [req EXCEPT ![r] = [AtRest EXCEPT !.pc = "failed"]]
    /\ loop' = None
    /\ UNCHANGED <<rows, channels, managers, mgr, phase, told>>

(* stop() returns: the client is closed, and the task, if it is not done,    *)
(* is asked to stop: all it will do is end.                                   *)
Returning(r) == req[r].pc = "stopping" /\ loop \in {None, r}

(* Faulty: the client is closed but the task not cancelled.                  *)
FaultyStopTask(m) == mgr

StopTask(m) ==
    IF mgr[m].pc \in Over THEN mgr
    ELSE [mgr EXCEPT ![m] = [Unused EXCEPT !.pc = mgr[m].pc, !.org = mgr[m].org,
                                           !.stopped = mgr[m].stopped, !.cancelled = TRUE]]

(* Faulty: the stopped manager stays in the dictionary.                      *)
FaultyForget(r) ==
    LET o == req[r].at
    IN /\ Returning(r)
       /\ ~req[r].all
       /\ o \in req[r].purge
       /\ mgr' = StopTask(req[r].stopping)
       /\ req' = [req EXCEPT ![r].pc = "run", ![r].purge = @ \ {o},
                             ![r].stopping = None, ![r].at = None]
       /\ loop' = r
       /\ UNCHANGED <<rows, channels, managers, phase, told>>

(* del self._managers[org_id], whichever manager is there by now.            *)
Forget(r) ==
    LET o == req[r].at
    IN /\ Returning(r)
       /\ ~req[r].all
       /\ o \in req[r].purge
       /\ mgr' = StopTask(req[r].stopping)
       /\ IF managers[o] = None
          THEN /\ req' = [req EXCEPT ![r] = [AtRest EXCEPT !.pc = "failed"]]
               /\ loop' = None
               /\ UNCHANGED managers
          ELSE /\ req' = [req EXCEPT ![r].pc = "run", ![r].purge = @ \ {o},
                                     ![r].stopping = None, ![r].at = None]
               /\ loop' = r
               /\ managers' = [managers EXCEPT ![o] = None]
       /\ UNCHANGED <<rows, channels, phase, told>>

New(o, conf) == [Unused EXCEPT !.pc = "top", !.org = o, !.conf = conf]

Started(r, o) == [req EXCEPT ![r].pc = "run", ![r].start = @ \ {o},
                             ![r].stopping = None, ![r].at = None]

(* A manager for the org of the snapshot takes the place of what is there.   *)
Launch(r, o, m) ==
    /\ loop = r
    /\ req[r].pc = "run"
    /\ req[r].purge = {} /\ o \in req[r].start
    /\ managers[o] = None
    /\ Free(m)
    /\ mgr' = [mgr EXCEPT ![m] = New(o, req[r].snap[o])]
    /\ managers' = [managers EXCEPT ![o] = m]
    /\ req' = Started(r, o)
    /\ UNCHANGED <<rows, channels, loop, phase, told>>

(* Faulty: the manager that is replaced is not cancelled.                    *)
FaultyRelaunch(r, m) ==
    LET o == req[r].at
    IN /\ Returning(r)
       /\ o \in req[r].start /\ req[r].purge = {}
       /\ Free(m)
       /\ mgr' = [mgr EXCEPT ![m] = New(o, req[r].snap[o])]
       /\ managers' = [managers EXCEPT ![o] = m]
       /\ req' = Started(r, o)
       /\ loop' = r
       /\ UNCHANGED <<rows, channels, phase, told>>

Relaunch(r, m) ==
    LET o == req[r].at
    IN /\ Returning(r)
       /\ o \in req[r].start /\ req[r].purge = {}
       /\ Free(m)
       /\ mgr' = [StopTask(req[r].stopping) EXCEPT ![m] = New(o, req[r].snap[o])]
       /\ managers' = [managers EXCEPT ![o] = m]
       /\ req' = Started(r, o)
       /\ loop' = r
       /\ UNCHANGED <<rows, channels, phase, told>>

Finish(r) ==
    /\ loop = r
    /\ req[r].pc = "run"
    /\ ~req[r].all
    /\ Pending(r) = {}
    /\ req' = [req EXCEPT ![r] = AtRest]
    /\ loop' = None
    /\ UNCHANGED <<rows, channels, managers, mgr, phase, told>>

-----------------------------------------------------------------------------
(* stop_all: the server stops when its requests are over.                    *)

Shutdown(r) ==
    /\ "shutdown" \in Calls
    /\ Quiet
    /\ loop = None
    /\ phase' = "stopping"
    /\ req' = [req EXCEPT ![r] = [AtRest EXCEPT !.pc = "run", !.all = TRUE,
                                                !.purge = Tracked]]
    /\ loop' = r
    /\ UNCHANGED <<rows, channels, managers, mgr, told>>

(* Faulty: stop_all closes the clients and leaves the tasks.                 *)
FaultyStoppedOne(r) ==
    /\ Returning(r)
    /\ req[r].all
    /\ req' = [req EXCEPT ![r].pc = "run", ![r].purge = @ \ {req[r].at},
                          ![r].stopping = None, ![r].at = None]
    /\ loop' = r
    /\ UNCHANGED <<rows, channels, managers, mgr, phase, told>>

StoppedOne(r) ==
    /\ Returning(r)
    /\ req[r].all
    /\ mgr' = StopTask(req[r].stopping)
    /\ req' = [req EXCEPT ![r].pc = "run", ![r].purge = @ \ {req[r].at},
                          ![r].stopping = None, ![r].at = None]
    /\ loop' = r
    /\ UNCHANGED <<rows, channels, managers, phase, told>>

Clear(r) ==
    /\ loop = r
    /\ req[r].pc = "run"
    /\ req[r].all /\ req[r].purge = {}
    /\ managers' = [o \in Org |-> None]
    /\ req' = [req EXCEPT ![r] = AtRest]
    /\ loop' = None
    /\ phase' = "down"
    /\ UNCHANGED <<rows, channels, mgr, told>>

-----------------------------------------------------------------------------
Task(m) ==
    \/ Begin(m) \/ LoginRefused(m) \/ LoginMalformed(m) \/ LoggedIn(m)
    \/ HandshakeFailed(m) \/ Connected(m) \/ Lost(m) \/ Cancelled(m)

Ask(r) ==
    \/ Startup(r) \/ Resync(r) \/ Shutdown(r)
    \/ \E o \in Org, row \in Row : CreateOrg(r, o, row) \/ UpdateOrg(r, o, row)
    \/ \E o \in Org : DeleteOrg(r, o)
    \/ \E o \in Org, new \in SUBSET Channel : EditEvents(r, o, new)
    \/ \E orgs \in SUBSET Org, row \in Row, new \in SUBSET Channel :
          ImportConfig(r, orgs, row, new)

Serve(r) ==
    \/ \E o \in Org : Stop(r, o) \/ Missing(r, o)
    \/ Forget(r) \/ Finish(r) \/ StoppedOne(r) \/ Clear(r)
    \/ \E o \in Org, m \in Mgr : Launch(r, o, m)
    \/ \E m \in Mgr : Relaunch(r, m)

Next ==
    \/ \E m \in Mgr : Task(m)
    \/ \E r \in Req : Ask(r) \/ Serve(r)

Spec == Init /\ [][Next]_vars

(* The event loop is first in, first out, so whatever is ready again and     *)
(* again between other callbacks gets its turn: strong fairness.  Every      *)
(* await of a supervisor returns (the login and the sleep have time limits), *)
(* closing a client returns, a cancelled task is resumed.  Salesforce is not *)
(* down for ever: a login or handshake tried again and again succeeds now    *)
(* and then.                                                                 *)
FairSpec ==
    /\ Spec
    /\ \A r \in Req : WF_vars(Startup(r)) /\ SF_vars(Serve(r))
    /\ \A m \in Mgr : /\ SF_vars(Begin(m)) /\ SF_vars(Cancelled(m))
                      /\ SF_vars(LoggedIn(m)) /\ SF_vars(Connected(m))

-----------------------------------------------------------------------------
(* A supervisor that still may connect, or is connected.                     *)
Live(m) == mgr[m].pc \in Waiting \cup {"stream"} /\ ~mgr[m].cancelled

(* The class docstring: "Tracks one OrgStreamManager per active Salesforce   *)
(* org" - while the server is up, a supervisor that may stream is the one    *)
(* the dictionary holds for its org, so an event arrives once.               *)
OneStreamPerOrg ==
    phase = "up" => \A m \in Mgr : Live(m) => managers[mgr[m].org] = m

(* Between requests the streams are those of the current configuration:      *)
(* every active org has a manager, no other org has one or a live stream,    *)
(* each uses the current row and channels, and none has given up for want    *)
(* of channels that exist by now.                                            *)
UpToDate ==
    Quiet =>
        /\ Tracked = Active(rows)
        /\ \A m \in Mgr : Live(m) =>
              /\ mgr[m].org \in Active(rows)
              /\ mgr[m].conf = rows[mgr[m].org].conf
              /\ mgr[m].pc \in {"login", "handshake", "stream"}
                    => mgr[m].subs = channels[mgr[m].org]
        /\ \A o \in Tracked : mgr[managers[o]].pc = "idle" => channels[o] = {}

(* A manager in the dictionary that has been told to stop is about to be     *)
(* replaced or removed by a sync that waits for it: no overlap of syncs      *)
(* leaves an org with a stopped manager, which would never connect again.    *)
NoZombie ==
    phase = "up" =>
        \A o \in Tracked : mgr[managers[o]].stopped =>
            \E r \in Req : /\ req[r].pc = "stopping"
                           /\ req[r].stopping = managers[o] /\ req[r].at = o

(* A supervisor without an open client that has been told to stop does not   *)
(* connect any more, however long its login or handshake still takes.        *)
StopIsFinal ==
    [][\A m \in Mgr : mgr[m].stopped /\ mgr[m].pc # "stream"
           => mgr'[m].pc # "stream"]_vars

(* After stop_all no supervisor goes on streaming.                           *)
DownIsSilent == phase = "down" => \A m \in Mgr : ~Live(m)

(* README.md:716: the connection_failed alert fires once per outage: a        *)
(* supervisor that goes to sleep without having connected in this round has  *)
(* told of the outage.                                                       *)
OutageIsTold ==
    [][\A m \in Mgr : mgr[m].pc \in {"login", "handshake"} /\ mgr'[m].pc = "sleep"
           => told'[mgr[m].org] >= 1]_vars

(* README.md:749-751: any failure is caught and retried, so an org that      *)
(* keeps its manager and its channels is connected again and again.          *)
Recovers ==
    \A o \in Org : <>[](Quiet /\ managers[o] # None /\ channels[o] # {})
                      => []<>(o \in Tracked /\ mgr[managers[o]].pc = "stream")

(* A supervisor that is told to stop ends.                                   *)
StoppedEnds == \A m \in Mgr : mgr[m].stopped ~> mgr[m].pc \in Over \cup {"unused"}

=============================================================================
