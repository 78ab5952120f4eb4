------------------------------- MODULE Dispatch -------------------------------
(* integration_dispatch.py, circuit.py, alerts.py and the routers of           *)
(* integrations and alerts: what happens to a transaction once it has reached  *)
(* a terminal state.                                                           *)
(*                                                                             *)
(* A worker thread sends the transaction to the integration sinks it matches,  *)
(* one after the other, behind a circuit breaker for each sink; a sink that    *)
(* fails fires alerts; then the alerts of the transaction itself are fired.    *)
(* Threads share the tables and the breakers, whose dictionaries have no lock. *)
(* A sender is external: it answers or raises.                                 *)
EXTENDS Naturals, FiniteSets

CONSTANTS
    None,       \* no row, no restriction
    Worker,     \* threads: dispatches and tests
    Req,        \* the administrator requests that may be open together
    Sink,       \* ids of integrations
    Rule,       \* ids of alerts
    Org,        \* org ids; projects are the same to the code
    Secret,     \* secrets of a sink's config
    Dots,       \* what the API shows in place of a secret
    Rows,       \* the rows an integration may have
    RuleRows,   \* the rows an alert may have
    Installed,  \* what a system may start with: [sinks, rules, budget, jobs], the
                \* tables, and the bounds on requests and on dispatches and tests
    Finished,   \* the transactions to dispatch: [tx, route, alerts]
    Threshold   \* settings.circuit_fail_threshold

Trigger == {"always", "on_success", "on_failure"}
Outcome == {None, "ok", "error"}

(* A row of integrations.  known: its type has a sender.                       *)
SinkRow == [enabled : BOOLEAN, alertOnly : BOOLEAN, trigger : Trigger, known : BOOLEAN,
            org : Org \cup {None}, project : Org \cup {None},
            secret : Secret \cup {Dots, None}, last : Outcome]

(* A row of alerts.                                                            *)
AlertRow == [enabled : BOOLEAN, scope : {"transaction", "integration_failed"},
             trigger : Trigger, sink : Sink, org : Org \cup {None},
             project : Org \cup {None}, last : Outcome]

(* What is dispatched.  route, alerts: the ids picked for the channel, None    *)
(* when it restricts nothing.                                                  *)
Transaction == [status : {"published", "processed", "failed", "queued"}, error : BOOLEAN,
                org : Org \cup {None}, project : Org \cup {None}]
Job == [tx : Transaction, route : SUBSET Sink \cup {None}, alerts : SUBSET Rule \cup {None}]

ASSUME DispatchAssumption ==
    /\ Rows \subseteq SinkRow /\ RuleRows \subseteq AlertRow
    /\ Installed \subseteq [sinks : [Sink -> Rows \cup {None}], rules : [Rule -> RuleRows \cup {None}],
                            budget : Nat, jobs : Nat]
    /\ Finished \subseteq Job
    /\ None \notin SinkRow \cup AlertRow \cup Org \cup Secret
    /\ Threshold \in Nat \ {0}
    /\ Dots \notin Secret /\ Dots # None

VARIABLES
    sinks,    \* the integrations table
    rules,    \* the alerts table
    pending,  \* the write an open request has decided on
    budget,   \* administrator requests left
    circuit,  \* circuit._state: the dictionary of each sink
    work,     \* the worker threads
    jobs,     \* dispatches and tests left
    streak    \* history: failures recorded in a sink's present dictionary

admin == <<sinks, rules, pending, budget>>
vars == <<admin, circuit, work, jobs, streak>>

(* A worker.  todo: rows still to try; sink: the one at hand; read: the fails  *)
(* it has read; live: the dictionary it holds is still the sink's; tell: rules *)
(* still to deliver; next: where it goes on after the rules; owed, tried:      *)
(* history, the sinks that were to hear of the transaction and those tried.    *)
Task(pc, job, todo, sink, next, owed) ==
    [pc |-> pc, job |-> job, todo |-> todo, sink |-> sink, read |-> 0, live |-> FALSE,
     tell |-> {}, next |-> next, owed |-> owed, tried |-> {}]
Idle == Task("idle", None, {}, None, "idle", {})

Fresh == [fails |-> 0, opened |-> FALSE]

At(w, pc) == work[w].pc = pc
Goto(w, pc) == work' = [work EXCEPT ![w].pc = pc]
Hold(task, pc, live, read) == [[[task EXCEPT !.pc = pc] EXCEPT !.live = live] EXCEPT !.read = read]

(* On to the next sink, or over.                                               *)
Onward(task) ==
    IF task.next = "sinks" THEN [[task EXCEPT !.sink = None] EXCEPT !.pc = "sinks"]
    ELSE [Task("done", None, {}, None, "idle", task.owed) EXCEPT !.tried = task.tried]

Resume(w) == work' = [work EXCEPT ![w] = Onward(work[w])]

(***************************************************************************)
(* The tables                                                               *)
(***************************************************************************)

Decide(q, write) ==
    /\ pending[q] = None /\ budget > 0
    /\ budget' = budget - 1
    /\ pending' = [pending EXCEPT ![q] = write]
    /\ UNCHANGED <<sinks, rules, circuit, work, jobs, streak>>

CreateIntegration(q, s) ==
    \E row \in Rows :
        /\ sinks[s] = None
        /\ Decide(q, [table |-> "sinks", id |-> s, how |-> "insert", row |-> row])

(* The secret an update decides to write: what is sent is merged into the      *)
(* config as it was read.  A new one; the old one, when the config leaves it   *)
(* out; the dots, when the form was filled from the masked row; None, when no  *)
(* config is sent.                                                             *)
Merged(old) == Secret \cup {old.secret, None} \cup (IF old.secret = None THEN {} ELSE {Dots})

UpdateIntegration(q, s) ==
    /\ sinks[s] # None
    /\ \E row \in Rows : \E secret \in Merged(sinks[s]) :
          Decide(q, [table |-> "sinks", id |-> s, how |-> "update",
                     row |-> [row EXCEPT !.secret = secret]])

DeleteIntegration(q, s) ==
    /\ sinks[s] # None
    /\ Decide(q, [table |-> "sinks", id |-> s, how |-> "remove", row |-> None])

(* An alert is created for an integration that exists; updating it or          *)
(* deleting the integration does not look.                                     *)
CreateAlert(q, a) ==
    \E row \in RuleRows :
        /\ rules[a] = None /\ sinks[row.sink] # None
        /\ Decide(q, [table |-> "rules", id |-> a, how |-> "insert", row |-> row])

UpdateAlert(q, a) ==
    \E row \in RuleRows :
        /\ rules[a] # None
        /\ Decide(q, [table |-> "rules", id |-> a, how |-> "update", row |-> row])

DeleteAlert(q, a) ==
    /\ rules[a] # None
    /\ Decide(q, [table |-> "rules", id |-> a, how |-> "remove", row |-> None])

(* An update leaves the recorded outcome alone, the config when none was sent, *)
(* and a row that has gone.                                                    *)
Changed(old, write) ==
    IF old = None THEN None
    ELSE IF write.table = "sinks" /\ write.row.secret = None
    THEN [[write.row EXCEPT !.last = old.last] EXCEPT !.secret = old.secret]
    ELSE [write.row EXCEPT !.last = old.last]

Written(old, write) ==
    IF write.how = "insert" THEN write.row ELSE IF write.how = "remove" THEN None
    ELSE Changed(old, write)

Write(q) ==
    /\ pending[q] # None
    /\ LET write == pending[q] IN
       IF write.table = "sinks"
       THEN sinks' = [sinks EXCEPT ![write.id] = Written(sinks[write.id], write)] /\ rules' = rules
       ELSE rules' = [rules EXCEPT ![write.id] = Written(rules[write.id], write)] /\ sinks' = sinks
    /\ pending' = [pending EXCEPT ![q] = None]
    /\ UNCHANGED <<budget, circuit, work, jobs, streak>>

(* Faulty: error text and status change places.                                *)
RecordedSwapped(table, id, outcome) ==
    IF table[id] = None THEN table ELSE [table EXCEPT ![id].last = "text"]

(* _record_result and the update in _deliver: the outcome of the last run.     *)
Recorded(table, id, outcome) ==
    IF table[id] = None THEN table ELSE [table EXCEPT ![id].last = outcome]

(***************************************************************************)
(* Which sinks and which rules                                              *)
(***************************************************************************)

(* Unscoped on either side matches.                                            *)
Agrees(mine, theirs) == mine = None \/ theirs = None \/ mine = theirs

InScope(row, tx) == Agrees(row.org, tx.org) /\ Agrees(row.project, tx.project)

MatchesTrigger(trigger, status) ==
    \/ trigger = "always"
    \/ trigger = "on_success" /\ status = "published"
    \/ trigger = "on_failure" /\ status = "failed"

(* Faulty: a failed transaction goes to its routed sinks only.                 *)
ChosenRouted(job) ==
    LET tx == job.tx
        candidates == {s \in Sink : /\ sinks[s] # None /\ sinks[s].enabled
                                    /\ ~sinks[s].alertOnly /\ InScope(sinks[s], tx)}
    IN  {s \in candidates : job.route = None \/ s \in job.route}

(* The candidates of dispatch_integrations: a failed transaction also goes to  *)
(* every hook for failures, whatever its route.                                *)
Chosen(job) ==
    LET tx == job.tx
        candidates == {s \in Sink : /\ sinks[s] # None /\ sinks[s].enabled
                                    /\ ~sinks[s].alertOnly /\ InScope(sinks[s], tx)}
        hooks == {s \in candidates : sinks[s].trigger \in {"on_failure", "always"}}
        routed == IF job.route = None THEN {} ELSE candidates \cap job.route
    IN  IF tx.status = "failed" THEN hooks \cup routed
        ELSE IF job.route = None THEN candidates ELSE routed

(* Those of them the loop does not pass over.                                  *)
Todo(job) ==
    {[id |-> s, row |-> sinks[s]] :
        s \in {c \in Chosen(job) : sinks[c].known /\ MatchesTrigger(sinks[c].trigger, job.tx.status)}}

MatchesTransaction(trigger, tx) ==
    \/ trigger = "always"
    \/ trigger = "on_success" /\ tx.status \in {"published", "processed"} /\ ~tx.error
    \/ trigger = "on_failure" /\ tx.status = "failed"

(* A rule for one org wants that org; projects match as for integrations.      *)
RuleMatches(row, scope, org, project) ==
    /\ row.scope = scope
    /\ row.org = None \/ row.org = org
    /\ Agrees(row.project, project)

(* fire_alert for a sink that failed.                                          *)
FailureRules(row) ==
    {a \in Rule : /\ rules[a] # None /\ rules[a].enabled
                  /\ RuleMatches(rules[a], "integration_failed", row.org, None)}

(* fire_alert_for_transaction.                                                 *)
TransactionRules(job) ==
    {a \in Rule : /\ rules[a] # None /\ rules[a].enabled
                  /\ IF job.alerts = None
                     THEN RuleMatches(rules[a], "transaction", job.tx.org, job.tx.project)
                     ELSE a \in job.alerts /\ rules[a].scope = "transaction"
                  /\ job.tx.status \in {"published", "processed", "failed"}
                  /\ MatchesTransaction(rules[a].trigger, job.tx)}

Telling(task, chosen, next) ==
    LET snapshot == {[id |-> a, row |-> rules[a]] : a \in chosen} IN
    [[[task EXCEPT !.tell = snapshot] EXCEPT !.next = next] EXCEPT !.pc = "tell"]

(***************************************************************************)
(* A dispatch                                                               *)
(***************************************************************************)

(* History: who is to hear of the transaction, said once more: every enabled   *)
(* sink with a sender in its scope whose trigger matches, unless the channel   *)
(* names others; a failure is kept from nobody who asked for failures.         *)
Owed(job) ==
    {s \in Sink : /\ sinks[s] # None /\ sinks[s].enabled /\ sinks[s].known
                  /\ ~sinks[s].alertOnly /\ InScope(sinks[s], job.tx)
                  /\ MatchesTrigger(sinks[s].trigger, job.tx.status)
                  /\ job.tx.status = "failed" \/ job.route = None \/ s \in job.route}

Take(w, task) ==
    /\ work[w].pc \in {"idle", "done"} /\ jobs > 0
    /\ jobs' = jobs - 1
    /\ work' = [work EXCEPT ![w] = task]
    /\ UNCHANGED <<admin, circuit, streak>>

Begin(w) ==
    \E job \in Finished :
        Take(w, Task("sinks", job, Todo(job), None, "sinks", Owed(job)))

(* is_open for the next sink: an open circuit skips it, until its time is up.  *)
Look(w) ==
    /\ At(w, "sinks")
    /\ \E item \in work[w].todo :
          LET task == [[work[w] EXCEPT !.todo = @ \ {item}] EXCEPT !.tried = @ \cup {item.id}]
              next == [task EXCEPT !.sink = item]
          IN  \/ circuit[item.id].opened /\ work' = [work EXCEPT ![w] = task]
              \/ circuit[item.id].opened /\ work' = [work EXCEPT ![w] = Hold(next, "reset", TRUE, 0)]
              \/ ~circuit[item.id].opened /\ work' = [work EXCEPT ![w] = Hold(next, "send", FALSE, 0)]
    /\ UNCHANGED <<admin, circuit, jobs, streak>>

Held(w) == work[w].sink.id

(* The time is up: is_open resets the dictionary it holds, in two statements.  *)
ResetFails(w) ==
    /\ At(w, "reset")
    /\ circuit' = IF work[w].live THEN [circuit EXCEPT ![Held(w)].fails = 0] ELSE circuit
    /\ Goto(w, "close")
    /\ UNCHANGED <<admin, jobs, streak>>

ResetOpened(w) ==
    /\ At(w, "close")
    /\ circuit' = IF work[w].live THEN [circuit EXCEPT ![Held(w)].opened = FALSE] ELSE circuit
    /\ work' = [work EXCEPT ![w] = Hold(@, "send", FALSE, 0)]
    /\ UNCHANGED <<admin, jobs, streak>>

(* What comes of sending: an answer, or an exception, be it a setting that is  *)
(* missing, a package that is not installed, or a refusal.                     *)
Answers == {"sent", "failed"}

Send(w) ==
    /\ At(w, "send")
    /\ \E answer \in Answers : Goto(w, answer)
    /\ UNCHANGED <<admin, circuit, jobs, streak>>

(* record_success puts a new dictionary in place; whoever still holds the old  *)
(* one writes to nobody.                                                       *)
RecordSuccess(w) ==
    /\ At(w, "sent")
    /\ circuit' = [circuit EXCEPT ![Held(w)] = Fresh]
    /\ streak' = [streak EXCEPT ![Held(w)] = 0]
    /\ work' = [v \in Worker |->
                  IF v = w THEN [work[w] EXCEPT !.pc = "ok"]
                  ELSE IF work[v].live /\ Held(v) = Held(w) THEN [work[v] EXCEPT !.live = FALSE]
                  ELSE work[v]]
    /\ UNCHANGED <<admin, jobs>>

(* record_failure: fails is read, written back one higher, and compared.       *)
ReadFails(w) ==
    /\ At(w, "failed")
    /\ work' = [work EXCEPT ![w] = Hold(@, "count", TRUE, circuit[Held(w)].fails)]
    /\ UNCHANGED <<admin, circuit, jobs, streak>>

WriteFails(w) ==
    /\ At(w, "count")
    /\ IF work[w].live
       THEN /\ circuit' = [circuit EXCEPT ![Held(w)].fails = work[w].read + 1]
            /\ streak' = [streak EXCEPT ![Held(w)] = @ + 1]
       ELSE UNCHANGED <<circuit, streak>>
    /\ work' = [work EXCEPT ![w] = Hold(@, "check", @.live, 0)]
    /\ UNCHANGED <<admin, jobs>>

(* Faulty: opens one failure early.                                            *)
CompareEarly(w) ==
    /\ At(w, "check")
    /\ IF work[w].live /\ circuit[Held(w)].fails + 1 >= Threshold THEN Goto(w, "open")
       ELSE work' = [work EXCEPT ![w] = Hold(@, "error", FALSE, 0)]
    /\ UNCHANGED <<admin, circuit, jobs, streak>>

(* fails is read again, and the time of opening is written a statement later.  *)
Compare(w) ==
    /\ At(w, "check")
    /\ IF work[w].live /\ circuit[Held(w)].fails >= Threshold THEN Goto(w, "open")
       ELSE work' = [work EXCEPT ![w] = Hold(@, "error", FALSE, 0)]
    /\ UNCHANGED <<admin, circuit, jobs, streak>>

Open(w) ==
    /\ At(w, "open")
    /\ circuit' = IF work[w].live THEN [circuit EXCEPT ![Held(w)].opened = TRUE] ELSE circuit
    /\ work' = [work EXCEPT ![w] = Hold(@, "error", FALSE, 0)]
    /\ UNCHANGED <<admin, jobs, streak>>

(* The outcome goes to the sink's row; that of a failure also to the rules     *)
(* that ask for it.                                                            *)
RecordOk(w) ==
    /\ At(w, "ok")
    /\ sinks' = Recorded(sinks, Held(w), "ok")
    /\ Resume(w)
    /\ UNCHANGED <<rules, pending, budget, circuit, jobs, streak>>

RecordError(w) ==
    /\ At(w, "error")
    /\ sinks' = Recorded(sinks, Held(w), "error")
    /\ IF work[w].next = "sinks" THEN Goto(w, "fire") ELSE Resume(w)
    /\ UNCHANGED <<rules, pending, budget, circuit, jobs, streak>>

FireAlert(w) ==
    /\ At(w, "fire")
    /\ work' = [work EXCEPT ![w] = Telling(@, FailureRules(@.sink.row), @.next)]
    /\ UNCHANGED <<admin, circuit, jobs, streak>>

(* Faulty: an alert that cannot be delivered is a sink that failed.            *)
DeliverAgain(w) ==
    /\ At(w, "tell")
    /\ \E item \in work[w].tell :
          LET target == sinks[item.row.sink] IN
          \/ target # None /\ rules' = Recorded(rules, item.id, "ok")
                /\ work' = [work EXCEPT ![w].tell = @ \ {item}]
          \/ target = None /\ work' = [work EXCEPT ![w].tell = @ \ {item}] /\ rules' = rules
          \/ target # None /\ rules' = Recorded(rules, item.id, "error") /\ Goto(w, "fire")
    /\ UNCHANGED <<sinks, pending, budget, circuit, jobs, streak>>

(* _deliver: a rule whose sink is gone, disabled or of no known type is passed *)
(* over; a sender that raises is recorded and nothing more.                    *)
Deliver(w) ==
    /\ At(w, "tell")
    /\ \E item \in work[w].tell :
          LET target == sinks[item.row.sink]
              usable == target # None /\ target.enabled /\ target.known
          IN  /\ work' = [work EXCEPT ![w].tell = @ \ {item}]
              /\ IF usable THEN \E outcome \in {"ok", "error"} : rules' = Recorded(rules, item.id, outcome)
                 ELSE rules' = rules
    /\ UNCHANGED <<sinks, pending, budget, circuit, jobs, streak>>

Told(w) ==
    /\ At(w, "tell") /\ work[w].tell = {}
    /\ Resume(w)
    /\ UNCHANGED <<admin, circuit, jobs, streak>>

(* All sinks tried: the alerts of the transaction itself.                      *)
FireForTransaction(w) ==
    /\ At(w, "sinks") /\ work[w].todo = {}
    /\ work' = [work EXCEPT ![w] = Telling(@, TransactionRules(@.job), "done")]
    /\ UNCHANGED <<admin, circuit, jobs, streak>>

(***************************************************************************)
(* Tests from the console                                                   *)
(***************************************************************************)

(* test_integration: the sender alone, no circuit, and the outcome in the row. *)
TestIntegration(w, s) ==
    /\ sinks[s] # None /\ sinks[s].known
    /\ \E pc \in {"ok", "error"} :
          Take(w, Task(pc, None, {}, [id |-> s, row |-> sinks[s]], "done", {}))

(* test_alert: _deliver alone.                                                 *)
TestAlert(w, a) ==
    /\ rules[a] # None
    /\ Take(w, Telling(Idle, {a}, "done"))

(***************************************************************************)
(* The specification                                                        *)
(***************************************************************************)

Init ==
    /\ \E t \in Installed : sinks = t.sinks /\ rules = t.rules /\ budget = t.budget /\ jobs = t.jobs
    /\ pending = [q \in Req |-> None]
    /\ circuit = [s \in Sink |-> Fresh] /\ streak = [s \in Sink |-> 0]
    /\ work = [w \in Worker |-> Idle]

Administer(q) ==
    \/ \E s \in Sink : CreateIntegration(q, s) \/ UpdateIntegration(q, s) \/ DeleteIntegration(q, s)
    \/ \E a \in Rule : CreateAlert(q, a) \/ UpdateAlert(q, a) \/ DeleteAlert(q, a)
    \/ Write(q)

Circuit(w) ==
    \/ Look(w) \/ ResetFails(w) \/ ResetOpened(w)
    \/ RecordSuccess(w) \/ ReadFails(w) \/ WriteFails(w) \/ Compare(w) \/ Open(w)

Proceed(w) ==
    \/ Circuit(w) \/ Send(w) \/ RecordOk(w) \/ RecordError(w)
    \/ FireAlert(w) \/ Deliver(w) \/ Told(w) \/ FireForTransaction(w)

Start(w) ==
    \/ Begin(w)
    \/ \E s \in Sink : TestIntegration(w, s)
    \/ \E a \in Rule : TestAlert(w, a)

Next ==
    \/ \E q \in Req : Administer(q)
    \/ \E w \in Worker : Start(w) \/ Proceed(w)

Spec == Init /\ [][Next]_vars

(* A thread at work goes on: senders have timeouts and nothing waits.          *)
FairSpec == Spec /\ \A w \in Worker : WF_vars(Proceed(w))

(***************************************************************************)
(* Properties                                                               *)
(***************************************************************************)

Pc == {"idle", "sinks", "reset", "close", "send", "sent", "failed", "count", "check", "open",
       "ok", "error", "fire", "tell", "done"}

(* Every variable has its type.                                                *)
TypeOK ==
    /\ sinks \in [Sink -> SinkRow \cup {None}]
    /\ rules \in [Rule -> AlertRow \cup {None}]
    /\ budget \in Nat /\ jobs \in Nat
    /\ circuit \in [Sink -> [fails : Nat, opened : BOOLEAN]]
    /\ streak \in [Sink -> Nat]
    /\ \A w \in Worker : /\ work[w].pc \in Pc /\ work[w].read \in Nat /\ work[w].live \in BOOLEAN
                         /\ work[w].sink # None => work[w].sink.id \in Sink
                         /\ work[w].tried \subseteq Sink

(* A circuit opens only after as many failures as the threshold says, with no  *)
(* success between: neither a lost count, nor a count written back over a      *)
(* reset, nor a dictionary replaced under a thread that holds it opens the     *)
(* circuit of a sink that did not fail that often (circuit.py, without locks). *)
OpenIsEarned == \A s \in Sink : circuit[s].opened => streak[s] >= Threshold

(* Nobody is forgotten: a dispatch that is over has come to every sink that    *)
(* was to hear of the transaction, however many of those before it failed, and *)
(* a failure comes to the hooks for failures even when the channel routes to   *)
(* nobody (docstring of dispatch_integrations).                                *)
NobodyForgotten ==
    \A w \in Worker : At(w, "done") => work[w].owed \subseteq work[w].tried

(* Alerts about sinks that fail, delivered through sinks that fail, come to an *)
(* end (the IMPORTANT note of alerts.py).                                      *)
DispatchEnds == \A w \in Worker : ~At(w, "idle") ~> At(w, "done")
=============================================================================
