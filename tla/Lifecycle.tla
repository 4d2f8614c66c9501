----------------------------- MODULE Lifecycle -----------------------------
(***************************************************************************)
(* The life of an instance of the API (cmd/api/main.go, run): it boots as  *)
(* in Migrations, serves requests next to its janitor                      *)
(* (internal/maintenance), and on a signal drains, stops the janitor,      *)
(* closes the pool and exits.  Of the requests, the two that work          *)
(* statement by statement and go on when one fails are modelled: Ready of  *)
(* internal/health and the CSP reports of internal/csp.                    *)
(*                                                                         *)
(* Rows of the tables are abstracted to whether there are any that the     *)
(* janitor ought to delete.                                                *)
(***************************************************************************)
EXTENDS Migrations, CSPReports

CONSTANTS
    Retained,     \* tables with a retention above zero, of "health" and "csp"
    Sent,         \* bodies that browsers send as reports
    Servers,      \* bound: the instances that are followed after their boot
    Aging         \* bound: the tables whose rows are followed

ASSUME LifecycleAssumption ==
    /\ Retained \subseteq {"health", "csp"}
    /\ Sent \subseteq Bodies
    /\ Servers \subseteq Procs
    /\ Aging \subseteq Retained \cup {"flows"}

VARIABLES
    main,         \* where run is once the schema is there
    err,          \* run is going to return an error
    janitor,
    req,          \* bound: one request of an instance at a time
    stale         \* tables with expired flows, or rows past their retention

serveVars == <<main, err, janitor, req, stale>>
vars == <<bootVars, serveVars>>

-----------------------------------------------------------------------------
\* RunOnce goes through these in order.
IfRetained(t) == IF t \in Retained THEN <<t>> ELSE <<>>
Pass == <<"flows">> \o IfRetained("health") \o IfRetained("csp")

\* In a pass it is deleting from Pass[step]; spent: the pass's context is done.
Janitor ==
    [at : {"off", "pass", "idle", "done"}, step : 1..Len(Pass), spent : BOOLEAN]
JanitorOff == [at |-> "off", step |-> 1, spent |-> FALSE]
Deleting(p, t) == janitor[p].at = "pass" /\ Pass[janitor[p].step] = t

\* left: statements still to run.  held: one is running on a connection of the
\* pool.  tried: the statements that succeeded or failed.
NoBody == [shape |-> "none"]
Request ==
    [doing : {"none", "ready", "csp"}, body : Sent \cup {NoBody}, left : Seq(Nat),
     held : BOOLEAN, tried : SUBSET Nat]
NoRequest ==
    [doing |-> "none", body |-> NoBody, left |-> <<>>,
     held |-> FALSE, tried |-> {}]

TypeOK ==
    /\ BootTypeOK
    /\ main \in [Servers -> {"none", "serving", "draining", "joining", "closing"}]
    /\ err \in [Servers -> BOOLEAN]
    /\ janitor \in [Servers -> Janitor]
    /\ req \in [Servers -> Request]
    /\ stale \subseteq Aging
    /\ \A p \in Servers :
         /\ main[p] # "none" => pc[p] = "booted"
         /\ main[p] \in {"serving", "draining"} => janitor[p].at \in {"pass", "idle", "done"}
         /\ req[p].held => req[p].left # <<>>

Init ==
    /\ BootInit
    /\ main = [p \in Servers |-> "none"]
    /\ err = [p \in Servers |-> FALSE]
    /\ janitor = [p \in Servers |-> JanitorOff]
    /\ req = [p \in Servers |-> NoRequest]
    /\ stale = {}

-----------------------------------------------------------------------------
\* rootCtx, or janitorCtx after stopJanitor, which is the first thing to run
\* when run returns.
Cancelled(p) == sig[p] \/ main[p] \in {"joining", "closing"}

Main(p, from, to) == main[p] = from /\ main' = [main EXCEPT ![p] = to]
Fails(p) == err' = [err EXCEPT ![p] = TRUE]

\* Variant: an error of Migrate is logged, and run goes on.
WireUnmigrated(p) ==
    /\ pc[p] \in {"booted", "failed"} /\ Main(p, "none", "serving")
    /\ janitor' = [janitor EXCEPT
                     ![p] = [at |-> "pass", step |-> 1, spent |-> Cancelled(p)]]
    /\ UNCHANGED <<bootVars, err, req, stale>>

\* The stores, the relying-party provider, the handlers and limiters; the
\* janitor's goroutine and the server's start.
Wire(p) ==
    /\ pc[p] = "booted" /\ Main(p, "none", "serving")
    /\ janitor' = [janitor EXCEPT
                     ![p] = [at |-> "pass", step |-> 1, spent |-> Cancelled(p)]]
    /\ UNCHANGED <<bootVars, err, req, stale>>

\* NewRPProvider refuses the configuration.
WireFails(p) ==
    /\ pc[p] = "booted" /\ Main(p, "none", "closing")
    /\ Fails(p)
    /\ UNCHANGED <<bootVars, janitor, req, stale>>

\* ListenAndServe returns an error.
ServeFails(p) ==
    /\ Main(p, "serving", "joining")
    /\ Fails(p)
    /\ UNCHANGED <<bootVars, janitor, req, stale>>

SeeSignal(p) ==
    /\ sig[p] /\ Main(p, "serving", "draining")
    /\ UNCHANGED <<bootVars, err, janitor, req, stale>>

\* Variant: Close instead of Shutdown.
ServerClosed(p) ==
    /\ Main(p, "draining", "joining")
    /\ UNCHANGED <<bootVars, err, janitor, req, stale>>

Drained(p) ==
    /\ req[p].doing = "none" /\ Main(p, "draining", "joining")
    /\ UNCHANGED <<bootVars, err, janitor, req, stale>>

\* ShutdownTimeout: the requests that are left go on without anybody waiting.
DrainTimesOut(p) ==
    /\ req[p].doing # "none" /\ Main(p, "draining", "joining")
    /\ Fails(p)
    /\ UNCHANGED <<bootVars, janitor, req, stale>>

\* stopJanitor() and <-janitorDone.
JoinJanitor(p) ==
    /\ janitor[p].at = "done" /\ Main(p, "joining", "closing")
    /\ UNCHANGED <<bootVars, err, janitor, req, stale>>

\* Whatever of the instance is only in memory.
Forgotten(p) ==
    /\ main' = [main EXCEPT ![p] = "none"]
    /\ err' = [err EXCEPT ![p] = FALSE]
    /\ janitor' = [janitor EXCEPT ![p] = JanitorOff]
    /\ req' = [req EXCEPT ![p] = NoRequest]
    /\ UNCHANGED stale

\* pool.Close waits for the connections in use; then telemetry, and exit.
Exit(p) ==
    /\ main[p] = "closing" /\ ~req[p].held
    /\ Gone(p) /\ Forgotten(p)

-----------------------------------------------------------------------------
\* The next deletion of the pass, or the wait for the ticker after the last.  A
\* statement that starts with a cancelled context fails.
Stepped(p, spent) ==
    janitor' = [janitor EXCEPT ![p] =
                  IF @.step < Len(Pass)
                    THEN [at |-> "pass", step |-> @.step + 1,
                          spent |-> spent \/ Cancelled(p)]
                    ELSE [at |-> "idle", step |-> 1, spent |-> FALSE]]

\* DeleteExpiredFlows, PruneHealthChecks, PruneCSPReports.
Prune(p) ==
    /\ janitor[p].at = "pass" /\ ~janitor[p].spent
    /\ stale' = stale \ {Pass[janitor[p].step]}
    /\ Stepped(p, FALSE)
    /\ UNCHANGED <<bootVars, main, err, req>>

\* Variant: the first error ends the pass.
PruneFailsThePass(p) ==
    /\ janitor[p].at = "pass"
    /\ janitor' = [janitor EXCEPT ![p] = [at |-> "idle", step |-> 1, spent |-> FALSE]]
    /\ UNCHANGED <<bootVars, main, err, req, stale>>

\* It may have used up the minute of the pass.
PruneFails(p) ==
    /\ janitor[p].at = "pass"
    /\ \E spent \in {janitor[p].spent, TRUE} : Stepped(p, spent)
    /\ UNCHANGED <<bootVars, main, err, req, stale>>

\* With both ready, select may choose the ticker over ctx.Done().
JanitorTicks(p) ==
    /\ janitor[p].at = "idle"
    /\ janitor' = [janitor EXCEPT
                     ![p] = [at |-> "pass", step |-> 1, spent |-> Cancelled(p)]]
    /\ UNCHANGED <<bootVars, main, err, req, stale>>

\* Variant: the loop ranges over the ticker.
JanitorNeverStops(p) == FALSE

JanitorStops(p) ==
    /\ janitor[p].at = "idle" /\ Cancelled(p)
    /\ janitor' = [janitor EXCEPT ![p].at = "done"]
    /\ UNCHANGED <<bootVars, main, err, req, stale>>

Age(t) ==
    /\ t \notin stale
    /\ stale' = stale \cup {t}
    /\ UNCHANGED <<bootVars, main, err, janitor, req>>

-----------------------------------------------------------------------------
Arrive(p, r) ==
    /\ main[p] = "serving" /\ req[p].doing = "none"
    /\ req' = [req EXCEPT ![p] = r]
    /\ UNCHANGED <<bootVars, main, err, janitor, stale>>

\* A ping, and an insert into health_check_log whatever comes of it.
Ready(p) == Arrive(p, [NoRequest EXCEPT !.doing = "ready", !.left = <<1, 2>>])

\* One insert into csp_reports after another.
ServeCSP(p) ==
    \E b \in Sent :
        Arrive(p, [NoRequest EXCEPT !.doing = "csp", !.body = b, !.left = ToStore(b)])

\* The pool hands out no connection once it is closing.
Acquire(p) ==
    /\ req[p].left # <<>> /\ ~req[p].held
    /\ main[p] # "closing"
    /\ req' = [req EXCEPT ![p].held = TRUE]
    /\ UNCHANGED <<bootVars, main, err, janitor, stale>>

\* Variant: the first error ends the request.
RequestGivesUp(p) ==
    /\ req[p].left # <<>>
    /\ req' = [req EXCEPT ![p].held = FALSE, ![p].left = <<>>,
                          ![p].tried = @ \cup {Head(req[p].left)}]
    /\ UNCHANGED <<bootVars, main, err, janitor, stale>>

\* The statement ends.  Or it fails, also before it has a connection: the database
\* or the pool refuses, the client is gone, the two seconds of probeTimeout are
\* over.  Both handlers log an error and go on.
StatementEnds(p) ==
    /\ req[p].left # <<>>
    /\ req' = [req EXCEPT ![p].held = FALSE, ![p].left = Tail(@),
                          ![p].tried = @ \cup {Head(req[p].left)}]
    /\ UNCHANGED <<bootVars, main, err, janitor, stale>>

Answer(p) ==
    /\ req[p].doing # "none" /\ req[p].left = <<>>
    /\ req' = [req EXCEPT ![p] = NoRequest]
    /\ UNCHANGED <<bootVars, main, err, janitor, stale>>

-----------------------------------------------------------------------------
Boot ==
    \/ /\ \E p \in Procs : BootStep(p)
       /\ UNCHANGED serveVars
    \/ \E p \in Procs \ Servers : Crash(p) /\ UNCHANGED serveVars
    \/ \E p \in Servers : Crash(p) /\ Forgotten(p)

Proceed(p) ==
    \/ Wire(p) \/ WireFails(p) \/ SeeSignal(p)
    \/ Drained(p) \/ DrainTimesOut(p) \/ JoinJanitor(p) \/ Exit(p)

Housekeep(p) == Prune(p) \/ PruneFails(p) \/ JanitorTicks(p)
Serve(p)     == Acquire(p) \/ StatementEnds(p) \/ Answer(p)

Next ==
    \/ Boot
    \/ \E p \in Servers :
         \/ Proceed(p) \/ ServeFails(p) \/ Housekeep(p) \/ JanitorStops(p)
         \/ Ready(p) \/ ServeCSP(p) \/ Serve(p)
    \/ \E t \in Aging : Age(t)

\* Goroutines run, and statements end one way or another.  select takes
\* ctx.Done() sooner or later: the ticker is not always ready as well.
Fairness(p) ==
    /\ WF_vars(ExitFailed(p) /\ UNCHANGED serveVars)
    /\ WF_vars(Proceed(p))
    /\ WF_vars(Housekeep(p))
    /\ SF_vars(JanitorStops(p))
    /\ WF_vars(Serve(p))

Spec ==
    /\ Init /\ [][Next]_vars
    /\ \A p \in Procs : BootFairness(p)
    /\ \A p \in Servers : Fairness(p)

-----------------------------------------------------------------------------
\* The pool is closed when nothing needs it any more: the janitor has returned,
\* and a request is left only if the shutdown failed.  A wrong order would lose
\* the last writes of requests that a clean shutdown had promised to wait for.
PoolOutlivesItsUsers ==
    \A p \in Servers :
        main[p] = "closing" =>
            /\ janitor[p].at \in {"off", "done"}
            /\ req[p].doing # "none" => err[p]

\* An instance that is told to stop ends: in the middle of its boot, behind the
\* advisory lock of another, with a pass of the janitor or a request under way.
SignalledEnds == \A p \in Servers : sig[p] ~> ~sig[p]

\* "Every step runs even when an earlier one fails": while an instance serves,
\* and its passes end within their minute, rows past their retention are gone or
\* are being deleted, again and again, for every table, also if the deletion from
\* another table fails each time.
StaleRowsGo ==
    \A p \in Servers : \A t \in Aging :
        <>[](main[p] = "serving" /\ ~janitor[p].spent)
            => []<>(t \notin stale \/ Deleting(p, t))

\* One report does not cost another: when a report request has ended, each of
\* the violations it delivered, up to the limit, has been stored or was refused by
\* the database, whatever was delivered with it and whatever failed before it.
ReportsAreIndependent ==
    \A p \in Servers :
        req[p].doing = "csp" /\ req[p].left = <<>> =>
            req[p].tried = Wanted(req[p].body)
=============================================================================
