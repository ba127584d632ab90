-------------------------- MODULE ServerLifecycle ---------------------------
(***************************************************************************)
(* The life of a sample API process from the start of its two HTTP servers *)
(* to its exit: server.Run and HealthHandler (pkg/server/server.go) and    *)
(* the deferred calls of run and the exit of main (main.go).               *)
(*                                                                         *)
(* The goroutines are main, one serve goroutine a server, and one for each *)
(* request or probe in service; these take a pooled connection for each    *)
(* statement and give it back.  net/http, pgxpool and os/signal are        *)
(* modelled by what this code relies on.                                   *)
(***************************************************************************)
EXTENDS Naturals, Sequences, FiniteSets

CONSTANTS
    Requests,       \* requests to the public server in flight at a time
    Probes,         \* probes of the health server in flight at a time
    MaxConns,       \* the connections the pool may open
    MaxStatements,  \* the statements a handler runs at most
    None

ASSUME LifecycleAssumption ==
    /\ Requests \cap Probes = {}
    /\ IsFiniteSet(Requests) /\ IsFiniteSet(Probes)
    /\ MaxConns \in Nat \ {0}
    /\ MaxStatements \in Nat
    /\ None \notin {"public", "health", "success", "failure", "killed"}

Servers == {"public", "health"}
Tasks   == Requests \cup Probes

VARIABLES
    main,       \* where the main goroutine is
    server,     \* server[s]: where the goroutine that serves s is
    shut,       \* shut[s]: Shutdown was called on s, its listener is closed
    errCh,      \* the channel the serve goroutines report to
    runErr,     \* the error Run returns: None or the server that failed
    signalled,  \* SIGINT or SIGTERM arrived: the context is cancelled
    expired,    \* shutdownTimeout has passed since the drain began
    task,       \* task[t]: the request or probe t
    exit        \* None, or how the process ended

vars == <<main, server, shut, errCh, runErr, signalled, expired, task, exit>>

\* A task waits for its next connection ("running"), uses one ("holding") or
\* is not there ("none"); it has left statements to run before it answers.
Absent == [phase |-> "none", left |-> 0]

Holders == {t \in Tasks : task[t].phase = "holding"}
Home(t) == IF t \in Requests THEN "public" ELSE "health"
ActiveOn(s) == {t \in Tasks : task[t].phase # "none" /\ Home(t) = s}

Init ==
    /\ main = "select" /\ runErr = None /\ exit = None
    /\ server = [s \in Servers |-> "starting"]
    /\ shut = [s \in Servers |-> FALSE]
    /\ errCh = <<>>
    /\ signalled = FALSE /\ expired = FALSE
    /\ task = [t \in Tasks |-> Absent]

Alive == exit = None

-----------------------------------------------------------------------------
(* The serve goroutines.                                                   *)

\* MUTANT of ErrCapacity: room for one report only.
ErrCapacityOne == 1

ErrCapacity == 2

\* net.Listen and Serve; a server that was shut down before never listens.
Listen(s) ==
    /\ Alive
    /\ server[s] = "starting" /\ ~shut[s]
    /\ server' = [server EXCEPT ![s] = "listening"]
    /\ UNCHANGED <<main, shut, errCh, runErr, signalled, expired, task, exit>>

\* ListenAndServe returns an error: net.Listen fails, or Accept does.  An
\* Accept that fails because of Shutdown is ErrServerClosed instead.
ListenFails(s) ==
    /\ Alive
    /\ server[s] = "starting" \/ (server[s] = "listening" /\ ~shut[s])
    /\ server' = [server EXCEPT ![s] = "failing"]
    /\ UNCHANGED <<main, shut, errCh, runErr, signalled, expired, task, exit>>

\* MUTANT of Report: no error is sent.
ReportNothing(s) ==
    /\ Alive
    /\ server[s] = "failing"
    /\ server' = [server EXCEPT ![s] = "failed"]
    /\ UNCHANGED <<main, shut, errCh, runErr, signalled, expired, task, exit>>

\* errCh <- err
Report(s) ==
    /\ Alive
    /\ server[s] = "failing" /\ Len(errCh) < ErrCapacity
    /\ errCh' = Append(errCh, s)
    /\ server' = [server EXCEPT ![s] = "failed"]
    /\ UNCHANGED <<main, shut, runErr, signalled, expired, task, exit>>

\* ListenAndServe returns ErrServerClosed, which is not reported.
Closed(s) ==
    /\ Alive
    /\ server[s] \in {"starting", "listening"} /\ shut[s]
    /\ server' = [server EXCEPT ![s] = "closed"]
    /\ UNCHANGED <<main, shut, errCh, runErr, signalled, expired, task, exit>>

-----------------------------------------------------------------------------
(* The main goroutine.                                                     *)

Signal ==
    /\ Alive
    /\ ~signalled
    /\ signalled' = TRUE
    /\ UNCHANGED <<main, server, shut, errCh, runErr, expired, task, exit>>

\* publicSrv.Shutdown(shutdownCtx) is called: the listener closes.
BeginDrain ==
    /\ main' = "drainPublic"
    /\ shut' = [shut EXCEPT !["public"] = TRUE]

\* case <-ctx.Done()
SelectSignal ==
    /\ Alive
    /\ main = "select" /\ signalled
    /\ BeginDrain
    /\ UNCHANGED <<server, errCh, runErr, signalled, expired, task, exit>>

\* MUTANT of SelectError: the error is logged, and not kept.
SelectErrorUnkept ==
    /\ Alive
    /\ main = "select" /\ errCh # <<>>
    /\ errCh' = Tail(errCh)
    /\ BeginDrain
    /\ UNCHANGED <<server, runErr, signalled, expired, task, exit>>

\* case runErr = <-errCh
SelectError ==
    /\ Alive
    /\ main = "select" /\ errCh # <<>>
    /\ runErr' = Head(errCh) /\ errCh' = Tail(errCh)
    /\ BeginDrain
    /\ UNCHANGED <<server, signalled, expired, task, exit>>

\* The one timeout that bounds both drains.
DeadlinePasses ==
    /\ Alive
    /\ main \in {"drainPublic", "drainHealth"} /\ ~expired
    /\ expired' = TRUE
    /\ UNCHANGED <<main, server, shut, errCh, runErr, signalled, task, exit>>

\* MUTANT of PublicDrained: the server is closed rather than shut down.
PublicClosed ==
    /\ Alive
    /\ main = "drainPublic"
    /\ main' = "drainHealth"
    /\ shut' = [shut EXCEPT !["health"] = TRUE]
    /\ UNCHANGED <<server, errCh, runErr, signalled, expired, task, exit>>

\* publicSrv.Shutdown returns, with its requests answered or the timeout's
\* error, and healthSrv.Shutdown is called.
PublicDrained ==
    /\ Alive
    /\ main = "drainPublic"
    /\ expired \/ ActiveOn("public") = {}
    /\ main' = "drainHealth"
    /\ shut' = [shut EXCEPT !["health"] = TRUE]
    /\ UNCHANGED <<server, errCh, runErr, signalled, expired, task, exit>>

\* MUTANT of HealthDrained: the server is closed rather than shut down.
HealthClosed ==
    /\ Alive
    /\ main = "drainHealth"
    /\ main' = "closing"
    /\ UNCHANGED <<server, shut, errCh, runErr, signalled, expired, task, exit>>

\* healthSrv.Shutdown returns, Run returns, and the deferred pool.Close refuses
\* every later acquisition.
HealthDrained ==
    /\ Alive
    /\ main = "drainHealth"
    /\ expired \/ ActiveOn("health") = {}
    /\ main' = "closing"
    /\ UNCHANGED <<server, shut, errCh, runErr, signalled, expired, task, exit>>

\* pool.Close returns when every connection is back; main returns, or
\* log.Fatalf ends the process with status 1.
Exit ==
    /\ Alive
    /\ main = "closing" /\ Holders = {}
    /\ main' = "over"
    /\ exit' = IF runErr = None THEN "success" ELSE "failure"
    /\ UNCHANGED <<server, shut, errCh, runErr, signalled, expired, task>>

\* The kernel or the kubelet kills the process, whatever it is doing.
Killed ==
    /\ Alive
    /\ main' = "over" /\ exit' = "killed"
    /\ UNCHANGED <<server, shut, errCh, runErr, signalled, expired, task>>

-----------------------------------------------------------------------------
(* The requests and the probes.                                            *)

GoTo(t, phase, left) == task' = [task EXCEPT ![t] = [phase |-> phase, left |-> left]]

\* A liveness probe runs no statement, a readiness probe one: pool.Ping.
Statements(t) == IF t \in Requests THEN 0..MaxStatements ELSE {0, 1}

Accept(t) ==
    /\ Alive
    /\ task[t].phase = "none"
    /\ server[Home(t)] = "listening" /\ ~shut[Home(t)]
    /\ \E n \in Statements(t) : GoTo(t, "running", n)
    /\ UNCHANGED <<main, server, shut, errCh, runErr, signalled, expired, exit>>

PoolOpen == main # "closing"

\* MUTANT of Acquire: a handler without statements left takes one too.
AcquireAlways(t) ==
    /\ Alive
    /\ task[t].phase = "running"
    /\ PoolOpen /\ Cardinality(Holders) < MaxConns
    /\ GoTo(t, "holding", task[t].left)
    /\ UNCHANGED <<main, server, shut, errCh, runErr, signalled, expired, exit>>

Acquire(t) ==
    /\ Alive
    /\ task[t].phase = "running" /\ task[t].left > 0
    /\ PoolOpen /\ Cardinality(Holders) < MaxConns
    /\ GoTo(t, "holding", task[t].left)
    /\ UNCHANGED <<main, server, shut, errCh, runErr, signalled, expired, exit>>

\* No connection is to be had: the pool is closed, the database does not answer,
\* the client is gone, or the two seconds of a probe are over.  The handler
\* answers 500, the probe 503.
AcquireFails(t) ==
    /\ Alive
    /\ task[t].phase = "running" /\ task[t].left > 0
    /\ GoTo(t, "running", 0)
    /\ UNCHANGED <<main, server, shut, errCh, runErr, signalled, expired, exit>>

\* MUTANT of Statement: an error return leaves the rows open.
StatementLeaks(t) ==
    /\ Alive
    /\ task[t].phase = "holding" /\ task[t].left > 0
    /\ \/ GoTo(t, "running", task[t].left - 1)
       \/ GoTo(t, "holding", 0)
    /\ UNCHANGED <<main, server, shut, errCh, runErr, signalled, expired, exit>>

\* The statement is over and its connection released (rows.Close); the handler
\* goes on, or gives up on an error.
Statement(t) ==
    /\ Alive
    /\ task[t].phase = "holding"
    /\ \E left \in {task[t].left - 1, 0} : GoTo(t, "running", left)
    /\ UNCHANGED <<main, server, shut, errCh, runErr, signalled, expired, exit>>

Answer(t) ==
    /\ Alive
    /\ task[t].phase = "running" /\ task[t].left = 0
    /\ task' = [task EXCEPT ![t] = Absent]
    /\ UNCHANGED <<main, server, shut, errCh, runErr, signalled, expired, exit>>

-----------------------------------------------------------------------------
(* The specification.                                                      *)

\* The process is gone; what restarts it is outside this module.
Gone == ~Alive /\ UNCHANGED vars

Serve(s) == Listen(s) \/ ListenFails(s) \/ Report(s) \/ Closed(s)
Main     == SelectSignal \/ SelectError \/ PublicDrained \/ HealthDrained \/ Exit
Handle(t) == Accept(t) \/ Acquire(t) \/ AcquireFails(t) \/ Statement(t) \/ Answer(t)

Next ==
    \/ Main \/ Signal \/ DeadlinePasses \/ Killed \/ Gone
    \/ \E s \in Servers : Serve(s)
    \/ \E t \in Tasks : Handle(t)

Spec == Init /\ [][Next]_vars

\* An acquisition may fail at any time; it must when the pool is closed, and a
\* probe's must once its two seconds are over.
MustGiveUp(t) == ~PoolOpen \/ t \in Probes

\* Goroutines that can run do, time passes, statements come back; the pool
\* serves those waiting in turn.  Nobody is bound to call, signal or break, and
\* a request is not bound to give up on an open pool.
Fairness ==
    /\ WF_vars(Main) /\ WF_vars(DeadlinePasses)
    /\ \A s \in Servers : WF_vars(Report(s)) /\ WF_vars(Closed(s))
    /\ \A t \in Tasks :
          /\ WF_vars(MustGiveUp(t) /\ AcquireFails(t))
          /\ WF_vars(Statement(t)) /\ WF_vars(Answer(t))
          /\ SF_vars(Acquire(t))

FairSpec == Spec /\ Fairness

-----------------------------------------------------------------------------
(* Type correctness.                                                       *)

\* Every variable holds a value of its kind.
TypeOK ==
    /\ main \in {"select", "drainPublic", "drainHealth", "closing", "over"}
    /\ server \in [Servers -> {"starting", "listening", "failing", "failed", "closed"}]
    /\ shut \in [Servers -> BOOLEAN]
    /\ errCh \in Seq(Servers)
    /\ runErr \in Servers \cup {None}
    /\ signalled \in BOOLEAN /\ expired \in BOOLEAN
    /\ task \in [Tasks -> [phase : {"none", "running", "holding"}, left : Nat]]
    /\ exit \in {None, "success", "failure", "killed"}

-----------------------------------------------------------------------------
(* Safety.                                                                 *)

\* A serve goroutine never blocks on errCh <- err (server.go:30), although Run
\* reads the channel once at most: the buffer has room for every report.
ReportsFit == \A s \in Servers : server[s] = "failing" => Len(errCh) < ErrCapacity

\* The deferred pool.Close (main.go:50) comes after all work: unless the time
\* for the drains ran out (server.go:44-51), no request and no probe of either
\* server is left in service that would find the pool closed.
PoolOutlivesTasks ==
    main = "closing" => expired \/ \A t \in Tasks : task[t].phase = "none"

\* Stopping keeps the promises of GracefulStop: no request is accepted once the
\* drain began, none accepted is dropped unless the timeout passed, and the
\* process exits with status 1 exactly when Run stopped for a broken server.
Stop == INSTANCE GracefulStop WITH
    phase    <- IF ~Alive THEN "over" ELSE IF main = "select" THEN "up" ELSE "draining",
    cause    <- IF shut["public"] = FALSE THEN None
                ELSE IF runErr = None THEN "signal" ELSE "failure",
    asked    <- signalled,
    broken   <- \E s \in Servers : server[s] \in {"failing", "failed"},
    late     <- expired,
    inFlight <- ActiveOn("public"),
    status   <- exit

StopsGracefully == Stop!Spec

-----------------------------------------------------------------------------
(* Liveness.                                                               *)

\* Every request and every probe is answered, or the process ends: handlers
\* share MaxConns connections, and none waits for one while it holds another.
EveryTaskEnds ==
    \A t \in Tasks : task[t].phase # "none" ~> task[t].phase = "none" \/ ~Alive

\* A process that was signalled, or one of whose servers failed, exits: the
\* drains are bounded, and pool.Close gets every connection back (main.go:50).
StopsWhenItShould ==
    signalled \/ (\E s \in Servers : server[s] = "failing") ~> ~Alive
=============================================================================
