------------------------ MODULE ServerLifecycleProofs -----------------------
(***************************************************************************)
(* Proofs about ServerLifecycle: its type invariant, its safety properties *)
(* and that it implements GracefulStop.                                    *)
(***************************************************************************)
EXTENDS ServerLifecycle, TLAPS

-----------------------------------------------------------------------------
(* Type correctness.  It is inductive with the fact that a connection is   *)
(* held for a statement that is still to run.                              *)

Phases == {"none", "running", "holding"}

TypeInv ==
    /\ TypeOK
    /\ \A t \in Tasks : task[t].phase = "holding" => task[t].left > 0

\* What GoTo makes of the tasks.
LEMMA GoToTyped ==
    ASSUME TypeInv, NEW t \in Tasks, NEW phase \in Phases, NEW left \in Nat,
           phase = "holding" => left > 0, GoTo(t, phase, left)
    PROVE  /\ task' \in [Tasks -> [phase : Phases, left : Nat]]
           /\ task'[t].phase = phase /\ task'[t].left = left
           /\ \A u \in Tasks \ {t} : task'[u] = task[u]
           /\ \A u \in Tasks : task'[u].phase = "holding" => task'[u].left > 0
<1> DEFINE record == [phase |-> phase, left |-> left]
<1>1. record \in [phase : Phases, left : Nat]
  OBVIOUS
<1>2. record.phase = phase /\ record.left = left
  OBVIOUS
<1>3. task \in [Tasks -> [phase : Phases, left : Nat]]
  BY DEF TypeInv, TypeOK, Phases
<1>4. task' = [task EXCEPT ![t] = record]
  BY DEF GoTo
<1> HIDE DEF record
<1>5. task' \in [Tasks -> [phase : Phases, left : Nat]]
  BY <1>1, <1>3, <1>4
<1>6. task'[t] = record /\ \A u \in Tasks \ {t} : task'[u] = task[u]
  BY <1>3, <1>4
<1> QED BY <1>2, <1>5, <1>6 DEF TypeInv

\* Every step of a task is a GoTo and changes nothing else.
LEMMA TaskSteps ==
    ASSUME TypeInv, NEW t \in Tasks, Handle(t)
    PROVE  /\ \E phase \in Phases, left \in Nat :
                 GoTo(t, phase, left) /\ (phase = "holding" => left > 0)
           /\ UNCHANGED <<main, server, shut, errCh, runErr, signalled, expired, exit>>
<1>0. task[t].left \in Nat /\ (task[t].phase = "holding" => task[t].left > 0)
  BY DEF TypeInv, TypeOK
<1> USE DEF Phases
<1>1. CASE Accept(t)
  <2>1. Statements(t) \subseteq Nat
    BY LifecycleAssumption DEF Statements
  <2> QED BY <1>1, <2>1 DEF Accept
<1>2. CASE Acquire(t)
  BY <1>0, <1>2 DEF Acquire
<1>3. CASE AcquireFails(t)
  BY <1>3 DEF AcquireFails
<1>4. CASE Statement(t)
  <2>1. PICK left \in {task[t].left - 1, 0} : GoTo(t, "running", left)
    BY <1>4 DEF Statement
  <2>2. left \in Nat
    BY <1>0, <1>4 DEF Statement
  <2> QED BY <1>4, <2>1, <2>2 DEF Statement
<1>5. CASE Answer(t)
  <2>1. GoTo(t, "none", 0)
    BY <1>5 DEF Answer, Absent, GoTo
  <2> QED BY <1>5, <2>1 DEF Answer
<1> QED BY <1>1, <1>2, <1>3, <1>4, <1>5 DEF Handle

\* TypeInv is inductive.
LEMMA TypeInvHolds == Spec => []TypeInv
<1>1. Init => TypeInv
  <2>1. /\ Absent \in [phase : Phases, left : Nat]
        /\ Absent.phase = "none"
    BY DEF Absent, Phases
  <2>2. SUFFICES ASSUME Init PROVE TypeInv
    OBVIOUS
  <2>3. /\ task \in [Tasks -> [phase : Phases, left : Nat]]
        /\ \A t \in Tasks : task[t].phase = "none"
    BY <2>1, <2>2 DEF Init
  <2>4. errCh \in Seq(Servers) /\ shut \in [Servers -> BOOLEAN]
    BY <2>2 DEF Init
  <2> QED BY <2>2, <2>3, <2>4 DEF Init, TypeInv, TypeOK, Phases
<1>2. TypeInv /\ [Next]_vars => TypeInv'
  <2> SUFFICES ASSUME TypeInv, [Next]_vars PROVE TypeInv'
    OBVIOUS
  <2> USE DEF TypeInv
  <2>1. ASSUME NEW t \in Tasks, Handle(t) PROVE TypeInv'
    <3>1. PICK phase \in Phases, left \in Nat :
              GoTo(t, phase, left) /\ (phase = "holding" => left > 0)
      BY <2>1, TaskSteps
    <3>2. /\ task' \in [Tasks -> [phase : Phases, left : Nat]]
          /\ \A u \in Tasks : task'[u].phase = "holding" => task'[u].left > 0
      BY <3>1, GoToTyped
    <3> QED BY <2>1, <3>2, TaskSteps DEF TypeOK, Phases
  <2>2. ASSUME NEW s \in Servers, Serve(s) PROVE TypeInv'
    <3>1. CASE Report(s)
      <4>1. errCh' \in Seq(Servers)
        BY <2>2, <3>1 DEF Report, TypeOK
      <4> QED BY <2>2, <3>1, <4>1 DEF Report, TypeOK
    <3> QED BY <2>2, <3>1 DEF Serve, Listen, ListenFails, Closed, TypeOK
  <2>3. CASE Main
    <3>1. CASE SelectSignal \/ PublicDrained \/ HealthDrained \/ Exit
      BY <3>1 DEF SelectSignal, PublicDrained, HealthDrained, Exit, BeginDrain, TypeOK, Servers
    <3>2. CASE SelectError
      <4>1. errCh \in Seq(Servers) /\ errCh # <<>>
        BY <3>2 DEF SelectError, TypeOK
      <4>2. Head(errCh) \in Servers /\ Tail(errCh) \in Seq(Servers)
        BY <4>1
      <4> QED BY <3>2, <4>2 DEF SelectError, BeginDrain, TypeOK, Servers
    <3> QED BY <2>3, <3>1, <3>2 DEF Main
  <2>4. CASE Signal \/ DeadlinePasses \/ Killed
    BY <2>4 DEF Signal, DeadlinePasses, Killed, TypeOK
  <2>5. CASE Gone \/ UNCHANGED vars
    BY <2>5 DEF Gone, vars, TypeOK
  <2> QED BY <2>1, <2>2, <2>3, <2>4, <2>5 DEF Next
<1> QED BY <1>1, <1>2, PTL DEF Spec

\* Every variable always holds a value of its kind.
THEOREM TypesHold == Spec => []TypeOK
BY TypeInvHolds, PTL DEF TypeInv

-----------------------------------------------------------------------------
(* Where main is, and what that says of the servers and the channel.       *)

\* How many reports the goroutine of s has sent.
Reported(s) == IF server[s] = "failed" THEN 1 ELSE 0

Broken == \E s \in Servers : server[s] \in {"failing", "failed"}

MainInv ==
    /\ main = "over" <=> ~Alive
    /\ main = "select" => ~shut["public"]
    /\ Alive /\ main # "select" => shut["public"]
    /\ main \in {"drainHealth", "closing"} => shut["health"]
    /\ shut["health"] => shut["public"]
    /\ expired \/ runErr # None => shut["public"]
    /\ runErr # None => Broken

\* Unless the time is up, a server that main is done with has nothing in service.
DrainInv ==
    /\ shut["health"] => expired \/ ActiveOn("public") = {}
    /\ main = "closing" => expired \/ ActiveOn("health") = {}

LifecycleInv ==
    /\ TypeInv /\ MainInv
    /\ DrainInv
    /\ Len(errCh) <= Reported("public") + Reported("health")

\* A step of a task takes one request in, before the public server is shut
\* down, or lets one go, or leaves those in service as they are.
LEMMA RequestsInService ==
    ASSUME TypeInv, NEW t \in Tasks, Handle(t)
    PROVE  /\ Alive
           /\ \/ /\ t \in Requests /\ ~shut["public"]
                 /\ ActiveOn("public")' = ActiveOn("public") \cup {t}
              \/ /\ t \in Requests
                 /\ ActiveOn("public")' = ActiveOn("public") \ {t}
              \/ ActiveOn("public")' = ActiveOn("public")
<1>0. Alive
  BY DEF Handle, Accept, Acquire, AcquireFails, Statement, Answer
<1>1. PICK phase \in Phases, left \in Nat :
          GoTo(t, phase, left) /\ (phase = "holding" => left > 0)
  BY TaskSteps
<1>2. task'[t].phase = phase /\ \A u \in Tasks \ {t} : task'[u] = task[u]
  BY <1>1, GoToTyped
<1>3. Home(t) = "health" => ActiveOn("public")' = ActiveOn("public")
  BY <1>2 DEF ActiveOn, Home
<1>4. Home(t) = "public" => t \in Requests
  BY DEF Home
<1>5. CASE Home(t) = "public" /\ Accept(t)
  <2>1. task'[t].phase # "none"
    <3>1. PICK n \in Statements(t) : GoTo(t, "running", n)
      BY <1>5 DEF Accept
    <3>2. n \in Nat
      BY LifecycleAssumption DEF Statements
    <3> QED BY <3>1, <3>2, GoToTyped DEF Phases
  <2>2. ActiveOn("public")' = ActiveOn("public") \cup {t}
    BY <1>2, <1>5, <2>1 DEF ActiveOn, Home
  <2> QED BY <1>0, <1>4, <1>5, <2>2 DEF Accept
<1>6. CASE Home(t) = "public" /\ ~Accept(t)
  <2>1. task[t].phase # "none"
    BY <1>6 DEF Handle, Acquire, AcquireFails, Statement, Answer
  <2>2. CASE phase = "none"
    BY <1>0, <1>2, <1>4, <1>6, <2>2 DEF ActiveOn, Home
  <2>3. CASE phase # "none"
    BY <1>0, <1>2, <2>1, <2>3 DEF ActiveOn, Home
  <2> QED BY <2>2, <2>3
<1>7. Home(t) \in {"public", "health"}
  BY DEF Home
<1> QED BY <1>0, <1>3, <1>5, <1>6, <1>7

\* A step of a task adds none to a server that was shut down.
LEMMA NoneAccepted ==
    ASSUME TypeInv, NEW t \in Tasks, Handle(t), NEW s \in Servers, shut[s]
    PROVE  ActiveOn(s)' \subseteq ActiveOn(s)
<1>1. PICK phase \in Phases, left \in Nat :
          GoTo(t, phase, left) /\ (phase = "holding" => left > 0)
  BY TaskSteps
<1>2. \A u \in Tasks \ {t} : task'[u] = task[u]
  BY <1>1, GoToTyped
<1>3. Home(t) = s => task[t].phase # "none"
  BY DEF Handle, Accept, Acquire, AcquireFails, Statement, Answer
<1> QED BY <1>2, <1>3 DEF ActiveOn, Home

\* The steps of the tasks keep the invariant.
LEMMA TasksKeepInv ==
    ASSUME LifecycleInv, TypeInv', NEW t \in Tasks, Handle(t)
    PROVE  LifecycleInv'
<1>1. UNCHANGED <<main, server, shut, errCh, runErr, signalled, expired, exit>>
  BY TaskSteps DEF LifecycleInv
<1>2. \A s \in Servers : shut[s] => ActiveOn(s)' \subseteq ActiveOn(s)
  BY NoneAccepted DEF LifecycleInv
<1>3. MainInv'
  BY <1>1 DEF LifecycleInv, MainInv, Alive, Broken
<1>4. DrainInv'
  BY <1>1, <1>2 DEF LifecycleInv, MainInv, DrainInv, Servers
<1> QED BY <1>1, <1>3, <1>4 DEF LifecycleInv, Reported

\* The steps of the serve goroutines keep it: each reports once.
LEMMA ServersKeepInv ==
    ASSUME LifecycleInv, TypeInv', NEW s \in Servers, Serve(s)
    PROVE  LifecycleInv'
<1> USE DEF LifecycleInv
<1>0. server \in [Servers -> {"starting", "listening", "failing", "failed", "closed"}]
      /\ errCh \in Seq(Servers)
  BY DEF TypeInv, TypeOK
<1>1. UNCHANGED <<main, shut, runErr, signalled, expired, task, exit>>
  BY DEF Serve, Listen, ListenFails, Report, Closed
<1>2. MainInv'
  <2>1. Broken => Broken'
    BY <1>0 DEF Broken, Serve, Listen, ListenFails, Report, Closed
  <2> QED BY <1>1, <2>1 DEF MainInv, Alive
<1>3. DrainInv'
  BY <1>1 DEF DrainInv, ActiveOn
<1>4. CASE Report(s)
  <2>1. Len(errCh') = Len(errCh) + 1
    BY <1>0, <1>4 DEF Report
  <2>2. Reported("public")' + Reported("health")' = Reported("public") + Reported("health") + 1
    BY <1>0, <1>4 DEF Report, Reported, Servers
  <2>3. Len(errCh) \in Nat /\ Reported("public") \in Nat /\ Reported("health") \in Nat
    BY <1>0 DEF Reported
  <2> QED BY <1>2, <1>3, <2>1, <2>2, <2>3
<1>5. CASE Listen(s) \/ ListenFails(s) \/ Closed(s)
  <2>1. UNCHANGED errCh /\ Reported("public")' = Reported("public")
        /\ Reported("health")' = Reported("health")
    BY <1>0, <1>5 DEF Listen, ListenFails, Closed, Reported, Servers
  <2> QED BY <1>2, <1>3, <2>1
<1> QED BY <1>4, <1>5 DEF Serve

\* The steps of main keep it: it reads one report at most.
LEMMA MainKeepsInv ==
    ASSUME LifecycleInv, TypeInv', Main
    PROVE  LifecycleInv'
<1> USE DEF LifecycleInv
<1>0. /\ shut \in [Servers -> BOOLEAN] /\ errCh \in Seq(Servers)
      /\ None \notin Servers
  BY LifecycleAssumption DEF TypeInv, TypeOK, Servers
<1>1. UNCHANGED <<server, task, expired>>
  BY DEF Main, SelectSignal, SelectError, PublicDrained, HealthDrained, Exit
<1>2. Broken' = Broken /\ Reported("public")' = Reported("public")
      /\ Reported("health")' = Reported("health")
      /\ ActiveOn("public")' = ActiveOn("public") /\ ActiveOn("health")' = ActiveOn("health")
  BY <1>1 DEF Broken, Reported, ActiveOn
<1>3. CASE SelectSignal
  <2>1. shut'["public"] /\ shut'["health"] = shut["health"] /\ main' = "drainPublic"
    BY <1>0, <1>3 DEF SelectSignal, BeginDrain, Servers
  <2> QED BY <1>1, <1>2, <1>3, <2>1 DEF SelectSignal, MainInv, DrainInv, Alive
<1>4. CASE SelectError
  <2>1. shut'["public"] /\ shut'["health"] = shut["health"] /\ main' = "drainPublic"
    BY <1>0, <1>4 DEF SelectError, BeginDrain, Servers
  <2>2. Len(errCh) # 0 /\ Len(errCh') = Len(errCh) - 1 /\ Len(errCh) \in Nat
    BY <1>0, <1>4 DEF SelectError
  <2>3. Broken
    BY <2>2 DEF Reported, Broken, Servers
  <2> QED BY <1>1, <1>2, <1>4, <2>1, <2>2, <2>3
          DEF SelectError, MainInv, DrainInv, Alive, Reported
<1>5. CASE PublicDrained
  <2>1. shut'["health"] /\ shut'["public"] = shut["public"] /\ main' = "drainHealth"
    BY <1>0, <1>5 DEF PublicDrained, Servers
  <2> QED BY <1>1, <1>2, <1>5, <2>1 DEF PublicDrained, MainInv, DrainInv, Alive
<1>6. CASE HealthDrained
  BY <1>1, <1>2, <1>6 DEF HealthDrained, MainInv, DrainInv, Alive
<1>7. CASE Exit
  <2>1. exit' # None
    BY <1>7, LifecycleAssumption DEF Exit
  <2> QED BY <1>1, <1>2, <1>7, <2>1 DEF Exit, MainInv, DrainInv, Alive
<1> QED BY <1>3, <1>4, <1>5, <1>6, <1>7 DEF Main

\* LifecycleInv is inductive.
LEMMA LifecycleInvHolds == Spec => []LifecycleInv
<1>1. Init /\ TypeInv => LifecycleInv
  BY DEF Init, LifecycleInv, MainInv, DrainInv, Alive, Reported, Broken, Servers
<1>2. LifecycleInv /\ TypeInv' /\ [Next]_vars => LifecycleInv'
  <2> SUFFICES ASSUME LifecycleInv, TypeInv', [Next]_vars PROVE LifecycleInv'
    OBVIOUS
  <2>1. CASE Main
    BY <2>1, MainKeepsInv
  <2>2. CASE \E s \in Servers : Serve(s)
    BY <2>2, ServersKeepInv
  <2>3. CASE \E t \in Tasks : Handle(t)
    BY <2>3, TasksKeepInv
  <2>4. CASE Signal \/ DeadlinePasses
    BY <2>4 DEF Signal, DeadlinePasses, LifecycleInv, MainInv, DrainInv,
                Alive, Reported, Broken, ActiveOn
  <2>5. CASE Killed
    BY <2>5, LifecycleAssumption DEF Killed, LifecycleInv, MainInv, DrainInv,
                Alive, Reported, Broken, ActiveOn
  <2>6. CASE Gone \/ UNCHANGED vars
    BY <2>6 DEF Gone, vars, LifecycleInv, MainInv, DrainInv,
                Alive, Reported, Broken, ActiveOn
  <2> QED BY <2>1, <2>2, <2>3, <2>4, <2>5, <2>6 DEF Next
<1> QED BY <1>1, <1>2, TypeInvHolds, PTL DEF Spec

\* No serve goroutine ever blocks on the channel.
THEOREM Reports == Spec => []ReportsFit
<1>1. LifecycleInv => ReportsFit
  BY DEF LifecycleInv, TypeInv, TypeOK, ReportsFit, Reported, ErrCapacity, Servers
<1> QED BY <1>1, LifecycleInvHolds, PTL

\* Unless the time for the drains ran out, no request and no probe is in service
\* when the pool closes.
THEOREM PoolLast == Spec => []PoolOutlivesTasks
<1>1. LifecycleInv => PoolOutlivesTasks
  <2> SUFFICES ASSUME LifecycleInv, main = "closing", ~expired, NEW t \in Tasks
               PROVE  task[t].phase = "none"
    BY DEF PoolOutlivesTasks
  <2>1. ActiveOn("public") = {} /\ ActiveOn("health") = {}
    BY DEF LifecycleInv, MainInv, DrainInv
  <2> QED BY <2>1 DEF ActiveOn, Home
<1> QED BY <1>1, LifecycleInvHolds, PTL

-----------------------------------------------------------------------------
(* The refinement of GracefulStop: every step is a step of it or a stutter.*)

\* The actions of main: the drain begins, goes on, and ends in the exit.
LEMMA MainRefines ==
    ASSUME LifecycleInv, Main
    PROVE  [Stop!Next]_(Stop!vars)
<1> USE DEF LifecycleInv
<1>0. /\ shut \in [Servers -> BOOLEAN] /\ errCh \in Seq(Servers)
      /\ None \notin Servers /\ runErr \in Servers \cup {None}
  BY LifecycleAssumption DEF TypeInv, TypeOK, Servers
<1>1. UNCHANGED <<server, task, expired, signalled>>
  BY DEF Main, SelectSignal, SelectError, PublicDrained, HealthDrained, Exit
<1>2. Broken' = Broken /\ ActiveOn("public")' = ActiveOn("public")
  BY <1>1 DEF Broken, ActiveOn
<1>3. CASE SelectSignal
  <2>1. /\ Alive /\ Alive' /\ main = "select" /\ main' = "drainPublic"
        /\ shut["public"] = FALSE /\ shut'["public"] = TRUE
        /\ runErr = None /\ runErr' = None /\ signalled
    BY <1>0, <1>3 DEF SelectSignal, BeginDrain, Servers, MainInv, Alive
  <2>2. Stop!Drain
    BY <1>1, <1>2, <1>3, <2>1 DEF Stop!Drain, SelectSignal, Broken
  <2> QED BY <2>2 DEF Stop!Next
<1>4. CASE SelectError
  <2>1. /\ Alive /\ Alive' /\ main = "select" /\ main' = "drainPublic"
        /\ shut["public"] = FALSE /\ shut'["public"] = TRUE
        /\ runErr' # None
    BY <1>0, <1>4 DEF SelectError, BeginDrain, Servers, MainInv, Alive
  <2>2. Broken
    BY <1>0, <1>4 DEF SelectError, Reported, Broken, Servers
  <2>3. Stop!Drain
    BY <1>1, <1>2, <1>4, <2>1, <2>2 DEF Stop!Drain, SelectError, Broken
  <2> QED BY <2>3 DEF Stop!Next
<1>5. CASE PublicDrained \/ HealthDrained
  <2>1. /\ Alive /\ Alive' /\ main # "select" /\ main' # "select"
        /\ shut'["public"] = shut["public"] /\ UNCHANGED <<runErr, exit>>
    BY <1>0, <1>5 DEF PublicDrained, HealthDrained, Servers, Alive
  <2> QED BY <1>1, <1>2, <2>1 DEF Stop!vars, Broken
<1>6. CASE Exit
  <2>1. /\ Alive /\ main = "closing" /\ shut["public"] = TRUE /\ shut' = shut
        /\ expired \/ ActiveOn("public") = {}
        /\ exit' = IF runErr = None THEN "success" ELSE "failure"
        /\ runErr' = runErr
    BY <1>0, <1>6 DEF Exit, MainInv, DrainInv, Servers
  <2>2. ~Alive'
    BY <2>1, LifecycleAssumption DEF Alive
  <2>3. Stop!End
    BY <1>1, <1>2, <2>1, <2>2, LifecycleAssumption DEF Stop!End, Broken
  <2> QED BY <2>3 DEF Stop!Next
<1> QED BY <1>3, <1>4, <1>5, <1>6 DEF Main

\* The other actions.
LEMMA OthersRefine ==
    ASSUME LifecycleInv, TypeInv', Next, ~Main
    PROVE  [Stop!Next]_(Stop!vars)
<1> USE DEF LifecycleInv
<1>1. ASSUME NEW t \in Tasks, Handle(t) PROVE [Stop!Next]_(Stop!vars)
  <2>1. UNCHANGED <<main, server, shut, errCh, runErr, signalled, expired, exit>>
    BY <1>1, TaskSteps
  <2>2. /\ Alive /\ Alive'
        /\ \/ /\ t \in Requests /\ ~shut["public"]
              /\ ActiveOn("public")' = ActiveOn("public") \cup {t}
           \/ /\ t \in Requests
              /\ ActiveOn("public")' = ActiveOn("public") \ {t}
           \/ ActiveOn("public")' = ActiveOn("public")
    BY <1>1, <2>1, RequestsInService DEF Alive
  <2>3. ~shut["public"] => main = "select"
    BY <2>2 DEF MainInv
  <2>4. CASE /\ t \in Requests /\ ~shut["public"]
             /\ ActiveOn("public")' = ActiveOn("public") \cup {t}
    <3>1. Stop!Take(t)
      BY <2>1, <2>2, <2>3, <2>4 DEF Stop!Take
    <3> QED BY <2>4, <3>1 DEF Stop!Next
  <2>5. CASE t \in Requests /\ ActiveOn("public")' = ActiveOn("public") \ {t}
    <3>1. Stop!Answer(t)
      BY <2>1, <2>2, <2>5 DEF Stop!Answer
    <3> QED BY <2>5, <3>1 DEF Stop!Next
  <2>6. CASE ActiveOn("public")' = ActiveOn("public")
    BY <2>1, <2>2, <2>6 DEF Stop!vars
  <2> QED BY <2>2, <2>4, <2>5, <2>6
<1>2. ASSUME NEW s \in Servers, Serve(s) PROVE [Stop!Next]_(Stop!vars)
  <2>1. UNCHANGED <<main, shut, runErr, signalled, expired, task, exit>>
    BY <1>2 DEF Serve, Listen, ListenFails, Report, Closed
  <2>2. Alive' = Alive /\ ActiveOn("public")' = ActiveOn("public")
    BY <2>1 DEF Alive, ActiveOn
  <2>3. server \in [Servers -> {"starting", "listening", "failing", "failed", "closed"}]
    BY DEF TypeInv, TypeOK
  <2>4. CASE ListenFails(s)
    <3>1. Broken'
      BY <2>3, <2>4 DEF Broken, ListenFails
    <3>2. Stop!Breaks
      BY <2>1, <2>2, <3>1 DEF Stop!Breaks, Broken
    <3> QED BY <3>2 DEF Stop!Next
  <2>5. CASE Listen(s) \/ Report(s) \/ Closed(s)
    <3>1. Broken' = Broken
      BY <2>3, <2>5 DEF Broken, Listen, Report, Closed
    <3> QED BY <2>1, <2>2, <3>1 DEF Stop!vars, Broken
  <2> QED BY <1>2, <2>4, <2>5 DEF Serve
<1>3. CASE Signal
  <2>1. Stop!Asked
    BY <1>3 DEF Signal, Stop!Asked, Alive, ActiveOn
  <2> QED BY <2>1 DEF Stop!Next
<1>4. CASE DeadlinePasses
  <2>1. Stop!TimeRunsOut
    BY <1>4 DEF DeadlinePasses, Stop!TimeRunsOut, Alive, ActiveOn
  <2> QED BY <2>1 DEF Stop!Next
<1>5. CASE Killed
  <2>1. Stop!Killed
    BY <1>5, LifecycleAssumption DEF Killed, Stop!Killed, Alive, ActiveOn
  <2> QED BY <2>1 DEF Stop!Next
<1>6. CASE Gone
  BY <1>6 DEF Gone, vars, Stop!vars, Alive, ActiveOn
<1> QED BY <1>1, <1>2, <1>3, <1>4, <1>5, <1>6 DEF Next

\* ServerLifecycle implements GracefulStop: it drains what it accepted, accepts
\* nothing after, and exits with the status that tells why.
THEOREM Graceful == Spec => StopsGracefully
<1>1. Init => Stop!Init
  <2> SUFFICES ASSUME Init PROVE Stop!Init
    OBVIOUS
  <2>1. ActiveOn("public") = {}
    BY DEF Init, ActiveOn, Absent
  <2> QED BY <2>1 DEF Init, Stop!Init, Alive, Servers
<1>2. LifecycleInv /\ TypeInv' /\ [Next]_vars => [Stop!Next]_(Stop!vars)
  <2>1. LifecycleInv /\ TypeInv' /\ Next => [Stop!Next]_(Stop!vars)
    BY MainRefines, OthersRefine
  <2>2. UNCHANGED vars => UNCHANGED Stop!vars
    BY DEF vars, Stop!vars, Alive, ActiveOn
  <2> QED BY <2>1, <2>2
<1> QED BY <1>1, <1>2, TypeInvHolds, LifecycleInvHolds, PTL DEF Spec, StopsGracefully, Stop!Spec
=============================================================================
