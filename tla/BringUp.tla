------------------------------- MODULE BringUp ------------------------------
(***************************************************************************)
(* The development environment comes up: the key script of the Tiltfile,   *)
(* the deployment of what it made to OPA and to the sample API, and the    *)
(* replicas of the API, which start on it.                                 *)
(***************************************************************************)
EXTENDS KeyProvisioning, Startup

VARIABLE verifying   \* the key OPA was given to verify tokens with

vars == <<keyVars, startVars, verifying>>

Init == KeyInit /\ StartInit /\ verifying = None

\* k8s_yaml(kustomize("sample-api/manifests")): the Tiltfile was evaluated to
\* its end, and a ConfigMap with the key it found makes a new deployment.
DeployApi ==
    /\ outcome = "ok" /\ mounted # file["api/rs256.key"]
    /\ mounted' = file["api/rs256.key"]
    /\ UNCHANGED <<keyVars, config, mount, stage, loaded, database, deaths, verifying>>

\* resource("open-policy-agent"): kustomize runs again when its directory
\* changes, whatever the script is doing then.
DeployOpa ==
    /\ outcome = "ok" \/ verifying # None
    /\ verifying # file["opa/rs256.pem"]
    /\ verifying' = file["opa/rs256.pem"]
    /\ UNCHANGED <<keyVars, startVars>>

Script == KeyNext /\ UNCHANGED <<startVars, verifying>>
Run    == StartNext /\ UNCHANGED <<keyVars, verifying>>

\* All is up, and what happens is the traffic.
Up ==
    /\ \A r \in Replicas : stage[r] = "serving"
    /\ UNCHANGED vars

Next == Script \/ DeployApi \/ DeployOpa \/ Run \/ Up

Spec == Init /\ [][Next]_vars

\* The script and Tilt go on, Kubernetes rolls and restarts, a process that can
\* go on does, Postgres notices dead sessions.  Nobody is bound to interrupt,
\* to wipe the keys or to die, and a wait for the lock need not time out.
Fairness ==
    /\ WF_vars((Evaluate \/ RunCommand \/ CommandFails) /\ UNCHANGED <<startVars, verifying>>)
    /\ WF_vars(DeployApi) /\ WF_vars(DeployOpa)
    /\ WF_vars(SessionEnds /\ UNCHANGED <<keyVars, verifying>>)
    /\ \A r \in Replicas :
          /\ WF_vars(Boot(r) /\ UNCHANGED <<keyVars, verifying>>)
          /\ WF_vars(Roll(r) /\ UNCHANGED <<keyVars, verifying>>)

FairSpec == Spec /\ Fairness

-----------------------------------------------------------------------------
(* Liveness.                                                               *)

\* What keeps the environment down: a configuration that is not valid, not for
\* Postgres or not for pgx (main.go:46), a script that fails again and again
\* (Tiltfile:26), a key file that is no key, a migration that died half-way
\* (migrations.go:32).
Obstructed ==
    \/ ~Valid(config) \/ config.url \notin {"postgres", "postgresql"}
    \/ ~Poolable(config)
    \/ []<>(outcome = "failed")
    \/ <>[](file["api/rs256.key"] = Broken)
    \/ <>[]dirty

\* Unless one of these keeps it down, in the end every replica serves for good,
\* and signs with the key that OPA verifies with.
ComesUp ==
    \/ Obstructed
    \/ <>[](\A r \in Replicas : stage[r] = "serving" /\ loaded[r] = verifying)
=============================================================================
