---------------------------- MODULE GracefulStop ----------------------------
(***************************************************************************)
(* What server.Run and the deferred calls of main.run promise about        *)
(* stopping: a process that is up takes requests; it stops because it was  *)
(* asked to or because a server broke; from then on it takes no new        *)
(* request, and it ends with requests unanswered only if the time for      *)
(* draining ran out; its exit status says whether a server broke.  Only    *)
(* being killed is exempt.  ServerLifecycle implements this specification. *)
(***************************************************************************)
EXTENDS FiniteSets

CONSTANTS Requests, None

VARIABLES
    phase,     \* "up", "draining" or "over"
    cause,     \* why it drains: None while up, then "signal" or "failure"
    asked,     \* it was sent a signal
    broken,    \* a server failed
    late,      \* the time for draining has run out
    inFlight,  \* the requests taken and not answered
    status     \* how it ended: None, "success", "failure" or "killed"

vars == <<phase, cause, asked, broken, late, inFlight, status>>

Init ==
    /\ phase = "up" /\ cause = None /\ status = None
    /\ asked = FALSE /\ broken = FALSE /\ late = FALSE
    /\ inFlight = {}

Asked  == asked' = TRUE /\ UNCHANGED <<phase, cause, broken, late, inFlight, status>>
Breaks == broken' = TRUE /\ UNCHANGED <<phase, cause, asked, late, inFlight, status>>

Take(r) ==
    /\ phase = "up"
    /\ inFlight' = inFlight \cup {r}
    /\ UNCHANGED <<phase, cause, asked, broken, late, status>>

Answer(r) ==
    /\ phase # "over"
    /\ inFlight' = inFlight \ {r}
    /\ UNCHANGED <<phase, cause, asked, broken, late, status>>

Drain ==
    /\ phase = "up"
    /\ phase' = "draining"
    /\ \/ asked  /\ cause' = "signal"
       \/ broken /\ cause' = "failure"
    /\ UNCHANGED <<asked, broken, late, inFlight, status>>

TimeRunsOut ==
    /\ phase = "draining"
    /\ late' = TRUE
    /\ UNCHANGED <<phase, cause, asked, broken, inFlight, status>>

End ==
    /\ phase = "draining"
    /\ late \/ inFlight = {}
    /\ phase' = "over"
    /\ status' = IF cause = "failure" THEN "failure" ELSE "success"
    /\ UNCHANGED <<cause, asked, broken, late, inFlight>>

Killed ==
    /\ phase # "over"
    /\ phase' = "over" /\ status' = "killed"
    /\ UNCHANGED <<cause, asked, broken, late, inFlight>>

Next ==
    \/ Asked \/ Breaks \/ Drain \/ TimeRunsOut \/ End \/ Killed
    \/ \E r \in Requests : Take(r) \/ Answer(r)

Spec == Init /\ [][Next]_vars
=============================================================================
