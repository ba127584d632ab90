--------------------------- MODULE KeyProvisioning --------------------------
(***************************************************************************)
(* The shell script generate_jwt_keypair of the Tiltfile: it makes an RSA  *)
(* keypair and its two encodings when the keypair file is not there, and   *)
(* copies the encodings to where OPA and the sample API are configured     *)
(* from.  Tilt runs it whenever it evaluates the Tiltfile, and evaluates   *)
(* the Tiltfile again when one of the copies is written.                   *)
(*                                                                         *)
(* The script stops at the first command that fails (set -e), and may be   *)
(* interrupted at any command.  A file holds nothing (None), what was left *)
(* of an interrupted write (Broken) or the key it was made from.           *)
(***************************************************************************)
EXTENDS KeyFiles, Naturals, Sequences

CONSTANT MaxInterrupts  \* BOUND: how often the script is interrupted

ASSUME InterruptAssumption == MaxInterrupts \in Nat

\* The files of .dev-data/secrets/jwt, and their copies.
Sources == {"keypair.pem", "rs256.pem", "rs256.key"}
Copies  == {"opa/rs256.pem", "api/rs256.key", "api/rs256.pem"}
Files   == Sources \cup Copies

VARIABLES
    file,        \* file[f]: what f holds
    step,        \* the command of Commands that is next, 0 when none runs
    outcome,     \* of the latest run: "none", "running", "ok" or "failed"
    changed,     \* a copy was written since the latest evaluation began
    made,        \* the keys drawn so far
    interrupts   \* how often the script was interrupted

keyVars == <<file, step, outcome, changed, made, interrupts>>

KeyInit ==
    /\ file = [f \in Files |-> None]
    /\ step = 0 /\ outcome = "none"
    /\ changed = FALSE /\ made = {} /\ interrupts = 0

-----------------------------------------------------------------------------
(* The commands, in their order.                                           *)

\* MUTANT of Commands: the key the API signs with is not copied.
CommandsWithoutKey == <<
    [do |-> "genrsa", from |-> None,          to |-> "keypair.pem"],
    [do |-> "derive", from |-> "keypair.pem", to |-> "rs256.pem"],
    [do |-> "derive", from |-> "keypair.pem", to |-> "rs256.key"],
    [do |-> "sync",   from |-> "rs256.pem",   to |-> "opa/rs256.pem"],
    [do |-> "sync",   from |-> "rs256.pem",   to |-> "api/rs256.pem"] >>

Commands == <<
    [do |-> "genrsa", from |-> None,          to |-> "keypair.pem"],
    [do |-> "derive", from |-> "keypair.pem", to |-> "rs256.pem"],
    [do |-> "derive", from |-> "keypair.pem", to |-> "rs256.key"],
    [do |-> "sync",   from |-> "rs256.pem",   to |-> "opa/rs256.pem"],
    [do |-> "sync",   from |-> "rs256.key",   to |-> "api/rs256.key"],
    [do |-> "sync",   from |-> "rs256.pem",   to |-> "api/rs256.pem"] >>

FirstSync == 4

\* The if: the generation is skipped when the keypair file exists.
FirstStep == IF file["keypair.pem"] = None THEN 1 ELSE FirstSync

\* A command that reads a file fails if it is not there, openssl also if it is
\* no key.
Fails(cmd) ==
    \/ cmd.do = "derive" /\ file[cmd.from] \notin Keys
    \/ cmd.do = "sync" /\ file[cmd.from] = None

\* MUTANT of Skips: cp without cmp.
SkipsNothing(cmd) == FALSE

\* cmp -s: the files are the same, there is nothing to copy.
Skips(cmd) == cmd.do = "sync" /\ file[cmd.to] = file[cmd.from]

Put(f, content) ==
    /\ file' = [file EXCEPT ![f] = content]
    /\ changed' = (changed \/ f \in Copies)

-----------------------------------------------------------------------------
(* The runs of the script.                                                 *)

\* Tilt evaluates the Tiltfile at its start, when a copy changed, and when the
\* developer tries again after a failure.
Evaluate ==
    /\ step = 0 /\ (outcome # "ok" \/ changed)
    /\ step' = FirstStep /\ outcome' = "running"
    /\ changed' = FALSE
    /\ UNCHANGED <<file, made, interrupts>>

Advance ==
    IF step = Len(Commands) THEN step' = 0 /\ outcome' = "ok"
                            ELSE step' = step + 1 /\ UNCHANGED outcome

\* The next command succeeds.
RunCommand ==
    LET cmd == Commands[step]
    IN  /\ step # 0 /\ ~Fails(cmd)
        /\ \/ /\ cmd.do = "genrsa"
              /\ \E k \in Keys \ made : Put(cmd.to, k) /\ made' = made \cup {k}
           \/ /\ cmd.do # "genrsa" /\ Skips(cmd)
              /\ UNCHANGED <<file, changed, made>>
           \/ /\ cmd.do # "genrsa" /\ ~Skips(cmd)
              /\ Put(cmd.to, file[cmd.from]) /\ UNCHANGED made
        /\ Advance
        /\ UNCHANGED interrupts

\* MUTANT of CommandFails: without set -e.
CommandGoesOn ==
    /\ step # 0 /\ Fails(Commands[step])
    /\ step' = (IF step = Len(Commands) THEN 0 ELSE step + 1) /\ outcome' = "failed"
    /\ UNCHANGED <<file, changed, made, interrupts>>

\* The next command fails, and the script and the evaluation with it.
CommandFails ==
    /\ step # 0 /\ Fails(Commands[step])
    /\ step' = 0 /\ outcome' = "failed"
    /\ UNCHANGED <<file, changed, made, interrupts>>

\* The script is stopped, before or within the write of the next command.
Interrupt ==
    LET cmd == Commands[step]
    IN  /\ step # 0 /\ interrupts < MaxInterrupts
        /\ \/ UNCHANGED <<file, changed>>
           \/ ~Fails(cmd) /\ ~Skips(cmd) /\ Put(cmd.to, Broken)
        /\ step' = 0 /\ outcome' = "failed"
        /\ interrupts' = interrupts + 1
        /\ UNCHANGED made

\* The developer deletes .dev-data, for new keys.
Wipe ==
    /\ step = 0 /\ made # Keys
    /\ file' = [f \in Files |-> IF f \in Sources THEN None ELSE file[f]]
    /\ outcome' = "none"
    /\ UNCHANGED <<step, changed, made, interrupts>>

KeyNext == Evaluate \/ RunCommand \/ CommandFails \/ Interrupt \/ Wipe

-----------------------------------------------------------------------------
(* Properties.                                                             *)

KeyTypeOK ==
    /\ file \in [Files -> Contents]
    /\ step \in 0..Len(Commands)
    /\ outcome \in {"none", "running", "ok", "failed"}
    /\ outcome = "running" <=> step # 0
    /\ changed \in BOOLEAN /\ made \subseteq Keys
    /\ interrupts \in 0..MaxInterrupts

\* A run that succeeds (Tiltfile:26-38) leaves copies of the present encodings,
\* and those that are whole are of one key: OPA verifies what the API signs,
\* whatever interruptions and new keys came before.
CopiesMatch ==
    outcome = "ok" =>
        /\ file["opa/rs256.pem"] = file["rs256.pem"]
        /\ file["api/rs256.pem"] = file["rs256.pem"]
        /\ file["api/rs256.key"] = file["rs256.key"]
        /\ \A f, g \in Copies : {file[f], file[g]} \subseteq Keys => file[f] = file[g]
        /\ \A f \in Copies : file[f] # None

\* The copies stop changing, so that Tilt stops evaluating: "else mtime bump
\* retriggers the file watcher ... infinite reconciliation loop" (Tiltfile:33).
Settles == <>[](~changed)
=============================================================================
