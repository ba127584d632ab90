---------------------------- MODULE BringUpProofs ---------------------------
(***************************************************************************)
(* Proofs about BringUp: the types, the safety of the start of the         *)
(* replicas and that of the key script.                                    *)
(***************************************************************************)
EXTENDS BringUp, TLAPS

-----------------------------------------------------------------------------
(* The start of the replicas.                                              *)

\* What the database holds when replica r has come as far as it has.
Position(r) ==
    /\ stage[r] = "pending" => version = 0 /\ ~dirty /\ schema = 0
    /\ stage[r] = "marked"  => version = 1 /\ dirty /\ schema = 0
    /\ stage[r] = "applied" => version = 1 /\ dirty /\ schema = 1
    /\ stage[r] \in {"cleaned", "key", "serving"} => version = 1 /\ ~dirty /\ schema = 1
    /\ stage[r] = "serving" => loaded[r] \in Keys

StartInv ==
    /\ StartTypeOK
    /\ MigrationIsExclusive
    /\ CleanVersionIsTrue
    /\ \A r \in Replicas : Position(r)

\* A replica that goes to another stage leaves the stage of the others.
LEMMA Entering ==
    ASSUME StartTypeOK, NEW r \in Replicas, NEW s \in Stages, Enter(r, s)
    PROVE  /\ stage' \in [Replicas -> Stages]
           /\ stage'[r] = s
           /\ \A q \in Replicas \ {r} : stage'[q] = stage[q]
BY DEF StartTypeOK, Enter

\* A step of one replica within the migration meets no other one there.
LEMMA StagesMove ==
    ASSUME StartInv, NEW r \in Replicas, NEW s \in Stages, Enter(r, s),
           lock' = lock \/ (lock = Nobody /\ lock' = r)
              \/ (lock = r /\ s \notin Migrating),
           s \in Migrating => lock' = r
    PROVE  MigrationIsExclusive'
<1>1. /\ stage'[r] = s
      /\ \A q \in Replicas \ {r} : stage'[q] = stage[q]
  BY Entering DEF StartInv
<1> QED BY <1>1, StartupAssumption DEF StartInv, MigrationIsExclusive, Migrating

\* The steps that leave the database alone, but for the lock.
LEMMA DatabaseKept ==
    ASSUME StartInv, NEW r \in Replicas, NEW s \in Stages, Enter(r, s),
           UNCHANGED <<version, dirty, schema>>,
           s \in {"down", "opening", "locking", "locked"}
              \/ (s = "pending" /\ version = 0 /\ ~dirty)
              \/ (s \in {"key", "serving"} /\ version = 1 /\ ~dirty),
           s = "serving" => loaded'[r] \in Keys,
           \A q \in Replicas \ {r} : loaded'[q] = loaded[q]
    PROVE  CleanVersionIsTrue' /\ \A q \in Replicas : Position(q)'
<1>1. /\ stage'[r] = s
      /\ \A q \in Replicas \ {r} : stage'[q] = stage[q]
  BY Entering DEF StartInv
<1>2. Position(r)'
  BY <1>1 DEF Position, StartInv, CleanVersionIsTrue
<1>3. \A q \in Replicas \ {r} : Position(q)'
  BY <1>1 DEF Position, StartInv
<1> QED BY <1>2, <1>3 DEF StartInv, CleanVersionIsTrue

\* What the other replicas are up to while r migrates.
LEMMA OthersWait ==
    ASSUME StartInv, NEW r \in Replicas, stage[r] \in Migrating,
           NEW q \in Replicas \ {r}
    PROVE  stage[q] \notin Migrating
BY DEF StartInv, MigrationIsExclusive

\* The steps of the replicas that read the database.
LEMMA ReadersKeepInv ==
    ASSUME StartInv, NEW r \in Replicas,
           Load(r) \/ LoadFails(r) \/ Open(r) \/ OpenFails(r) \/ TakeLock(r)
           \/ LockTimesOut(r) \/ ReadVersion(r) \/ Migrated(r) \/ PoolFails(r)
           \/ LoadPrivateKey(r)
    PROVE  StartInv'
<1> USE DEF Stages, Migrating
<1>0. StartTypeOK /\ Position(r)
  BY DEF StartInv
<1>1. CASE Load(r) \/ Open(r) \/ OpenFails(r) \/ LockTimesOut(r) \/ PoolFails(r)
  <2>1. PICK s \in {"opening", "locking", "down"} : Enter(r, s)
    BY <1>1 DEF Load, Open, OpenFails, LockTimesOut, PoolFails
  <2>2. UNCHANGED <<config, mounted, mount, loaded, database, deaths>>
    BY <1>1 DEF Load, Open, OpenFails, LockTimesOut, PoolFails
  <2>3. StartTypeOK'
    BY <1>0, <2>1, <2>2, Entering DEF StartTypeOK, database
  <2> QED BY <2>1, <2>2, <2>3, StagesMove, DatabaseKept DEF StartInv, database
<1>2. CASE TakeLock(r)
  <2>1. StartTypeOK'
    BY <1>0, <1>2, Entering DEF StartTypeOK, TakeLock
  <2> QED BY <1>2, <2>1, StagesMove, DatabaseKept DEF StartInv, TakeLock
<1>3. CASE ReadVersion(r) \/ Migrated(r)
  <2>1. stage[r] \in {"locked", "cleaned"} /\ lock = r
    BY <1>3 DEF ReadVersion, Migrated, StartInv, MigrationIsExclusive
  <2>2. PICK s \in {"down", "key", "pending"} :
            /\ Enter(r, s)
            /\ UNCHANGED <<config, mounted, mount, loaded, version, dirty, schema, deaths>>
            /\ IF s = "pending" THEN lock' = lock ELSE lock' = Nobody
            /\ s = "pending" => version = 0 /\ ~dirty
            /\ s = "key" => version = 1 /\ ~dirty
    BY <1>0, <1>3, <2>1
       DEF ReadVersion, Migrated, Unlock, database, LatestVersion, StartTypeOK, Position
  <2>3. StartTypeOK'
    BY <1>0, <2>1, <2>2, Entering DEF StartTypeOK
  <2>4. MigrationIsExclusive'
    BY <2>1, <2>2, StagesMove
  <2> QED BY <2>2, <2>3, <2>4, DatabaseKept DEF StartInv
<1>4. CASE LoadPrivateKey(r)
  <2>1. PICK s \in {"down", "serving"} :
            /\ Enter(r, s)
            /\ IF s = "serving" THEN /\ mount[r] \in Keys
                                    /\ loaded' = [loaded EXCEPT ![r] = mount[r]]
                               ELSE loaded' = loaded
    BY <1>4 DEF LoadPrivateKey
  <2>2. UNCHANGED <<config, mounted, mount, version, dirty, schema, lock, deaths>>
        /\ version = 1 /\ ~dirty
    BY <1>0, <1>4 DEF LoadPrivateKey, database, Position
  <2>3. StartTypeOK'
    BY <1>0, <2>1, <2>2, Entering DEF StartTypeOK
  <2>4. /\ s = "serving" => loaded'[r] \in Keys
        /\ \A q \in Replicas \ {r} : loaded'[q] = loaded[q]
    BY <1>0, <2>1 DEF StartTypeOK
  <2> QED BY <2>1, <2>2, <2>3, <2>4, StagesMove, DatabaseKept DEF StartInv
<1>5. CASE LoadFails(r)
  BY <1>5 DEF LoadFails, startVars, database, StartInv, StartTypeOK, MigrationIsExclusive,
              CleanVersionIsTrue, Position
<1> QED BY <1>1, <1>2, <1>3, <1>4, <1>5

\* The steps of the migration, which write the version and the schema.
LEMMA WritersKeepInv ==
    ASSUME StartInv, NEW r \in Replicas, Mark(r) \/ Migrate(r) \/ Clean(r)
    PROVE  StartInv'
<1> USE DEF Stages, Migrating
<1>0. StartTypeOK /\ Position(r)
  BY DEF StartInv
<1>1. PICK s \in {"marked", "applied", "cleaned"} :
          Enter(r, s) /\ UNCHANGED <<config, mounted, mount, loaded, lock, deaths>>
  BY DEF Mark, Migrate, Clean
<1>2. stage[r] \in {"pending", "marked", "applied"} /\ lock = r
  BY DEF Mark, Migrate, Clean, StartInv, MigrationIsExclusive
<1>3. stage' \in [Replicas -> Stages] /\ stage'[r] = s
      /\ \A q \in Replicas \ {r} : stage'[q] = stage[q]
  BY <1>0, <1>1, Entering
<1>4. Position(r)' /\ CleanVersionIsTrue' /\ version' \in {0, 1} /\ dirty' \in BOOLEAN
      /\ schema' \in Nat
  <2>1. CASE Mark(r)
    <3>1. version' = 1 /\ dirty' /\ schema' = 0 /\ stage'[r] = "marked"
      BY <1>0, <1>3, <2>1 DEF Mark, Enter, Position, LatestVersion, StartTypeOK
    <3> QED BY <3>1, <2>1, <1>0 DEF Mark, Position, CleanVersionIsTrue
  <2>2. CASE Migrate(r)
    <3>1. version' = 1 /\ dirty' = TRUE /\ schema' = 1 /\ stage'[r] = "applied"
      BY <1>0, <1>3, <2>2 DEF Migrate, Enter, Position, StartTypeOK
    <3> QED BY <3>1 DEF Position, CleanVersionIsTrue
  <2>3. CASE Clean(r)
    <3>1. version' = 1 /\ dirty' = FALSE /\ schema' = 1 /\ stage'[r] = "cleaned"
      BY <1>0, <1>3, <2>3 DEF Clean, Enter, Position, StartTypeOK
    <3> QED BY <3>1 DEF Position, CleanVersionIsTrue
  <2> QED BY <2>1, <2>2, <2>3
<1>5. StartTypeOK'
  BY <1>0, <1>1, <1>3, <1>4 DEF StartTypeOK, LatestVersion
<1>6. MigrationIsExclusive'
  BY <1>1, <1>2, StagesMove
<1>7. ASSUME NEW q \in Replicas \ {r} PROVE Position(q)'
  <2>1. stage[q] \notin Migrating
    BY <1>2, OthersWait
  <2>2. stage[q] \notin {"key", "serving"}
    BY <1>0, <1>2 DEF StartInv, Position
  <2> QED BY <1>3, <2>1, <2>2 DEF Position
<1> QED BY <1>4, <1>5, <1>6, <1>7 DEF StartInv

\* The end of a replica, and that of its session.
LEMMA EndingsKeepInv ==
    ASSUME StartInv, NEW r \in Replicas, Dies(r) \/ Roll(r)
    PROVE  StartInv'
<1> USE DEF Stages, Migrating
<1>0. StartTypeOK /\ Position(r) /\ EndOf(r)
  BY DEF StartInv, Dies, Roll
<1>1. Enter(r, "down") /\ UNCHANGED <<config, mounted, version, dirty>>
      /\ loaded' = [loaded EXCEPT ![r] = None]
  BY <1>0 DEF EndOf
<1>2. stage' \in [Replicas -> Stages] /\ stage'[r] = "down"
      /\ \A q \in Replicas \ {r} : stage'[q] = stage[q]
  BY <1>0, <1>1, Entering
<1>3. lock' = (IF lock = r THEN "orphan" ELSE lock)
  BY <1>0 DEF EndOf
<1>4. schema' \in Nat /\ (schema' # schema => stage[r] = "marked")
  BY <1>0 DEF EndOf, StartTypeOK
<1>5. StartTypeOK'
  <2>1. deaths' \in 0..MaxDeaths /\ mount' \in [Replicas -> Contents]
    BY <1>0, StartupAssumption DEF Dies, Roll, StartTypeOK
  <2>2. loaded' \in [Replicas -> Keys \cup {None}]
    BY <1>0, <1>1 DEF StartTypeOK
  <2> QED BY <1>0, <1>1, <1>2, <1>3, <1>4, <2>1, <2>2 DEF StartTypeOK
<1>6. MigrationIsExclusive'
  BY <1>2, <1>3, StartupAssumption DEF StartInv, MigrationIsExclusive
<1>7. CleanVersionIsTrue'
  BY <1>0, <1>1, <1>4 DEF StartInv, CleanVersionIsTrue, Position
<1>8. ASSUME NEW q \in Replicas PROVE Position(q)'
  <2>1. CASE q = r
    BY <1>2, <2>1 DEF Position
  <2>2. CASE q # r /\ schema' = schema
    <3>1. loaded'[q] = loaded[q]
      BY <1>0, <1>1, <2>2 DEF StartTypeOK
    <3> QED BY <1>1, <1>2, <2>2, <3>1 DEF Position, StartInv
  <2>3. CASE q # r /\ stage[r] = "marked"
    <3>1. stage[q] \notin Migrating
      BY <2>3, OthersWait
    <3>2. stage[q] \notin {"key", "serving"}
      BY <1>0, <2>3 DEF StartInv, Position
    <3> QED BY <1>2, <2>3, <3>1, <3>2 DEF Position
  <2> QED BY <1>4, <2>1, <2>2, <2>3
<1> QED BY <1>5, <1>6, <1>7, <1>8 DEF StartInv

-----------------------------------------------------------------------------
(* The key script.                                                         *)

\* Encodings that are whole are of the keypair; the script generates only where
\* there is none; what it has synchronized so far is equal.
KeyInv ==
    /\ KeyTypeOK
    /\ \A f \in {"rs256.pem", "rs256.key"} :
          file[f] \in Keys => file[f] = file["keypair.pem"]
    /\ step = 1 => file["keypair.pem"] = None
    /\ step \in {5, 6} \/ outcome = "ok" =>
          file["opa/rs256.pem"] = file["rs256.pem"] /\ file["rs256.pem"] # None
    /\ step = 6 \/ outcome = "ok" =>
          file["api/rs256.key"] = file["rs256.key"] /\ file["rs256.key"] # None
    /\ outcome = "ok" => file["api/rs256.pem"] = file["rs256.pem"]

\* The six commands.
LEMMA CommandList ==
    /\ Len(Commands) = 6
    /\ Commands[1].do = "genrsa" /\ Commands[1].to = "keypair.pem"
    /\ Commands[2].do = "derive" /\ Commands[2].from = "keypair.pem"
                                /\ Commands[2].to = "rs256.pem"
    /\ Commands[3].do = "derive" /\ Commands[3].from = "keypair.pem"
                                /\ Commands[3].to = "rs256.key"
    /\ Commands[4].do = "sync" /\ Commands[4].from = "rs256.pem"
                              /\ Commands[4].to = "opa/rs256.pem"
    /\ Commands[5].do = "sync" /\ Commands[5].from = "rs256.key"
                              /\ Commands[5].to = "api/rs256.key"
    /\ Commands[6].do = "sync" /\ Commands[6].from = "rs256.pem"
                              /\ Commands[6].to = "api/rs256.pem"
BY DEF Commands

\* What a write leaves in the files.
LEMMA Writes ==
    ASSUME KeyTypeOK, NEW f \in Files, NEW content \in Contents, Put(f, content)
    PROVE  /\ file' \in [Files -> Contents] /\ changed' \in BOOLEAN
           /\ file'[f] = content
           /\ \A g \in Files \ {f} : file'[g] = file[g]
BY DEF KeyTypeOK, Put

\* A command that succeeds has its target hold a key, or what its source holds.
LEMMA CommandSucceeds ==
    ASSUME KeyTypeOK, RunCommand
    PROVE  /\ step \in 1..6 /\ UNCHANGED interrupts /\ made' \subseteq Keys
           /\ file' \in [Files -> Contents] /\ changed' \in BOOLEAN
           /\ \A g \in Files \ {Commands[step].to} : file'[g] = file[g]
           /\ step = 1 => file'["keypair.pem"] \in Keys
           /\ step \in {2, 3} => file["keypair.pem"] \in Keys
           /\ step \in {4, 5, 6} => file[Commands[step].from] # None
           /\ step # 1 => file'[Commands[step].to] = file[Commands[step].from]
           /\ IF step = 6 THEN step' = 0 /\ outcome' = "ok"
                          ELSE step' = step + 1 /\ outcome' = outcome
<1>1. step \in 1..6
  BY CommandList DEF KeyTypeOK, RunCommand
<1>2. Commands[step].to \in Files /\ (step # 1 => Commands[step].from \in Files)
  BY <1>1, CommandList DEF Files, Sources, Copies
<1>3. UNCHANGED interrupts
      /\ IF step = 6 THEN step' = 0 /\ outcome' = "ok"
                     ELSE step' = step + 1 /\ outcome' = outcome
  BY CommandList DEF RunCommand, Advance
<1>4. CASE step = 1
  <2>1. PICK k \in Keys \ made : Put("keypair.pem", k) /\ made' = made \cup {k}
    BY <1>4, CommandList DEF RunCommand
  <2>2. k \in Contents /\ "keypair.pem" \in Files /\ made' \subseteq Keys
    BY <2>1 DEF Contents, Files, Sources, KeyTypeOK
  <2> QED BY <1>1, <1>3, <1>4, <2>1, <2>2, Writes, CommandList
<1>5. CASE step # 1
  <2>1. /\ ~Fails(Commands[step]) /\ UNCHANGED made
        /\ \/ Skips(Commands[step]) /\ UNCHANGED <<file, changed>>
           \/ Put(Commands[step].to, file[Commands[step].from])
    BY <1>1, <1>5, CommandList DEF RunCommand
  <2>2. /\ step \in {2, 3} => file["keypair.pem"] \in Keys
        /\ step \in {4, 5, 6} => file[Commands[step].from] # None
    BY <2>1, CommandList DEF Fails
  <2>3. file[Commands[step].from] \in Contents
    BY <1>2, <1>5 DEF KeyTypeOK
  <2>4. CASE Skips(Commands[step]) /\ UNCHANGED <<file, changed>>
    BY <1>1, <1>3, <1>5, <2>1, <2>2, <2>4 DEF Skips, KeyTypeOK
  <2>5. CASE Put(Commands[step].to, file[Commands[step].from])
    BY <1>1, <1>2, <1>3, <1>5, <2>1, <2>2, <2>3, <2>5, Writes DEF KeyTypeOK
  <2> QED BY <2>1, <2>4, <2>5
<1> QED BY <1>1, <1>4, <1>5

\* The script keeps its invariant.
LEMMA ScriptKeepsInv ==
    ASSUME KeyInv, KeyNext
    PROVE  KeyInv'
<1> USE DEF Files, Sources, Copies
<1>0. /\ KeyTypeOK /\ None \notin Keys /\ Broken \notin Keys /\ None # Broken
      /\ file \in [Files -> Contents] /\ Len(Commands) = 6
  BY KeyAssumption, CommandList DEF KeyInv, KeyTypeOK
<1>1. CASE Evaluate
  <2>1. /\ step' \in {1, 4} /\ outcome' = "running" /\ changed' = FALSE
        /\ step' = 1 => file["keypair.pem"] = None
        /\ UNCHANGED <<file, made, interrupts>>
    BY <1>1 DEF Evaluate, FirstStep, FirstSync
  <2>2. /\ step' \in 0..Len(Commands) /\ interrupts' \in 0..MaxInterrupts
        /\ outcome' = "running" <=> step' # 0
    BY <1>0, <2>1 DEF KeyTypeOK
  <2>3. KeyTypeOK'
    BY <1>0, <2>1, <2>2 DEF KeyTypeOK
  <2> QED BY <1>0, <2>1, <2>3 DEF KeyInv
<1>2. CASE RunCommand
  <2>1. step \in 1..6
    BY <1>0, <1>2, CommandSucceeds
  <2>2. KeyTypeOK'
    BY <1>0, <1>2, <2>1, CommandSucceeds DEF KeyTypeOK
  <2>3. CASE step = 1
    BY <1>0, <1>2, <2>2, <2>3, CommandSucceeds, CommandList DEF KeyInv, KeyTypeOK
  <2>4. CASE step = 2
    BY <1>0, <1>2, <2>2, <2>4, CommandSucceeds, CommandList DEF KeyInv, KeyTypeOK
  <2>5. CASE step = 3
    BY <1>0, <1>2, <2>2, <2>5, CommandSucceeds, CommandList DEF KeyInv, KeyTypeOK
  <2>6. CASE step = 4
    BY <1>0, <1>2, <2>2, <2>6, CommandSucceeds, CommandList DEF KeyInv, KeyTypeOK
  <2>7. CASE step = 5
    BY <1>0, <1>2, <2>2, <2>7, CommandSucceeds, CommandList DEF KeyInv, KeyTypeOK
  <2>8. CASE step = 6
    BY <1>0, <1>2, <2>2, <2>8, CommandSucceeds, CommandList DEF KeyInv, KeyTypeOK
  <2> QED BY <2>1, <2>3, <2>4, <2>5, <2>6, <2>7, <2>8
<1>3. CASE CommandFails
  BY <1>0, <1>3 DEF CommandFails, KeyInv, KeyTypeOK
<1>4. CASE Interrupt
  <2>1. /\ step' = 0 /\ outcome' = "failed" /\ UNCHANGED made
        /\ interrupts' \in 0..MaxInterrupts
    BY <1>0, <1>4, InterruptAssumption DEF Interrupt, KeyTypeOK
  <2>2. CASE UNCHANGED <<file, changed>>
    BY <1>0, <2>1, <2>2 DEF KeyInv, KeyTypeOK
  <2>3. CASE /\ ~Fails(Commands[step]) /\ ~Skips(Commands[step])
             /\ Put(Commands[step].to, Broken)
    <3>1. step \in 1..6
      BY <1>0, <1>4 DEF Interrupt, KeyTypeOK
    <3>2. Commands[step].to \in Files /\ Broken \in Contents
      BY <3>1, CommandList DEF Contents
    <3>3. /\ file' \in [Files -> Contents] /\ changed' \in BOOLEAN
          /\ file'[Commands[step].to] = Broken
          /\ \A g \in Files \ {Commands[step].to} : file'[g] = file[g]
      BY <1>0, <2>3, <3>2, Writes
    <3>4. KeyTypeOK'
      BY <1>0, <2>1, <3>3 DEF KeyTypeOK
    <3>5. Commands[step].to = "keypair.pem" =>
              file["rs256.pem"] \notin Keys /\ file["rs256.key"] \notin Keys
      BY <1>0, <3>1, CommandList DEF KeyInv
    <3> QED BY <1>0, <2>1, <3>3, <3>4, <3>5 DEF KeyInv
  <2> QED BY <1>4, <2>2, <2>3 DEF Interrupt
<1>5. CASE Wipe
  <2>1. /\ file' \in [Files -> Contents]
        /\ \A f \in Sources : file'[f] = None
    BY <1>0, <1>5 DEF Wipe, Contents
  <2> QED BY <1>0, <1>5, <2>1 DEF Wipe, KeyInv, KeyTypeOK
<1> QED BY <1>1, <1>2, <1>3, <1>4, <1>5 DEF KeyNext

-----------------------------------------------------------------------------
(* The theorems.                                                           *)

\* The parts are independent, but for the key that a deployment hands on.
BringUpInv == KeyInv /\ StartInv

LEMMA BringUpInvHolds == Spec => []BringUpInv
<1>1. Init => BringUpInv
  <2> SUFFICES ASSUME Init PROVE BringUpInv
    OBVIOUS
  <2>1. KeyInv
    <3>1. /\ file = [f \in Files |-> None] /\ None \in Contents
          /\ step = 0 /\ outcome = "none" /\ changed = FALSE
          /\ made = {} /\ interrupts = 0
      BY DEF Init, KeyInit, Contents
    <3>2. file \in [Files -> Contents]
      BY <3>1
    <3>3. step \in 0..Len(Commands) /\ interrupts \in 0..MaxInterrupts
      BY <3>1, CommandList, InterruptAssumption
    <3>4. KeyTypeOK
      BY <3>1, <3>2, <3>3 DEF KeyTypeOK
    <3> QED BY <3>1, <3>4, KeyAssumption DEF KeyInv, Files, Sources, Copies
  <2>2. StartInv
    <3>1. /\ stage = [r \in Replicas |-> "down"] /\ "down" \in Stages
          /\ mount = [r \in Replicas |-> None] /\ mounted = None /\ None \in Contents
          /\ loaded = [r \in Replicas |-> None] /\ config \in Configs
          /\ version = 0 /\ dirty = FALSE /\ schema = 0 /\ lock = Nobody /\ deaths = 0
      BY DEF Init, StartInit, Stages, Contents
    <3>2. StartTypeOK
      <4>1. stage \in [Replicas -> Stages] /\ mount \in [Replicas -> Contents]
        BY <3>1
      <4>2. loaded \in [Replicas -> Keys \cup {None}]
        BY <3>1
      <4>3. version \in 0..LatestVersion /\ schema \in Nat /\ deaths \in 0..MaxDeaths
        BY <3>1, StartupAssumption DEF LatestVersion
      <4> QED BY <3>1, <4>1, <4>2, <4>3 DEF StartTypeOK
    <3>3. \A r \in Replicas : stage[r] = "down" /\ "down" \notin Migrating
      BY <3>1 DEF Migrating
    <3>4. MigrationIsExclusive /\ CleanVersionIsTrue
      BY <3>1, <3>3 DEF MigrationIsExclusive, CleanVersionIsTrue
    <3>5. ASSUME NEW r \in Replicas PROVE Position(r)
      BY <3>1, <3>3 DEF Position
    <3> QED BY <3>2, <3>4, <3>5 DEF StartInv
  <2> QED BY <2>1, <2>2 DEF BringUpInv
<1>2. BringUpInv /\ [Next]_vars => BringUpInv'
  <2> SUFFICES ASSUME BringUpInv, [Next]_vars PROVE BringUpInv'
    OBVIOUS
  <2>0. KeyInv /\ StartInv
    BY DEF BringUpInv
  <2>1. UNCHANGED keyVars => KeyInv'
    BY <2>0 DEF keyVars, KeyInv, KeyTypeOK
  <2>2. UNCHANGED startVars => StartInv'
    BY <2>0 DEF startVars, database, StartInv, StartTypeOK, MigrationIsExclusive,
                CleanVersionIsTrue, Position
  <2>3. CASE Script
    BY <2>0, <2>2, <2>3, ScriptKeepsInv DEF Script, BringUpInv
  <2>4. CASE DeployApi
    <3>1. file["api/rs256.key"] \in Contents
      BY <2>0 DEF KeyInv, KeyTypeOK, Files, Copies
    <3>2. StartInv'
      BY <2>0, <2>4, <3>1 DEF DeployApi, database, StartInv, StartTypeOK,
                              MigrationIsExclusive, CleanVersionIsTrue, Position
    <3> QED BY <2>1, <2>4, <3>2 DEF DeployApi, BringUpInv
  <2>5. CASE DeployOpa
    BY <2>1, <2>2, <2>5 DEF DeployOpa, BringUpInv
  <2>6. CASE Run
    <3>1. CASE SessionEnds
      <4>1. StartInv'
        BY <2>0, <3>1, StartupAssumption
           DEF SessionEnds, StartInv, StartTypeOK, MigrationIsExclusive,
               CleanVersionIsTrue, Position
      <4> QED BY <2>1, <2>6, <4>1 DEF Run, BringUpInv
    <3>2. ASSUME NEW r \in Replicas, Boot(r) \/ Dies(r) \/ Roll(r) PROVE StartInv'
      BY <2>0, <3>2, ReadersKeepInv, WritersKeepInv, EndingsKeepInv DEF Boot
    <3> QED BY <2>1, <2>6, <3>1, <3>2 DEF Run, StartNext, BringUpInv
  <2>7. CASE Up \/ UNCHANGED vars
    BY <2>1, <2>2, <2>7 DEF Up, vars, BringUpInv
  <2> QED BY <2>3, <2>4, <2>5, <2>6, <2>7 DEF Next
<1> QED BY <1>1, <1>2, PTL DEF Spec

\* The variables of the script hold values of their kinds, and a step is pending
\* while a run is under way and at no other time.
THEOREM KeyTypes == Spec => []KeyTypeOK
BY BringUpInvHolds, PTL DEF BringUpInv, KeyInv

\* The variables of the replicas and of the database hold values of their kinds.
THEOREM StartTypes == Spec => []StartTypeOK
BY BringUpInvHolds, PTL DEF BringUpInv, StartInv

\* Two replicas are never within the migrations at a time.
THEOREM Exclusion == Spec => []MigrationIsExclusive
BY BringUpInvHolds, PTL DEF BringUpInv, StartInv

\* The version without its flag counts what the migration did.
THEOREM TrueVersion == Spec => []CleanVersionIsTrue
BY BringUpInvHolds, PTL DEF BringUpInv, StartInv

\* Whoever serves has the schema and a key.
THEOREM WholeSchema == Spec => []ServesOnWholeSchema
<1>1. BringUpInv => ServesOnWholeSchema
  BY DEF BringUpInv, StartInv, Position, ServesOnWholeSchema, LatestVersion
<1> QED BY <1>1, BringUpInvHolds, PTL

\* A run of the script that succeeds leaves matching copies.
THEOREM Matching == Spec => []CopiesMatch
<1>1. KeyInv => CopiesMatch
  BY KeyAssumption DEF KeyInv, CopiesMatch, Copies
<1> QED BY <1>1, BringUpInvHolds, PTL DEF BringUpInv
=============================================================================
