------------------------------ MODULE Startup -------------------------------
(***************************************************************************)
(* How the replicas of the sample API start (main.go, run, up to           *)
(* server.Run): the configuration is loaded and validated, the migrations  *)
(* run, the pool is made, the private key is loaded, the servers serve.    *)
(* Several replicas start at once and may die at any point; Kubernetes     *)
(* starts them again.                                                      *)
(*                                                                         *)
(* golang-migrate and Postgres are modelled by what RunMigrations relies   *)
(* on: an advisory lock that belongs to a session and is waited for with a *)
(* timeout, a version with a dirty flag that is set before and cleared     *)
(* after the one migration, and a migration that happens as a whole or not *)
(* at all.                                                                 *)
(***************************************************************************)
EXTENDS KeyFiles, Naturals

CONSTANTS
    Replicas,    \* the pods of the deployment
    Configs,     \* the configuration files that may be deployed
    MaxDeaths,   \* BOUND: how often a replica dies
    Nobody       \* no session holds the lock

ASSUME StartupAssumption ==
    /\ Nobody \notin Replicas /\ "orphan" \notin Replicas \cup {Nobody}
    /\ MaxDeaths \in Nat

VARIABLES
    config,    \* the configuration that is deployed
    mounted,   \* the private key file of the latest deployment
    mount,     \* mount[r]: the key file the pod r was created with
    stage,     \* stage[r]: how far replica r has come
    loaded,    \* loaded[r]: the key its signer signs with
    version,   \* schema_migrations.version: 0 without a row
    dirty,     \* schema_migrations.dirty
    schema,    \* how often 000001_init_schema.up.sql took effect
    lock,      \* the session that holds the advisory lock, "orphan" if its
               \* replica is dead
    deaths     \* how often a replica died

startVars == <<config, mounted, mount, stage, loaded, version, dirty, schema, lock, deaths>>
database  == <<version, dirty, schema, lock>>

\* The stages in which a replica is within m.Up, with the lock taken.
Migrating == {"locked", "pending", "marked", "applied", "cleaned"}
Stages == {"down", "opening", "locking", "key", "serving"} \cup Migrating

LatestVersion == 1

StartInit ==
    /\ config \in Configs
    /\ mounted = None /\ mount = [r \in Replicas |-> None]
    /\ stage = [r \in Replicas |-> "down"]
    /\ loaded = [r \in Replicas |-> None]
    /\ version = 0 /\ dirty = FALSE /\ schema = 0 /\ lock = Nobody
    /\ deaths = 0

Enter(r, s) == stage' = [stage EXCEPT ![r] = s]

-----------------------------------------------------------------------------
(* The configuration.                                                      *)

\* validate: every field the service reads is there.
Valid(cfg) == "" \notin {cfg.url, cfg.public, cfg.health, cfg.private_key_file}

\* RunMigrations rewrites the scheme postgresql to postgres.
Normalized(url) == IF url = "postgresql" THEN "postgres" ELSE url

\* The scheme golang-migrate has a driver for.
Registered == {"postgres"}

\* A container of the pod starts, and ends: config.Load returns an error.
LoadFails(r) ==
    /\ stage[r] = "down" /\ mount[r] # None
    /\ ~Valid(config)
    /\ UNCHANGED startVars

\* A container of the pod starts: config.Load.
Load(r) ==
    /\ stage[r] = "down" /\ mount[r] # None
    /\ Valid(config)
    /\ Enter(r, "opening")
    /\ UNCHANGED <<config, mounted, mount, loaded, database, deaths>>

-----------------------------------------------------------------------------
(* RunMigrations.                                                          *)

\* migrate.NewWithSourceInstance connects, and makes the version table under
\* the lock, which it waits for.
Open(r) ==
    /\ stage[r] = "opening"
    /\ Normalized(config.url) \in Registered /\ lock = Nobody
    /\ Enter(r, "locking")
    /\ UNCHANGED <<config, mounted, mount, loaded, database, deaths>>

OpenFails(r) ==
    /\ stage[r] = "opening"
    /\ Normalized(config.url) \notin Registered
    /\ Enter(r, "down")
    /\ UNCHANGED <<config, mounted, mount, loaded, database, deaths>>

TakeLock(r) ==
    /\ stage[r] = "locking" /\ lock = Nobody
    /\ lock' = r
    /\ Enter(r, "locked")
    /\ UNCHANGED <<config, mounted, mount, loaded, version, dirty, schema, deaths>>

\* MUTANT of LockTimesOut: the error is taken for "nothing to do".
LockIsSkipped(r) ==
    /\ stage[r] = "locking" /\ lock # Nobody
    /\ Enter(r, "key")
    /\ UNCHANGED <<config, mounted, mount, loaded, database, deaths>>

\* MUTANT of LockTimesOut: the migration goes on without the lock.
LockIsIgnored(r) ==
    /\ stage[r] = "locking" /\ lock # Nobody
    /\ Enter(r, "locked")
    /\ UNCHANGED <<config, mounted, mount, loaded, database, deaths>>

\* The lock is not to be had in time: Up and run return the error.
LockTimesOut(r) ==
    /\ stage[r] = "locking" /\ lock # Nobody
    /\ Enter(r, "down")
    /\ UNCHANGED <<config, mounted, mount, loaded, database, deaths>>

\* Up returns, the lock is free; run goes on to s or ends ("down").
Unlock(r, s) ==
    /\ lock' = (IF lock = r THEN Nobody ELSE lock)
    /\ Enter(r, s)
    /\ UNCHANGED <<config, mounted, mount, loaded, version, dirty, schema, deaths>>

\* MUTANT of ReadVersion: ErrNoChange is returned as an error.
NoChangeIsAnError(r) ==
    /\ stage[r] = "locked"
    /\ \/ (dirty \/ version = LatestVersion) /\ Unlock(r, "down")
       \/ /\ ~dirty /\ version # LatestVersion
          /\ Enter(r, "pending")
          /\ UNCHANGED <<config, mounted, mount, loaded, database, deaths>>

\* Up reads the version.  A dirty one is an error; the latest one is
\* ErrNoChange, which RunMigrations ignores.
ReadVersion(r) ==
    /\ stage[r] = "locked"
    /\ \/ dirty /\ Unlock(r, "down")
       \/ ~dirty /\ version = LatestVersion /\ Unlock(r, "key")
       \/ /\ ~dirty /\ version # LatestVersion
          /\ Enter(r, "pending")
          /\ UNCHANGED <<config, mounted, mount, loaded, database, deaths>>

\* MUTANT of Mark: the version is set without the flag.
MarkClean(r) ==
    /\ stage[r] = "pending"
    /\ version' = LatestVersion
    /\ Enter(r, "marked")
    /\ UNCHANGED <<config, mounted, mount, loaded, dirty, schema, lock, deaths>>

\* SetVersion(1, true), before the migration.
Mark(r) ==
    /\ stage[r] = "pending"
    /\ version' = LatestVersion /\ dirty' = TRUE
    /\ Enter(r, "marked")
    /\ UNCHANGED <<config, mounted, mount, loaded, schema, lock, deaths>>

\* The migration commits.
Migrate(r) ==
    /\ stage[r] = "marked"
    /\ schema' = schema + 1
    /\ Enter(r, "applied")
    /\ UNCHANGED <<config, mounted, mount, loaded, version, dirty, lock, deaths>>

\* SetVersion(1, false), after it.
Clean(r) ==
    /\ stage[r] = "applied"
    /\ dirty' = FALSE
    /\ Enter(r, "cleaned")
    /\ UNCHANGED <<config, mounted, mount, loaded, version, schema, lock, deaths>>

Migrated(r) == stage[r] = "cleaned" /\ Unlock(r, "key")

-----------------------------------------------------------------------------
(* The pool, the key, and the end of a replica.                            *)

\* pgxpool.New connects to nothing yet and fails for a URL that pgx refuses.
\* golang-migrate uses another driver, which may take the parameters of the URL
\* that pgx does not: an sslkey without an sslcert is one.
Poolable(cfg) == cfg.params # "sslkey only"

\* pgxpool.New fails: run returns its error, after the migrations.
PoolFails(r) ==
    /\ stage[r] = "key"
    /\ ~Poolable(config)
    /\ Enter(r, "down")
    /\ UNCHANGED <<config, mounted, mount, loaded, database, deaths>>

\* MUTANT of LoadPrivateKey: the key is not parsed.
LoadAnyKey(r) ==
    /\ stage[r] = "key" /\ Poolable(config)
    /\ loaded' = [loaded EXCEPT ![r] = mount[r]] /\ Enter(r, "serving")
    /\ UNCHANGED <<config, mounted, mount, database, deaths>>

\* LoadPrivateKey; NewServer and server.Run, or the error ends the process.
LoadPrivateKey(r) ==
    /\ stage[r] = "key" /\ Poolable(config)
    /\ \/ /\ mount[r] \in Keys
          /\ loaded' = [loaded EXCEPT ![r] = mount[r]] /\ Enter(r, "serving")
       \/ mount[r] \notin Keys /\ Enter(r, "down") /\ UNCHANGED loaded
    /\ UNCHANGED <<config, mounted, mount, database, deaths>>

\* The process of r ends where it is.  Postgres may still commit a migration it
\* is running; the lock stays with the session until Postgres misses its peer.
EndOf(r) ==
    /\ Enter(r, "down")
    /\ lock' = (IF lock = r THEN "orphan" ELSE lock)
    /\ schema' \in (IF stage[r] = "marked" THEN {schema, schema + 1} ELSE {schema})
    /\ loaded' = [loaded EXCEPT ![r] = None]
    /\ UNCHANGED <<config, mounted, version, dirty>>

\* A statement fails, the process crashes or is killed.
Dies(r) ==
    /\ stage[r] # "down" /\ deaths < MaxDeaths
    /\ EndOf(r)
    /\ deaths' = deaths + 1
    /\ UNCHANGED mount

\* A new deployment replaces the pod.  SIGTERM ends a replica that is not
\* serving at once: run asks for the signal after the migrations only.
Roll(r) ==
    /\ mount[r] # mounted
    /\ EndOf(r)
    /\ mount' = [mount EXCEPT ![r] = mounted]
    /\ UNCHANGED deaths

\* Postgres ends the session of a dead replica.
SessionEnds ==
    /\ lock = "orphan" /\ lock' = Nobody
    /\ UNCHANGED <<config, mounted, mount, stage, loaded, version, dirty, schema, deaths>>

Boot(r) ==
    \/ Load(r) \/ LoadFails(r) \/ Open(r) \/ OpenFails(r) \/ TakeLock(r) \/ LockTimesOut(r)
    \/ ReadVersion(r) \/ Mark(r) \/ Migrate(r) \/ Clean(r) \/ Migrated(r)
    \/ PoolFails(r) \/ LoadPrivateKey(r)

StartNext == SessionEnds \/ \E r \in Replicas : Boot(r) \/ Dies(r) \/ Roll(r)

-----------------------------------------------------------------------------
(* Properties.                                                             *)

StartTypeOK ==
    /\ config \in Configs
    /\ mounted \in Contents
    /\ mount \in [Replicas -> Contents]
    /\ stage \in [Replicas -> Stages]
    /\ loaded \in [Replicas -> Keys \cup {None}]
    /\ version \in 0..LatestVersion /\ dirty \in BOOLEAN /\ schema \in Nat
    /\ lock \in Replicas \cup {Nobody, "orphan"}
    /\ deaths \in 0..MaxDeaths

\* Replicas that start at once (migrations.go:28) do not migrate at once, not
\* even when one waited too long for the lock or its holder died.
MigrationIsExclusive == \A r \in Replicas : stage[r] \in Migrating => lock = r

\* A version that is not dirty tells the truth: the schema and its seed went in
\* exactly as often as it says, whoever died where (migrations.go:32).
CleanVersionIsTrue == ~dirty => schema = version

\* A replica serves with the whole schema behind it and an RSA key to sign
\* with (main.go:37-59), whatever the others do.
ServesOnWholeSchema ==
    \A r \in Replicas : stage[r] = "serving" =>
        /\ version = LatestVersion /\ ~dirty /\ schema = 1
        /\ loaded[r] \in Keys
=============================================================================
