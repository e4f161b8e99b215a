----------------------------- MODULE DbMigration -----------------------------
(***************************************************************************)
(* database_admin: migration of the schema under running components.       *)
(*                                                                         *)
(* A migrator (the db-migration Job; another process may be started by     *)
(* accident) takes an advisory lock, decides what to do from the version   *)
(* in schema_migrations and from its files, and, to migrate, takes LOGIN   *)
(* from the users of the components, may terminate their sessions, waits   *)
(* until none is left, migrates step by step, and gives LOGIN back.  It    *)
(* may panic or be killed anywhere; entrypoint.sh then starts it again.    *)
(* Components of the last deployment reconnect whenever they can, and the  *)
(* init containers of the new one poll for the new schema.                 *)
(***************************************************************************)
EXTENDS Integers, FiniteSets

CONSTANTS
    Users,         \* lockUsers: each component connects as one of them
    Migrators,     \* processes that run UpdateDB
    NoOne,         \* nobody holds the advisory lock
    Files,         \* version of the latest migration file
    MaxAttempts,   \* MIGRATION_MAX_RETRIES
    MaxPanics      \* bound on panics

ASSUME MigrationAssumption ==
    /\ NoOne \notin Migrators
    /\ Files \in Nat \ {0} /\ MaxAttempts \in Nat \ {0} /\ MaxPanics \in Nat

VARIABLES
    config,    \* DATABASE_ADMIN_CONFIG of the deployment
    version,   \* schema_migrations.version
    dirty,     \* schema_migrations.dirty
    login,     \* users that have LOGIN
    open,      \* users with an open session
    up,        \* users whose new pods have passed check-for-db
    lock,      \* holder of advisory lock 123
    mig,       \* mig[m]: a migrator
    aborted,   \* history: a migrator died between blocking and unblocking, and no other
               \* has given every user LOGIN since
    panics

migrationVars == <<config, version, dirty, login, open, up, lock, mig, aborted, panics>>

Versions == 0 .. Files
Config == [expected : {-1} \union 1 .. Files + 1,  \* schema_migration; no file has version 0
           force : Versions,                       \* force_migration_version; 0: not set
           terminate : BOOLEAN, unlock : BOOLEAN, repair : BOOLEAN]

Migrator == [pc : {"new", "unlock", "decide", "block", "list", "kill", "wait", "force", "step",
                   "ddl", "repair", "unblock", "finish", "done", "blocked", "failed"},
             repairing : BOOLEAN, todo : SUBSET Users, attempt : Nat]
Started(n) == [pc |-> "new", repairing |-> FALSE, todo |-> {}, attempt |-> n]

MigrationTypeOK ==
    /\ config \in Config /\ version \in Versions /\ dirty \in BOOLEAN
    /\ login \subseteq Users /\ open \subseteq Users /\ up \subseteq Users
    /\ lock \in Migrators \union {NoOne}
    /\ mig \in [Migrators -> Migrator]
    /\ aborted \in BOOLEAN /\ panics \in Nat

\* A clean schema of some earlier deployment, or of this one; its components are at work.
MigrationInit ==
    /\ config \in Config
    /\ version \in Versions /\ dirty = FALSE
    /\ login = Users /\ open \in SUBSET Users /\ up = {}
    /\ lock = NoOne
    /\ mig = [m \in Migrators |-> Started(1)]
    /\ aborted = FALSE /\ panics = 0

-----------------------------------------------------------------------------
MissingFiles == Files < config.expected \/ Files < version
IntentionallyBlocked == version = config.expected /\ Files > version
Upgraded == version = Files /\ config.expected \in {version, -1}

\* Mutant of MigrateAction: a dirty schema does not count as an error.
BugIgnoresDirty ==
    IF MissingFiles \/ IntentionallyBlocked THEN "BLOCK"
    ELSE IF Upgraded THEN "CONTINUE" ELSE "MIGRATE"

\* migrateAction
MigrateAction ==
    IF dirty THEN IF config.force > 0 THEN "MIGRATE" ELSE "BLOCK"
    ELSE IF MissingFiles \/ IntentionallyBlocked THEN "BLOCK"
    ELSE IF Upgraded THEN "CONTINUE" ELSE "MIGRATE"

\* Mutant of Target: one file more than there are.
BugTargetNext == IF config.expected >= 0 THEN config.expected ELSE Files + 1

\* migrationTargetVersion
Target == IF config.expected >= 0 THEN config.expected ELSE Files

Goto(m, pc) == mig' = [mig EXCEPT ![m].pc = pc]
GotoWith(m, pc, S) == mig' = [mig EXCEPT ![m].pc = pc, ![m].todo = S]
Schema == <<version, dirty>>
Access == <<login, open, up>>

-----------------------------------------------------------------------------
(* UpdateDB *)

\* getAdvisoryLock
GetLock(m) ==
    /\ mig[m].pc = "new" /\ lock = NoOne
    /\ lock' = m
    /\ IF config.unlock THEN GotoWith(m, "unlock", Users) ELSE Goto(m, "decide")
    /\ UNCHANGED <<config, Schema, Access, aborted, panics>>

\* BLOCK: the lock is released, and the process sleeps until the next deployment.
DecideBlock(m) ==
    /\ mig[m].pc = "decide" /\ MigrateAction = "BLOCK"
    /\ lock' = NoOne
    /\ Goto(m, "blocked")
    /\ UNCHANGED <<config, Schema, Access, aborted, panics>>

\* After the migration, or without one: the repair of system_advisories_0, if it is asked for.
AfterMigration(m) ==
    IF config.repair
    THEN mig' = [mig EXCEPT ![m].pc = "block", ![m].repairing = TRUE, ![m].todo = Users]
    ELSE Goto(m, "finish")

DecideContinue(m) ==
    /\ mig[m].pc = "decide" /\ MigrateAction = "CONTINUE"
    /\ AfterMigration(m)
    /\ UNCHANGED <<config, Schema, Access, lock, aborted, panics>>

DecideMigrate(m) ==
    /\ mig[m].pc = "decide" /\ MigrateAction = "MIGRATE"
    /\ GotoWith(m, "block", Users)
    /\ UNCHANGED <<config, Schema, Access, lock, aborted, panics>>

\* blockUsers: one statement for each user.
BlockUser(m, u) ==
    /\ mig[m].pc = "block" /\ u \in mig[m].todo
    /\ login' = login \ {u}
    /\ mig' = [mig EXCEPT ![m].todo = @ \ {u}]
    /\ UNCHANGED <<config, Schema, open, up, lock, aborted, panics>>

UsersBlocked(m) ==
    /\ mig[m].pc = "block" /\ mig[m].todo = {}
    /\ Goto(m, IF config.terminate THEN "list" ELSE "wait")
    /\ UNCHANGED <<config, Schema, Access, lock, aborted, panics>>

\* Mutant of ListSessions: no session matches.
BugListsNone(m) ==
    /\ mig[m].pc = "list"
    /\ GotoWith(m, "kill", {})
    /\ UNCHANGED <<config, Schema, Access, lock, aborted, panics>>

\* terminateAppSessions: the sessions are listed, and then terminated one by one.
ListSessions(m) ==
    /\ mig[m].pc = "list"
    /\ GotoWith(m, "kill", open)
    /\ UNCHANGED <<config, Schema, Access, lock, aborted, panics>>

TerminateSession(m, u) ==
    /\ mig[m].pc = "kill" /\ u \in mig[m].todo
    /\ open' = open \ {u}
    /\ mig' = [mig EXCEPT ![m].todo = @ \ {u}]
    /\ UNCHANGED <<config, Schema, login, up, lock, aborted, panics>>

SessionsTerminated(m) ==
    /\ mig[m].pc = "kill" /\ mig[m].todo = {}
    /\ Goto(m, "wait")
    /\ UNCHANGED <<config, Schema, Access, lock, aborted, panics>>

\* Mutant of WaitForSessionClosed: one look, and the migration starts.
BugNoWait(m) ==
    /\ mig[m].pc = "wait"
    /\ Goto(m, IF mig[m].repairing THEN "repair" ELSE "force")
    /\ UNCHANGED <<config, Schema, Access, lock, aborted, panics>>

\* waitForSessionClosed
WaitForSessionClosed(m) ==
    /\ mig[m].pc = "wait" /\ open = {}
    /\ Goto(m, IF mig[m].repairing THEN "repair" ELSE "force")
    /\ UNCHANGED <<config, Schema, Access, lock, aborted, panics>>

\* MigrateUp: Force.
ForceVersion(m) ==
    /\ mig[m].pc = "force"
    /\ version' = IF config.force > 0 THEN config.force ELSE version
    /\ dirty' = (dirty /\ config.force = 0)
    /\ Goto(m, "step")
    /\ UNCHANGED <<config, Access, lock, aborted, panics>>

\* Up or Migrate: each file is announced with the dirty flag, applied, and confirmed.
StepBegin(m) ==
    /\ mig[m].pc = "step" /\ version # Target
    /\ version' = IF version < Target THEN version + 1 ELSE version - 1
    /\ dirty' = TRUE
    /\ Goto(m, "ddl")
    /\ UNCHANGED <<config, Access, lock, aborted, panics>>

StepEnd(m) ==
    /\ mig[m].pc = "ddl"
    /\ dirty' = FALSE
    /\ Goto(m, "step")
    /\ UNCHANGED <<config, version, Access, lock, aborted, panics>>

\* Mutant of Migrated: the end of the migration without unblockUsers.
BugKeepsBlocked(m) ==
    /\ mig[m].pc = "step" /\ version = Target
    /\ AfterMigration(m)
    /\ UNCHANGED <<config, Schema, Access, lock, aborted, panics>>

\* Nothing is left to apply ("no change"), or everything has been.
Migrated(m) ==
    /\ mig[m].pc = "step" /\ version = Target
    /\ GotoWith(m, "unblock", Users)
    /\ UNCHANGED <<config, Schema, Access, lock, aborted, panics>>

\* repair_system_advisories_0.sql
RepairPartition(m) ==
    /\ mig[m].pc = "repair"
    /\ GotoWith(m, "unblock", Users)
    /\ UNCHANGED <<config, Schema, Access, lock, aborted, panics>>

\* unblockUsers, at the end and with unlock_users also at the beginning.
UnblockUser(m, u) ==
    /\ mig[m].pc \in {"unlock", "unblock"} /\ u \in mig[m].todo
    /\ login' = login \union {u}
    /\ mig' = [mig EXCEPT ![m].todo = @ \ {u}]
    /\ UNCHANGED <<config, Schema, open, up, lock, aborted, panics>>

UsersUnblocked(m) ==
    /\ mig[m].pc \in {"unlock", "unblock"} /\ mig[m].todo = {}
    /\ IF mig[m].pc = "unlock" THEN Goto(m, "decide")
       ELSE IF mig[m].repairing THEN Goto(m, "finish") ELSE AfterMigration(m)
    /\ aborted' = FALSE
    /\ UNCHANGED <<config, Schema, Access, lock, panics>>

\* releaseAdvisoryLock and the end of the process.
Finish(m) ==
    /\ mig[m].pc = "finish"
    /\ lock' = NoOne
    /\ Goto(m, "done")
    /\ UNCHANGED <<config, Schema, Access, aborted, panics>>

\* A statement fails and the process panics, or it is killed; the lock goes with its session.
Panic(m) ==
    /\ lock = m
    /\ panics < MaxPanics
    /\ panics' = panics + 1
    /\ lock' = NoOne
    /\ mig' = [mig EXCEPT ![m] = IF @.attempt < MaxAttempts THEN Started(@.attempt + 1)
                                 ELSE [@ EXCEPT !.pc = "failed"]]
    /\ aborted' = (aborted \/ login # Users)
    /\ UNCHANGED <<config, Schema, Access>>

-----------------------------------------------------------------------------
(* The components *)

\* A pod connects, if its user may.
Connect(u) ==
    /\ u \in login /\ u \notin open
    /\ open' = open \union {u}
    /\ UNCHANGED <<config, Schema, login, up, lock, mig, aborted, panics>>

\* The last session of a user is closed by the components.
Disconnect(u) ==
    /\ u \in open
    /\ open' = open \ {u}
    /\ UNCHANGED <<config, Schema, login, up, lock, mig, aborted, panics>>

\* CheckUpgraded, run by the init container of every new pod until it succeeds.
CheckUpgraded(u) ==
    /\ u \notin up /\ MigrateAction = "CONTINUE"
    /\ up' = up \union {u}
    /\ UNCHANGED <<config, Schema, login, open, lock, mig, aborted, panics>>

-----------------------------------------------------------------------------
MigratorStep(m) ==
    \/ GetLock(m) \/ DecideBlock(m) \/ DecideContinue(m) \/ DecideMigrate(m)
    \/ UsersBlocked(m) \/ ListSessions(m) \/ SessionsTerminated(m) \/ WaitForSessionClosed(m)
    \/ ForceVersion(m) \/ StepBegin(m) \/ StepEnd(m) \/ Migrated(m) \/ RepairPartition(m)
    \/ UsersUnblocked(m) \/ Finish(m)
    \/ \E u \in Users : BlockUser(m, u) \/ TerminateSession(m, u) \/ UnblockUser(m, u)

MigrationNext ==
    \/ \E m \in Migrators : MigratorStep(m) \/ Panic(m)
    \/ \E u \in Users : Connect(u) \/ Disconnect(u) \/ CheckUpgraded(u)

MigrationSpec == MigrationInit /\ [][MigrationNext]_migrationVars

\* The migrator and the init containers go on; nothing makes a component disconnect.
FairMigrationSpec ==
    /\ MigrationSpec
    /\ \A m \in Migrators : WF_migrationVars(MigratorStep(m))
    /\ \A u \in Users : WF_migrationVars(CheckUpgraded(u))

-----------------------------------------------------------------------------
(* Properties *)

\* While a migration or the repair is applied, no component has a session or can open one,
\* although the other migrator may start, unlock users and be killed at any time.
QuietDuringDDL ==
    \A m \in Migrators : mig[m].pc \in {"force", "step", "ddl", "repair"} =>
        open = {} /\ login = {}

\* A pod that has passed check-for-db finds the schema of its own files, applied to the end,
\* whatever a migrator that is at work, is started again or comes later does.
StartedOnUpgraded == up # {} => version = Files /\ ~dirty

\* A user is without LOGIN only while a migrator is between blocking and unblocking, or
\* after one died there and nobody has finished the job since.
LockedOutUnlessAborted ==
    login # Users => aborted \/ \E m \in Migrators :
        mig[m].pc \in {"block", "list", "kill", "wait", "force", "step", "ddl", "repair", "unblock"}

\* major-migration-runbook.md: when the job fails, "old pods keep serving": each of them has
\* a session or can open one.
OldPodsKeepServing ==
    (\A m \in Migrators : mig[m].pc = "failed") => login \union open = Users

\* With terminate_db_sessions and a schema that is not pinned, every new pod starts and every
\* user has LOGIN again, however long the components of the last deployment hold their
\* sessions, unless a migrator dies.
UpgradeReachesPods ==
    config.terminate /\ config.expected \in {-1, Files}
        ~> panics # 0 \/ (up = Users /\ login = Users)
=============================================================================
