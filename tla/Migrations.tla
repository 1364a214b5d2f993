----------------------------- MODULE Migrations -----------------------------
(***************************************************************************)
(* Schema migrations (platform/database/migrate.go over golang-migrate):   *)
(* migrate Jobs apply the numbered migrations to one database, and the     *)
(* application's pods only look whether that has been done.                *)
(*                                                                         *)
(* golang-migrate is external.  Of it this module takes what the code in   *)
(* src/ relies on: one job at a time, by an advisory lock that dies with   *)
(* its session; a version recorded as dirty before its statements run and  *)
(* as clean after them; no migration of a dirty schema.  The statements of *)
(* one file are one implicit transaction.                                  *)
(***************************************************************************)
EXTENDS Integers

CONSTANTS
  Jobs,     \* pods of a migrate Job: the first and its retries
  Target    \* number of migrations in the image of the Job

ASSUME TargetAssumption == Target \in Nat \ {0}

VARIABLES
  version,  \* schema_migrations.version, 0 before the first migration
  dirty,    \* schema_migrations.dirty
  applied,  \* versions whose statements are in the schema
  job       \* job -> where it is in Up

schema == <<version, dirty, applied, job>>
-----------------------------------------------------------------------------
SchemaInit ==
  /\ version = 0
  /\ dirty = FALSE
  /\ applied = {}
  /\ job = [j \in Jobs |-> "idle"]

NoJob == \A j \in Jobs : job[j] = "idle"

Continue(j, pc) == job' = [job EXCEPT ![j] = pc]

Pending_bug == version <= Target
Pending == version < Target

(* RunMigrations: Up takes the lock and refuses a dirty schema. *)
Up(j) ==
  /\ NoJob
  /\ ~dirty
  /\ Continue(j, "up")
  /\ UNCHANGED <<version, dirty, applied>>

MarkDirty(j) ==
  /\ job[j] = "up"
  /\ Pending
  /\ version' = version + 1
  /\ dirty' = TRUE
  /\ Continue(j, "run")
  /\ UNCHANGED applied

Apply(j) ==
  /\ job[j] = "run"
  /\ applied' = applied \cup {version}
  /\ Continue(j, "clean")
  /\ UNCHANGED <<version, dirty>>

MarkClean(j) ==
  /\ job[j] = "clean"
  /\ dirty' = FALSE
  /\ Continue(j, "up")
  /\ UNCHANGED <<version, applied>>

(* Nothing is left to apply, at first (ErrNoChange) or after some. *)
Finish(j) ==
  /\ job[j] = "up"
  /\ ~Pending
  /\ Continue(j, "idle")
  /\ UNCHANGED <<version, dirty, applied>>

(* A statement fails, as by its lock_timeout, or the pod dies. *)
JobFails(j) ==
  /\ job[j] # "idle"
  /\ Continue(j, "idle")
  /\ UNCHANGED <<version, dirty, applied>>

(* The repair EnsureMigrated's message asks for, by hand: the dirty version
   is completed or undone, and recorded so. *)
Repair ==
  /\ NoJob
  /\ dirty
  /\ dirty' = FALSE
  /\ \/ version' = version /\ applied' = applied \cup {version}
     \/ version' = version - 1 /\ applied' = applied \ {version}
  /\ UNCHANGED job

Migrate(j) == Up(j) \/ MarkDirty(j) \/ Apply(j) \/ MarkClean(j) \/ Finish(j)

SchemaNext == (\E j \in Jobs : Migrate(j) \/ JobFails(j)) \/ Repair

(* The Job is tried again, and goes on while it does not fail. *)
SchemaFairness == \A j \in Jobs : WF_schema(Migrate(j))
-----------------------------------------------------------------------------
Migrated_bug(latest) == version >= latest
(* EnsureMigrated, in an image that holds migrations 1 .. latest. *)
Migrated(latest) == version # 0 /\ ~dirty /\ version >= latest

SchemaTypeOK ==
  /\ version \in 0 .. Target
  /\ dirty \in BOOLEAN
  /\ applied \subseteq 1 .. Target
  /\ job \in [Jobs -> {"idle", "up", "run", "clean"}]

(* What the record says of the schema. *)
RecordTrue ==
  \/ applied = 1 .. version
  \/ dirty /\ applied = 1 .. version - 1
=============================================================================
