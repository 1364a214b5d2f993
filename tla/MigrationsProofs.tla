-------------------------- MODULE MigrationsProofs --------------------------
(***************************************************************************)
(* Lemmas about Migrations, for any number of jobs and migrations: the     *)
(* record in schema_migrations tells the truth of the schema, and the      *)
(* versions it holds for whole only become more.                           *)
(***************************************************************************)
EXTENDS Migrations, TLAPS

(* One job at a time holds the lock, and the record tells how far it is. *)
JobInv ==
  /\ \A i, j \in Jobs : i # j => job[i] = "idle" \/ job[j] = "idle"
  /\ \A j \in Jobs :
       /\ job[j] = "up" => ~dirty
       /\ job[j] = "run" => dirty /\ applied = 1 .. version - 1
       /\ job[j] = "clean" => dirty /\ applied = 1 .. version
  /\ dirty => version # 0

SchemaInv == SchemaTypeOK /\ RecordTrue /\ JobInv

(* The last version the record holds for whole. *)
Whole == IF dirty THEN version - 1 ELSE version

LEMMA SchemaInvInit == SchemaInit => SchemaInv
<1> SUFFICES ASSUME SchemaInit PROVE SchemaInv
  OBVIOUS
<1> USE TargetAssumption DEF SchemaInit
<1>1. SchemaTypeOK
  <2>1. version \in 0 .. Target /\ applied \subseteq 1 .. Target
    OBVIOUS
  <2>2. dirty \in BOOLEAN /\ job \in [Jobs -> {"idle", "up", "run", "clean"}]
    OBVIOUS
  <2> QED BY <2>1, <2>2 DEF SchemaTypeOK
<1>2. \A i \in 1 .. 0 : FALSE BY SMT
<1>3. applied = 1 .. version BY <1>2
<1>4. RecordTrue BY <1>3 DEF RecordTrue
<1>5. JobInv BY DEF JobInv
<1> QED BY <1>1, <1>4, <1>5 DEF SchemaInv

(* Whatever a job does keeps the invariant. *)
LEMMA UpStep ==
  ASSUME SchemaInv, NEW j \in Jobs, Up(j)
  PROVE  SchemaInv'
BY DEF Up, NoJob, Continue, SchemaInv, SchemaTypeOK, RecordTrue, JobInv

LEMMA MarkDirtyStep ==
  ASSUME SchemaInv, NEW j \in Jobs, MarkDirty(j)
  PROVE  SchemaInv'
<1> USE TargetAssumption DEF SchemaInv, MarkDirty, Continue, Pending
<1>1. /\ version' = version + 1 /\ version' # 0
      /\ version' \in 0 .. Target /\ version' - 1 = version
  BY DEF SchemaTypeOK
<1>2. applied' = 1 .. version' - 1
  BY <1>1 DEF SchemaTypeOK, RecordTrue, JobInv
<1>3. SchemaTypeOK' BY <1>1 DEF SchemaTypeOK
<1>4. RecordTrue' BY <1>2 DEF RecordTrue
<1>5. JobInv' BY <1>1, <1>2 DEF JobInv, SchemaTypeOK
<1> QED BY <1>3, <1>4, <1>5

LEMMA ApplyStep ==
  ASSUME SchemaInv, NEW j \in Jobs, Apply(j)
  PROVE  SchemaInv'
<1> USE TargetAssumption DEF SchemaInv, Apply, Continue
<1>1. version \in 1 .. Target
  BY DEF SchemaTypeOK, JobInv
<1>2. applied = 1 .. version - 1
  BY DEF JobInv
<1>3. applied' = 1 .. version
  BY <1>1, <1>2
<1>4. SchemaTypeOK' BY <1>1 DEF SchemaTypeOK
<1>5. RecordTrue' BY <1>3 DEF RecordTrue
<1>6. JobInv' BY <1>3 DEF JobInv, SchemaTypeOK
<1> QED BY <1>4, <1>5, <1>6

LEMMA MarkCleanStep ==
  ASSUME SchemaInv, NEW j \in Jobs, MarkClean(j)
  PROVE  SchemaInv'
BY DEF MarkClean, Continue, SchemaInv, SchemaTypeOK, RecordTrue, JobInv

LEMMA FinishStep ==
  ASSUME SchemaInv, NEW j \in Jobs, Finish(j) \/ JobFails(j)
  PROVE  SchemaInv'
BY DEF Finish, JobFails, Continue, SchemaInv, SchemaTypeOK, RecordTrue, JobInv

LEMMA RepairStep ==
  ASSUME SchemaInv, Repair
  PROVE  SchemaInv'
<1> USE TargetAssumption DEF SchemaInv, Repair, NoJob
<1>1. version \in 1 .. Target /\ version - 1 \in 0 .. Target
  BY DEF SchemaTypeOK, JobInv
<1>2. applied' = 1 .. version'
  <2>1. applied = 1 .. version \/ applied = 1 .. version - 1
    BY DEF RecordTrue
  <2>2. CASE version' = version /\ applied' = applied \cup {version}
    BY <1>1, <2>1, <2>2
  <2>3. CASE version' = version - 1 /\ applied' = applied \ {version}
    BY <1>1, <2>1, <2>3
  <2> QED BY <2>2, <2>3
<1>3. SchemaTypeOK' BY <1>1, <1>2 DEF SchemaTypeOK
<1>4. RecordTrue' BY <1>2 DEF RecordTrue
<1>5. JobInv' BY DEF JobInv
<1> QED BY <1>3, <1>4, <1>5

(* Every step of the migrations keeps the invariant. *)
LEMMA SchemaInvStep ==
  ASSUME SchemaInv, SchemaNext
  PROVE  SchemaInv'
BY UpStep, MarkDirtyStep, ApplyStep, MarkCleanStep, FinishStep, RepairStep
   DEF SchemaNext, Migrate

LEMMA SchemaInvStutter ==
  ASSUME SchemaInv, UNCHANGED schema
  PROVE  SchemaInv'
BY DEF SchemaInv, SchemaTypeOK, RecordTrue, JobInv, schema

(* What is whole stays whole: pods that serve are not left without it. *)
LEMMA WholeGrows ==
  ASSUME SchemaInv, SchemaNext
  PROVE  Whole' >= Whole
<1> USE DEF SchemaInv, Whole
<1>1. version \in Int /\ (dirty => version - 1 \in Int)
  BY TargetAssumption DEF SchemaTypeOK
<1>2. ASSUME NEW j \in Jobs, MarkDirty(j) PROVE Whole' >= Whole
  BY <1>1, <1>2 DEF MarkDirty
<1>3. ASSUME NEW j \in Jobs, MarkClean(j) PROVE Whole' >= Whole
  BY <1>1, <1>3 DEF MarkClean
<1>4. ASSUME NEW j \in Jobs, Up(j) \/ Apply(j) \/ Finish(j) \/ JobFails(j)
      PROVE Whole' >= Whole
  BY <1>1, <1>4 DEF Up, Apply, Finish, JobFails
<1>5. CASE Repair BY <1>1, <1>5 DEF Repair
<1> QED BY <1>2, <1>3, <1>4, <1>5 DEF SchemaNext, Migrate

LEMMA WholeApplied ==
  SchemaInv => Whole \in Int /\ 1 .. Whole \subseteq applied
BY TargetAssumption DEF SchemaInv, SchemaTypeOK, RecordTrue, Whole
=============================================================================
