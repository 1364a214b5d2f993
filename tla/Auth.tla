-------------------------------- MODULE Auth --------------------------------
(***************************************************************************)
(* The Auth service (src/auth): pods that start, die and start again, and  *)
(* the accounts and the signing key they share in one database, whose      *)
(* schema the migrate Job brings up (Migrations).                          *)
(*                                                                         *)
(* Each statement a pod sends to the database is a step, and the database  *)
(* runs them one at a time.  Operators whose name ends in _bug are seeded  *)
(* faults: none is used here.                                              *)
(***************************************************************************)
EXTENDS Migrations

CONSTANTS
  Pods,
  Latest,      \* pod -> number of migrations in its image
  Keys,        \* RSA key pairs
  Ids,         \* uuids of accounts
  Emails,
  AdminEmail,  \* ADMIN_EMAIL
  NoKey, NoId, NoUser

ASSUME PodsAssumption == Latest \in [Pods -> 1 .. Target]
ASSUME NamesAssumption ==
  NoKey \notin Keys /\ NoId \notin Ids /\ AdminEmail \in Emails

VARIABLES
  configured,    \* JWT_PRIVATE_KEY, the same for every pod, or NoKey
  signing_keys,  \* the table
  users,         \* the table: id -> its row, or NoUser
  minted,        \* history: keys that have signed a token
  pod            \* pod -> how far its main is and what it has in memory

vars == <<schema, configured, signing_keys, users, minted, pod>>
-----------------------------------------------------------------------------
Roles == {"customer", "operator", "admin"}
User == [email: Emails, role: Roles]

ASSUME NoUserAssumption == NoUser \notin User

(* pc is the next step of main; a pod that is down has nothing in memory.
   deleting is the account a DeleteUser has read and is about to delete. *)
Pod ==
  [pc: {"down", "signer", "persist", "admin", "create", "serving"},
   signer: Keys \cup {NoKey}, deleting: Ids \cup {NoId}]

Down == [pc |-> "down", signer |-> NoKey, deleting |-> NoId]

Init ==
  /\ SchemaInit
  /\ configured \in Keys \cup {NoKey}
  /\ signing_keys = {}
  /\ users = [id \in Ids |-> NoUser]
  /\ minted = {}
  /\ pod = [p \in Pods |-> Down]

At(p, pc) == pod[p].pc = pc
Goto(p, pc) == pod' = [pod EXCEPT ![p].pc = pc]
Dies(p) == pod' = [pod EXCEPT ![p] = Down]

stored == <<schema, configured, signing_keys, users, minted>>

(* The pod is killed, or a statement of its start fails (logger.Fatal). *)
Crash(p) == ~At(p, "down") /\ Dies(p) /\ UNCHANGED stored
-----------------------------------------------------------------------------
(* The start of a pod, in main's order *)

EnsureMigrated(p) ==
  /\ At(p, "down")
  /\ Migrated(Latest[p])
  /\ Goto(p, "signer")
  /\ UNCHANGED stored

Holds(p, key, pc) == pod' = [pod EXCEPT ![p].pc = pc, ![p].signer = key]

(* GenerateRSAKey never returns a key that is known. *)
Fresh == Keys \ (signing_keys \cup minted \cup {pod[p].signer : p \in Pods})

ResolveSigner_bug(p) ==   \* never looks for the stored key
  /\ At(p, "signer")
  /\ \/ configured # NoKey /\ Holds(p, configured, "admin")
     \/ configured = NoKey /\ \E key \in Fresh : Holds(p, key, "persist")
  /\ UNCHANGED stored
(* ResolveSigner: the configured key, the stored one, or a new one. *)
ResolveSigner(p) ==
  /\ At(p, "signer")
  /\ \/ configured # NoKey /\ Holds(p, configured, "admin")
     \/ configured = NoKey /\ \E key \in signing_keys : Holds(p, key, "admin")
     \/ /\ configured = NoKey /\ signing_keys = {}
        /\ \E key \in Fresh : Holds(p, key, "persist")
  /\ UNCHANGED stored

KidTaken_bug == FALSE
(* kid is unique and every pod has the same JWT_KEY_ID. *)
KidTaken == signing_keys # {}

(* keys.Create.  The pod dies of ErrDuplicatedKey, and of an answer that is
   lost after the row is stored. *)
Persist(p) ==
  /\ At(p, "persist")
  /\ IF KidTaken
       THEN Dies(p) /\ UNCHANGED signing_keys
       ELSE /\ signing_keys' = signing_keys \cup {pod[p].signer}
            /\ Goto(p, "admin") \/ Dies(p)
  /\ UNCHANGED <<schema, configured, users, minted>>

Accounts == {id \in Ids : users[id] # NoUser}
AdminExists == \E id \in Accounts : users[id].role = "admin"

(* EnsureAdmin looks by role, then creates by email. *)
EnsureAdmin(p) ==
  /\ At(p, "admin")
  /\ Goto(p, IF AdminExists THEN "serving" ELSE "create")
  /\ UNCHANGED stored

(* uuid.NewString never returns an id that is known. *)
FreshIds == Ids \ (Accounts \cup {pod[p].deleting : p \in Pods})
EmailTaken(email) == \E id \in Accounts : users[id].email = email

create(email, role) ==
  /\ ~EmailTaken(email)
  /\ \E id \in FreshIds :
       users' = [users EXCEPT ![id] = [email |-> email, role |-> role]]

(* EMAIL_TAKEN is not an error. *)
CreateAdmin(p) ==
  /\ At(p, "create")
  /\ \/ create(AdminEmail, "admin")
     \/ EmailTaken(AdminEmail) /\ UNCHANGED users
  /\ Goto(p, "serving")
  /\ UNCHANGED <<schema, configured, signing_keys, minted>>

(* Another error is logged, and the pod serves all the same. *)
EnsureAdminFails(p) ==
  /\ At(p, "admin") \/ At(p, "create")
  /\ Goto(p, "serving")
  /\ UNCHANGED stored
-----------------------------------------------------------------------------
(* The requests a pod serves.  RequireAuth and RequireRole let an admin call
   the last three: there is none before the first admin's account. *)

Login(p) ==
  /\ At(p, "serving")
  /\ Accounts # {}
  /\ minted' = minted \cup {pod[p].signer}
  /\ UNCHANGED <<schema, configured, signing_keys, users, pod>>

accountsOnly == <<schema, configured, signing_keys, minted, pod>>

Register(p) ==
  /\ At(p, "serving")
  /\ \E email \in Emails : create(email, "customer")
  /\ UNCHANGED accountsOnly

CreateUser(p) ==
  /\ At(p, "serving")
  /\ AdminExists
  /\ \E email \in Emails, role \in Roles : create(email, role)
  /\ UNCHANGED accountsOnly

Protected_bug(id) == FALSE
Protected(id) == users[id].role = "admin"

(* DeleteUser reads the row and its role, and deletes by id in a second
   statement. *)
DeleteUser(p) ==
  /\ At(p, "serving")
  /\ AdminExists
  /\ pod[p].deleting = NoId
  /\ \E id \in Accounts :
       ~Protected(id) /\ pod' = [pod EXCEPT ![p].deleting = id]
  /\ UNCHANGED stored

DeleteByID(p) ==
  /\ At(p, "serving")
  /\ pod[p].deleting # NoId
  /\ users' = [users EXCEPT ![pod[p].deleting] = NoUser]
  /\ pod' = [pod EXCEPT ![p].deleting = NoId]
  /\ UNCHANGED <<schema, configured, signing_keys, minted>>

(* The customers created before the cutoff: any of them. *)
PurgeUsers(p) ==
  /\ At(p, "serving")
  /\ AdminExists
  /\ \E S \in SUBSET {id \in Accounts : users[id].role = "customer"} :
       users' = [id \in Ids |-> IF id \in S THEN NoUser ELSE users[id]]
  /\ UNCHANGED accountsOnly
-----------------------------------------------------------------------------
Boot(p) ==
  \/ EnsureMigrated(p)
  \/ ResolveSigner(p)
  \/ Persist(p)
  \/ EnsureAdmin(p)
  \/ CreateAdmin(p)

Request(p) ==
  \/ Login(p)
  \/ Register(p)
  \/ CreateUser(p)
  \/ DeleteUser(p)
  \/ DeleteByID(p)
  \/ PurgeUsers(p)

Next ==
  \/ SchemaNext /\ UNCHANGED <<configured, signing_keys, users, minted, pod>>
  \/ \E p \in Pods : Boot(p) \/ EnsureAdminFails(p) \/ Request(p) \/ Crash(p)

Spec == Init /\ [][Next]_vars

(* A pod that is down is started again, and goes on with its start. *)
Fairness == SchemaFairness /\ \A p \in Pods : WF_vars(Boot(p))

FairSpec == Spec /\ Fairness
-----------------------------------------------------------------------------
(* Properties *)

(* Every variable has its type. *)
TypeOK ==
  /\ SchemaTypeOK
  /\ configured \in Keys \cup {NoKey}
  /\ signing_keys \subseteq Keys
  /\ users \in [Ids -> User \cup {NoUser}]
  /\ minted \subseteq Keys
  /\ pod \in [Pods -> Pod]

(* A token that any pod has signed verifies at every pod that serves,
   whichever of them started first, and after they have all died and started
   again (ResolveSigner): a pod knows only the key it holds itself. *)
TokensVerify ==
  \A p \in Pods : At(p, "serving") => \A key \in minted : pod[p].signer = key

(* A pod past its guard has the whole schema its image was built for, while
   later migrations run, fail and are repaired (EnsureMigrated). *)
ServesMigrated ==
  \A p \in Pods : ~At(p, "down") => 1 .. Latest[p] \subseteq applied

(* An admin's account stays what it is: a DeleteUser that checked another
   row, or a purge, never takes it. *)
AdminStays ==
  [][\A id \in Accounts : users[id].role = "admin" => users'[id] = users[id]]_vars

(* Deaths the code has no part in.  To die where Persist would refuse, or
   where Up has nothing left to apply, is no different from those. *)
Kills ==
  \/ \E p \in Pods : Crash(p) /\ ~(At(p, "persist") /\ KidTaken)
  \/ \E j \in Jobs : JobFails(j) /\ ~(job[j] = "up" /\ ~Pending)

(* Once no migration is left dirty and nothing is killed any more, every pod
   comes to serve and goes on serving, those that lost the race to store the
   key or the answer to it included (main, ResolveSigner). *)
EveryPodServes ==
  <>[]~dirty /\ <>[][~Kills]_vars
    => \A p \in Pods : <>[]At(p, "serving")

(* Once nothing is killed any more, the Job that is tried again completes
   (the claim of 0002_items_ondelete_cascade.up.sql). *)
RetryCompletes == <>[][~Kills]_vars => <>(version = Target /\ ~dirty)
=============================================================================
