----------------------------- MODULE AuthProofs -----------------------------
(***************************************************************************)
(* Theorems about Auth, for any number of pods, jobs, accounts, keys and   *)
(* migrations.                                                             *)
(***************************************************************************)
EXTENDS Auth, MigrationsProofs

(* What an insert leaves is a table of users. *)
LEMMA CreateType ==
  ASSUME users \in [Ids -> User \cup {NoUser}],
         NEW email \in Emails, NEW role \in Roles, create(email, role)
  PROVE  users' \in [Ids -> User \cup {NoUser}]
BY DEF create, FreshIds, Accounts, User

(* A key that may be held: the configured one, or the one that is stored. *)
Key(k) == IF configured = NoKey THEN k \in signing_keys ELSE k = configured

(* The pods that have a signer, and all tokens, go by one and the same key. *)
KeyInv ==
  /\ \A a, b \in signing_keys : a = b
  /\ \A p \in Pods :
       /\ pod[p].pc = "persist" => pod[p].signer \in Keys /\ configured = NoKey
       /\ pod[p].pc \in {"admin", "create", "serving"} => Key(pod[p].signer)
  /\ \A k \in minted : Key(k)

(* A pod past its guard needs no more than is there for whole. *)
ServesInv == \A p \in Pods : ~At(p, "down") => Latest[p] <= Whole

Inv == TypeOK /\ SchemaInv /\ KeyInv /\ ServesInv
-----------------------------------------------------------------------------
LEMMA InvInit == Init => Inv
<1> SUFFICES ASSUME Init PROVE Inv
  OBVIOUS
<1>1. SchemaInv
  BY SchemaInvInit DEF Init
<1>2. TypeOK
  BY <1>1 DEF Init, TypeOK, SchemaInv, Pod, Down
<1>3. KeyInv
  BY DEF Init, KeyInv, Down
<1>4. ServesInv
  BY DEF Init, ServesInv, At, Down
<1> QED
  BY <1>1, <1>2, <1>3, <1>4 DEF Inv

(* A step of the migrations. *)
LEMMA SchemaStep ==
  ASSUME Inv, SchemaNext,
         UNCHANGED <<configured, signing_keys, users, minted, pod>>
  PROVE  Inv'
<1>1. SchemaInv'
  BY SchemaInvStep DEF Inv
<1>2. TypeOK'
  BY <1>1 DEF Inv, TypeOK, SchemaInv
<1>3. KeyInv'
  BY DEF Inv, KeyInv, Key
<1>4. ServesInv'
  <2>1. Whole' >= Whole
    BY WholeGrows DEF Inv
  <2>2. Whole \in Int /\ Whole' \in Int
    BY <1>1, TargetAssumption DEF Inv, SchemaInv, SchemaTypeOK, Whole
  <2> QED
    BY <2>1, <2>2, PodsAssumption, TargetAssumption DEF Inv, ServesInv, At
<1> QED
  BY <1>1, <1>2, <1>3, <1>4 DEF Inv
(* A step of one pod that may write accounts. *)
LEMMA PodStep ==
  ASSUME Inv, NEW p \in Pods, NEW r \in Pod,
         pod' = [pod EXCEPT ![p] = r],
         users' \in [Ids -> User \cup {NoUser}],
         UNCHANGED <<schema, configured, signing_keys, minted>>,
         r.pc = "persist" => r.signer \in Keys /\ configured = NoKey,
         r.pc \in {"admin", "create", "serving"} => Key(r.signer),
         r.pc # "down" => Latest[p] <= Whole
  PROVE  Inv'
<1>1. SchemaInv'
  BY SchemaInvStutter DEF Inv
<1>2. TypeOK'
  BY <1>1 DEF Inv, TypeOK, SchemaInv
<1>3. KeyInv'
  BY DEF Inv, TypeOK, KeyInv, Key
<1>4. ServesInv'
  <2>1. Whole' = Whole
    BY DEF Whole, schema
  <2>2. ASSUME NEW q \in Pods, ~At(q, "down")' PROVE Latest[q] <= Whole
    <3>1. CASE q = p BY <2>2, <3>1 DEF Inv, TypeOK, At
    <3>2. CASE q # p BY <2>2, <3>2 DEF Inv, TypeOK, ServesInv, At
    <3> QED BY <3>1, <3>2
  <2> QED
    BY <2>1, <2>2 DEF ServesInv
<1> QED
  BY <1>1, <1>2, <1>3, <1>4 DEF Inv

(* The same when the pod moves on with the signer it has. *)
LEMMA GotoStep ==
  ASSUME Inv, NEW p \in Pods,
         At(p, "admin") \/ At(p, "create"),
         NEW pc \in {"create", "serving"}, Goto(p, pc),
         users' \in [Ids -> User \cup {NoUser}],
         UNCHANGED <<schema, configured, signing_keys, minted>>
  PROVE  Inv'
<1> DEFINE r == [pod[p] EXCEPT !.pc = pc]
<1>1. pod[p] \in Pod
  BY DEF Inv, TypeOK
<1>2. r \in Pod /\ r.pc = pc /\ r.signer = pod[p].signer
  BY <1>1 DEF Pod
<1>3. pod' = [pod EXCEPT ![p] = r]
  BY DEF Goto
<1>4. Key(r.signer)
  BY <1>2 DEF Inv, KeyInv, At
<1>5. Latest[p] <= Whole
  BY DEF Inv, ServesInv, At
<1> HIDE DEF r
<1> QED
  BY <1>2, <1>3, <1>4, <1>5, PodStep

LEMMA DiesStep ==
  ASSUME Inv, NEW p \in Pods, Dies(p),
         UNCHANGED <<schema, configured, signing_keys, users, minted>>
  PROVE  Inv'
<1>1. Down \in Pod /\ Down.pc = "down"
  BY DEF Down, Pod
<1> QED
  BY <1>1, PodStep DEF Dies, Inv, TypeOK

(* A step of requests that only writes accounts. *)
LEMMA AccountsStep ==
  ASSUME Inv, users' \in [Ids -> User \cup {NoUser}], UNCHANGED accountsOnly
  PROVE  Inv'
<1> USE DEF accountsOnly
<1>1. SchemaInv'
  BY SchemaInvStutter DEF Inv
<1>2. TypeOK'
  BY <1>1 DEF Inv, TypeOK, SchemaInv
<1>3. KeyInv'
  BY DEF Inv, KeyInv, Key
<1>4. ServesInv'
  BY DEF Inv, ServesInv, At, Whole, schema
<1> QED
  BY <1>1, <1>2, <1>3, <1>4 DEF Inv
-----------------------------------------------------------------------------
LEMMA EnsureMigratedStep ==
  ASSUME Inv, NEW p \in Pods, EnsureMigrated(p)
  PROVE  Inv'
<1> DEFINE r == [pod[p] EXCEPT !.pc = "signer"]
<1>1. r \in Pod /\ r.pc = "signer"
  BY DEF Inv, TypeOK, Pod
<1>2. pod' = [pod EXCEPT ![p] = r]
  BY DEF EnsureMigrated, Goto
<1>3. Latest[p] <= Whole
  BY DEF EnsureMigrated, Migrated, Whole
<1>4. users' \in [Ids -> User \cup {NoUser}]
  BY DEF EnsureMigrated, stored, Inv, TypeOK
<1>5. UNCHANGED <<schema, configured, signing_keys, minted>>
  BY DEF EnsureMigrated, stored
<1> HIDE DEF r
<1> QED
  BY <1>1, <1>2, <1>3, <1>4, <1>5, PodStep

LEMMA ResolveSignerStep ==
  ASSUME Inv, NEW p \in Pods, ResolveSigner(p)
  PROVE  Inv'
<1>1. PICK key \in Keys, pc \in {"admin", "persist"} :
         /\ Holds(p, key, pc)
         /\ pc = "admin" => Key(key)
         /\ pc = "persist" => configured = NoKey
  BY DEF ResolveSigner, Inv, TypeOK, Key, Fresh
<1> DEFINE r == [pod[p] EXCEPT !.pc = pc, !.signer = key]
<1>2. r \in Pod /\ r.pc = pc /\ r.signer = key
  BY DEF Inv, TypeOK, Pod
<1>3. pod' = [pod EXCEPT ![p] = r]
  BY <1>1 DEF Holds
<1>4. Latest[p] <= Whole
  BY DEF ResolveSigner, Inv, ServesInv, At
<1>5. users' \in [Ids -> User \cup {NoUser}]
  BY DEF ResolveSigner, stored, Inv, TypeOK
<1>6. UNCHANGED <<schema, configured, signing_keys, minted>>
  BY DEF ResolveSigner, stored
<1> HIDE DEF r
<1> QED
  BY <1>1, <1>2, <1>3, <1>4, <1>5, <1>6, PodStep

(* Only the first key is ever stored: no pod holds another one, and no token
   was signed before. *)
LEMMA PersistStep ==
  ASSUME Inv, NEW p \in Pods, Persist(p)
  PROVE  Inv'
<1>1. CASE KidTaken
  BY <1>1, DiesStep DEF Persist
<1>2. CASE ~KidTaken
  <2>4. PICK key \in Keys : key = pod[p].signer /\ configured = NoKey
    BY DEF Persist, At, Inv, KeyInv
  <2>1. signing_keys = {} /\ signing_keys' = {key}
    BY <1>2, <2>4 DEF Persist, KidTaken
  <2>2. PICK r \in {Down, [pod[p] EXCEPT !.pc = "admin"]} :
          pod' = [pod EXCEPT ![p] = r]
    BY <1>2 DEF Persist, Goto, Dies
  <2>3. /\ r \in Pod
        /\ r.pc = "down" \/ (r.pc = "admin" /\ r.signer = key)
    BY <2>2, <2>4 DEF Inv, TypeOK, Pod, Down
  <2>5. SchemaInv'
    BY SchemaInvStutter DEF Persist, Inv
  <2>6. TypeOK'
    BY <2>1, <2>2, <2>3, <2>4, <2>5 DEF Inv, TypeOK, SchemaInv, Persist
  <2>7. KeyInv'
    <3>1. ASSUME NEW k, Key(k) PROVE Key(k)'
      BY <2>1, <3>1 DEF Key, Persist
    <3>2. Key(key)'
      BY <2>1, <2>4 DEF Key, Persist
    <3>3. \A a, b \in signing_keys' : a = b
      BY <2>1
    <3>4. \A k \in minted' : Key(k)'
      BY <3>1 DEF Persist, Inv, KeyInv
    <3>5. ASSUME NEW q \in Pods
          PROVE  (/\ pod[q].pc = "persist" =>
                       pod[q].signer \in Keys /\ configured = NoKey
                  /\ pod[q].pc \in {"admin", "create", "serving"} =>
                       Key(pod[q].signer))'
      <4>1. CASE q = p
        <5>1. pod'[q] = r
          BY <2>2, <4>1 DEF Inv, TypeOK
        <5> QED
          BY <2>3, <3>2, <5>1 DEF Key
      <4>2. CASE q # p
        <5>1. pod'[q] = pod[q]
          BY <2>2, <4>2 DEF Inv, TypeOK
        <5>2. configured' = configured
          BY DEF Persist
        <5>3. pod[q].pc \in {"admin", "create", "serving"} => Key(pod[q].signer)
          BY DEF Inv, KeyInv
        <5>4. pod[q].pc = "persist" => pod[q].signer \in Keys /\ configured = NoKey
          BY DEF Inv, KeyInv
        <5> QED
          BY <2>1, <5>1, <5>2, <5>3, <5>4 DEF Key
      <4> QED
        BY <4>1, <4>2
    <3> QED
      BY <3>3, <3>4, <3>5 DEF KeyInv
  <2>8. ServesInv'
    BY <2>2 DEF Inv, TypeOK, ServesInv, At, Persist, Whole, schema
  <2> QED
    BY <2>5, <2>6, <2>7, <2>8 DEF Inv
<1> QED
  BY <1>1, <1>2

LEMMA EnsureAdminStep ==
  ASSUME Inv, NEW p \in Pods,
         EnsureAdmin(p) \/ CreateAdmin(p) \/ EnsureAdminFails(p)
  PROVE  Inv'
<1>1. PICK pc \in {"create", "serving"} : Goto(p, pc)
  BY DEF EnsureAdmin, CreateAdmin, EnsureAdminFails
<1>2. users' \in [Ids -> User \cup {NoUser}]
  <2>1. CASE create(AdminEmail, "admin")
    BY <2>1, CreateType, NamesAssumption DEF Inv, TypeOK, Roles
  <2>2. CASE UNCHANGED users
    BY <2>2 DEF Inv, TypeOK
  <2> QED
    BY <2>1, <2>2 DEF EnsureAdmin, CreateAdmin, EnsureAdminFails, stored
<1>3. UNCHANGED <<schema, configured, signing_keys, minted>>
  BY DEF EnsureAdmin, CreateAdmin, EnsureAdminFails, stored
<1>4. At(p, "admin") \/ At(p, "create")
  BY DEF EnsureAdmin, CreateAdmin, EnsureAdminFails
<1> QED
  BY <1>1, <1>2, <1>3, <1>4, GotoStep

LEMMA BootStep ==
  ASSUME Inv, NEW p \in Pods, Boot(p) \/ EnsureAdminFails(p) \/ Crash(p)
  PROVE  Inv'
<1>1. CASE Crash(p)
  BY <1>1, DiesStep DEF Crash, stored
<1> QED
  BY <1>1, EnsureMigratedStep, ResolveSignerStep, PersistStep, EnsureAdminStep
     DEF Boot
-----------------------------------------------------------------------------
LEMMA LoginStep ==
  ASSUME Inv, NEW p \in Pods, Login(p)
  PROVE  Inv'
<1> USE DEF Login
<1>1. Key(pod[p].signer)
  BY DEF Inv, KeyInv, At
<1>2. pod[p].signer \in Keys
  BY <1>1 DEF Inv, TypeOK, Key
<1>3. SchemaInv'
  BY SchemaInvStutter DEF Inv
<1>4. TypeOK'
  BY <1>2, <1>3 DEF Inv, TypeOK, SchemaInv
<1>5. KeyInv'
  BY <1>1 DEF Inv, KeyInv, Key
<1>6. ServesInv'
  BY DEF Inv, ServesInv, At, Whole, schema
<1> QED
  BY <1>3, <1>4, <1>5, <1>6 DEF Inv

(* DeleteUser has only read; DeleteByID takes the one row it names. *)
LEMMA DeletingStep ==
  ASSUME Inv, NEW p \in Pods, DeleteUser(p) \/ DeleteByID(p)
  PROVE  Inv'
<1>1. PICK id \in Ids \cup {NoId} : pod' = [pod EXCEPT ![p].deleting = id]
  BY DEF DeleteUser, DeleteByID, Accounts
<1> DEFINE r == [pod[p] EXCEPT !.deleting = id]
<1>2. /\ r \in Pod
      /\ r.pc = pod[p].pc /\ r.signer = pod[p].signer /\ r.pc = "serving"
  BY DEF Inv, TypeOK, Pod, DeleteUser, DeleteByID, At
<1>3. pod' = [pod EXCEPT ![p] = r]
  BY <1>1
<1>4. users' \in [Ids -> User \cup {NoUser}]
  BY DEF DeleteUser, DeleteByID, stored, Inv, TypeOK
<1>5. UNCHANGED <<schema, configured, signing_keys, minted>>
  BY DEF DeleteUser, DeleteByID, stored
<1>6. Key(r.signer) /\ Latest[p] <= Whole
  BY <1>2 DEF Inv, KeyInv, ServesInv, At
<1> HIDE DEF r
<1> QED
  BY <1>2, <1>3, <1>4, <1>5, <1>6, PodStep

LEMMA RequestStep ==
  ASSUME Inv, NEW p \in Pods, Request(p)
  PROVE  Inv'
<1>1. CASE Register(p)
  BY <1>1, CreateType, AccountsStep DEF Register, Roles, Inv, TypeOK
<1>2. CASE CreateUser(p)
  BY <1>2, CreateType, AccountsStep DEF CreateUser, Inv, TypeOK
<1>3. CASE PurgeUsers(p)
  <2>1. users' \in [Ids -> User \cup {NoUser}]
    BY <1>3 DEF PurgeUsers, Inv, TypeOK
  <2> QED
    BY <1>3, <2>1, AccountsStep DEF PurgeUsers
<1> QED
  BY <1>1, <1>2, <1>3, LoginStep, DeletingStep DEF Request

LEMMA InvStep == Inv /\ [Next]_vars => Inv'
<1> SUFFICES ASSUME Inv, [Next]_vars PROVE Inv'
  OBVIOUS
<1>1. CASE UNCHANGED vars
  BY <1>1, AccountsStep DEF vars, accountsOnly, Inv, TypeOK
<1>2. CASE Next
  BY <1>2, SchemaStep, BootStep, RequestStep DEF Next
<1> QED
  BY <1>1, <1>2

(* The inductive invariant of the accounts, the key and the schema holds at
   every step of every pod and every job. *)
THEOREM InvAlways == Spec => []Inv
BY InvInit, InvStep, PTL DEF Spec
-----------------------------------------------------------------------------
(* Every variable has its type. *)
THEOREM TypeCorrect == Spec => []TypeOK
<1>1. Inv => TypeOK
  BY DEF Inv
<1> QED
  BY <1>1, InvAlways, PTL

(* Every pod that serves verifies every token any pod has signed. *)
THEOREM TokensVerifyAlways == Spec => []TokensVerify
<1>1. Inv => TokensVerify
  BY DEF Inv, KeyInv, Key, TokensVerify, At
<1> QED
  BY <1>1, InvAlways, PTL

(* Every pod past EnsureMigrated has the schema of its image. *)
THEOREM ServesMigratedAlways == Spec => []ServesMigrated
<1>1. Inv => ServesMigrated
  BY WholeApplied, PodsAssumption, TargetAssumption
     DEF Inv, ServesInv, ServesMigrated
<1> QED
  BY <1>1, InvAlways, PTL
-----------------------------------------------------------------------------
(* No DeleteUser is about to delete an admin: the row it has read keeps its
   role, and a new account gets an id that no DeleteUser holds. *)
DeletingInv ==
  \A p \in Pods :
    pod[p].deleting \in Accounts => users[pod[p].deleting].role # "admin"

(* What a step does to one row. *)
LEMMA RowStep ==
  ASSUME Inv, [Next]_vars, NEW id \in Ids
  PROVE  \/ users'[id] = users[id]
         \/ id \in FreshIds
         \/ users'[id] = NoUser /\ users[id] # NoUser /\ users[id].role = "customer"
         \/ users'[id] = NoUser /\ \E p \in Pods : pod[p].deleting = id
<1> DEFINE P == \/ users'[id] = users[id]
                \/ id \in FreshIds
                \/ /\ users'[id] = NoUser
                   /\ users[id] # NoUser /\ users[id].role = "customer"
                \/ users'[id] = NoUser /\ \E p \in Pods : pod[p].deleting = id
<1>1. users \in [Ids -> User \cup {NoUser}]
  BY DEF Inv, TypeOK
<1>2. CASE UNCHANGED users
  BY <1>2
<1>3. ASSUME NEW email, NEW role, create(email, role) PROVE P
  BY <1>1, <1>3 DEF create
<1>4. ASSUME NEW p \in Pods, PurgeUsers(p) PROVE P
  BY <1>4 DEF PurgeUsers, Accounts
<1>5. ASSUME NEW p \in Pods, DeleteByID(p) PROVE P
  BY <1>1, <1>5 DEF DeleteByID
<1>6. CASE UNCHANGED vars
  BY <1>2, <1>6 DEF vars
<1>7. ASSUME NEW p \in Pods, Boot(p) \/ EnsureAdminFails(p) \/ Crash(p) PROVE P
  BY <1>2, <1>3, <1>7
     DEF Boot, EnsureMigrated, ResolveSigner, Persist, EnsureAdmin, CreateAdmin,
         EnsureAdminFails, Crash, stored
<1>8. ASSUME NEW p \in Pods, Request(p) PROVE P
  BY <1>2, <1>3, <1>4, <1>5, <1>8
     DEF Request, Login, Register, CreateUser, DeleteUser, stored
<1> QED
  BY <1>2, <1>6, <1>7, <1>8 DEF Next

(* What a step does to the account that a pod is deleting. *)
LEMMA PodDeletingStep ==
  ASSUME Inv, [Next]_vars, NEW p \in Pods
  PROVE  \/ pod'[p].deleting = pod[p].deleting
         \/ pod'[p].deleting = NoId
         \/ /\ UNCHANGED users
            /\ pod'[p].deleting \in Accounts
            /\ users[pod'[p].deleting].role # "admin"
<1> DEFINE P == \/ pod'[p].deleting = pod[p].deleting
                \/ pod'[p].deleting = NoId
                \/ /\ UNCHANGED users
                   /\ pod'[p].deleting \in Accounts
                   /\ users[pod'[p].deleting].role # "admin"
<1>1. pod \in [Pods -> Pod]
  BY DEF Inv, TypeOK
<1>2. CASE UNCHANGED pod
  BY <1>2
<1>3. ASSUME NEW q \in Pods, NEW pc, Goto(q, pc) PROVE P
  BY <1>1, <1>3 DEF Goto, Pod
<1>4. ASSUME NEW q \in Pods, NEW key, NEW pc, Holds(q, key, pc) PROVE P
  BY <1>1, <1>4 DEF Holds, Pod
<1>5. ASSUME NEW q \in Pods, Dies(q) PROVE P
  BY <1>1, <1>5 DEF Dies, Down
<1>6. ASSUME NEW q \in Pods, DeleteUser(q) PROVE P
  BY <1>1, <1>6 DEF DeleteUser, Protected, stored, Pod
<1>7. ASSUME NEW q \in Pods, DeleteByID(q) PROVE P
  BY <1>1, <1>7 DEF DeleteByID, Pod
<1>8. CASE UNCHANGED vars
  BY <1>2, <1>8 DEF vars
<1>9. ASSUME NEW q \in Pods, Boot(q) \/ EnsureAdminFails(q) \/ Crash(q) PROVE P
  BY <1>3, <1>4, <1>5, <1>9
     DEF Boot, EnsureMigrated, ResolveSigner, Persist, EnsureAdmin, CreateAdmin,
         EnsureAdminFails, Crash
<1>10. ASSUME NEW q \in Pods, Request(q) PROVE P
  BY <1>2, <1>6, <1>7, <1>10
     DEF Request, Login, Register, CreateUser, PurgeUsers, accountsOnly
<1> QED
  BY <1>2, <1>8, <1>9, <1>10 DEF Next

LEMMA DeletingInvStep ==
  ASSUME Inv, DeletingInv, [Next]_vars
  PROVE  DeletingInv'
<1> SUFFICES ASSUME NEW p \in Pods, pod'[p].deleting \in Accounts'
             PROVE  users'[pod'[p].deleting].role # "admin"
  BY DEF DeletingInv
<1> DEFINE id == pod'[p].deleting
<1>1. id \in Ids /\ users'[id] # NoUser /\ id # NoId
  BY NamesAssumption DEF Accounts
<1>2. CASE id = pod[p].deleting
  <2>1. id \notin FreshIds
    BY <1>2 DEF FreshIds
  <2>2. users'[id] = users[id]
    BY <1>1, <2>1, RowStep
  <2>3. id \in Accounts
    BY <1>1, <2>2 DEF Accounts
  <2> QED
    BY <1>2, <2>2, <2>3 DEF DeletingInv
<1>3. CASE UNCHANGED users /\ users[id].role # "admin"
  BY <1>3
<1> QED
  BY <1>1, <1>2, <1>3, PodDeletingStep

LEMMA AdminKept ==
  ASSUME Inv, DeletingInv, [Next]_vars,
         NEW id \in Accounts, users[id].role = "admin"
  PROVE  users'[id] = users[id]
<1>1. id \in Ids /\ id \notin FreshIds
  BY DEF Accounts, FreshIds
<1>2. \A p \in Pods : pod[p].deleting # id
  BY DEF DeletingInv
<1> QED
  BY <1>1, <1>2, RowStep

(* An admin's account stays, whatever is deleted and purged at the same
   time. *)
THEOREM AdminStaysAlways == Spec => AdminStays
<1>1. Init => DeletingInv
  BY NamesAssumption DEF Init, DeletingInv, Down, Accounts
<1>2. Inv /\ DeletingInv /\ [Next]_vars => DeletingInv'
  BY DeletingInvStep
<1>3. Inv /\ DeletingInv /\ [Next]_vars =>
        [\A id \in Accounts : users[id].role = "admin" => users'[id] = users[id]]_vars
  BY AdminKept
<1> QED
  BY <1>1, <1>2, <1>3, InvAlways, PTL DEF Spec, AdminStays
=============================================================================
