--------------------------- MODULE VerifierProofs ---------------------------
(***************************************************************************)
(* Theorems about Verifier, for any number of overlapping requests and of  *)
(* keys, any TTL and any timeout.                                          *)
(***************************************************************************)
EXTENDS Verifier, TLAPS

(* How old a key may be that a request has received, or has found revoked; and
   that no older key can be in the cache of one that came with a settled key. *)
RequestInv(t) ==
  /\ t.pc = "store" => t.answer # {} /\ \A k \in t.answer : gone[k] <= t.waited
  /\ t.revoked => gone[t.token] = Dead
  /\ t.pc = "lookup" /\ t.revoked => t.token \notin cache
  /\ t.settled => Settled(t.token)
  /\ t.pc = "lookup" /\ t.settled => t.token \in cache

Inv ==
  /\ TypeOK
  /\ \A k \in cache : gone[k] <= age + Timeout
  /\ \A k \in published : gone[k] = 0
  /\ \A q \in Requests : RequestInv(tx[q])

LEMMA Numbers ==
  /\ TTL \in Nat /\ Timeout \in Nat /\ Timeout > 0
  /\ Expired \in Nat /\ Dead \in Nat /\ Dead = Expired + Timeout /\ Timeout < Dead
  /\ Expired > 0
BY TimesAssumption DEF Expired, Dead

LEMMA IdleType == Idle \in Tx /\ RequestInv(Idle)
<1>1. AnyKey \in Keys
  BY KeysAssumption DEF AnyKey
<1> QED
  BY <1>1, Numbers DEF Idle, Tx, KeySets, RequestInv

(* When a key is settled, a set that holds some key, and none that was gone
   for long, is the set of that key. *)
LEMMA SettledSet ==
  ASSUME NEW key \in Keys, Settled(key), NEW set \in SUBSET Keys,
         set # {}, \A k \in set : gone[k] # Dead
  PROVE  key \in set
BY DEF Settled

LEMMA TxFields ==
  ASSUME NEW t \in Tx
  PROVE  /\ t.pc \in {"idle", "fetch", "store", "lookup"}
         /\ t.token \in Keys /\ t.answer \in KeySets /\ t.waited \in 0 .. Timeout
         /\ t.revoked \in BOOLEAN /\ t.settled \in BOOLEAN
BY DEF Tx

(* A step of one request that leaves the cache alone. *)
LEMMA RequestStep ==
  ASSUME Inv, NEW q \in Requests, NEW r \in Tx, RequestInv(r),
         tx' = [tx EXCEPT ![q] = r], UNCHANGED <<published, cache, age, gone>>
  PROVE  Inv'
<1>1. TypeOK'
  BY DEF Inv, TypeOK
<1>2. \A o \in Requests : RequestInv(tx[o])'
  BY DEF Inv, TypeOK, RequestInv, Settled
<1> QED
  BY <1>1, <1>2 DEF Inv

LEMMA ReturnStep ==
  ASSUME Inv, NEW q \in Requests, Return(q),
         UNCHANGED <<published, cache, age, gone>>
  PROVE  Inv'
BY IdleType, RequestStep DEF Return

LEMMA InvInit == Init => Inv
<1> SUFFICES ASSUME Init PROVE Inv
  OBVIOUS
<1>1. TypeOK
  BY IdleType, Numbers DEF Init, TypeOK, KeySets
<1> QED
  BY <1>1, IdleType DEF Init, Inv
-----------------------------------------------------------------------------
LEMMA PublishStep ==
  ASSUME Inv, NEW key \in Keys, Publish(key)
  PROVE  Inv'
<1> USE Numbers
<1>0. /\ published' = {key} /\ gone' = [gone EXCEPT ![key] = 0]
      /\ cache' = cache /\ age' = age
  BY DEF Publish
<1>1. TypeOK'
  <2>1. published' \in KeySets
    BY <1>0 DEF KeySets
  <2>2. gone' \in [Keys -> 0 .. Dead]
    BY <1>0 DEF Inv, TypeOK
  <2>3. ASSUME NEW t \in Tx, NEW b \in BOOLEAN
             PROVE  [t EXCEPT !.revoked = b, !.settled = FALSE] \in Tx
    BY DEF Tx
  <2>4. tx' \in [Requests -> Tx]
    <3>1. ASSUME NEW q \in Requests
          PROVE  [tx[q] EXCEPT !.revoked = @ /\ tx[q].token # key,
                               !.settled = FALSE] \in Tx
      <4>1. tx[q] \in Tx /\ (tx[q].revoked /\ tx[q].token # key) \in BOOLEAN
        BY DEF Inv, TypeOK
      <4> QED
        BY <2>3, <4>1
    <3> QED
      BY <3>1 DEF Publish
  <2> QED
    BY <1>0, <2>1, <2>2, <2>4 DEF Inv, TypeOK
<1>2. (\A k \in cache : gone[k] <= age + Timeout)'
  BY <1>0 DEF Inv, TypeOK, KeySets
<1>3. (\A k \in published : gone[k] = 0)'
  BY <1>0 DEF Inv, TypeOK
<1>4. ASSUME NEW q \in Requests PROVE RequestInv(tx[q])'
  <2>1. tx[q] \in Tx /\ RequestInv(tx[q])
    BY DEF Inv, TypeOK
  <2>2. tx'[q] = [tx[q] EXCEPT !.revoked = @ /\ tx[q].token # key, !.settled = FALSE]
    BY DEF Publish
  <2>3. /\ tx'[q].pc = tx[q].pc /\ tx'[q].token = tx[q].token
        /\ tx'[q].answer = tx[q].answer /\ tx'[q].waited = tx[q].waited
        /\ tx'[q].revoked => tx[q].revoked /\ tx[q].token # key
        /\ ~tx'[q].settled
    BY <2>1, <2>2 DEF Tx
  <2>4. \A k \in Keys : gone'[k] <= gone[k] /\ (k # key => gone'[k] = gone[k])
    BY <1>0 DEF Inv, TypeOK
  <2>5. cache' = cache /\ Dead \in Int /\ gone \in [Keys -> 0 .. Dead]
    BY <1>0 DEF Inv, TypeOK
  <2>6. /\ tx[q].token \in Keys /\ tx[q].waited \in Int
        /\ \A k \in tx[q].answer : k \in Keys
    BY <2>1, TxFields DEF KeySets
  <2>7. tx'[q].pc = "store" =>
          tx'[q].answer # {} /\ \A k \in tx'[q].answer : gone'[k] <= tx'[q].waited
    <3>1. \A k \in Keys : gone'[k] \in Int /\ gone[k] \in Int
      BY <1>1, <2>5 DEF TypeOK
    <3> QED
      BY <2>1, <2>3, <2>4, <2>6, <3>1 DEF RequestInv
  <2>8. tx'[q].revoked => gone'[tx'[q].token] = Dead
    BY <2>1, <2>3, <2>4, <2>6 DEF RequestInv
  <2> QED
    BY <2>1, <2>3, <2>5, <2>7, <2>8 DEF RequestInv
<1> QED
  BY <1>1, <1>2, <1>3, <1>4 DEF Inv

(* The age of the cache grows as fast as that of any key in it. *)
LEMMA TickStep ==
  ASSUME Inv, Tick
  PROVE  Inv'
<1> USE Numbers DEF Tick, Older
<1>1. age' \in 0 .. Expired /\ (age' = age + 1 \/ age' = Expired)
  BY DEF Inv, TypeOK
<1>2. /\ gone' \in [Keys -> 0 .. Dead]
      /\ \A k \in Keys : gone'[k] <= gone[k] + 1
      /\ \A k \in Keys : gone[k] = Dead => k \in published \/ gone'[k] = Dead
  BY DEF Inv, TypeOK
<1>3. ASSUME NEW q \in Requests
      PROVE  /\ tx'[q] \in Tx
             /\ tx'[q].pc = tx[q].pc /\ tx'[q].token = tx[q].token
             /\ tx'[q].answer = tx[q].answer /\ tx'[q].revoked = tx[q].revoked
             /\ tx'[q].settled = tx[q].settled
             /\ tx[q].pc = "store" => tx'[q].waited = tx[q].waited + 1
  <2>1. CASE Fetching(q)
    <3>1. tx[q] \in Tx
      BY DEF Inv, TypeOK
    <3>2. tx[q].waited # Timeout
      BY <2>1 DEF Overdue
    <3>3. tx[q].waited \in 0 .. Timeout
      BY <3>1, TxFields
    <3>4. tx[q].waited + 1 \in 0 .. Timeout
      BY <3>2, <3>3
    <3>5. tx'[q] = [tx[q] EXCEPT !.waited = @ + 1]
      BY <2>1
    <3> QED
      BY <3>1, <3>4, <3>5 DEF Tx
  <2>2. CASE ~Fetching(q)
    BY <2>2 DEF Inv, TypeOK, Fetching
  <2> QED
    BY <2>1, <2>2
<1>4. TypeOK'
  BY <1>1, <1>2, <1>3 DEF Inv, TypeOK
<1>5. (\A k \in cache : gone[k] <= age + Timeout)'
  BY <1>1, <1>2 DEF Inv, TypeOK, KeySets
<1>6. (\A k \in published : gone[k] = 0)'
  BY DEF Inv, TypeOK, KeySets
<1>7. ASSUME NEW q \in Requests PROVE RequestInv(tx[q])'
  <2>1. tx[q] \in Tx /\ RequestInv(tx[q]) /\ gone \in [Keys -> 0 .. Dead]
    BY DEF Inv, TypeOK
  <2>2. tx[q].pc = "store" => \A k \in tx[q].answer : gone'[k] <= tx'[q].waited
    <3> SUFFICES ASSUME tx[q].pc = "store", NEW k \in tx[q].answer
                 PROVE  gone'[k] <= tx[q].waited + 1
      BY <1>3
    <3>1. k \in Keys /\ gone[k] <= tx[q].waited /\ tx[q].waited \in Int
      BY <2>1, TxFields DEF RequestInv, KeySets
    <3> QED
      BY <1>2, <2>1, <3>1
  <2>3. tx[q].revoked => gone'[tx[q].token] = Dead
    BY <1>2, <2>1, TxFields DEF RequestInv, Inv
  <2>4. ASSUME tx[q].settled PROVE Settled(tx[q].token)'
    <3>1. Settled(tx[q].token)
      BY <2>1, <2>4 DEF RequestInv
    <3>2. published \in KeySets /\ \A j \in published : gone[j] = 0
      BY DEF Inv, TypeOK
    <3>3. \A k \in Keys \ {tx[q].token} : k \notin published
      BY <3>1, <3>2 DEF Settled
    <3> QED
      BY <1>2, <1>3, <3>1, <3>3 DEF Settled
  <2> QED
    <3>1. /\ cache' = cache
          /\ tx'[q].pc = tx[q].pc /\ tx'[q].token = tx[q].token
          /\ tx'[q].answer = tx[q].answer /\ tx'[q].revoked = tx[q].revoked
          /\ tx'[q].settled = tx[q].settled
      BY <1>3
    <3>2. /\ tx'[q].pc = "store" =>
               tx'[q].answer # {} /\ \A k \in tx'[q].answer : gone'[k] <= tx'[q].waited
          /\ tx'[q].revoked => gone'[tx'[q].token] = Dead
      BY <2>1, <2>2, <2>3, <3>1 DEF RequestInv
    <3>3. tx'[q].pc = "lookup" =>
            /\ tx'[q].revoked => tx'[q].token \notin cache'
            /\ tx'[q].settled => tx'[q].token \in cache'
      BY <2>1, <3>1 DEF RequestInv
    <3>4. tx'[q].settled => Settled(tx[q].token)'
      BY <2>4, <3>1
    <3> HIDE DEF Tick, Older
    <3> QED
      BY <3>2, <3>3, <3>4 DEF RequestInv
<1> QED
  BY <1>4, <1>5, <1>6, <1>7 DEF Inv
-----------------------------------------------------------------------------
(* The record a request begins with. *)
LEMMA BeginStep ==
  ASSUME Inv, NEW q \in Requests, NEW op \in {"verify", "probe"},
         NEW token \in Keys, NEW pc \in {"fetch", "lookup"},
         pc = "lookup" => gone[token] # Dead \/ token \notin cache,
         pc = "lookup" => ~Settled(token) \/ token \in cache,
         Begin(q, op, token, pc), UNCHANGED <<published, cache, age, gone>>
  PROVE  Inv'
<1> DEFINE r == [pc |-> pc, op |-> op, token |-> token, answer |-> {},
                 waited |-> 0, revoked |-> op = "verify" /\ gone[token] = Dead,
                 settled |-> op = "verify" /\ Settled(token)]
<1>1. r \in Tx
  <2>1. /\ (op = "verify" /\ gone[token] = Dead) \in BOOLEAN
        /\ (op = "verify" /\ Settled(token)) \in BOOLEAN
    OBVIOUS
  <2> QED
    BY <2>1, Numbers DEF Tx, KeySets
<1>2. RequestInv(r)
  BY DEF RequestInv
<1>3. tx' = [tx EXCEPT ![q] = r]
  BY DEF Begin
<1> HIDE DEF r
<1> QED
  BY <1>1, <1>2, <1>3, RequestStep

(* Without a fetch the cache is young, and so are the keys in it. *)
LEMMA keyForKidStep ==
  ASSUME Inv, NEW q \in Requests, NEW token \in Keys, keyForKid(q, token)
  PROVE  Inv'
<1>1. CASE NeedsFetch(token)
  BY <1>1, BeginStep DEF keyForKid
<1>2. CASE ~NeedsFetch(token)
  <2>1. age # Expired
    BY <1>2 DEF NeedsFetch
  <2>2. cache \in SUBSET Keys /\ \A k \in cache : gone[k] # Dead
    BY <2>1, Numbers DEF Inv, TypeOK, KeySets
  <2>3. Settled(token) => token \in cache
    BY <1>2, <2>2, SettledSet DEF NeedsFetch, Ready
  <2> QED
    BY <1>2, <2>2, <2>3, BeginStep DEF keyForKid
<1> QED
  BY <1>1, <1>2

LEMMA EnsureReadyStep ==
  ASSUME Inv, NEW q \in Requests, EnsureReady(q)
  PROVE  Inv'
<1>1. AnyKey \in Keys
  BY KeysAssumption DEF AnyKey
<1> QED
  BY <1>1, BeginStep DEF EnsureReady

(* What Auth answers is published now. *)
LEMMA ServeStep ==
  ASSUME Inv, NEW q \in Requests, Serve(q)
  PROVE  Inv'
<1>1. CASE ~Usable(published)
  BY <1>1, ReturnStep DEF Serve
<1>2. CASE Usable(published)
  <2> DEFINE r == [tx[q] EXCEPT !.pc = "store", !.answer = published]
  <2>1. r \in Tx
    BY DEF Inv, TypeOK, Tx
  <2>2. RequestInv(r)
    BY <1>2, Numbers DEF Inv, TypeOK, Tx, RequestInv, Usable
  <2>3. tx' = [tx EXCEPT ![q] = r]
    BY <1>2 DEF Serve
  <2>4. UNCHANGED <<published, cache, age, gone>>
    BY DEF Serve
  <2> HIDE DEF r
  <2> QED
    BY <2>1, <2>2, <2>3, <2>4, RequestStep
<1> QED
  BY <1>1, <1>2

(* A set is stored within Timeout of having been published: no key in it is
   one that a request has found revoked. *)
LEMMA StoreStep ==
  ASSUME Inv, NEW q \in Requests, Store(q)
  PROVE  Inv'
<1> USE Numbers
<1> DEFINE set == tx[q].answer
<1>1. /\ set \in KeySets /\ gone \in [Keys -> 0 .. Dead]
      /\ set # {} /\ \A k \in set : gone[k] <= Timeout
  BY TxFields DEF Store, Inv, TypeOK, RequestInv, KeySets
<1>2. PICK r \in {Idle, [tx[q] EXCEPT !.pc = "lookup", !.answer = {}, !.waited = 0]} :
        tx' = [tx EXCEPT ![q] = r]
  BY DEF Store, Return
<1>3. /\ r \in Tx
      /\ r.pc # "store"
      /\ r.revoked => tx[q].revoked /\ r.token = tx[q].token
      /\ r.settled => tx[q].settled /\ r.token = tx[q].token
  <2>1. CASE r = Idle
    BY <2>1, IdleType DEF Idle
  <2>2. CASE r = [tx[q] EXCEPT !.pc = "lookup", !.answer = {}, !.waited = 0]
    <3>1. tx[q] \in Tx /\ {} \in KeySets /\ 0 \in 0 .. Timeout
      BY DEF Inv, TypeOK, KeySets
    <3> QED
      BY <2>2, <3>1 DEF Tx
  <2> QED
    BY <1>2, <2>1, <2>2
<1>4. TypeOK'
  BY <1>1, <1>2, <1>3 DEF Store, Inv, TypeOK
<1>5. (\A k \in cache : gone[k] <= age + Timeout)'
  BY <1>1 DEF Store, KeySets
<1>6. (\A k \in published : gone[k] = 0)'
  BY DEF Store, Inv
<1>7. ASSUME NEW o \in Requests PROVE RequestInv(tx[o])'
  <2>1. ASSUME NEW token \in Keys, gone[token] = Dead PROVE token \notin set
    BY <1>1, <2>1
  <2>4. ASSUME NEW token \in Keys, Settled(token) PROVE Settled(token)' /\ token \in set
    <3>1. set \in SUBSET Keys /\ \A k \in set : gone[k] # Dead
      BY <1>1 DEF KeySets
    <3>2. Settled(token)'
      BY <2>4 DEF Settled, Store
    <3> QED
      BY <1>1, <2>4, <3>1, <3>2, SettledSet
  <2>2. CASE o = q
    <3>1. tx'[o] = r
      BY <1>2, <2>2 DEF Inv, TypeOK
    <3>2. /\ r.revoked => gone[r.token] = Dead
          /\ r.settled => Settled(r.token)
      BY <1>3 DEF Inv, RequestInv
    <3> QED
      BY <1>3, <2>1, <2>4, <3>1, <3>2, TxFields DEF Store, RequestInv
  <2>3. CASE o # q
    <3>1. tx'[o] = tx[o] /\ tx[o] \in Tx /\ RequestInv(tx[o])
      BY <1>2, <2>3 DEF Inv, TypeOK
    <3> QED
      BY <2>1, <2>4, <3>1, TxFields DEF Store, RequestInv
  <2> QED
    BY <2>2, <2>3
<1> QED
  BY <1>4, <1>5, <1>6, <1>7 DEF Inv

LEMMA InvStep == Inv /\ [Next]_vars => Inv'
<1> SUFFICES ASSUME Inv, [Next]_vars PROVE Inv'
  OBVIOUS
<1>1. CASE UNCHANGED vars
  BY <1>1 DEF vars, Inv, TypeOK, RequestInv, Settled
<1>2. ASSUME NEW q \in Requests, FetchFails(q) \/ Lookup(q) PROVE Inv'
  BY <1>2, ReturnStep DEF FetchFails, Lookup
<1>3. CASE Next
  BY <1>2, <1>3, TickStep, PublishStep, keyForKidStep, EnsureReadyStep, ServeStep,
     StoreStep DEF Next
<1> QED
  BY <1>1, <1>3

(* The inductive invariant holds at every step: what a cached key set and a
   fetch under way each tell of the keys Auth has had. *)
THEOREM InvAlways == Spec => []Inv
BY InvInit, InvStep, PTL DEF Spec
-----------------------------------------------------------------------------
(* Every variable has its type. *)
THEOREM TypeCorrect == Spec => []TypeOK
<1>1. Inv => TypeOK
  BY DEF Inv
<1> QED
  BY <1>1, InvAlways, PTL

(* A key that was gone for longer than TTL + Timeout is not accepted. *)
THEOREM RevokedNotAcceptedAlways == Spec => []RevokedNotAccepted
<1>1. Inv => RevokedNotAccepted
  BY DEF Inv, RequestInv, RevokedNotAccepted, Accepts
<1> QED
  BY <1>1, InvAlways, PTL

(* A key that Auth has had for longer than TTL + Timeout is accepted. *)
THEOREM SettledAcceptedAlways == Spec => []SettledAccepted
<1>1. Inv => SettledAccepted
  BY DEF Inv, RequestInv, SettledAccepted, Accepts
<1> QED
  BY <1>1, InvAlways, PTL
=============================================================================
