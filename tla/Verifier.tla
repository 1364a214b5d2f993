------------------------------ MODULE Verifier ------------------------------
(***************************************************************************)
(* The key cache of platform/authn (jwks.go), by which one replica of      *)
(* Inventory or Shipment verifies tokens, against Auth publishing its key  *)
(* set and replacing it.                                                   *)
(*                                                                         *)
(* A request is one goroutine that verifies a token or answers a readiness *)
(* probe.  It looks at the cache under the lock, may fetch the key set     *)
(* without it, and stores and reads again under the lock: each of these is *)
(* a step.  Fetches of different requests overlap and may store in any     *)
(* order.                                                                  *)
(*                                                                         *)
(* Time is kept as ages, which stop to grow where nothing tells greater    *)
(* ones apart: time itself has no bound.                                   *)
(*                                                                         *)
(* Operators whose name ends in _bug are seeded faults: none is used here. *)
(***************************************************************************)
EXTENDS Integers

CONSTANTS
  Requests,   \* goroutines that may run at the same time
  Keys,       \* RSA key pairs
  Kid,        \* the key id each of them goes by
  TTL,        \* how long a fetched key set is trusted
  Timeout     \* http.Client.Timeout of a fetch

ASSUME KeysAssumption == Keys # {}
ASSUME TimesAssumption == TTL \in Nat /\ Timeout \in Nat \ {0}

VARIABLES
  published,  \* the key set Auth serves
  cache,      \* keys
  age,        \* time since fetchedAt
  gone,       \* history: time since Auth last published a key
  tx          \* request -> where it is and what it has in memory

vars == <<published, cache, age, gone, tx>>
-----------------------------------------------------------------------------
(* The usable keys of a JWKS.  A token is known by the key that signed it. *)
KeySets == {S \in SUBSET Keys : \A j, k \in S : Kid[j] = Kid[k] => j = k}

HasKid(set, key) == \E k \in set : Kid[k] = Kid[key]

Expired == TTL + 1           \* an age beyond TTL, or of a cache never filled
Dead == TTL + Timeout + 1    \* gone for longer than TTL + Timeout

(* Auth has had this key, and no other, for longer than TTL + Timeout. *)
Settled(key) == key \in published /\ \A k \in Keys \ {key} : gone[k] = Dead

(* answer: the key set a fetch has received.  waited: time since a fetch
   began.  History: the token's key was Dead, or was Settled, when the request
   came, and Auth has not replaced its key since. *)
Tx ==
  [pc: {"idle", "fetch", "store", "lookup"}, op: {"none", "verify", "probe"},
   token: Keys, answer: KeySets, waited: 0 .. Timeout,
   revoked: BOOLEAN, settled: BOOLEAN]

AnyKey == CHOOSE k \in Keys : TRUE

Idle ==
  [pc |-> "idle", op |-> "none", token |-> AnyKey, answer |-> {},
   waited |-> 0, revoked |-> FALSE, settled |-> FALSE]

(* The request is answered: accepted, rejected, ready or not. *)
Return(q) == tx' = [tx EXCEPT ![q] = Idle]

Begin(q, op, token, pc) ==
  tx' = [tx EXCEPT ![q] =
          [pc |-> pc, op |-> op, token |-> token, answer |-> {},
           waited |-> 0, revoked |-> op = "verify" /\ gone[token] = Dead,
           settled |-> op = "verify" /\ Settled(token)]]
-----------------------------------------------------------------------------
Init ==
  /\ published = {}
  /\ cache = {}
  /\ age = Expired
  /\ gone = [k \in Keys |-> Dead]
  /\ tx = [q \in Requests |-> Idle]

(* Auth publishes the one key it signs with (handler.JWKS), from when it has
   started; now it has been started with this key, configured or generated
   for a database that has lost the old one. *)
Publish(key) ==
  /\ key \notin published
  /\ published' = {key}
  /\ gone' = [gone EXCEPT ![key] = 0]
  /\ tx' = [q \in Requests |->
             [tx[q] EXCEPT !.revoked = @ /\ tx[q].token # key, !.settled = FALSE]]
  /\ UNCHANGED <<cache, age>>

Fetching(q) == tx[q].pc \in {"fetch", "store"}

(* A fetch is over, one way or another, within Timeout. *)
Overdue_bug(q) == FALSE
Overdue(q) == Fetching(q) /\ tx[q].waited = Timeout

Older(a, limit) == IF a < limit THEN a + 1 ELSE limit

Tick ==
  /\ \A q \in Requests : ~Overdue(q)
  /\ age' = Older(age, Expired)
  /\ gone' = [k \in Keys |-> IF k \in published THEN 0 ELSE Older(gone[k], Dead)]
  /\ tx' = [q \in Requests |->
             IF Fetching(q) THEN [tx[q] EXCEPT !.waited = @ + 1] ELSE tx[q]]
  /\ UNCHANGED <<published, cache>>
-----------------------------------------------------------------------------
Ready == cache # {}

NeedsFetch_bug(token) == ~Ready \/ ~HasKid(cache, token)
NeedsFetch(token) ==
  ~Ready \/ age = Expired \/ ~HasKid(cache, token)

(* Verify and the first half of keyForKid, for a token valid in all that
   does not depend on the key. *)
keyForKid(q, token) ==
  /\ tx[q].pc = "idle"
  /\ Begin(q, "verify", token, IF NeedsFetch(token) THEN "fetch" ELSE "lookup")
  /\ UNCHANGED <<published, cache, age, gone>>

EnsureReady_bug(q) == FALSE
(* A readiness probe, while the cache is empty; Prime, at startup, is the
   same fetch.  Once there are keys it answers without a step. *)
EnsureReady(q) ==
  /\ tx[q].pc = "idle"
  /\ ~Ready
  /\ Begin(q, "probe", AnyKey, "fetch")
  /\ UNCHANGED <<published, cache, age, gone>>

Usable(set) == set # {}

(* Auth answers the request of a fetch; a set without a usable key is an
   error. *)
Serve(q) ==
  /\ tx[q].pc = "fetch"
  /\ IF Usable(published)
       THEN tx' = [tx EXCEPT ![q].pc = "store", ![q].answer = published]
       ELSE Return(q)
  /\ UNCHANGED <<published, cache, age, gone>>

FetchFails_bug(q) ==   \* fall back on what is cached
  /\ Fetching(q)
  /\ IF Ready THEN tx' = [tx EXCEPT ![q].pc = "lookup"] ELSE Return(q)
  /\ UNCHANGED <<published, cache, age, gone>>
(* The fetch fails or times out: fail closed. *)
FetchFails(q) ==
  /\ Fetching(q)
  /\ Return(q)
  /\ UNCHANGED <<published, cache, age, gone>>

(* The end of fetch.  A verification goes on, a probe is answered. *)
Store(q) ==
  /\ tx[q].pc = "store"
  /\ cache' = tx[q].answer
  /\ age' = 0
  /\ IF tx[q].op = "verify"
       THEN tx' = [tx EXCEPT ![q].pc = "lookup", ![q].answer = {}, ![q].waited = 0]
       ELSE Return(q)
  /\ UNCHANGED <<published, gone>>

(* The second half of keyForKid and the check of the signature. *)
Accepts(q) == tx[q].pc = "lookup" /\ tx[q].token \in cache

Lookup(q) ==
  /\ tx[q].pc = "lookup"
  /\ Return(q)
  /\ UNCHANGED <<published, cache, age, gone>>
-----------------------------------------------------------------------------
Next ==
  \/ Tick
  \/ \E key \in Keys : Publish(key)
  \/ \E q \in Requests :
       \/ \E token \in Keys : keyForKid(q, token)
       \/ EnsureReady(q)
       \/ Serve(q)
       \/ FetchFails(q)
       \/ Store(q)
       \/ Lookup(q)

Spec == Init /\ [][Next]_vars

(* Goroutines run and time passes.  A fetch that is tried again and again is
   answered some time and does not fail then.  The kubelet keeps probing; it
   lets clients come to a replica that is ready, with tokens of the key Auth
   signs with. *)
Fairness ==
  /\ WF_vars(Tick)
  /\ \A q \in Requests :
       /\ WF_vars(Lookup(q) \/ EnsureReady(q))
       /\ SF_vars(Serve(q))
       /\ SF_vars(Store(q))
       /\ SF_vars(\E token \in Keys :
                    Ready /\ token \in published /\ keyForKid(q, token))

FairSpec == Spec /\ Fairness
-----------------------------------------------------------------------------
(* Properties *)

(* Every variable has its type. *)
TypeOK ==
  /\ published \in KeySets
  /\ cache \in KeySets
  /\ age \in 0 .. Expired
  /\ gone \in [Keys -> 0 .. Dead]
  /\ tx \in [Requests -> Tx]

(* Verification fails closed: a key that Auth had not published for longer
   than TTL + Timeout when the request came, or never, is not accepted, in
   whatever order overlapping fetches store (keyForKid, fetch). *)
RevokedNotAccepted ==
  \A q \in Requests : tx[q].revoked => ~Accepts(q)

(* A set from before Auth changed its key turns tokens of the new key away for
   no longer than TTL + Timeout, even when it goes by the kid of the old one:
   from then on only a fetch that fails rejects a good token (keyForKid). *)
SettledAccepted ==
  \A q \in Requests : tx[q].pc = "lookup" /\ tx[q].settled => Accepts(q)

(* A replica that missed the fetch at startup becomes ready once Auth
   publishes a key (EnsureReady). *)
ReadyEventually ==
  <>[](published # {}) => <>Ready

(* When Auth has settled on a key set, the cache ends up with it, even when
   a new key goes by the kid of the old one: the old key is forgotten when
   its TTL is over. *)
CacheCatchesUp ==
  <>[][published' = published]_published /\ <>[](published # {})
    => <>[](cache = published)
=============================================================================
