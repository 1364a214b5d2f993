--------------------------- MODULE ShipmentProofs ---------------------------
(***************************************************************************)
(* Theorems about Shipment, for any number of requests, shipments and      *)
(* reservations, and whatever happens to reservations outside.             *)
(***************************************************************************)
EXTENDS Shipment, TLAPS

Done == Terminal \cup {"deleted"}

(* r holds no stock and never will: its release has been acknowledged. *)
NeverCharged(r) == reservation[r] \in {"RELEASED", "deleted"} /\ r \notin charged

(* What a handler knows of its shipment and of its reservation. *)
HandlerInv(q) ==
  LET t == tx[q] IN
  /\ t.pc = "idle" <=> t.op = "none"
  /\ t.pc = "delete" <=> t.op = "delete"
  /\ t.op = "create" =>
       /\ t.id \in ShipmentIds /\ t.owner \in Users
       /\ shipment[t.id].status = "free"
       /\ t.pc = "answered" /\ t.code = "ok" =>
            t.reservation \in ReservationIds /\ reservation[t.reservation] # "free"
  /\ t.op \in {"confirm", "cancel"} =>
       /\ t.id \in ShipmentIds /\ t.owner \in Users
       /\ shipment[t.id].status # "free"
       /\ t.reservation = shipment[t.id].reservation
  /\ t.op = "confirm" /\ t.pc = "answered" /\ t.code = "ok" =>
       t.reservation \in charged
  /\ t.op = "cancel" /\ t.pc = "answered" /\ t.code = "ok" =>
       NeverCharged(t.reservation)
  /\ t.op = "delete" => t.id \in ShipmentIds /\ shipment[t.id].status \in Done

(* The handler that m is to answer is waiting for just that. *)
Awaited(m) ==
  LET t == tx[m.from] IN
  /\ t.pc = "waiting"
  /\ m.op = "reserve" => t.op = "create"
  /\ m.op = "commit" => t.op = "confirm" /\ t.reservation = m.id
  /\ m.op = "release" => \/ t.op = "compensate"
                         \/ t.op = "cancel" /\ t.reservation = m.id

MessageInv(m) ==
  /\ m.op # "reserve" => m.id \in ReservationIds /\ reservation[m.id] # "free"
  /\ m.op = "commit" => Recorded(m.id)
  /\ m.from # Nobody => Awaited(m)

(* A shipment id is given to one create, and a handler waits for one call. *)
Alone ==
  /\ \A q, o \in Requests : tx[q].op = "create" /\ tx[o].id = tx[q].id => o = q
  /\ \A m, n \in net : m.from # Nobody /\ n.from = m.from => n = m

StockInv ==
  /\ \A s \in ShipmentIds : shipment[s].status # "free" =>
       reservation[shipment[s].reservation] # "free"
  /\ \A r \in ReservationIds : reservation[r] = "COMMITTED" => r \in charged
  /\ \A r \in charged : reservation[r] \in {"COMMITTED", "deleted"}

RowInv(s) ==
  /\ shipment[s].status = "CONFIRMED" => shipment[s].reservation \in charged
  /\ shipment[s].status = "CANCELLED" /\ Last(history[s]).reason = "user_cancelled"
       => NeverCharged(shipment[s].reservation)
  /\ IF ShipmentExists(s)
       THEN history[s] # <<>> /\ Last(history[s]).to = shipment[s].status
       ELSE history[s] = <<>>

Inv ==
  /\ TypeOK
  /\ \A q \in Requests : HandlerInv(q)
  /\ \A m \in net : MessageInv(m)
  /\ Alone
  /\ StockInv
  /\ ChargedIsRecorded
  /\ \A s \in ShipmentIds : RowInv(s)
-----------------------------------------------------------------------------
(* Types *)

(* The history that Transition leaves. *)
LEMMA AppendedHistory ==
  ASSUME NEW h \in Seq(HistoryRow), NEW e \in HistoryRow
  PROVE  /\ Append(h, e) \in Seq(HistoryRow)
         /\ Append(h, e) # <<>>
         /\ Last(Append(h, e)) = e
<1>1. Append(h, e) \in Seq(HistoryRow) /\ Len(Append(h, e)) = Len(h) + 1
  OBVIOUS
<1>2. Append(h, e)[Len(h) + 1] = e
  OBVIOUS
<1>3. Len(<<>>) = 0 /\ Len(h) \in Nat
  OBVIOUS
<1>4. Append(h, e) # <<>>
  BY <1>1, <1>3
<1> QED
  BY <1>1, <1>2, <1>4 DEF Last

LEMMA FirstHistory ==
  ASSUME NEW e \in HistoryRow
  PROVE  <<e>> \in Seq(HistoryRow) /\ <<e>> # <<>> /\ Last(<<e>>) = e
BY DEF Last

LEMMA RowFields ==
  ASSUME NEW row \in ShipmentRow
  PROVE  /\ row.status \in Stored \cup {"deleted", "free"}
         /\ row.status # "free" =>
              /\ row.owner \in Users /\ row.reservation \in ReservationIds
              /\ [row EXCEPT !.status = "deleted"] \in ShipmentRow
BY DEF ShipmentRow, FreeRow, Stored, Terminal

LEMMA RowType ==
  ASSUME NEW q \in Requests, NEW status \in Stored,
         tx[q].owner \in Users, tx[q].reservation \in ReservationIds
  PROVE  /\ Row(q, status) \in ShipmentRow
         /\ Row(q, status).status = status
         /\ Row(q, status).reservation = tx[q].reservation
BY DEF Row, ShipmentRow

LEMMA EntryType ==
  ASSUME NEW from \in Stored \cup {"none"}, NEW to \in Stored, NEW reason \in Reasons
  PROVE  /\ Entry(from, to, reason) \in HistoryRow
         /\ Entry(from, to, reason).to = to
         /\ Entry(from, to, reason).reason = reason
BY DEF Entry, HistoryRow

LEMMA IdleType ==
  /\ Idle \in Tx
  /\ Idle.pc = "idle" /\ Idle.op = "none" /\ Idle.id = NoId
BY DEF Idle, Tx, Codes

LEMMA TxFields ==
  ASSUME NEW t \in Tx
  PROVE  /\ t.pc \in {"idle", "waiting", "answered", "delete"}
         /\ t.op \in {"none", "create", "compensate", "confirm", "cancel", "delete"}
         /\ t.code \in Codes
BY DEF Tx

LEMMA MessageFields ==
  ASSUME NEW m \in Message
  PROVE  /\ m.op \in {"reserve", "commit", "release"}
         /\ m.from \in Requests \cup {Nobody}
BY DEF Message

LEMMA InvInit == Init => Inv
<1> SUFFICES ASSUME Init PROVE Inv
  OBVIOUS
<1> USE DEF Init
<1>1. TypeOK
  BY IdleType DEF TypeOK, ShipmentRow
<1>2. ASSUME NEW q \in Requests PROVE HandlerInv(q)
  BY DEF HandlerInv, Idle
<1>3. Alone
  BY DEF Alone, Idle
<1>4. StockInv
  BY DEF StockInv, FreeRow
<1>5. ASSUME NEW s \in ShipmentIds PROVE RowInv(s)
  BY DEF RowInv, FreeRow, ShipmentExists, Stored, Terminal
<1> QED
  BY <1>1, <1>2, <1>3, <1>4, <1>5 DEF Inv, ChargedIsRecorded
-----------------------------------------------------------------------------
(* What no step undoes, whoever takes it. *)
Forward ==
  /\ \A s \in ShipmentIds : shipment[s].status # "free" =>
       /\ shipment'[s].status # "free"
       /\ shipment'[s].reservation = shipment[s].reservation
  /\ \A s \in ShipmentIds : shipment[s].status \in Done => shipment'[s].status \in Done
  /\ \A r \in ReservationIds : reservation[r] # "free" => reservation'[r] # "free"
  /\ \A r \in ReservationIds : NeverCharged(r) => NeverCharged(r)'
  /\ charged \subseteq charged'

LEMMA ForwardStutter ==
  ASSUME Inv, UNCHANGED <<shipment, reservation, charged>>
  PROVE  Forward
BY DEF Forward, NeverCharged

LEMMA RecordedStays ==
  ASSUME Forward, NEW r \in ReservationIds, Recorded(r)
  PROVE  Recorded(r)'
BY DEF Forward, Recorded

(* A handler that takes no step keeps what it knows. *)
LEMMA HandlerKeeps ==
  ASSUME Inv, Forward, NEW q \in Requests, tx'[q] = tx[q],
         tx[q].op = "create" => shipment'[tx[q].id] = shipment[tx[q].id]
  PROVE  HandlerInv(q)'
<1> DEFINE t == tx[q]
<1>1. HandlerInv(q) /\ charged \subseteq ReservationIds
  BY DEF Inv, TypeOK
<1>2. t.op \in {"confirm", "cancel"} => t.reservation \in ReservationIds
  BY <1>1, RowFields DEF HandlerInv, Inv, TypeOK
<1>3. t.op = "create" /\ t.pc = "answered" /\ t.code = "ok" =>
        t.reservation \in ReservationIds /\ reservation'[t.reservation] # "free"
  BY <1>1 DEF HandlerInv, Forward
<1>4. t.op \in {"confirm", "cancel"} =>
        /\ t.id \in ShipmentIds /\ t.owner \in Users
        /\ shipment'[t.id].status # "free"
        /\ t.reservation = shipment'[t.id].reservation
  BY <1>1 DEF HandlerInv, Forward
<1>5. t.op = "confirm" /\ t.pc = "answered" /\ t.code = "ok" =>
        t.reservation \in charged'
  BY <1>1 DEF HandlerInv, Forward
<1>6. t.op = "cancel" /\ t.pc = "answered" /\ t.code = "ok" =>
        NeverCharged(t.reservation)'
  <2> SUFFICES ASSUME t.op = "cancel", t.pc = "answered", t.code = "ok"
               PROVE  NeverCharged(t.reservation)'
    OBVIOUS
  <2>1. PICK r \in ReservationIds : r = t.reservation
    BY <1>2
  <2>2. NeverCharged(r)'
    BY <1>1, <2>1 DEF HandlerInv, Forward
  <2> QED
    BY <2>1, <2>2 DEF NeverCharged
<1>7. t.op = "delete" => t.id \in ShipmentIds /\ shipment'[t.id].status \in Done
  BY <1>1 DEF HandlerInv, Forward
<1> QED
  BY <1>1, <1>3, <1>4, <1>5, <1>6, <1>7 DEF HandlerInv, NeverCharged

(* m is n, but perhaps that nobody awaits it any more, or its inTime. *)
Like(m, n) == m.op = n.op /\ m.id = n.id /\ m.from \in {n.from, Nobody}

(* So does a message, as long as the handler that awaits it does. *)
LEMMA MessageKeeps ==
  ASSUME Inv, Forward, NEW n \in net, NEW m, Like(m, n),
         m.from # Nobody => tx'[m.from] = tx[m.from]
  PROVE  MessageInv(m)'
<1>1. MessageInv(n)
  BY DEF Inv
<1>2. m.op = "commit" => Recorded(m.id)'
  BY <1>1, RecordedStays DEF MessageInv, Like
<1>3. m.op # "reserve" => m.id \in ReservationIds /\ reservation'[m.id] # "free"
  BY <1>1 DEF MessageInv, Forward, Like
<1>4. m.from # Nobody => Awaited(m)'
  BY <1>1 DEF MessageInv, Awaited, Like
<1> QED
  BY <1>2, <1>3, <1>4 DEF MessageInv

(* No call in flight is awaited by a handler that does not wait. *)
LEMMA NobodyWaits ==
  ASSUME Inv, NEW q \in Requests, tx[q].pc # "waiting", NEW m \in net
  PROVE  m.from # q
BY MarkerAssumption DEF Inv, MessageInv, Awaited

(* A step of handler q to the record t. *)
Talk == 
  /\ \A q \in Requests : HandlerInv(q)
  /\ \A m \in net : MessageInv(m)
  /\ Alone

LEMMA TalkStep ==
  ASSUME Inv, Forward, NEW q \in Requests, NEW t \in Tx,
         tx' = [tx EXCEPT ![q] = t], HandlerInv(q)',
         \A o \in Requests \ {q} : tx[o].op = "create" =>
           shipment'[tx[o].id] = shipment[tx[o].id] /\ tx[o].id # t.id,
         t.op = "create" => \A o \in Requests \ {q} : tx[o].id # t.id,
         \A m \in net' : MessageInv(m)',
         \A m, n \in net' : m.from # Nobody /\ n.from = m.from => n = m
  PROVE  tx' \in [Requests -> Tx] /\ Talk'
<1>1. tx \in [Requests -> Tx]
  BY DEF Inv, TypeOK
<1>2. \A o \in Requests \ {q} : tx'[o] = tx[o]
  BY <1>1
<1>3. tx'[q] = t
  BY <1>1
<1>4. \A o \in Requests : HandlerInv(o)'
  BY <1>2, HandlerKeeps
<1>5. \A o, p \in Requests : tx'[o].op = "create" /\ tx'[p].id = tx'[o].id => p = o
  BY <1>2, <1>3 DEF Inv, Alone
<1> QED
  BY <1>1, <1>4, <1>5 DEF Talk, Alone

(* It sends nothing and has awaited nothing. *)
LEMMA SilentStep ==
  ASSUME Inv, Forward, NEW q \in Requests, NEW t \in Tx, tx[q].pc # "waiting",
         tx' = [tx EXCEPT ![q] = t], HandlerInv(q)', t.op # "create",
         \A o \in Requests \ {q} : tx[o].op = "create" =>
           shipment'[tx[o].id] = shipment[tx[o].id] /\ tx[o].id # t.id,
         UNCHANGED net
  PROVE  tx' \in [Requests -> Tx] /\ Talk'
<1>1. ASSUME NEW m \in net PROVE MessageInv(m)'
  <2>1. m.from # q
    BY NobodyWaits
  <2>2. m.from # Nobody => tx'[m.from] = tx[m.from]
    BY <2>1, MessageFields DEF Inv, TypeOK
  <2> QED
    BY <2>2, MessageKeeps DEF Like
<1>2. \A m, n \in net' : m.from # Nobody /\ n.from = m.from => n = m
  BY DEF Inv, Alone
<1> QED
  BY <1>1, <1>2, TalkStep

(* It sends the call m and awaits it. *)
LEMMA SendStep ==
  ASSUME Inv, Forward, NEW q \in Requests, NEW t \in Tx, tx[q].pc # "waiting",
         tx' = [tx EXCEPT ![q] = t], HandlerInv(q)',
         \A o \in Requests \ {q} : tx[o].op = "create" =>
           shipment'[tx[o].id] = shipment[tx[o].id] /\ tx[o].id # t.id,
         t.op = "create" => \A o \in Requests \ {q} : tx[o].id # t.id,
         NEW m \in Message, m.from = q, MessageInv(m)', net' = net \cup {m}
  PROVE  tx' \in [Requests -> Tx] /\ net' \subseteq Message /\ Talk'
<1>1. ASSUME NEW n \in net PROVE MessageInv(n)' /\ n.from # q
  <2>1. n.from # q
    BY NobodyWaits
  <2>2. n.from # Nobody => tx'[n.from] = tx[n.from]
    BY <2>1, MessageFields DEF Inv, TypeOK
  <2> QED
    BY <2>1, <2>2, MessageKeeps DEF Like
<1>2. \A k, n \in net' : k.from # Nobody /\ n.from = k.from => n = k
  BY <1>1 DEF Inv, Alone
<1>3. net' \subseteq Message
  BY DEF Inv, TypeOK
<1> QED
  BY <1>1, <1>2, <1>3, TalkStep

(* It no longer awaits the call it has sent, which stays. *)
LEMMA AbandonStep ==
  ASSUME Inv, Forward, NEW q \in Requests, NEW t \in Tx,
         tx' = [tx EXCEPT ![q] = t], HandlerInv(q)',
         \A o \in Requests \ {q} : tx[o].op = "create" =>
           shipment'[tx[o].id] = shipment[tx[o].id] /\ tx[o].id # t.id,
         t.op = "create" => \A o \in Requests \ {q} : tx[o].id # t.id,
         Abandon(q)
  PROVE  tx' \in [Requests -> Tx] /\ net' \subseteq Message /\ Talk'
<1>1. ASSUME NEW m \in net'
      PROVE  /\ m \in Message /\ m.from # q
             /\ \E n \in net : Like(m, n) /\ (m.from # Nobody => m = n)
  <2>1. PICK n \in net : m = IF n.from = q THEN [n EXCEPT !.from = Nobody] ELSE n
    BY DEF Abandon
  <2>2. n \in Message
    BY DEF Inv, TypeOK
  <2> QED
    BY <2>1, <2>2, MarkerAssumption DEF Message, Like
<1>2. ASSUME NEW m \in net' PROVE MessageInv(m)'
  <2>1. PICK n \in net : Like(m, n)
    BY <1>1
  <2>2. m.from # Nobody => tx'[m.from] = tx[m.from]
    BY <1>1, MessageFields DEF Inv, TypeOK
  <2> QED
    BY <2>1, <2>2, MessageKeeps
<1>3. \A k, m \in net' : k.from # Nobody /\ m.from = k.from => m = k
  BY <1>1 DEF Inv, Alone
<1> QED
  BY <1>1, <1>2, <1>3, TalkStep

(* A call is over that nobody awaits. *)
LEMMA LostStep ==
  ASSUME Inv, Forward, UNCHANGED <<shipment, tx>>, net' \subseteq net
  PROVE  tx' \in [Requests -> Tx] /\ net' \subseteq Message /\ Talk'
<1>1. ASSUME NEW q \in Requests PROVE HandlerInv(q)'
  BY HandlerKeeps
<1>2. ASSUME NEW m \in net' PROVE MessageInv(m)'
  BY MessageKeeps DEF Like
<1>3. Alone'
  BY DEF Inv, Alone
<1> QED
  BY <1>1, <1>2, <1>3 DEF Talk, Inv, TypeOK

(* The handler that awaits m goes on with what it has been told. *)
LEMMA AnswerStep ==
  ASSUME Inv, Forward, UNCHANGED shipment, NEW m \in net, m.from # Nobody,
         NEW t \in Tx, t.op = tx[m.from].op, t.id = tx[m.from].id,
         tx' = [tx EXCEPT ![m.from] = t], HandlerInv(m.from)', net' = net \ {m}
  PROVE  tx' \in [Requests -> Tx] /\ net' \subseteq Message /\ Talk'
<1> DEFINE q == m.from
<1>1. q \in Requests
  BY MessageFields DEF Inv, TypeOK
<1>2. \A o \in Requests \ {q} : tx[o].op = "create" => tx[o].id # t.id
  BY <1>1 DEF Inv, Alone
<1>3. t.op = "create" => \A o \in Requests \ {q} : tx[o].id # t.id
  BY <1>1 DEF Inv, Alone
<1>4. ASSUME NEW n \in net' PROVE MessageInv(n)'
  <2>1. n \in net /\ (n.from # Nobody => n.from # q)
    BY DEF Inv, Alone
  <2>2. n.from # Nobody => tx'[n.from] = tx[n.from]
    BY <2>1, MessageFields DEF Inv, TypeOK
  <2> QED
    BY <2>1, <2>2, MessageKeeps DEF Like
<1>5. \A k, n \in net' : k.from # Nobody /\ n.from = k.from => n = k
  BY DEF Inv, Alone
<1>6. net' \subseteq Message
  BY DEF Inv, TypeOK
<1> HIDE DEF q
<1> QED
  BY <1>1, <1>2, <1>3, <1>4, <1>5, <1>6, TalkStep DEF q

(* What the answer to a call tells the handler is true. *)
LEMMA RespondStep ==
  ASSUME Inv, Forward, UNCHANGED shipment, NEW m \in net, NEW code \in Codes,
         Respond(m, code),
         m.op = "reserve" => code # "ok",
         m.op = "commit" /\ code = "ok" => m.id \in charged',
         m.op = "release" /\ code = "ok" => NeverCharged(m.id)'
  PROVE  tx' \in [Requests -> Tx] /\ net' \subseteq Message /\ Talk'
<1>1. CASE m.from = Nobody
  BY <1>1, LostStep DEF Respond
<1>2. CASE m.from # Nobody
  <2> DEFINE q == m.from
  <2>1. /\ q \in Requests /\ tx[q] \in Tx /\ HandlerInv(q) /\ Awaited(m)
        /\ MessageInv(m)
    BY <1>2, MessageFields DEF Inv, TypeOK, MessageInv
  <2>2. PICK seen \in {code, "DEPENDENCY_UNAVAILABLE"} :
          tx' = [tx EXCEPT ![q].pc = "answered", ![q].code = seen]
    BY <1>2 DEF Respond
  <2>3. PICK t \in Tx :
          /\ t.pc = "answered" /\ t.code = seen
          /\ t.op = tx[q].op /\ t.id = tx[q].id /\ t.owner = tx[q].owner
          /\ t.reservation = tx[q].reservation
          /\ tx' = [tx EXCEPT ![q] = t]
    <3> DEFINE new == [tx[q] EXCEPT !.pc = "answered", !.code = seen]
    <3>1. new \in Tx
      BY <2>1 DEF Tx, Codes
    <3>2. /\ new.pc = "answered" /\ new.code = seen
          /\ new.op = tx[q].op /\ new.id = tx[q].id /\ new.owner = tx[q].owner
          /\ new.reservation = tx[q].reservation
      BY <2>1 DEF Tx
    <3>3. tx' = [tx EXCEPT ![q] = new]
      BY <2>2
    <3> QED
      BY <3>1, <3>2, <3>3
  <2>4. tx' = [tx EXCEPT ![q] = t]
    BY <2>3
  <2>5. tx'[q] = t
    BY <2>1, <2>4 DEF Inv, TypeOK
  <2>6. net' = net \ {m}
    BY DEF Respond
  <2>7. /\ t.op = "create" => seen # "ok"
        /\ t.op = "confirm" /\ seen = "ok" => t.reservation \in charged'
        /\ t.op = "cancel" /\ seen = "ok" => NeverCharged(m.id)' /\ t.reservation = m.id
    BY <2>1, <2>2, <2>3, MessageFields DEF Awaited, Inv, TypeOK
  <2>8. HandlerInv(q)'
    <3>1. t.op = "create" =>
            /\ t.id \in ShipmentIds /\ t.owner \in Users
            /\ shipment'[t.id].status = "free"
      BY <2>1, <2>3 DEF HandlerInv
    <3>2. t.op \in {"confirm", "cancel"} =>
            /\ t.id \in ShipmentIds /\ t.owner \in Users
            /\ shipment'[t.id].status # "free"
            /\ t.reservation = shipment'[t.id].reservation
      BY <2>1, <2>3 DEF HandlerInv
    <3>3. t.op # "none" /\ t.op # "delete"
      BY <2>1, <2>3 DEF HandlerInv, Awaited
    <3>4. t.op = "cancel" /\ seen = "ok" => NeverCharged(t.reservation)'
      BY <2>7 DEF NeverCharged
    <3> QED
      BY <2>3, <2>5, <2>7, <3>1, <3>2, <3>3, <3>4 DEF HandlerInv, NeverCharged
  <2> QED
    BY <1>2, <2>1, <2>3, <2>4, <2>6, <2>8, AnswerStep
<1> QED
  BY <1>1, <1>2

(* A row that is left alone keeps its part of the invariant. *)
LEMMA RowKeeps ==
  ASSUME Inv, Forward, NEW s \in ShipmentIds,
         shipment'[s] = shipment[s], history'[s] = history[s]
  PROVE  RowInv(s)'
<1>1. RowInv(s) /\ shipment[s] \in ShipmentRow
  BY DEF Inv, TypeOK
<1>2. shipment[s].status \in {"CONFIRMED", "CANCELLED"} =>
        shipment[s].reservation \in ReservationIds
  BY <1>1, RowFields
<1>3. shipment[s].status = "CANCELLED" /\ Last(history[s]).reason = "user_cancelled"
        => NeverCharged(shipment[s].reservation)'
  <2> SUFFICES ASSUME shipment[s].status = "CANCELLED",
                      Last(history[s]).reason = "user_cancelled"
               PROVE  NeverCharged(shipment[s].reservation)'
    OBVIOUS
  <2>1. PICK r \in ReservationIds : r = shipment[s].reservation
    BY <1>2
  <2>2. NeverCharged(r)'
    BY <1>1, <2>1 DEF RowInv, Forward
  <2>3. r = shipment'[s].reservation
    BY <2>1
  <2> QED
    BY <2>2, <2>3 DEF NeverCharged
<1>4. shipment[s].status = "CONFIRMED" => shipment[s].reservation \in charged'
  BY <1>1 DEF RowInv, Forward
<1>5. ShipmentExists(s)' = ShipmentExists(s)
  BY DEF ShipmentExists
<1> QED
  BY <1>1, <1>3, <1>4, <1>5 DEF RowInv, NeverCharged

(* A step that does nothing to shipments. *)
LEMMA ServiceIdle ==
  ASSUME Inv, Forward, UNCHANGED own, expired' \subseteq ReservationIds,
         tx' \in [Requests -> Tx], net' \subseteq Message, Talk',
         reservation' \in [ReservationIds ->
           {"free", "PENDING", "COMMITTED", "RELEASED", "deleted"}],
         charged' \subseteq ReservationIds,
         \A r \in ReservationIds : reservation'[r] = "COMMITTED" => r \in charged',
         \A r \in charged' : reservation'[r] \in {"COMMITTED", "deleted"} /\ Recorded(r)
  PROVE  Inv'
<1> USE DEF own
<1>1. TypeOK'
  BY DEF Inv, TypeOK
<1>2. \A s \in ShipmentIds : RowInv(s)'
  BY RowKeeps
<1>3. \A s \in ShipmentIds : shipment'[s].status # "free" =>
        reservation'[shipment'[s].reservation] # "free"
  BY RowFields DEF Inv, TypeOK, StockInv, Forward
<1>4. ChargedIsRecorded'
  BY DEF ChargedIsRecorded, Recorded
<1>5. StockInv'
  BY <1>3 DEF StockInv
<1> QED
  BY <1>1, <1>2, <1>4, <1>5 DEF Inv, Talk

(* A step that does nothing to shipments nor to reservations. *)
LEMMA TalkOnly ==
  ASSUME Inv, UNCHANGED <<own, inventory>>,
         tx' \in [Requests -> Tx], net' \subseteq Message, Talk'
  PROVE  Inv'
BY ForwardStutter, ServiceIdle
   DEF own, inventory, Inv, TypeOK, StockInv, ChargedIsRecorded

(* The handler is done: it goes back to idle, whatever it has written. *)
LEMMA ReturnStep ==
  ASSUME Inv, Forward, NEW q \in Requests, tx[q].pc # "waiting", Return(q),
         \A o \in Requests \ {q} : tx[o].op = "create" =>
           shipment'[tx[o].id] = shipment[tx[o].id],
         UNCHANGED net
  PROVE  tx' \in [Requests -> Tx] /\ Talk'
<1>1. tx' = [tx EXCEPT ![q] = Idle] /\ tx'[q] = Idle
  BY DEF Return, Inv, TypeOK
<1>2. HandlerInv(q)'
  BY <1>1, IdleType DEF HandlerInv
<1>3. \A o \in Requests \ {q} : tx[o].op = "create" => tx[o].id # Idle.id
  BY IdleType, MarkerAssumption DEF Inv, HandlerInv
<1> QED
  BY <1>1, <1>2, <1>3, IdleType, SilentStep
-----------------------------------------------------------------------------
(* The handlers *)

LEMMA CreateShipmentStep ==
  ASSUME Inv, NEW q \in Requests, NEW u \in Users, CreateShipment(q, u)
  PROVE  Inv'
<1>1. PICK s \in ShipmentIds :
        /\ IdsLeft(s)
        /\ Call(q, "reserve", NoId,
                [Idle EXCEPT !.op = "create", !.id = s, !.owner = u])
  BY DEF CreateShipment
<1>2. tx[q].pc = "idle" /\ UNCHANGED <<own, inventory>>
  BY DEF CreateShipment
<1>3. PICK t \in Tx :
        /\ t.pc = "waiting" /\ t.op = "create" /\ t.id = s /\ t.owner = u
        /\ tx' = [tx EXCEPT ![q] = t]
  BY <1>1 DEF Call, Idle, Tx, Codes
<1>4. PICK m \in Message :
        m.op = "reserve" /\ m.from = q /\ net' = net \cup {m}
  BY <1>1 DEF Call, Message
<1>5. tx'[q] = t
  BY <1>3 DEF Inv, TypeOK
<1>6. shipment'[s].status = "free" /\ \A o \in Requests : tx[o].id # s
  BY <1>1, <1>2 DEF IdsLeft, own
<1>7. HandlerInv(q)'
  BY <1>3, <1>5, <1>6 DEF HandlerInv
<1>8. MessageInv(m)'
  BY <1>3, <1>4, <1>5 DEF MessageInv, Awaited
<1>9. tx' \in [Requests -> Tx] /\ net' \subseteq Message /\ Talk'
  BY <1>2, <1>3, <1>4, <1>6, <1>7, <1>8, ForwardStutter, SendStep DEF own, inventory
<1> QED
  BY <1>2, <1>9, TalkOnly

LEMMA SettleStep ==
  ASSUME Inv, NEW q \in Requests, NEW u \in Users, NEW s \in ShipmentIds,
         \/ Settle(q, u, s, "confirm", "commit")
         \/ Settle(q, u, s, "cancel", "release")
  PROVE  Inv'
<1> DEFINE r == shipment[s].reservation
<1>1. PICK op \in {"confirm", "cancel"} :
        /\ Settle(q, u, s, op, IF op = "confirm" THEN "commit" ELSE "release")
  OBVIOUS
<1>2. /\ tx[q].pc = "idle" /\ shipment[s].status = "PENDING"
      /\ UNCHANGED <<own, inventory>>
  BY <1>1 DEF Settle
<1>3. shipment[s].owner \in Users /\ r \in ReservationIds /\ reservation[r] # "free"
  BY <1>2, RowFields DEF Inv, TypeOK, StockInv
<1>4. PICK t \in Tx :
        /\ t.pc = "waiting" /\ t.op = op /\ t.id = s
        /\ t.owner = shipment[s].owner /\ t.reservation = r
        /\ tx' = [tx EXCEPT ![q] = t]
  <2> DEFINE new == [[Idle EXCEPT !.op = op, !.id = s, !.owner = shipment[s].owner,
                                  !.reservation = r] EXCEPT !.pc = "waiting"]
  <2>1. new \in Tx
    BY <1>3 DEF Idle, Tx, Codes
  <2>2. /\ new.pc = "waiting" /\ new.op = op /\ new.id = s
        /\ new.owner = shipment[s].owner /\ new.reservation = r
    BY DEF Idle
  <2>3. tx' = [tx EXCEPT ![q] = new]
    BY <1>1 DEF Settle, Call
  <2> QED
    BY <2>1, <2>2, <2>3
<1>5. PICK m \in Message :
        /\ m.op = (IF op = "confirm" THEN "commit" ELSE "release")
        /\ m.id = r /\ m.from = q /\ net' = net \cup {m}
  BY <1>1, <1>3 DEF Settle, Call, Message
<1>6. tx'[q] = t
  BY <1>4 DEF Inv, TypeOK
<1>7. HandlerInv(q)'
  BY <1>2, <1>3, <1>4, <1>6 DEF HandlerInv, own
<1>8. Recorded(m.id)' /\ reservation'[m.id] # "free" /\ m.id \in ReservationIds
  BY <1>2, <1>3, <1>5 DEF Recorded, own, inventory
<1>9. MessageInv(m)'
  BY <1>4, <1>5, <1>6, <1>8 DEF MessageInv, Awaited
<1>10. \A o \in Requests \ {q} : tx[o].op = "create" => tx[o].id # t.id
  BY <1>2, <1>4 DEF Inv, HandlerInv
<1>11. tx' \in [Requests -> Tx] /\ net' \subseteq Message /\ Talk'
  BY <1>2, <1>4, <1>5, <1>7, <1>9, <1>10, ForwardStutter, SendStep DEF own, inventory
<1> QED
  BY <1>2, <1>11, TalkOnly

(* The delete is decided on a terminal status, which a row never leaves. *)
LEMMA DeleteShipmentStep ==
  ASSUME Inv, NEW q \in Requests, NEW u \in Users, NEW s \in ShipmentIds,
         DeleteShipment(q, u, s)
  PROVE  Inv'
<1>1. /\ tx[q].pc = "idle" /\ shipment[s].status \in Done
      /\ UNCHANGED <<own, inventory, net>>
  BY DEF DeleteShipment, Deletable, Done
<1>2. PICK t \in Tx :
        /\ t.pc = "delete" /\ t.op = "delete" /\ t.id = s
        /\ tx' = [tx EXCEPT ![q] = t]
  BY DEF DeleteShipment, Idle, Tx, Codes
<1>3. tx'[q] = t
  BY <1>2 DEF Inv, TypeOK
<1>4. HandlerInv(q)'
  BY <1>1, <1>2, <1>3 DEF HandlerInv, own
<1>5. \A o \in Requests \ {q} : tx[o].op = "create" => tx[o].id # t.id
  BY <1>1, <1>2 DEF Inv, HandlerInv, Done, Terminal
<1>6. tx' \in [Requests -> Tx] /\ Talk'
  BY <1>1, <1>2, <1>4, <1>5, ForwardStutter, SilentStep DEF own, inventory
<1> QED
  BY <1>1, <1>6, TalkOnly DEF Inv, TypeOK

LEMMA GiveUpStep ==
  ASSUME Inv, NEW q \in Requests, ReserveFailed(q) \/ Compensated(q)
  PROVE  Inv'
<1>1. /\ tx[q].pc # "waiting" /\ Return(q) /\ UNCHANGED <<own, inventory, net>>
  BY DEF ReserveFailed, Compensated
<1>2. tx' \in [Requests -> Tx] /\ Talk'
  BY <1>1, ForwardStutter, ReturnStep DEF own, inventory
<1> QED
  BY <1>1, <1>2, TalkOnly DEF Inv, TypeOK

(* A step that writes shipments and nothing of Inventory's. *)
LEMMA ServiceWrites ==
  ASSUME Inv, Forward, UNCHANGED inventory,
         shipment' \in [ShipmentIds -> ShipmentRow],
         history' \in [ShipmentIds -> Seq(HistoryRow)],
         tx' \in [Requests -> Tx], net' \subseteq Message, Talk',
         \A s \in ShipmentIds : RowInv(s)',
         \A s \in ShipmentIds : shipment'[s].status # "free" =>
           reservation[shipment'[s].reservation] # "free"
  PROVE  Inv'
<1> USE DEF inventory
<1>1. TypeOK'
  BY DEF Inv, TypeOK
<1>2. ChargedIsRecorded'
  BY RecordedStays DEF Inv, TypeOK, ChargedIsRecorded
<1>3. StockInv'
  BY DEF Inv, StockInv
<1> QED
  BY <1>1, <1>2, <1>3 DEF Inv, Talk

(* What repository.Create leaves, for a reservation that is held. *)
LEMMA StoreStep ==
  ASSUME Inv, NEW q \in Requests, tx[q].pc = "answered", tx[q].op = "create",
         tx[q].code = "ok", Store(q), UNCHANGED inventory
  PROVE  /\ Forward
         /\ shipment' \in [ShipmentIds -> ShipmentRow]
         /\ history' \in [ShipmentIds -> Seq(HistoryRow)]
         /\ \A o \in Requests \ {q} : tx[o].op = "create" =>
              shipment'[tx[o].id] = shipment[tx[o].id]
         /\ \A s \in ShipmentIds : RowInv(s)'
         /\ \A s \in ShipmentIds : shipment'[s].status # "free" =>
              reservation[shipment'[s].reservation] # "free"
<1>1. PICK k \in ShipmentIds : k = tx[q].id
  BY DEF Inv, HandlerInv
<1>2. /\ shipment[k].status = "free" /\ tx[q].owner \in Users
      /\ tx[q].reservation \in ReservationIds
      /\ reservation[tx[q].reservation] # "free"
  BY <1>1 DEF Inv, HandlerInv
<1>3. PICK row \in ShipmentRow :
        /\ row.status = "PENDING" /\ row.reservation = tx[q].reservation
        /\ shipment' = [shipment EXCEPT ![k] = row]
  BY <1>1, <1>2, RowType DEF Store, Stored
<1>4. PICK h \in Seq(HistoryRow) :
        /\ h # <<>> /\ Last(h).to = "PENDING"
        /\ history' = [history EXCEPT ![k] = h]
  <2>1. PICK e \in HistoryRow : e = Entry("none", "PENDING", "none") /\ e.to = "PENDING"
    <3>1. "none" \in Stored \cup {"none"} /\ "PENDING" \in Stored /\ "none" \in Reasons
      BY DEF Stored, Reasons
    <3> QED
      BY <3>1, EntryType
  <2>2. <<e>> \in Seq(HistoryRow) /\ <<e>> # <<>> /\ Last(<<e>>) = e
    BY FirstHistory
  <2>3. history' = [history EXCEPT ![k] = <<e>>]
    BY <1>1, <2>1 DEF Store
  <2> QED
    BY <2>1, <2>2, <2>3
<1>5. /\ shipment'[k] = row /\ history'[k] = h
      /\ \A s \in ShipmentIds \ {k} :
           shipment'[s] = shipment[s] /\ history'[s] = history[s]
  BY <1>3, <1>4 DEF Inv, TypeOK
<1>6. Forward
  BY <1>2, <1>5 DEF Forward, Done, Terminal, NeverCharged, inventory
<1>7. RowInv(k)'
  BY <1>3, <1>4, <1>5 DEF RowInv, ShipmentExists, Stored
<1>8. \A s \in ShipmentIds : RowInv(s)'
  BY <1>5, <1>6, <1>7, RowKeeps
<1>9. \A o \in Requests \ {q} : tx[o].op = "create" =>
        shipment'[tx[o].id] = shipment[tx[o].id]
  BY <1>1, <1>5 DEF Inv, HandlerInv, Alone
<1>10. shipment' \in [ShipmentIds -> ShipmentRow] /\ history' \in [ShipmentIds -> Seq(HistoryRow)]
  BY <1>3, <1>4 DEF Inv, TypeOK
<1>11. \A s \in ShipmentIds : shipment'[s].status # "free" =>
         reservation[shipment'[s].reservation] # "free"
  BY <1>2, <1>3, <1>5 DEF Inv, StockInv
<1> QED
  BY <1>6, <1>8, <1>9, <1>10, <1>11

LEMMA PersistShipmentStep ==
  ASSUME Inv, NEW q \in Requests, PersistShipment(q)
  PROVE  Inv'
<1>1. /\ tx[q].pc = "answered" /\ tx[q].op = "create" /\ tx[q].code = "ok"
      /\ UNCHANGED inventory
  BY DEF PersistShipment, Succeeded
<1>2. CASE Store(q) /\ Return(q) /\ UNCHANGED net
  <2>1. tx' \in [Requests -> Tx] /\ Talk' /\ net' \subseteq Message
    BY <1>1, <1>2, StoreStep, ReturnStep DEF Inv, TypeOK
  <2> QED
    BY <1>1, <1>2, <2>1, StoreStep, ServiceWrites
<1>3. CASE /\ Store(q) \/ UNCHANGED own
           /\ Call(q, Compensation, tx[q].reservation, [Idle EXCEPT !.op = "compensate"])
  <2>1. Forward /\ \A o \in Requests \ {q} : tx[o].op = "create" =>
                     shipment'[tx[o].id] = shipment[tx[o].id]
    BY <1>1, <1>3, StoreStep, ForwardStutter DEF own, inventory
  <2>2. tx[q].reservation \in ReservationIds /\ reservation[tx[q].reservation] # "free"
    BY <1>1 DEF Inv, HandlerInv
  <2>3. PICK t \in Tx :
          /\ t.pc = "waiting" /\ t.op = "compensate" /\ t.id = NoId
          /\ tx' = [tx EXCEPT ![q] = t]
    BY <1>3 DEF Call, Idle, Tx, Codes
  <2>4. PICK m \in Message :
          /\ m.op = "release" /\ m.id = tx[q].reservation /\ m.from = q
          /\ net' = net \cup {m}
    BY <1>3, <2>2 DEF Call, Message, Compensation
  <2>5. tx'[q] = t
    BY <2>3 DEF Inv, TypeOK
  <2>6. HandlerInv(q)'
    BY <2>3, <2>5 DEF HandlerInv
  <2>7. MessageInv(m)'
    BY <1>1, <2>2, <2>3, <2>4, <2>5 DEF MessageInv, Awaited, inventory
  <2>8. \A o \in Requests \ {q} : tx[o].op = "create" => tx[o].id # t.id
    BY <2>3, MarkerAssumption DEF Inv, HandlerInv
  <2>9. tx' \in [Requests -> Tx] /\ net' \subseteq Message /\ Talk'
    BY <1>1, <2>1, <2>3, <2>4, <2>6, <2>7, <2>8, SendStep
  <2>10. CASE Store(q)
    BY <1>1, <2>9, <2>10, StoreStep, ServiceWrites
  <2>11. CASE UNCHANGED own
    BY <1>1, <2>9, <2>11, TalkOnly
  <2> QED
    BY <1>3, <2>10, <2>11
<1> QED
  BY <1>2, <1>3 DEF PersistShipment

(* What repository.Transition leaves: CONFIRMED when the commit has been
   acknowledged, cancelled by the user when the release has. *)
LEMMA TransitionStep ==
  ASSUME Inv, NEW q \in Requests, NEW to \in Terminal, NEW reason \in Reasons,
         tx[q].op \in {"confirm", "cancel"}, Transition(q, to, reason),
         to = "CONFIRMED" => tx[q].reservation \in charged,
         reason = "user_cancelled" => NeverCharged(tx[q].reservation),
         UNCHANGED inventory
  PROVE  /\ Forward
         /\ shipment' \in [ShipmentIds -> ShipmentRow]
         /\ history' \in [ShipmentIds -> Seq(HistoryRow)]
         /\ \A o \in Requests \ {q} : tx[o].op = "create" =>
              shipment'[tx[o].id] = shipment[tx[o].id]
         /\ \A s \in ShipmentIds : RowInv(s)'
         /\ \A s \in ShipmentIds : shipment'[s].status # "free" =>
              reservation[shipment'[s].reservation] # "free"
<1>1. PICK k \in ShipmentIds : k = tx[q].id
  BY DEF Inv, HandlerInv
<1>2. /\ shipment[k].status # "free" /\ tx[q].owner \in Users
      /\ tx[q].reservation = shipment[k].reservation
  BY <1>1 DEF Inv, HandlerInv
<1>3. tx[q].reservation \in ReservationIds
  BY <1>2, RowFields DEF Inv, TypeOK
<1>4. PICK row \in ShipmentRow :
        /\ row.status = to /\ row.reservation = shipment[k].reservation
        /\ shipment' = [shipment EXCEPT ![k] = row]
  BY <1>1, <1>2, <1>3, RowType DEF Transition, Stored
<1>5. PICK h \in Seq(HistoryRow) :
        /\ h # <<>> /\ Last(h).to = to /\ Last(h).reason = reason
        /\ history' = [history EXCEPT ![k] = h]
  <2>1. PICK e \in HistoryRow :
          /\ e.to = to /\ e.reason = reason
          /\ history' = [history EXCEPT ![k] = Append(history[k], e)]
    <3>1. PICK e \in HistoryRow :
            e = Entry("PENDING", to, reason) /\ e.to = to /\ e.reason = reason
      <4>1. "PENDING" \in Stored \cup {"none"} /\ to \in Stored
        BY DEF Stored
      <4> QED
        BY <4>1, EntryType
    <3>2. history' = [history EXCEPT ![k] = Append(history[k], e)]
      BY <1>1, <3>1 DEF Transition
    <3> QED
      BY <3>1, <3>2
  <2>2. history[k] \in Seq(HistoryRow)
    BY DEF Inv, TypeOK
  <2> QED
    BY <2>1, <2>2, AppendedHistory
<1>6. /\ shipment'[k] = row /\ history'[k] = h
      /\ \A s \in ShipmentIds \ {k} :
           shipment'[s] = shipment[s] /\ history'[s] = history[s]
  BY <1>4, <1>5 DEF Inv, TypeOK
<1>7. Forward
  BY <1>4, <1>6 DEF Forward, Done, Terminal, NeverCharged, inventory
<1>8. RowInv(k)'
  BY <1>2, <1>4, <1>5, <1>6
     DEF RowInv, ShipmentExists, Stored, Terminal, inventory, NeverCharged
<1>9. \A s \in ShipmentIds : RowInv(s)'
  BY <1>6, <1>7, <1>8, RowKeeps
<1>10. \A o \in Requests \ {q} : tx[o].op = "create" =>
         shipment'[tx[o].id] = shipment[tx[o].id]
  BY <1>1, <1>2, <1>6 DEF Inv, HandlerInv
<1>11. shipment' \in [ShipmentIds -> ShipmentRow] /\ history' \in [ShipmentIds -> Seq(HistoryRow)]
  BY <1>4, <1>5 DEF Inv, TypeOK
<1>12. \A s \in ShipmentIds : shipment'[s].status # "free" =>
         reservation[shipment'[s].reservation] # "free"
  BY <1>2, <1>4, <1>6 DEF Inv, StockInv
<1> QED
  BY <1>7, <1>9, <1>10, <1>11, <1>12

LEMMA RecordOutcomeStep ==
  ASSUME Inv, NEW q \in Requests, RecordOutcome(q)
  PROVE  Inv'
<1> DEFINE outcome == IF tx[q].op = "confirm" THEN ConfirmOutcome(tx[q].code)
                                              ELSE CancelOutcome(tx[q].code)
<1>1. /\ tx[q].pc = "answered" /\ tx[q].op \in {"confirm", "cancel"}
      /\ Return(q) /\ UNCHANGED <<inventory, net>>
  BY DEF RecordOutcome
<1>2. CASE UNCHANGED own
  <2>1. tx' \in [Requests -> Tx] /\ Talk'
    BY <1>1, <1>2, ForwardStutter, ReturnStep DEF own, inventory
  <2> QED
    BY <1>1, <1>2, <2>1, TalkOnly DEF Inv, TypeOK
<1>3. CASE outcome.to # "PENDING" /\ Transition(q, outcome.to, outcome.reason)
  <2>1. PICK to \in Terminal, reason \in Reasons :
          /\ Transition(q, to, reason)
          /\ to = "CONFIRMED" => tx[q].op = "confirm" /\ tx[q].code = "ok"
          /\ reason = "user_cancelled" => tx[q].op = "cancel" /\ tx[q].code = "ok"
    BY <1>1, <1>3 DEF ConfirmOutcome, CancelOutcome, Entry, Terminal, Reasons
  <2>2. /\ to = "CONFIRMED" => tx[q].reservation \in charged
        /\ reason = "user_cancelled" => NeverCharged(tx[q].reservation)
    BY <1>1, <2>1 DEF Inv, HandlerInv
  <2>3. tx' \in [Requests -> Tx] /\ Talk' /\ net' \subseteq Message
    BY <1>1, <2>1, <2>2, TransitionStep, ReturnStep DEF Inv, TypeOK
  <2> QED
    BY <1>1, <2>1, <2>2, <2>3, TransitionStep, ServiceWrites
<1> QED
  BY <1>2, <1>3 DEF RecordOutcome

(* What the deletes leave: they remove terminal shipments only. *)
LEMMA RemoveStep ==
  ASSUME Inv, NEW S \in SUBSET ShipmentIds, RemoveRows(S), UNCHANGED inventory,
         \A s \in S : shipment[s].status \in Terminal
  PROVE  /\ Forward
         /\ shipment' \in [ShipmentIds -> ShipmentRow]
         /\ history' \in [ShipmentIds -> Seq(HistoryRow)]
         /\ \A o \in Requests : tx[o].op = "create" =>
              shipment'[tx[o].id] = shipment[tx[o].id]
         /\ \A s \in ShipmentIds : RowInv(s)'
         /\ \A s \in ShipmentIds : shipment'[s].status # "free" =>
              reservation[shipment'[s].reservation] # "free"
<1>1. ASSUME NEW s \in S
      PROVE  /\ shipment'[s] \in ShipmentRow
             /\ shipment'[s].status = "deleted"
             /\ shipment'[s].reservation = shipment[s].reservation
             /\ history'[s] = <<>>
  <2>1. /\ shipment'[s] = [shipment[s] EXCEPT !.status = "deleted"]
        /\ history'[s] = <<>>
    BY DEF RemoveRows
  <2>2. shipment[s] \in ShipmentRow /\ shipment[s].status # "free"
    BY DEF Inv, TypeOK, Terminal
  <2>3. shipment[s] \in [status: Stored \cup {"deleted"}, owner: Users,
                         reservation: ReservationIds]
    BY <2>2 DEF ShipmentRow, FreeRow
  <2> QED
    BY <2>1, <2>3 DEF ShipmentRow
<1>2. \A s \in ShipmentIds \ S : shipment'[s] = shipment[s] /\ history'[s] = history[s]
  BY DEF RemoveRows
<1>3. Forward
  BY <1>1, <1>2 DEF Forward, Done, Terminal, NeverCharged, inventory
<1>4. ASSUME NEW s \in S PROVE RowInv(s)'
  BY <1>1 DEF RowInv, ShipmentExists, Stored, Terminal
<1>5. \A s \in ShipmentIds : RowInv(s)'
  BY <1>2, <1>3, <1>4, RowKeeps
<1>6. \A o \in Requests : tx[o].op = "create" =>
        shipment'[tx[o].id] = shipment[tx[o].id]
  BY <1>2 DEF Inv, HandlerInv, Terminal
<1>7. shipment' \in [ShipmentIds -> ShipmentRow]
  <2>1. \A s \in ShipmentIds : shipment'[s] \in ShipmentRow
    BY <1>1, <1>2 DEF Inv, TypeOK
  <2> QED
    BY <2>1 DEF RemoveRows
<1>8. history' \in [ShipmentIds -> Seq(HistoryRow)]
  <2>1. \A s \in ShipmentIds : history'[s] \in Seq(HistoryRow)
    <3>1. <<>> \in Seq(HistoryRow)
      OBVIOUS
    <3> QED
      BY <1>1, <1>2, <3>1 DEF Inv, TypeOK
  <2> QED
    BY <2>1 DEF RemoveRows
<1>9. \A s \in ShipmentIds : shipment'[s].status # "free" =>
        reservation[shipment'[s].reservation] # "free"
  BY <1>1, <1>2 DEF Inv, StockInv, Terminal
<1> QED
  BY <1>3, <1>5, <1>6, <1>7, <1>8, <1>9

LEMMA DeleteRowStep ==
  ASSUME Inv, NEW q \in Requests, DeleteRow(q)
  PROVE  Inv'
<1>1. /\ tx[q].pc = "delete" /\ Return(q) /\ UNCHANGED <<inventory, net>>
  BY DEF DeleteRow
<1>2. CASE UNCHANGED own
  <2>1. tx' \in [Requests -> Tx] /\ Talk'
    BY <1>1, <1>2, ForwardStutter, ReturnStep DEF own, inventory
  <2> QED
    BY <1>1, <1>2, <2>1, TalkOnly DEF Inv, TypeOK
<1>3. CASE RemoveRows({tx[q].id} \cap {s \in ShipmentIds : ShipmentExists(s)})
  <2>1. PICK S \in SUBSET ShipmentIds :
          S = {tx[q].id} \cap {s \in ShipmentIds : ShipmentExists(s)}
    OBVIOUS
  <2>2. \A s \in S : shipment[s].status \in Terminal
    BY <1>1, <2>1 DEF Inv, HandlerInv, ShipmentExists, Stored, Done, Terminal
  <2>3. tx' \in [Requests -> Tx] /\ Talk' /\ net' \subseteq Message
    BY <1>1, <1>3, <2>1, <2>2, RemoveStep, ReturnStep DEF Inv, TypeOK
  <2> QED
    BY <1>1, <1>3, <2>1, <2>2, <2>3, RemoveStep, ServiceWrites
<1> QED
  BY <1>2, <1>3 DEF DeleteRow

(* Nothing is said on the net, and no handler takes a step. *)
LEMMA QuietStep ==
  ASSUME Inv, Forward, UNCHANGED <<tx, net>>,
         \A o \in Requests : tx[o].op = "create" =>
           shipment'[tx[o].id] = shipment[tx[o].id]
  PROVE  tx' \in [Requests -> Tx] /\ net' \subseteq Message /\ Talk'
<1>1. ASSUME NEW q \in Requests PROVE HandlerInv(q)'
  BY HandlerKeeps
<1>2. ASSUME NEW m \in net PROVE MessageInv(m)'
  BY MessageKeeps DEF Like
<1>3. Alone'
  BY DEF Inv, Alone
<1> QED
  BY <1>1, <1>2, <1>3 DEF Talk, Inv, TypeOK

LEMMA PurgeShipmentsStep ==
  ASSUME Inv, NEW old \in SUBSET ShipmentIds, PurgeShipments(old)
  PROVE  Inv'
<1>1. PICK S \in SUBSET ShipmentIds : S = {s \in old : shipment[s].status \in Terminal}
  OBVIOUS
<1>2. RemoveRows(S) /\ UNCHANGED <<inventory, net, tx>>
  BY <1>1 DEF PurgeShipments
<1>3. \A s \in S : shipment[s].status \in Terminal
  BY <1>1
<1>4. tx' \in [Requests -> Tx] /\ net' \subseteq Message /\ Talk'
  BY <1>2, <1>3, RemoveStep, QuietStep
<1> QED
  BY <1>2, <1>3, <1>4, RemoveStep, ServiceWrites

(* A handler that times out knows only that it does not know. *)
LEMMA TimeoutStep ==
  ASSUME Inv, NEW q \in Requests, Timeout(q)
  PROVE  Inv'
<1>1. tx[q].pc = "waiting" /\ Abandon(q) /\ UNCHANGED <<own, inventory>>
  BY DEF Timeout
<1>2. tx[q] \in Tx /\ HandlerInv(q)
  BY DEF Inv, TypeOK
<1>3. PICK t \in Tx :
        /\ t.pc = "answered" /\ t.code = "DEPENDENCY_UNAVAILABLE"
        /\ t.op = tx[q].op /\ t.id = tx[q].id /\ t.owner = tx[q].owner
        /\ t.reservation = tx[q].reservation
        /\ tx' = [tx EXCEPT ![q] = t]
  <2> DEFINE new == [tx[q] EXCEPT !.pc = "answered", !.code = "DEPENDENCY_UNAVAILABLE"]
  <2>1. new \in Tx
    BY <1>2 DEF Tx, Codes
  <2>2. /\ new.pc = "answered" /\ new.code = "DEPENDENCY_UNAVAILABLE"
        /\ new.op = tx[q].op /\ new.id = tx[q].id /\ new.owner = tx[q].owner
        /\ new.reservation = tx[q].reservation
    BY <1>2 DEF Tx
  <2>3. tx' = [tx EXCEPT ![q] = new]
    BY DEF Timeout
  <2> QED
    BY <2>1, <2>2, <2>3
<1>4. tx'[q] = t
  BY <1>3 DEF Inv, TypeOK
<1>5. HandlerInv(q)'
  <2>1. t.op # "none" /\ t.op # "delete"
    BY <1>1, <1>2, <1>3 DEF HandlerInv
  <2>2. t.code # "ok" /\ t.pc = "answered"
    BY <1>3
  <2>3. t.op = "create" =>
          /\ t.id \in ShipmentIds /\ t.owner \in Users
          /\ shipment'[t.id].status = "free"
    BY <1>1, <1>2, <1>3 DEF HandlerInv, own
  <2>4. t.op \in {"confirm", "cancel"} =>
          /\ t.id \in ShipmentIds /\ t.owner \in Users
          /\ shipment'[t.id].status # "free"
          /\ t.reservation = shipment'[t.id].reservation
    BY <1>1, <1>2, <1>3 DEF HandlerInv, own
  <2> QED
    BY <1>4, <2>1, <2>2, <2>3, <2>4 DEF HandlerInv
<1>6. \A o \in Requests \ {q} : tx[o].op = "create" => tx[o].id # t.id
  BY <1>3 DEF Inv, Alone
<1>7. t.op = "create" => \A o \in Requests \ {q} : tx[o].id # t.id
  BY <1>3 DEF Inv, Alone
<1>8. tx' \in [Requests -> Tx] /\ net' \subseteq Message /\ Talk'
  BY <1>1, <1>3, <1>5, <1>6, <1>7, ForwardStutter, AbandonStep DEF own, inventory
<1> QED
  BY <1>1, <1>8, TalkOnly

LEMMA CrashStep ==
  ASSUME Inv, NEW q \in Requests, Crash(q)
  PROVE  Inv'
<1>1. /\ Abandon(q) /\ tx' = [tx EXCEPT ![q] = Idle] /\ UNCHANGED <<own, inventory>>
  BY DEF Crash, Return
<1>2. tx'[q] = Idle
  BY <1>1 DEF Inv, TypeOK
<1>3. HandlerInv(q)'
  BY <1>2, IdleType DEF HandlerInv
<1>4. \A o \in Requests \ {q} : tx[o].op = "create" => tx[o].id # Idle.id
  BY IdleType, MarkerAssumption DEF Inv, HandlerInv
<1>5. tx' \in [Requests -> Tx] /\ net' \subseteq Message /\ Talk'
  BY <1>1, <1>3, <1>4, IdleType, ForwardStutter, AbandonStep DEF own, inventory
<1> QED
  BY <1>1, <1>5, TalkOnly
-----------------------------------------------------------------------------
(* Inventory *)

LEMMA ReceiveCommitStep ==
  ASSUME Inv, NEW m \in net, ReceiveCommit(m)
  PROVE  Inv'
<1>1. UNCHANGED <<own, inventory, tx>> /\ Forward
  BY ForwardStutter DEF ReceiveCommit, own, inventory
<1>2. m \in Message
  BY DEF Inv, TypeOK
<1>3. PICK n \in Message :
        /\ n.op = m.op /\ n.id = m.id /\ n.from = m.from
        /\ net' = (net \ {m}) \cup {n}
  <2> DEFINE new == [m EXCEPT !.inTime = IF m.id \in expired THEN "no" ELSE "yes"]
  <2>1. new \in Message /\ new.op = m.op /\ new.id = m.id /\ new.from = m.from
    BY <1>2 DEF Message
  <2>2. net' = (net \ {m}) \cup {new}
    BY DEF ReceiveCommit
  <2> QED
    BY <2>1, <2>2
<1>4. ASSUME NEW q \in Requests PROVE HandlerInv(q)'
  BY <1>1, HandlerKeeps DEF own
<1>5. ASSUME NEW k \in net' PROVE MessageInv(k)'
  <2>1. PICK l \in net : Like(k, l)
    BY <1>3 DEF Like
  <2> QED
    BY <1>1, <2>1, MessageKeeps
<1>6. Alone'
  BY <1>1, <1>3 DEF Inv, Alone
<1>7. tx' \in [Requests -> Tx] /\ net' \subseteq Message /\ Talk'
  BY <1>1, <1>3, <1>4, <1>5, <1>6 DEF Talk, Inv, TypeOK
<1> QED
  BY <1>1, <1>7, TalkOnly

(* The hold is made, whether or not anybody hears of it. *)
LEMMA ExecuteReserveStep ==
  ASSUME Inv, NEW m \in net, ExecuteReserve(m)
  PROVE  Inv'
<1>1. m.op = "reserve" /\ UNCHANGED <<own, expired, charged>>
  BY DEF ExecuteReserve
<1>2. CASE /\ \E code \in {"NOT_FOUND", "INSUFFICIENT_STOCK"} : Respond(m, code)
           /\ UNCHANGED reservation
  <2>1. PICK code \in Codes : code # "ok" /\ Respond(m, code)
    BY <1>2 DEF Codes
  <2>2. UNCHANGED inventory
    BY <1>1, <1>2 DEF inventory
  <2>3. tx' \in [Requests -> Tx] /\ net' \subseteq Message /\ Talk'
    BY <1>1, <1>2, <2>1, ForwardStutter, RespondStep DEF own
  <2> QED
    BY <1>1, <2>2, <2>3, TalkOnly
<1>3. ASSUME NEW r \in ReservationIds,
             reservation[r] = "free",
             reservation' = [reservation EXCEPT ![r] = "PENDING"],
             net' = net \ {m},
             IF m.from = Nobody THEN UNCHANGED tx
             ELSE \/ tx' = [tx EXCEPT ![m.from].pc = "answered",
                                      ![m.from].reservation = r]
                  \/ tx' = [tx EXCEPT ![m.from].pc = "answered",
                                      ![m.from].code = "DEPENDENCY_UNAVAILABLE"]
      PROVE  Inv'
  <2>1. /\ reservation'[r] = "PENDING"
        /\ \A o \in ReservationIds \ {r} : reservation'[o] = reservation[o]
        /\ reservation' \in [ReservationIds ->
             {"free", "PENDING", "COMMITTED", "RELEASED", "deleted"}]
    BY <1>3 DEF Inv, TypeOK
  <2>2. Forward
    BY <1>1, <1>3, <2>1 DEF Forward, NeverCharged, own
  <2>3. m.from = Nobody =>
          tx' \in [Requests -> Tx] /\ net' \subseteq Message /\ Talk'
    BY <1>1, <1>3, <2>2, LostStep DEF own
  <2>4. m.from # Nobody =>
          tx' \in [Requests -> Tx] /\ net' \subseteq Message /\ Talk'
    <3> SUFFICES ASSUME m.from # Nobody
                 PROVE  tx' \in [Requests -> Tx] /\ net' \subseteq Message /\ Talk'
      OBVIOUS
    <3>1. PICK q \in Requests : q = m.from
      BY MessageFields DEF Inv, TypeOK
    <3>2. tx[q] \in Tx /\ HandlerInv(q) /\ tx[q].op = "create"
      BY <1>1, <3>1 DEF Inv, TypeOK, MessageInv, Awaited
    <3>3. PICK t \in Tx :
            /\ t.pc = "answered" /\ t.op = tx[q].op /\ t.id = tx[q].id
            /\ t.owner = tx[q].owner
            /\ t.reservation = r \/ t.code = "DEPENDENCY_UNAVAILABLE"
            /\ tx' = [tx EXCEPT ![q] = t]
      <4>1. CASE tx' = [tx EXCEPT ![q].pc = "answered", ![q].reservation = r]
        <5> DEFINE new == [tx[q] EXCEPT !.pc = "answered", !.reservation = r]
        <5>1. /\ new \in Tx /\ new.pc = "answered" /\ new.op = tx[q].op
              /\ new.id = tx[q].id /\ new.owner = tx[q].owner /\ new.reservation = r
          BY <3>2 DEF Tx
        <5>2. tx' = [tx EXCEPT ![q] = new]
          BY <4>1
        <5> QED
          BY <5>1, <5>2
      <4>2. CASE tx' = [tx EXCEPT ![q].pc = "answered",
                                  ![q].code = "DEPENDENCY_UNAVAILABLE"]
        <5> DEFINE new == [tx[q] EXCEPT !.pc = "answered",
                                        !.code = "DEPENDENCY_UNAVAILABLE"]
        <5>1. /\ new \in Tx /\ new.pc = "answered" /\ new.op = tx[q].op
              /\ new.id = tx[q].id /\ new.owner = tx[q].owner
              /\ new.code = "DEPENDENCY_UNAVAILABLE"
          BY <3>2 DEF Tx, Codes
        <5>2. tx' = [tx EXCEPT ![q] = new]
          BY <4>2
        <5> QED
          BY <5>1, <5>2
      <4> QED
        BY <1>3, <3>1, <4>1, <4>2
    <3>4. tx'[q] = t
      BY <3>3 DEF Inv, TypeOK
    <3>5. HandlerInv(q)'
      BY <1>1, <2>1, <3>2, <3>3, <3>4 DEF HandlerInv, own
    <3> QED
      BY <1>1, <1>3, <2>2, <3>1, <3>3, <3>5, AnswerStep DEF own
  <2>5. \A o \in ReservationIds : reservation'[o] = "COMMITTED" => o \in charged'
    BY <1>1, <2>1 DEF Inv, StockInv
  <2>6. \A o \in charged' : reservation'[o] \in {"COMMITTED", "deleted"} /\ Recorded(o)
    BY <1>1, <1>3, <2>1 DEF Inv, TypeOK, StockInv, ChargedIsRecorded
  <2> QED
    BY <1>1, <2>1, <2>2, <2>3, <2>4, <2>5, <2>6, ServiceIdle DEF Inv, TypeOK
<1> QED
  BY <1>2, <1>3 DEF ExecuteReserve

(* Reservation r leaves PENDING, or a purge deletes it; a charge is for the
   reservation of a recorded shipment. *)
LEMMA ReservationStep ==
  ASSUME Inv, UNCHANGED own, NEW r \in ReservationIds, reservation[r] # "free",
         NEW status \in {"COMMITTED", "RELEASED", "deleted"},
         reservation' = [reservation EXCEPT ![r] = status],
         charged' = IF status = "COMMITTED" THEN charged \cup {r} ELSE charged,
         status # "deleted" => reservation[r] = "PENDING",
         status = "COMMITTED" => Recorded(r)
  PROVE  /\ Forward
         /\ reservation'[r] = status
         /\ reservation' \in [ReservationIds ->
              {"free", "PENDING", "COMMITTED", "RELEASED", "deleted"}]
         /\ charged' \subseteq ReservationIds
         /\ status # "deleted" => r \notin charged
         /\ \A o \in ReservationIds : reservation'[o] = "COMMITTED" => o \in charged'
         /\ \A o \in charged' : reservation'[o] \in {"COMMITTED", "deleted"} /\ Recorded(o)
<1>1. /\ reservation'[r] = status
      /\ \A o \in ReservationIds \ {r} : reservation'[o] = reservation[o]
      /\ reservation' \in [ReservationIds ->
           {"free", "PENDING", "COMMITTED", "RELEASED", "deleted"}]
  BY DEF Inv, TypeOK
<1>2. charged' \subseteq ReservationIds /\ charged \subseteq charged'
  BY DEF Inv, TypeOK
<1>3. status # "deleted" => r \notin charged
  BY DEF Inv, StockInv
<1>4. \A o \in ReservationIds : NeverCharged(o) => NeverCharged(o)'
  BY <1>1 DEF NeverCharged
<1>5. Forward
  BY <1>1, <1>2, <1>4 DEF Forward, own
<1>6. \A o \in ReservationIds : reservation'[o] = "COMMITTED" => o \in charged'
  BY <1>1, <1>2 DEF Inv, StockInv
<1>7. \A o \in charged' : reservation'[o] \in {"COMMITTED", "deleted"} /\ Recorded(o)
  <2>1. ASSUME NEW o \in charged PROVE reservation'[o] \in {"COMMITTED", "deleted"}
    BY <1>1, <1>3 DEF Inv, TypeOK, StockInv
  <2>2. \A o \in charged : Recorded(o)
    BY DEF Inv, ChargedIsRecorded
  <2> QED
    BY <1>1, <2>1, <2>2
<1> QED
  BY <1>1, <1>2, <1>3, <1>5, <1>6, <1>7

LEMMA ExecuteCommitStep ==
  ASSUME Inv, NEW m \in net, ExecuteCommit(m)
  PROVE  Inv'
<1>1. m.op = "commit" /\ UNCHANGED <<own, expired>>
  BY DEF ExecuteCommit
<1>2. /\ m.id \in ReservationIds /\ reservation[m.id] # "free" /\ Recorded(m.id)
  BY <1>1 DEF Inv, MessageInv
<1>3. CASE /\ reservation[m.id] = "PENDING"
           /\ reservation' = [reservation EXCEPT ![m.id] = "COMMITTED"]
           /\ charged' = charged \cup {m.id}
           /\ Respond(m, "ok")
  <2>1. PICK r \in ReservationIds : r = m.id
    BY <1>2
  <2>2. /\ Forward
        /\ reservation' \in [ReservationIds ->
              {"free", "PENDING", "COMMITTED", "RELEASED", "deleted"}]
        /\ charged' \subseteq ReservationIds
        /\ \A o \in ReservationIds : reservation'[o] = "COMMITTED" => o \in charged'
        /\ \A o \in charged' : reservation'[o] \in {"COMMITTED", "deleted"} /\ Recorded(o)
    <3>1. PICK status \in {"COMMITTED", "RELEASED", "deleted"} : status = "COMMITTED"
      OBVIOUS
    <3> QED
      BY <1>1, <1>2, <1>3, <2>1, <3>1, ReservationStep
  <2>3. PICK code \in Codes : code = "ok"
    BY DEF Codes
  <2>4. tx' \in [Requests -> Tx] /\ net' \subseteq Message /\ Talk'
    BY <1>1, <1>3, <2>2, <2>3, RespondStep DEF own
  <2> QED
    BY <1>1, <2>2, <2>4, ServiceIdle DEF Inv, TypeOK
<1>4. CASE /\ \E code \in Codes :
                Respond(m, code) /\ (code = "ok" => reservation[m.id] = "COMMITTED")
           /\ UNCHANGED <<reservation, charged>>
  <2>1. PICK code \in Codes :
          Respond(m, code) /\ (code = "ok" => reservation[m.id] = "COMMITTED")
    BY <1>4
  <2>2. code = "ok" => m.id \in charged'
    BY <1>2, <1>4, <2>1 DEF Inv, StockInv
  <2>3. tx' \in [Requests -> Tx] /\ net' \subseteq Message /\ Talk'
    BY <1>1, <1>4, <2>1, <2>2, ForwardStutter, RespondStep DEF own
  <2> QED
    BY <1>1, <1>4, <2>3, TalkOnly DEF inventory
<1> QED
  BY <1>1, <1>3, <1>4 DEF ExecuteCommit, Codes

LEMMA ExecuteReleaseStep ==
  ASSUME Inv, NEW m \in net, ExecuteRelease(m)
  PROVE  Inv'
<1>1. m.op = "release" /\ UNCHANGED <<own, expired, charged>>
  BY DEF ExecuteRelease
<1>2. PICK r \in ReservationIds : r = m.id /\ reservation[r] # "free"
  BY <1>1 DEF Inv, MessageInv
<1>3. PICK code \in Codes :
        /\ Respond(m, code)
        /\ code = "ok" => reservation[r] \notin {"deleted", "COMMITTED"}
  BY <1>2 DEF ExecuteRelease, Codes
<1>4. reservation[r] \in {"PENDING", "COMMITTED", "RELEASED", "deleted"}
  BY <1>2 DEF Inv, TypeOK
<1>5. /\ Forward
      /\ reservation' \in [ReservationIds ->
           {"free", "PENDING", "COMMITTED", "RELEASED", "deleted"}]
      /\ \A o \in ReservationIds : reservation'[o] = "COMMITTED" => o \in charged'
      /\ \A o \in charged' : reservation'[o] \in {"COMMITTED", "deleted"} /\ Recorded(o)
      /\ code = "ok" => NeverCharged(r)'
  <2>1. CASE reservation[r] = "PENDING"
    <3>1. PICK status \in {"COMMITTED", "RELEASED", "deleted"} : status = "RELEASED"
      OBVIOUS
    <3>2. reservation' = [reservation EXCEPT ![r] = status]
      BY <1>2, <2>1, <3>1 DEF ExecuteRelease
    <3> QED
      BY <1>1, <1>2, <2>1, <3>1, <3>2, ReservationStep DEF NeverCharged
  <2>2. CASE reservation[r] # "PENDING"
    <3>1. UNCHANGED reservation
      BY <1>2, <2>2 DEF ExecuteRelease
    <3>2. Forward
      BY <1>1, <3>1, ForwardStutter DEF own
    <3>3. code = "ok" => NeverCharged(r)'
      BY <1>1, <1>3, <1>4, <2>2, <3>1 DEF NeverCharged, Inv, StockInv
    <3> QED
      BY <1>1, <3>1, <3>2, <3>3 DEF Inv, TypeOK, StockInv, ChargedIsRecorded
  <2> QED
    BY <2>1, <2>2
<1>6. code = "ok" => NeverCharged(m.id)'
  BY <1>2, <1>5 DEF NeverCharged
<1>7. tx' \in [Requests -> Tx] /\ net' \subseteq Message /\ Talk'
  BY <1>1, <1>3, <1>5, <1>6, RespondStep DEF own
<1> QED
  BY <1>1, <1>5, <1>7, ServiceIdle DEF Inv, TypeOK

LEMMA RefuseStep ==
  ASSUME Inv, NEW m \in net, Refuse(m)
  PROVE  Inv'
<1>1. UNCHANGED <<own, inventory>>
  BY DEF Refuse
<1>2. PICK code \in Codes : code # "ok" /\ Respond(m, code)
  BY DEF Refuse, Codes
<1>3. tx' \in [Requests -> Tx] /\ net' \subseteq Message /\ Talk'
  BY <1>1, <1>2, ForwardStutter, RespondStep DEF own, inventory
<1> QED
  BY <1>1, <1>3, TalkOnly

LEMMA ExpireStep ==
  ASSUME Inv, NEW r \in ReservationIds, Expire(r)
  PROVE  Inv'
<1>1. UNCHANGED <<own, reservation, charged, net, tx>> /\ expired' \subseteq ReservationIds
  BY DEF Expire, Inv, TypeOK
<1>2. Forward
  BY <1>1, ForwardStutter DEF own
<1>3. tx' \in [Requests -> Tx] /\ net' \subseteq Message /\ Talk'
  BY <1>1, <1>2, QuietStep DEF own
<1> QED
  BY <1>1, <1>2, <1>3, ServiceIdle DEF Inv, TypeOK, StockInv, ChargedIsRecorded

(* The sweep takes r away. *)
LEMMA PurgeReservationStep ==
  ASSUME Inv, NEW r \in ReservationIds, PurgeReservation(r)
  PROVE  Inv'
<1>1. /\ UNCHANGED <<own, expired, charged, net, tx>>
      /\ reservation[r] # "free"
  BY DEF PurgeReservation
<1>2. PICK status \in {"COMMITTED", "RELEASED", "deleted"} : status = "deleted"
  OBVIOUS
<1>3. reservation' = [reservation EXCEPT ![r] = status]
  BY <1>2 DEF PurgeReservation
<1>4. /\ Forward
      /\ reservation' \in [ReservationIds ->
           {"free", "PENDING", "COMMITTED", "RELEASED", "deleted"}]
      /\ \A o \in ReservationIds : reservation'[o] = "COMMITTED" => o \in charged'
      /\ \A o \in charged' : reservation'[o] \in {"COMMITTED", "deleted"} /\ Recorded(o)
  BY <1>1, <1>2, <1>3, ReservationStep
<1>5. tx' \in [Requests -> Tx] /\ net' \subseteq Message /\ Talk'
  BY <1>1, <1>4, QuietStep DEF own
<1> QED
  BY <1>1, <1>4, <1>5, ServiceIdle DEF Inv, TypeOK

(* The owner of r sends Inventory a call that no handler awaits. *)
LEMMA SettleDirectlyStep ==
  ASSUME Inv, NEW r \in ReservationIds, SettleDirectly(r)
  PROVE  Inv'
<1>1. UNCHANGED <<own, inventory, tx>> /\ Forward
  BY ForwardStutter DEF SettleDirectly, own, inventory
<1>2. PICK m \in Message :
        /\ m.op # "reserve" /\ m.id = r /\ m.from = Nobody
        /\ net' = net \cup {m}
  <2>1. PICK op \in {"commit", "release"} :
          net' = net \cup {[op |-> op, id |-> r, from |-> Nobody, inTime |-> "unread"]}
    BY DEF SettleDirectly
  <2>2. [op |-> op, id |-> r, from |-> Nobody, inTime |-> "unread"] \in Message
    BY DEF Message
  <2> QED
    BY <2>1, <2>2
<1>3. Recorded(r) /\ reservation[r] # "free"
  BY DEF SettleDirectly, Recorded, Inv, StockInv
<1>4. ASSUME NEW q \in Requests PROVE HandlerInv(q)'
  BY <1>1, HandlerKeeps DEF own
<1>5. ASSUME NEW k \in net' PROVE MessageInv(k)'
  <2>1. CASE k \in net
    BY <1>1, <2>1, MessageKeeps DEF Like
  <2>2. CASE k = m
    BY <1>1, <1>2, <1>3, <2>2, RecordedStays DEF MessageInv, Forward
  <2> QED
    BY <1>2, <2>1, <2>2
<1>6. Alone'
  BY <1>1, <1>2 DEF Inv, Alone
<1>7. tx' \in [Requests -> Tx] /\ net' \subseteq Message /\ Talk'
  BY <1>1, <1>2, <1>4, <1>5, <1>6 DEF Talk, Inv, TypeOK
<1> QED
  BY <1>1, <1>7, TalkOnly
-----------------------------------------------------------------------------
LEMMA InvNext == Inv /\ [Next]_vars => Inv'
<1> SUFFICES ASSUME Inv, [Next]_vars PROVE Inv'
  OBVIOUS
<1>1. ASSUME NEW q \in Requests, Arrive(q) PROVE Inv'
  BY <1>1, CreateShipmentStep, SettleStep, DeleteShipmentStep
     DEF Arrive, ConfirmShipment, CancelShipment
<1>2. ASSUME NEW q \in Requests, Proceed(q) PROVE Inv'
  BY <1>2, GiveUpStep, PersistShipmentStep, RecordOutcomeStep, DeleteRowStep
     DEF Proceed
<1>3. ASSUME NEW m \in net, Execute(m) PROVE Inv'
  BY <1>3, ReceiveCommitStep, ExecuteReserveStep, ExecuteCommitStep,
     ExecuteReleaseStep, RefuseStep DEF Execute
<1>4. CASE UNCHANGED vars
  <2>1. UNCHANGED <<own, inventory, net, tx>>
    BY <1>4 DEF vars, own, inventory
  <2>2. tx' \in [Requests -> Tx] /\ net' \subseteq Message /\ Talk'
    BY <2>1, ForwardStutter, QuietStep DEF own, inventory
  <2> QED
    BY <2>1, <2>2, TalkOnly
<1> QED
  BY <1>1, <1>2, <1>3, <1>4, TimeoutStep, CrashStep, ExpireStep, PurgeReservationStep,
     SettleDirectlyStep, PurgeShipmentsStep DEF Next

(* The inductive invariant holds at every step. *)
THEOREM InvAlways == Spec => []Inv
BY InvInit, InvNext, PTL DEF Spec

(* Every variable of the service, of the net and of Inventory keeps its type. *)
THEOREM TypeCorrect == Spec => []TypeOK
<1>1. Inv => TypeOK
  BY DEF Inv
<1> QED
  BY <1>1, InvAlways, PTL

(* However many confirms, retries, timeouts, crashes and lost answers it took,
   a CONFIRMED shipment has been charged for (ConfirmShipment). *)
THEOREM ConfirmedWasChargedAlways == Spec => []ConfirmedWasCharged
<1>1. Inv => ConfirmedWasCharged
  BY DEF Inv, RowInv, ConfirmedWasCharged
<1> QED
  BY <1>1, InvAlways, PTL

(* A shipment that its user cancelled is never charged for (CancelShipment). *)
THEOREM UserCancelledNeverChargedAlways == Spec => []UserCancelledNeverCharged
<1>1. Inv => UserCancelledNeverCharged
  BY DEF Inv, RowInv, UserCancelledNeverCharged, NeverCharged
<1> QED
  BY <1>1, InvAlways, PTL

(* Nothing is charged for without a recorded shipment (CreateShipment). *)
THEOREM ChargedIsRecordedAlways == Spec => []ChargedIsRecorded
<1>1. Inv => ChargedIsRecorded
  BY DEF Inv
<1> QED
  BY <1>1, InvAlways, PTL

(* The history ends with the status of the row (repository Create, Transition
   and the deletes). *)
THEOREM HistoryTellsStatusAlways == Spec => []HistoryTellsStatus
<1>1. Inv => HistoryTellsStatus
  BY DEF Inv, RowInv, HistoryTellsStatus
<1> QED
  BY <1>1, InvAlways, PTL

(* No delete removes a PENDING shipment, though it acts on what the handler
   has read before (DeleteShipment, PurgeTerminalBefore). *)
THEOREM PendingNeverDeletedAlways == Spec => PendingNeverDeleted
<1> DEFINE Keeps == \A s \in ShipmentIds :
              shipment[s].status = "PENDING" => ShipmentExists(s)'
<1>1. Inv /\ [Next]_vars => Keeps
  <2> SUFFICES ASSUME Inv, [Next]_vars, NEW s \in ShipmentIds,
                      shipment[s].status = "PENDING"
               PROVE  ShipmentExists(s)'
    OBVIOUS
  <2>1. ShipmentExists(s)
    BY DEF ShipmentExists, Stored
  <2>2. CASE UNCHANGED shipment
    BY <2>1, <2>2 DEF ShipmentExists
  <2>3. ASSUME NEW q \in Requests, NEW status \in Stored,
               shipment' = [shipment EXCEPT ![tx[q].id] = Row(q, status)]
        PROVE  ShipmentExists(s)'
    BY <2>1, <2>3 DEF ShipmentExists, Row, Inv, TypeOK
  <2>4. ASSUME NEW S, RemoveRows(S), s \notin S
        PROVE  ShipmentExists(s)'
    BY <2>1, <2>4 DEF ShipmentExists, RemoveRows
  <2>5. ASSUME NEW q \in Requests, Proceed(q) PROVE ShipmentExists(s)'
    <3>1. CASE Store(q)
      BY <2>3, <3>1 DEF Store, Stored
    <3>2. CASE RecordOutcome(q)
      BY <2>2, <2>3, <3>2 DEF RecordOutcome, ConfirmOutcome, CancelOutcome, Entry,
         Transition, Stored, Terminal, own
    <3>3. CASE DeleteRow(q)
      <4>1. tx[q].id # s
        BY <3>3 DEF DeleteRow, Inv, HandlerInv, Done, Terminal
      <4> QED
        BY <2>2, <2>4, <3>3, <4>1 DEF DeleteRow, own
    <3> QED
      BY <2>2, <2>5, <3>1, <3>2, <3>3
         DEF Proceed, ReserveFailed, PersistShipment, Compensated, own
  <2>6. ASSUME NEW old \in SUBSET ShipmentIds, PurgeShipments(old)
        PROVE  ShipmentExists(s)'
    BY <2>4, <2>6 DEF PurgeShipments, Terminal
  <2>7. ASSUME NEW q \in Requests, Arrive(q) \/ Timeout(q) \/ Crash(q)
        PROVE  UNCHANGED shipment
    BY <2>7 DEF Arrive, CreateShipment, ConfirmShipment, CancelShipment, Settle,
       DeleteShipment, Timeout, Crash, own
  <2>8. ASSUME NEW m \in net, Execute(m) PROVE UNCHANGED shipment
    BY <2>8 DEF Execute, ReceiveCommit, ExecuteReserve, ExecuteCommit,
       ExecuteRelease, Refuse, own
  <2>9. ASSUME NEW r \in ReservationIds,
               Expire(r) \/ PurgeReservation(r) \/ SettleDirectly(r)
        PROVE  UNCHANGED shipment
    BY <2>9 DEF Expire, PurgeReservation, SettleDirectly, own
  <2> QED
    BY <2>2, <2>5, <2>6, <2>7, <2>8, <2>9 DEF Next, vars
<1>2. Keeps <=> \A s \in ShipmentIds :
                  shipment[s].status = "PENDING" => ShipmentExists(s)'
  OBVIOUS
<1> HIDE DEF Keeps
<1> QED
  BY <1>1, <1>2, InvAlways, PTL DEF Spec, PendingNeverDeleted
=============================================================================
