-------------------------- MODULE AlertOutboxProofs --------------------------
(***************************************************************************)
(* What table alert_events tells of the posts, for any numbers of           *)
(* emitters, deliverers, rows, attempts and faults. The mutex makes the     *)
(* deliverer that has selected rows the only one: until it is done with a   *)
(* row nobody else marks it, so the attempts it has read are still those of *)
(* the row, and it alone has a post whose outcome is not written down.      *)
(***************************************************************************)
EXTENDS AlertOutbox, FiniteSetTheorems, WellFoundedInduction, TLAPS

\* The deliverer that has the mutex (m) is the one with rows (b), and whoever
\* has none has no answer (p). Its rows are as it has read them.
Answers == {"nothing", "accepted", "refused"}
DeliveryOK(m, b, p, ev) ==
  \A d \in Deliverers :
    /\ b[d] # {} <=> m = d
    /\ b[d] = {} => p[d] = "nothing"
    /\ \A r \in b[d] : ev[r.id].status = "pending" /\ ev[r.id].attempts = r.attempts

\* The answer that is to be written down for row i, if there is one.
First(rows) == CHOOSE r \in rows : \A s \in rows : r.id <= s.id
Answer(i, m, b, p) ==
  IF m # Free /\ p[m] # "nothing" /\ First(b[m]).id = i THEN p[m] ELSE "nothing"

\* The acceptances that the dispatcher has heard of. Those it has not count as
\* refusals for it.
heard == [i \in Ids |-> accepted[i] - unheard[i]]
HeardOK == \A i \in Ids : unheard[i] <= accepted[i]

\* A row that was posted n times, and heard to be accepted a times, with u
\* outcomes lost and answer p to be written down.
RowOK(row, n, a, u, p) ==
  /\ row # Absent => n = row.attempts + u + (IF p = "nothing" THEN 0 ELSE 1)
  /\ row.status = "pending" =>
       row.attempts < MaxAttempts /\ a <= u + (IF p = "accepted" THEN 1 ELSE 0)
  /\ a <= 1 + u
  /\ row.status = "delivered" => a > 0
  /\ row.status = "failed" => row.attempts = MaxAttempts
  /\ p = "accepted" => a > 0
  /\ p # "nothing" => row.status = "pending"

RowsOK(ev, n, a, u, m, b, p) == \A i \in Ids : RowOK(ev[i], n[i], a[i], u[i], Answer(i, m, b, p))

\* Nothing has happened to the rows to come, and there is room for those that
\* are being raised.
Ahead == \A i \in Ids : i >= nextId =>
           /\ events[i] = Absent /\ sent[i] = 0 /\ unmarked[i] = 0
           /\ accepted[i] = 0 /\ unheard[i] = 0
Emission == [at : {"count", "insert"}, type : Types, lag : 0..Lag] \cup {Idle}
Room == emitter \in [Emitters -> Emission] /\ nextId + Cardinality(Raises) <= MaxEvents + 1

IInv ==
  /\ TypeOK /\ Ahead /\ Room /\ HeardOK
  /\ DeliveryOK(mu, batch, posted, events)
  /\ RowsOK(events, sent, heard, unmarked, mu, batch, posted)

----------------------------------------------------------------------------
(* Facts about the definitions. *)

\* A set of natural numbers that is not empty has a least member.
LEMMA LeastNat ==
  ASSUME NEW S, S \subseteq Nat, S # {}
  PROVE  \E m \in S : \A k \in S : m <= k
<1>1. PICK m \in S : \A k \in S : ~ (<<k, m>> \in OpToRel(<, Nat))
  BY NatLessThanWellFounded, WFMin
<1>2. \A k \in S : ~(k < m)
  BY <1>1 DEF OpToRel
<1>3. \A k \in S : k \in Nat /\ m \in Nat
  OBVIOUS
<1> QED
  BY <1>2, <1>3

Selected == [id : Ids, attempts : 0..MaxAttempts]

LEMMA FirstIs ==
  ASSUME NEW B \in SUBSET Selected, B # {}
  PROVE  First(B) \in B /\ First(B).id \in Ids
<1> DEFINE S == {r.id : r \in B}
<1>1. S \subseteq Nat /\ S # {}
  BY DEF Selected, Ids
<1> HIDE DEF S
<1>2. PICK m \in S : \A k \in S : m <= k
  BY <1>1, LeastNat
<1>3. \E r \in B : \A s \in B : r.id <= s.id
  BY <1>2 DEF S
<1>4. First(B) \in B
  BY <1>3 DEF First
<1> QED
  BY <1>4 DEF Selected

LEMMA TypesAreRows ==
  ASSUME TypeOK
  PROVE  /\ \A i \in Ids : events[i] \in Event \cup {Absent}
         /\ Absent \notin Event /\ Absent.status = "absent" /\ Absent.attempts = 0
         /\ \A row \in Event : row.status # "absent"
         /\ \A i \in Ids : /\ sent[i] \in Nat /\ accepted[i] \in Nat
                           /\ unheard[i] \in Nat /\ unmarked[i] \in Nat
         /\ \A i \in Ids : i \in Nat
BY OutboxAssumption DEF TypeOK, Event, Absent, Ids

LEMMA HeardIs ==
  ASSUME IInv
  PROVE  \A i \in Ids : heard[i] \in Nat /\ accepted[i] = heard[i] + unheard[i]
<1> SUFFICES ASSUME NEW i \in Ids PROVE heard[i] \in Nat /\ accepted[i] = heard[i] + unheard[i]
  OBVIOUS
<1>1. heard[i] = accepted[i] - unheard[i]
  BY DEF heard
<1>2. accepted[i] \in Nat /\ unheard[i] \in Nat /\ unheard[i] <= accepted[i]
  BY TypesAreRows DEF IInv, HeardOK
<1> QED
  BY <1>1, <1>2

\* All steps but a post.
LEMMA HeardStays ==
  ASSUME HeardOK, UNCHANGED <<accepted, unheard>>
  PROVE  HeardOK' /\ heard' = heard
BY DEF HeardOK, heard

\* The deliverer with an answer is at the first of its rows, which are pending.
LEMMA Working ==
  ASSUME IInv, NEW d \in Deliverers, batch[d] # {}
  PROVE  /\ mu = d /\ mu # Free /\ Current(d) = First(batch[d]) /\ Current(d) \in batch[d]
         /\ Current(d).id \in Ids /\ Current(d).attempts \in 0..MaxAttempts
         /\ events[Current(d).id] \in Event /\ events[Current(d).id].status = "pending"
         /\ events[Current(d).id].attempts = Current(d).attempts
         /\ Current(d).id < nextId
         /\ \A r \in batch[d] : r.id = Current(d).id => r = Current(d)
         /\ \A e \in Deliverers \ {d} : batch[e] = {} /\ posted[e] = "nothing"
<1>1. batch[d] \in SUBSET Selected
  BY DEF IInv, TypeOK, Selected
<1>2. Current(d) = First(batch[d])
  BY DEF Current, First
<1>3. First(batch[d]) \in batch[d] /\ First(batch[d]).id \in Ids
  BY <1>1, FirstIs
<1>4. /\ mu = d /\ mu # Free
      /\ \A r \in batch[d] : events[r.id].status = "pending" /\ events[r.id].attempts = r.attempts
      /\ \A e \in Deliverers \ {d} : batch[e] = {} /\ posted[e] = "nothing"
  BY OutboxAssumption DEF IInv, DeliveryOK
<1>5. \A r \in batch[d] : r \in Selected
  BY <1>1
<1>6. \A r \in Selected, s \in Selected : r.id = s.id /\ r.attempts = s.attempts => r = s
  BY DEF Selected
<1>7. \A r \in batch[d] : r.id = First(batch[d]).id => r = First(batch[d])
  BY <1>3, <1>4, <1>5, <1>6
<1>8. events[First(batch[d]).id] \in Event
  BY <1>3, <1>4, TypesAreRows DEF IInv
<1>9. First(batch[d]).id < nextId
  <2>1. nextId \in Nat /\ First(batch[d]).id \in Nat
    BY <1>3 DEF IInv, TypeOK, Ids
  <2>2. events[First(batch[d]).id] # Absent
    BY <1>8, TypesAreRows DEF IInv
  <2> QED
    BY <1>3, <2>1, <2>2 DEF IInv, Ahead
<1>10. First(batch[d]).attempts \in 0..MaxAttempts
  BY <1>3, <1>5 DEF Selected
<1> QED
  BY <1>2, <1>3, <1>4, <1>7, <1>8, <1>9, <1>10

\* The answers are those of the deliverer at work.
LEMMA AnswerIs ==
  ASSUME IInv, NEW i \in Ids
  PROVE  /\ \A d \in Deliverers : batch[d] # {} =>
              Answer(i, mu, batch, posted) = IF Current(d).id = i THEN posted[d] ELSE "nothing"
         /\ mu = Free => Answer(i, mu, batch, posted) = "nothing"
         /\ Answer(i, mu, batch, posted) \in Answers
         /\ UnderWay(i) = IF Answer(i, mu, batch, posted) = "nothing" THEN {} ELSE {mu}
<1>1. \A d \in Deliverers : posted[d] \in Answers
  BY DEF IInv, TypeOK, Answers
<1>2. \A d \in Deliverers : batch[d] # {} =>
        Answer(i, mu, batch, posted) = IF Current(d).id = i THEN posted[d] ELSE "nothing"
  BY Working DEF Answer
<1>3. mu = Free => Answer(i, mu, batch, posted) = "nothing"
  BY DEF Answer
<1>4. \A d \in Deliverers : (batch[d] # {} <=> mu = d) /\ (batch[d] = {} => posted[d] = "nothing")
  BY DEF IInv, DeliveryOK
<1>5. mu \in Deliverers \cup {Free}
  BY DEF IInv, TypeOK
<1>6. Answer(i, mu, batch, posted) \in Answers
  BY <1>1, <1>5 DEF Answer, Answers
<1>7. CASE mu = Free
  <2>1. \A d \in Deliverers : posted[d] = "nothing"
    BY <1>4, <1>7, OutboxAssumption
  <2> QED
    BY <1>2, <1>3, <1>6, <1>7, <2>1 DEF UnderWay
<1>8. CASE mu \in Deliverers
  <2>1. Answer(i, mu, batch, posted) = IF Current(mu).id = i THEN posted[mu] ELSE "nothing"
    BY <1>2, <1>4, <1>8
  <2>2. \A d \in Deliverers : posted[d] # "nothing" => d = mu
    BY <1>4
  <2>3. CASE posted[mu] # "nothing" /\ Current(mu).id = i
    BY <1>2, <1>3, <1>6, <1>8, <2>1, <2>2, <2>3 DEF UnderWay
  <2>4. CASE ~(posted[mu] # "nothing" /\ Current(mu).id = i)
    BY <1>2, <1>3, <1>6, <1>8, <2>1, <2>2, <2>4 DEF UnderWay
  <2> QED
    BY <1>2, <1>3, <1>6, <2>3, <2>4
<1> QED
  BY <1>5, <1>7, <1>8

\* One emitter goes on, and the others do not.
LEMMA RaisesAre ==
  ASSUME IInv, NEW e \in Emitters, NEW x \in Emission, emitter' = [emitter EXCEPT ![e] = x]
  PROVE  /\ emitter' \in [Emitters -> Emission]
         /\ Cardinality(Raises) \in Nat /\ Cardinality(Raises') \in Nat
         /\ Cardinality(Raises') <= Cardinality(Raises) + 1
         /\ e \in Raises => Cardinality(Raises') <= Cardinality(Raises)
         /\ e \in Raises /\ x = Idle => Cardinality(Raises') = Cardinality(Raises) - 1
<1>1. emitter \in [Emitters -> Emission]
  BY DEF IInv, Room
<1>2. emitter' \in [Emitters -> Emission]
  BY <1>1
<1>3. IsFiniteSet(Raises) /\ Cardinality(Raises) \in Nat
  <2>1. Raises \subseteq Emitters /\ IsFiniteSet(Emitters)
    BY OutboxAssumption DEF Raises
  <2> QED
    BY <2>1, FS_Subset, FS_CardinalityType
<1>4. \A y \in Emission : y.at = "idle" <=> y = Idle
  BY DEF Emission, Idle
<1>5. Raises' = IF x = Idle THEN Raises \ {e} ELSE Raises \cup {e}
  BY <1>1, <1>2, <1>4 DEF Raises, Raising
<1>6. CASE x = Idle
  <2>1. Cardinality(Raises \ {e}) = IF e \in Raises THEN Cardinality(Raises) - 1 ELSE Cardinality(Raises)
    BY <1>3, FS_RemoveElement
  <2>2. IsFiniteSet(Raises \ {e})
    BY <1>3, FS_RemoveElement
  <2>3. Cardinality(Raises \ {e}) \in Nat
    BY <2>2, FS_CardinalityType
  <2> QED
    BY <1>2, <1>3, <1>5, <1>6, <2>1, <2>3
<1>7. CASE x # Idle
  <2>1. Cardinality(Raises \cup {e}) = IF e \in Raises THEN Cardinality(Raises) ELSE Cardinality(Raises) + 1
    BY <1>3, FS_AddElement
  <2> QED
    BY <1>2, <1>3, <1>5, <1>7, <2>1
<1> QED
  BY <1>6, <1>7

----------------------------------------------------------------------------
(* The steps of emitAlert, and of the console. *)

LEMMA NoticeStep ==
  ASSUME IInv, NEW e \in Emitters, Notice(e)
  PROVE  IInv'
<1>1. /\ nextId + Cardinality(Raises) <= MaxEvents
      /\ UNCHANGED <<settings, outbox, delivery, faults, history>>
  BY DEF Notice
<1>2. PICK t \in Types : emitter' = [emitter EXCEPT ![e] = [at |-> "count", type |-> t, lag |-> 0]]
  BY DEF Notice
<1>3. [at |-> "count", type |-> t, lag |-> 0] \in Emission
  BY OutboxAssumption DEF Emission
<1>4. Room'
  <2>1. /\ emitter' \in [Emitters -> Emission] /\ Cardinality(Raises) \in Nat
        /\ Cardinality(Raises') \in Nat /\ Cardinality(Raises') <= Cardinality(Raises) + 1
    BY <1>2, <1>3, RaisesAre
  <2>2. nextId' = nextId /\ nextId \in Nat /\ MaxEvents \in Nat
    BY <1>1, OutboxAssumption DEF outbox, IInv, TypeOK
  <2>3. nextId' + Cardinality(Raises') <= MaxEvents + 1
    BY <1>1, <2>1, <2>2
  <2> QED
    BY <2>1, <2>3 DEF Room
<1>5. HeardOK' /\ heard' = heard
  BY <1>1, HeardStays DEF IInv, history
<1> QED
  BY <1>1, <1>4, <1>5 DEF IInv, TypeOK, Ahead, outbox, delivery, history

LEMMA CountStep ==
  ASSUME IInv, NEW e \in Emitters, Count(e) \/ EmitFails(e)
  PROVE  IInv'
<1>1. UNCHANGED <<settings, outbox, delivery, faults, history>> /\ e \in Raises
  BY DEF Count, EmitFails, Raises, Raising
<1>2. PICK x \in Emission : emitter' = [emitter EXCEPT ![e] = x]
  <2>1. Idle \in Emission
    BY DEF Emission
  <2>2. CASE emitter' = [emitter EXCEPT ![e] = Idle]
    BY <2>1, <2>2
  <2>3. CASE Raising(e, "count") /\ emitter' = [emitter EXCEPT ![e].at = "insert"]
    <3>1. emitter[e] \in Emission /\ emitter[e] # Idle
      BY <2>3 DEF IInv, Room, Raising, Idle
    <3>2. [emitter[e] EXCEPT !.at = "insert"] \in Emission
      BY <3>1 DEF Emission
    <3> QED
      BY <2>3, <3>2
  <2> QED
    BY <2>2, <2>3 DEF Count, EmitFails
<1>3. Room'
  <2>1. /\ emitter' \in [Emitters -> Emission] /\ Cardinality(Raises) \in Nat
        /\ Cardinality(Raises') \in Nat /\ Cardinality(Raises') <= Cardinality(Raises)
    BY <1>1, <1>2, RaisesAre
  <2>2. /\ nextId' = nextId /\ nextId \in Nat /\ MaxEvents \in Nat
        /\ nextId + Cardinality(Raises) <= MaxEvents + 1
    BY <1>1, OutboxAssumption DEF outbox, IInv, TypeOK, Room
  <2>3. nextId' + Cardinality(Raises') <= MaxEvents + 1
    BY <2>1, <2>2
  <2> QED
    BY <2>1, <2>3 DEF Room
<1>4. HeardOK' /\ heard' = heard
  BY <1>1, HeardStays DEF IInv, history
<1> QED
  BY <1>1, <1>3, <1>4 DEF IInv, TypeOK, Ahead, outbox, delivery, history

\* The row is new, so nobody has posted it.
LEMMA InsertStep ==
  ASSUME IInv, NEW e \in Emitters, Insert(e)
  PROVE  IInv'
<1> DEFINE row == [type |-> emitter[e].type, status |-> "pending", attempts |-> 0,
                   wait |-> 0, age |-> emitter[e].lag]
<1>1. /\ Raising(e, "insert") /\ events' = [events EXCEPT ![nextId] = row] /\ nextId' = nextId + 1
      /\ emitter' = [emitter EXCEPT ![e] = Idle] /\ UNCHANGED <<settings, delivery, faults, history>>
  BY DEF Insert
<1>2. emitter[e] \in [at : {"count", "insert"}, type : Types, lag : 0..Lag]
  BY <1>1 DEF IInv, Room, Emission, Raising, Idle
<1>3. row \in Event /\ row.status = "pending" /\ row.attempts = 0 /\ row # Absent
  <2>1. emitter[e].type \in Types /\ emitter[e].lag \in 0..MaxAge
    BY <1>2, OutboxAssumption DEF MaxAge
  <2>2. row \in Event
    BY <2>1, OutboxAssumption DEF Event
  <2> QED
    BY <2>2 DEF Absent
<1>4. /\ Room' /\ nextId \in Ids /\ nextId' \in 1..(MaxEvents + 1)
  <2>1. e \in Raises /\ Idle \in Emission
    BY <1>1 DEF Raises, Raising, Emission
  <2>2. /\ emitter' \in [Emitters -> Emission] /\ Cardinality(Raises) \in Nat
        /\ Cardinality(Raises') \in Nat /\ Cardinality(Raises') = Cardinality(Raises) - 1
    BY <1>1, <2>1, RaisesAre
  <2>3. /\ nextId' = nextId + 1 /\ nextId \in Nat /\ nextId >= 1 /\ MaxEvents \in Nat
        /\ nextId + Cardinality(Raises) <= MaxEvents + 1
    BY <1>1, OutboxAssumption DEF IInv, TypeOK, Room
  <2>4. nextId' + Cardinality(Raises') <= MaxEvents + 1 /\ nextId <= MaxEvents
    BY <2>2, <2>3
  <2> QED
    BY <2>2, <2>3, <2>4 DEF Room, Ids
<1> HIDE DEF row
<1>5. events \in [Ids -> Event \cup {Absent}] /\ events[nextId] = Absent
      /\ sent[nextId] = 0 /\ heard[nextId] = 0 /\ unmarked[nextId] = 0
  BY <1>4 DEF IInv, TypeOK, Ahead, Ids, heard
<1>6. events' \in [Ids -> Event \cup {Absent}] /\ events'[nextId] = row
      /\ \A i \in Ids : i # nextId => events'[i] = events[i]
  BY <1>1, <1>3, <1>4, <1>5
<1>7. /\ mu' = mu /\ batch' = batch /\ posted' = posted /\ sent' = sent /\ unmarked' = unmarked
      /\ accepted' = accepted /\ unheard' = unheard /\ heard' = heard /\ HeardOK'
  BY <1>1, HeardStays DEF IInv, delivery, history
<1>8. TypeOK'
  BY <1>1, <1>4, <1>6, <1>7 DEF IInv, TypeOK
<1>9. Ahead'
  BY <1>1, <1>4, <1>6, <1>7 DEF IInv, Ahead, TypeOK, Ids
<1>10. \A d \in Deliverers : \A r \in batch[d] : r.id \in Ids /\ r.id # nextId
  <2>1. \A d \in Deliverers : \A r \in batch[d] : r.id \in Ids /\ events[r.id].status = "pending"
    BY DEF IInv, TypeOK, DeliveryOK
  <2> QED
    BY <1>5, <2>1 DEF Absent
<1>11. DeliveryOK(mu', batch', posted', events')
  BY <1>6, <1>7, <1>10 DEF IInv, DeliveryOK
<1>12. RowsOK(events', sent', heard', unmarked', mu', batch', posted')
  <2>1. ASSUME NEW i \in Ids, i # nextId
        PROVE  RowOK(events'[i], sent[i], heard[i], unmarked[i], Answer(i, mu, batch, posted))
    BY <1>6, <2>1 DEF IInv, RowsOK
  <2>2. Answer(nextId, mu, batch, posted) = "nothing"
    BY <1>4, <1>5 DEF IInv, RowsOK, RowOK, Absent
  <2>3. RowOK(row, sent[nextId], heard[nextId], unmarked[nextId], "nothing")
    BY <1>3, <1>5, OutboxAssumption DEF RowOK
  <2> QED
    BY <1>6, <1>7, <2>1, <2>2, <2>3 DEF RowsOK
<1> QED
  BY <1>4, <1>7, <1>8, <1>9, <1>11, <1>12 DEF IInv

LEMMA PutStep ==
  ASSUME IInv, PutAlertSettings
  PROVE  IInv'
<1>1. settings' \in Settings /\ UNCHANGED <<outbox, emitter, delivery, faults, history>>
  BY DEF PutAlertSettings
<1>2. HeardOK' /\ heard' = heard
  BY <1>1, HeardStays DEF IInv, history
<1> QED
  BY <1>1, <1>2 DEF IInv, TypeOK, Ahead, Room, Raises, Raising, outbox, delivery, history

----------------------------------------------------------------------------
(* The steps of deliverDue. *)

\* Whoever takes the mutex finds no other deliverer at work, and has rows.
LEMMA SelectStep ==
  ASSUME IInv, NEW d \in Deliverers, Select(d)
  PROVE  IInv'
<1> DEFINE rows == {[id |-> i, attempts |-> events[i].attempts] :
                      i \in {j \in Due : Cardinality({k \in Due : k < j}) < Limit}}
<1>1. /\ mu = Free /\ Due # {} /\ mu' = d /\ batch' = [batch EXCEPT ![d] = rows]
      /\ UNCHANGED <<settings, outbox, emitter, posted, faults, history>>
  BY DEF Select, Takes
<1>2. Due \subseteq Ids /\ \A i \in Due : events[i].status = "pending" /\ i \in Nat
  BY DEF Due, Pending, Ids
<1>3. rows # {}
  <2>1. PICK m \in Due : \A k \in Due : m <= k
    BY <1>1, <1>2, LeastNat
  <2>2. {k \in Due : k < m} = {}
    BY <1>2, <2>1
  <2>3. Cardinality({k \in Due : k < m}) < Limit
    <3>1. Cardinality({}) = 0 /\ Limit > 0
      BY FS_EmptySet, OutboxAssumption
    <3> QED
      BY <2>2, <3>1
  <2> QED
    BY <2>3
<1>4. rows \subseteq Selected
      /\ \A r \in rows : events[r.id].status = "pending" /\ events[r.id].attempts = r.attempts
  <2>1. \A i \in Due : events[i].attempts \in 0..MaxAttempts
    BY <1>2, TypesAreRows DEF IInv, Event
  <2>2. \A r \in rows : \E i \in Due : r = [id |-> i, attempts |-> events[i].attempts]
    OBVIOUS
  <2> HIDE DEF rows
  <2>3. ASSUME NEW r \in rows
        PROVE  r \in Selected /\ events[r.id].status = "pending" /\ events[r.id].attempts = r.attempts
    <3>1. PICK i \in Due : r = [id |-> i, attempts |-> events[i].attempts]
      BY <2>2
    <3> QED
      BY <1>2, <2>1, <3>1 DEF Selected
  <2> QED
    BY <2>3
<1> HIDE DEF rows
<1>5. /\ events' = events /\ posted' = posted /\ sent' = sent /\ unmarked' = unmarked
      /\ accepted' = accepted /\ unheard' = unheard /\ heard' = heard /\ HeardOK'
      /\ nextId' = nextId
  BY <1>1, HeardStays DEF IInv, outbox, history
<1>6. /\ batch \in [Deliverers -> SUBSET Selected]
      /\ \A e \in Deliverers : batch[e] = {} /\ posted[e] = "nothing"
  BY <1>1, OutboxAssumption DEF IInv, TypeOK, DeliveryOK, Selected
<1>7. /\ batch' \in [Deliverers -> SUBSET Selected]
      /\ batch'[d] = rows /\ \A e \in Deliverers \ {d} : batch'[e] = {}
  BY <1>1, <1>4, <1>6
<1>8. TypeOK'
  BY <1>1, <1>5, <1>7 DEF IInv, TypeOK, Selected
<1>9. DeliveryOK(mu', batch', posted', events')
  BY <1>1, <1>3, <1>4, <1>5, <1>6, <1>7 DEF DeliveryOK
<1>10. RowsOK(events', sent', heard', unmarked', mu', batch', posted')
  <2>1. \A i \in Ids : Answer(i, mu, batch, posted) = "nothing" /\ Answer(i, mu', batch', posted') = "nothing"
    BY <1>1, <1>5, <1>6 DEF Answer
  <2> QED
    BY <1>5, <2>1 DEF IInv, RowsOK
<1>11. Ahead' /\ Room'
  BY <1>1, <1>5 DEF IInv, Ahead, Room, Raises, Raising
<1> QED
  BY <1>5, <1>8, <1>9, <1>10, <1>11 DEF IInv

\* A post ends, which is to be written down. An acceptance that is not heard is a
\* refusal, and one more of both counts.
LEMMA PostStep ==
  ASSUME IInv, NEW d \in Deliverers, Post(d)
  PROVE  IInv'
<1> DEFINE c == Current(d).id
<1>1. PICK o \in Outcomes :
        /\ posted' = [posted EXCEPT ![d] = IF o.heard THEN "accepted" ELSE "refused"]
        /\ accepted' = [accepted EXCEPT ![c] = IF o.accepts THEN @ + 1 ELSE @]
        /\ unheard' = [unheard EXCEPT ![c] = @ + Lost(o)]
        /\ faults' = faults + Lost(o) /\ faults' <= MaxFaults
  BY DEF Post
<1> DEFINE answer == IF o.heard THEN "accepted" ELSE "refused"
<1>2. /\ batch[d] # {} /\ posted[d] = "nothing" /\ sent' = [sent EXCEPT ![c] = @ + 1]
      /\ UNCHANGED <<settings, outbox, emitter, mu, batch, unmarked>>
  BY DEF Post
<1>3. /\ mu = d /\ mu # Free /\ Current(d) = First(batch[d]) /\ c \in Ids /\ c < nextId
      /\ events[c] \in Event /\ events[c].status = "pending"
      /\ \A e \in Deliverers \ {d} : batch[e] = {} /\ posted[e] = "nothing"
  BY <1>2, Working
<1>4. events' = events /\ nextId' = nextId /\ mu' = mu /\ batch' = batch /\ unmarked' = unmarked
  BY <1>2 DEF outbox
<1>5. /\ sent \in [Ids -> Nat] /\ accepted \in [Ids -> Nat] /\ posted \in [Deliverers -> Answers]
      /\ unheard \in [Ids -> Nat] /\ unmarked \in [Ids -> Nat]
  BY DEF IInv, TypeOK, Answers
<1> HIDE DEF c
<1>6. /\ sent' \in [Ids -> Nat] /\ sent'[c] = sent[c] + 1
      /\ \A i \in Ids \ {c} : sent'[i] = sent[i]
  <2>1. sent[c] + 1 \in Nat
    BY <1>3, <1>5
  <2> QED
    BY <1>2, <1>3, <1>5, <2>1
<1>7. /\ accepted' \in [Ids -> Nat] /\ unheard' \in [Ids -> Nat] /\ HeardOK'
      /\ heard'[c] = heard[c] + (IF answer = "accepted" THEN 1 ELSE 0)
      /\ \A i \in Ids \ {c} : /\ accepted'[i] = accepted[i] /\ unheard'[i] = unheard[i]
                             /\ heard'[i] = heard[i]
  <2> DEFINE more == IF o.accepts THEN 1 ELSE 0
  <2> DEFINE deaf == Lost(o)
  <2>1. /\ more \in Nat /\ deaf \in Nat /\ deaf <= more
        /\ (more - deaf) = IF answer = "accepted" THEN 1 ELSE 0
    BY DEF Outcomes, Lost
  <2>2. /\ accepted'[c] = accepted[c] + more /\ unheard'[c] = unheard[c] + deaf
        /\ \A i \in Ids \ {c} : accepted'[i] = accepted[i] /\ unheard'[i] = unheard[i]
    BY <1>1, <1>3, <1>5
  <2>3. accepted[c] \in Nat /\ unheard[c] \in Nat
    BY <1>3, <1>5
  <2> HIDE DEF more, deaf, answer
  <2>4. accepted[c] + more \in Nat /\ unheard[c] + deaf \in Nat
    BY <2>1, <2>3
  <2>5. accepted' \in [Ids -> Nat] /\ unheard' \in [Ids -> Nat]
    <3>1. \A i \in Ids : accepted'[i] \in Nat /\ unheard'[i] \in Nat
      BY <1>5, <2>2, <2>4
    <3>2. /\ accepted' = [i \in Ids |-> accepted'[i]]
          /\ unheard' = [i \in Ids |-> unheard'[i]]
      BY <1>1, <1>5
    <3> QED
      BY <3>1, <3>2
  <2>6. HeardOK'
    BY <1>5, <2>1, <2>2, <2>3 DEF IInv, HeardOK
  <2>7. heard'[c] = heard[c] + (more - deaf)
    BY <1>3, <2>1, <2>2, <2>3 DEF heard
  <2>8. \A i \in Ids \ {c} : heard'[i] = heard[i]
    BY <2>2 DEF heard
  <2> QED
    BY <2>1, <2>2, <2>5, <2>6, <2>7, <2>8
<1> HIDE DEF answer
<1>8. /\ posted' \in [Deliverers -> Answers] /\ posted'[d] = answer
      /\ \A e \in Deliverers \ {d} : posted'[e] = posted[e]
  BY <1>1, <1>5 DEF Answers, answer
<1>14. answer \in {"accepted", "refused"}
  BY DEF answer
<1>9. TypeOK'
  <2>1. faults' \in 0..MaxFaults
    BY <1>1, OutboxAssumption DEF IInv, TypeOK, Outcomes, Lost
  <2> QED
    BY <1>2, <1>4, <1>6, <1>7, <1>8, <2>1 DEF IInv, TypeOK, outbox, Answers
<1>10. DeliveryOK(mu', batch', posted', events')
  BY <1>2, <1>4, <1>8 DEF IInv, DeliveryOK
<1>11. Ahead'
  BY <1>3, <1>4, <1>6, <1>7 DEF IInv, TypeOK, Ahead, Ids
<1>12. RowsOK(events', sent', heard', unmarked', mu', batch', posted')
  <2>1. \A i \in Ids : /\ Answer(i, mu, batch, posted) = "nothing"
                       /\ Answer(i, mu', batch', posted') = IF i = c THEN answer ELSE "nothing"
    BY <1>2, <1>3, <1>4, <1>8 DEF Answer, c
  <2>2. ASSUME NEW i \in Ids \ {c}
        PROVE  RowOK(events'[i], sent'[i], heard'[i], unmarked'[i], Answer(i, mu', batch', posted'))
    BY <1>4, <1>6, <1>7, <2>1 DEF IInv, RowsOK
  <2>3. RowOK(events[c], sent[c], heard[c], unmarked[c], "nothing")
    BY <1>3, <2>1 DEF IInv, RowsOK
  <2>4. /\ sent[c] \in Nat /\ heard[c] \in Nat /\ unmarked[c] \in Nat
        /\ events[c].attempts \in Nat /\ events[c] # Absent
    BY <1>3, <1>5, HeardIs, TypesAreRows, OutboxAssumption DEF IInv, Event
  <2>5. RowOK(events'[c], sent'[c], heard'[c], unmarked'[c], answer)
    BY <1>3, <1>4, <1>6, <1>7, <1>14, <2>3, <2>4 DEF RowOK
  <2> QED
    BY <1>3, <2>1, <2>2, <2>5 DEF RowsOK
<1>13. Room'
  BY <1>2, <1>4 DEF IInv, Room, Raises, Raising
<1> QED
  BY <1>7, <1>9, <1>10, <1>11, <1>12, <1>13 DEF IInv

\* On to the next row: no answer is to be written down, and the mutex is free
\* if there is no more to do.
LEMMA AdvanceIs ==
  ASSUME IInv, NEW d \in Deliverers, posted[d] # "nothing", Advance(d),
         NEW ev, \A i \in Ids : i # Current(d).id => ev[i] = events[i]
  PROVE  /\ batch' \in [Deliverers -> SUBSET Selected] /\ posted' \in [Deliverers -> Answers]
         /\ mu' \in Deliverers \cup {Free} /\ DeliveryOK(mu', batch', posted', ev)
         /\ \A i \in Ids : Answer(i, mu', batch', posted') = "nothing"
<1>1. batch[d] # {}
  BY DEF IInv, DeliveryOK
<1>2. /\ mu = d /\ mu # Free /\ Current(d) \in batch[d]
      /\ \A r \in batch[d] : r.id = Current(d).id => r = Current(d)
      /\ \A e \in Deliverers \ {d} : batch[e] = {} /\ posted[e] = "nothing"
  BY <1>1, Working
<1>3. batch \in [Deliverers -> SUBSET Selected] /\ posted \in [Deliverers -> Answers]
  BY DEF IInv, TypeOK, Selected, Answers
<1>4. /\ batch' \in [Deliverers -> SUBSET Selected] /\ batch'[d] = batch[d] \ {Current(d)}
      /\ \A e \in Deliverers \ {d} : batch'[e] = {}
  BY <1>2, <1>3 DEF Advance
<1>5. /\ posted' \in [Deliverers -> Answers] /\ \A e \in Deliverers : posted'[e] = "nothing"
  BY <1>2, <1>3 DEF Advance, Answers
<1>6. mu' = IF batch'[d] = {} THEN Free ELSE d
  BY <1>2 DEF Advance, Unlocked
<1>7. DeliveryOK(mu', batch', posted', ev)
  <2>1. \A e \in Deliverers : batch'[e] # {} <=> mu' = e
    BY <1>4, <1>6, OutboxAssumption
  <2>2. ASSUME NEW r \in batch'[d] PROVE ev[r.id].status = "pending" /\ ev[r.id].attempts = r.attempts
    <3>1. r \in batch[d] /\ r.id # Current(d).id /\ r.id \in Ids
      BY <1>2, <1>3, <1>4 DEF Selected
    <3> QED
      BY <3>1 DEF IInv, DeliveryOK
  <2> QED
    BY <1>4, <1>5, <2>1, <2>2 DEF DeliveryOK
<1>8. \A i \in Ids : Answer(i, mu', batch', posted') = "nothing"
  BY <1>5, <1>6 DEF Answer
<1> QED
  BY <1>4, <1>5, <1>6, <1>7, <1>8

\* The outcome is lost: the row stays as it is.
LEMMA MarkFailsStep ==
  ASSUME IInv, NEW d \in Deliverers, MarkFails(d)
  PROVE  IInv'
<1> DEFINE c == Current(d).id
<1>1. /\ posted[d] # "nothing" /\ faults < MaxFaults /\ faults' = faults + 1
      /\ unmarked' = [unmarked EXCEPT ![c] = @ + 1] /\ Advance(d)
      /\ UNCHANGED <<settings, outbox, emitter, sent, accepted, unheard>>
  BY DEF MarkFails
<1>2. batch[d] # {}
  BY <1>1 DEF IInv, DeliveryOK
<1>3. c \in Ids /\ c < nextId /\ events[c] \in Event /\ events[c].status = "pending"
  BY <1>2, Working
<1>4. /\ batch' \in [Deliverers -> SUBSET Selected] /\ posted' \in [Deliverers -> Answers]
      /\ mu' \in Deliverers \cup {Free} /\ DeliveryOK(mu', batch', posted', events)
      /\ \A i \in Ids : Answer(i, mu', batch', posted') = "nothing"
  BY <1>1, AdvanceIs
<1>5. /\ events' = events /\ nextId' = nextId /\ sent' = sent
      /\ accepted' = accepted /\ unheard' = unheard /\ heard' = heard /\ HeardOK'
  BY <1>1, HeardStays DEF IInv, outbox
<1>6. \A i \in Ids : Answer(i, mu, batch, posted) = IF i = c THEN posted[d] ELSE "nothing"
  BY <1>2, AnswerIs
<1>7. posted[d] \in {"accepted", "refused"}
  BY <1>1 DEF IInv, TypeOK
<1> HIDE DEF c
<1>8. /\ unmarked' \in [Ids -> Nat] /\ unmarked'[c] = unmarked[c] + 1
      /\ \A i \in Ids \ {c} : unmarked'[i] = unmarked[i]
  <2>1. unmarked \in [Ids -> Nat]
    BY DEF IInv, TypeOK
  <2>2. unmarked[c] + 1 \in Nat
    BY <1>3, <2>1
  <2> QED
    BY <1>1, <1>3, <2>1, <2>2
<1>9. TypeOK'
  <2>1. faults' \in 0..MaxFaults
    BY <1>1, OutboxAssumption DEF IInv, TypeOK
  <2> QED
    BY <1>1, <1>4, <1>5, <1>8, <2>1 DEF IInv, TypeOK, Selected, Answers
<1>10. Ahead' /\ Room'
  BY <1>1, <1>3, <1>5, <1>8 DEF IInv, TypeOK, Ahead, Room, Raises, Raising, Ids
<1>11. RowsOK(events', sent', heard', unmarked', mu', batch', posted')
  <2>1. ASSUME NEW i \in Ids \ {c}
        PROVE  RowOK(events'[i], sent'[i], heard'[i], unmarked'[i], "nothing")
    BY <1>5, <1>6, <1>8 DEF IInv, RowsOK
  <2>2. RowOK(events[c], sent[c], heard[c], unmarked[c], posted[d])
    BY <1>3, <1>6 DEF IInv, RowsOK
  <2>3. /\ sent[c] \in Nat /\ heard[c] \in Nat /\ unmarked[c] \in Nat
        /\ events[c].attempts \in Nat /\ events[c] # Absent
    BY <1>3, HeardIs, TypesAreRows, OutboxAssumption DEF IInv, Event
  <2>4. RowOK(events[c], sent[c], heard[c], unmarked[c] + 1, "nothing")
    BY <1>3, <1>7, <2>2, <2>3 DEF RowOK
  <2> QED
    BY <1>3, <1>4, <1>5, <1>8, <2>1, <2>4 DEF RowsOK
<1> QED
  BY <1>4, <1>5, <1>9, <1>10, <1>11 DEF IInv

\* The outcome is written down.
LEMMA MarkStep ==
  ASSUME IInv, NEW d \in Deliverers, Mark(d)
  PROVE  IInv'
<1> DEFINE c == Current(d).id
<1> DEFINE n == Current(d).attempts + 1
<1> DEFINE row == IF posted[d] = "accepted" THEN Delivered(events[c], n) ELSE Refused(events[c], n)
<1>1. /\ posted[d] # "nothing" /\ Advance(d) /\ UNCHANGED <<settings, nextId, emitter, faults, history>>
      /\ events' = IF ~There(c) THEN events ELSE [events EXCEPT ![c] = row]
  BY DEF Mark
<1>2. batch[d] # {}
  BY <1>1 DEF IInv, DeliveryOK
<1>3. /\ c \in Ids /\ c < nextId /\ events[c] \in Event /\ events[c].status = "pending"
      /\ events[c].attempts = Current(d).attempts /\ Current(d).attempts \in 0..MaxAttempts
  BY <1>2, Working
<1>4. \A i \in Ids : Answer(i, mu, batch, posted) = IF i = c THEN posted[d] ELSE "nothing"
  BY <1>2, AnswerIs
<1>5. posted[d] \in {"accepted", "refused"}
  BY <1>1 DEF IInv, TypeOK
<1>6. RowOK(events[c], sent[c], heard[c], unmarked[c], posted[d])
  BY <1>3, <1>4 DEF IInv, RowsOK
<1>7. events[c].attempts < MaxAttempts /\ n \in 1..MaxAttempts
  BY <1>3, <1>6, OutboxAssumption DEF RowOK
<1>8. n = events[c].attempts + 1 /\ n \in 0..MaxAttempts /\ n >= 1
  BY <1>3, <1>7, OutboxAssumption
<1> HIDE DEF n
<1>9. /\ row \in Event /\ row.attempts = n
      /\ posted[d] = "accepted" => row.status = "delivered"
      /\ posted[d] # "accepted" => row.status = IF n >= MaxAttempts THEN "failed" ELSE "pending"
  <2> DEFINE e == events[c]
  <2>0. e \in Event
    BY <1>3
  <2> HIDE DEF e
  <2>1. CASE posted[d] = "accepted"
    <3>1. row = [e EXCEPT !.status = "delivered", !.attempts = n]
      BY <2>1 DEF Delivered, e
    <3> QED
      BY <1>8, <2>0, <2>1, <3>1 DEF Event
  <2>2. CASE posted[d] # "accepted" /\ n >= MaxAttempts
    <3>1. row = [e EXCEPT !.status = "failed", !.attempts = n]
      BY <2>2 DEF Refused, e
    <3> QED
      BY <1>8, <2>0, <2>2, <3>1 DEF Event
  <2>3. CASE posted[d] # "accepted" /\ ~(n >= MaxAttempts)
    <3>1. row = [e EXCEPT !.attempts = n, !.wait = Delays[n]]
      BY <2>3 DEF Refused, e
    <3>2. Delays[n] \in Nat
      BY <1>8, <2>3, OutboxAssumption
    <3>3. e.status = "pending"
      BY <1>3 DEF e
    <3> QED
      BY <1>8, <2>0, <2>3, <3>1, <3>2, <3>3 DEF Event
  <2> QED
    BY <2>1, <2>2, <2>3
<1> HIDE DEF row
<1>10. events[c] # Absent
  BY <1>3, TypesAreRows DEF IInv
<1>11. /\ events' \in [Ids -> Event \cup {Absent}] /\ events'[c] = row
       /\ \A i \in Ids : i # c => events'[i] = events[i]
  BY <1>1, <1>3, <1>9, <1>10 DEF There, IInv, TypeOK
<1>12. /\ batch' \in [Deliverers -> SUBSET Selected] /\ posted' \in [Deliverers -> Answers]
       /\ mu' \in Deliverers \cup {Free} /\ DeliveryOK(mu', batch', posted', events')
       /\ \A i \in Ids : Answer(i, mu', batch', posted') = "nothing"
  BY <1>1, <1>11, AdvanceIs
<1> HIDE DEF c
<1>13. /\ nextId' = nextId /\ sent' = sent /\ unmarked' = unmarked
       /\ accepted' = accepted /\ unheard' = unheard /\ heard' = heard /\ HeardOK'
  BY <1>1, HeardStays DEF IInv, history
<1>14. TypeOK'
  BY <1>1, <1>11, <1>12, <1>13 DEF IInv, TypeOK, Selected, Answers
<1>15. Ahead' /\ Room'
  BY <1>1, <1>3, <1>11, <1>13 DEF IInv, TypeOK, Ahead, Room, Raises, Raising, Ids
<1>16. RowsOK(events', sent', heard', unmarked', mu', batch', posted')
  <2>1. ASSUME NEW i \in Ids \ {c}
        PROVE  RowOK(events'[i], sent'[i], heard'[i], unmarked'[i], "nothing")
    BY <1>4, <1>11, <1>13 DEF IInv, RowsOK
  <2>2. /\ sent[c] \in Nat /\ heard[c] \in Nat /\ unmarked[c] \in Nat
        /\ events[c].attempts \in Nat /\ MaxAttempts \in Nat
    BY <1>3, HeardIs, TypesAreRows, OutboxAssumption DEF IInv, Event
  <2>3. RowOK(row, sent[c], heard[c], unmarked[c], "nothing")
    <3>1. sent[c] = n + unmarked[c]
      BY <1>5, <1>6, <1>8, <1>10, <2>2 DEF RowOK
    <3>2. CASE posted[d] = "accepted"
      BY <1>6, <1>9, <1>10, <2>2, <3>1, <3>2 DEF RowOK
    <3>3. CASE posted[d] # "accepted"
      BY <1>3, <1>5, <1>6, <1>7, <1>8, <1>9, <1>10, <2>2, <3>1, <3>3 DEF RowOK
    <3> QED
      BY <3>2, <3>3
  <2> QED
    BY <1>3, <1>11, <1>12, <1>13, <2>1, <2>3 DEF RowsOK
<1> QED
  BY <1>12, <1>13, <1>14, <1>15, <1>16 DEF IInv

----------------------------------------------------------------------------
(* The janitor, time, and a restart. *)

\* A row that is deleted is none that a deliverer has selected.
LEMMA JanitorStep ==
  ASSUME IInv, Janitor
  PROVE  IInv'
<1>1. /\ events' = [i \in Ids |-> IF ~Pending(i) /\ events[i].age = MaxAge THEN Absent ELSE events[i]]
      /\ UNCHANGED <<settings, nextId, emitter, delivery, faults, history>>
  BY DEF Janitor
<1>2. \A i \in Ids : /\ events'[i] \in {events[i], Absent}
                     /\ events[i].status = "pending" => events'[i] = events[i]
                     /\ events[i] = Absent => events'[i] = Absent
  BY <1>1 DEF Pending
<1>3. /\ mu' = mu /\ batch' = batch /\ posted' = posted /\ sent' = sent /\ unmarked' = unmarked
      /\ accepted' = accepted /\ unheard' = unheard /\ heard' = heard /\ HeardOK'
  BY <1>1, HeardStays DEF IInv, delivery, history
<1>4. TypeOK'
  <2>1. events' \in [Ids -> Event \cup {Absent}]
    BY <1>1, TypesAreRows DEF IInv
  <2> QED
    BY <1>1, <1>3, <2>1 DEF IInv, TypeOK
<1>5. DeliveryOK(mu', batch', posted', events')
  BY <1>2, <1>3 DEF IInv, TypeOK, DeliveryOK
<1>6. Ahead' /\ Room'
  BY <1>1, <1>2, <1>3 DEF IInv, Ahead, Room, Raises, Raising
<1>7. ASSUME NEW i \in Ids
      PROVE  RowOK(events'[i], sent'[i], heard'[i], unmarked'[i], Answer(i, mu', batch', posted'))
  <2>1. RowOK(events[i], sent[i], heard[i], unmarked[i], Answer(i, mu, batch, posted))
    BY DEF IInv, RowsOK
  <2>2. CASE events'[i] = events[i]
    BY <1>3, <2>1, <2>2
  <2>3. CASE events'[i] = Absent /\ events'[i] # events[i]
    <3>1. events[i].status # "pending"
      BY <1>2, <2>3
    <3> QED
      BY <1>3, <2>1, <2>3, <3>1 DEF RowOK, Absent
  <2> QED
    BY <1>2, <2>2, <2>3
<1>8. RowsOK(events', sent', heard', unmarked', mu', batch', posted')
  BY <1>7 DEF RowsOK
<1> QED
  BY <1>3, <1>4, <1>5, <1>6, <1>8 DEF IInv

\* Time makes rows older and delays shorter, no more.
LEMMA OlderIs ==
  ASSUME NEW row \in Event \cup {Absent}
  PROVE  /\ Older(row) \in Event \cup {Absent} /\ Older(row).status = row.status
         /\ Older(row).attempts = row.attempts /\ (Older(row) = Absent <=> row = Absent)
<1>1. CASE row = Absent
  BY <1>1 DEF Older
<1>2. CASE row \in Event
  <2> DEFINE age == IF row.age < MaxAge THEN row.age + 1 ELSE row.age
  <2> DEFINE wait == IF row.wait > 0 THEN row.wait - 1 ELSE row.wait
  <2>1. row.status # "absent"
    BY <1>2 DEF Event
  <2>2. row # Absent
    BY <2>1 DEF Absent
  <2>3. Older(row) = [row EXCEPT !.age = age, !.wait = wait]
    BY <2>2 DEF Older
  <2>4. age \in 0..MaxAge
    BY <1>2, OutboxAssumption DEF Event, MaxAge
  <2>5. wait \in Nat
    BY <1>2 DEF Event
  <2> HIDE DEF age, wait
  <2>6. /\ Older(row) \in Event /\ Older(row).status = row.status
        /\ Older(row).attempts = row.attempts
    BY <1>2, <2>3, <2>4, <2>5 DEF Event
  <2>7. Older(row) # Absent
    BY <2>1, <2>6 DEF Absent
  <2> QED
    BY <2>2, <2>6, <2>7
<1> QED
  BY <1>1, <1>2

LEMMA TickStep ==
  ASSUME IInv, Tick
  PROVE  IInv'
<1>1. /\ \A e \in Raises : emitter[e].lag < Lag
      /\ emitter' = [e \in Emitters |-> IF e \in Raises THEN [emitter[e] EXCEPT !.lag = @ + 1]
                                        ELSE emitter[e]]
      /\ events' = [i \in Ids |-> Older(events[i])]
      /\ UNCHANGED <<settings, nextId, delivery, faults, history>>
  BY DEF Tick
<1>2. ASSUME NEW i \in Ids
      PROVE  /\ events'[i] \in Event \cup {Absent} /\ events'[i].status = events[i].status
             /\ events'[i].attempts = events[i].attempts /\ (events'[i] = Absent <=> events[i] = Absent)
  BY <1>1, OlderIs, TypesAreRows DEF IInv
<1>3. /\ mu' = mu /\ batch' = batch /\ posted' = posted /\ sent' = sent /\ unmarked' = unmarked
      /\ accepted' = accepted /\ unheard' = unheard /\ heard' = heard /\ HeardOK'
      /\ nextId' = nextId
  BY <1>1, HeardStays DEF IInv, delivery, history
<1>4. TypeOK'
  <2>1. events' \in [Ids -> Event \cup {Absent}]
    BY <1>1, <1>2
  <2> QED
    BY <1>1, <1>3, <2>1 DEF IInv, TypeOK
<1>5. DeliveryOK(mu', batch', posted', events')
  BY <1>2, <1>3 DEF IInv, TypeOK, DeliveryOK
<1>6. Ahead'
  BY <1>2, <1>3 DEF IInv, Ahead
<1>7. Room'
  <2>1. ASSUME NEW e \in Emitters
        PROVE  emitter'[e] \in Emission /\ (emitter'[e].at = "idle" <=> emitter[e].at = "idle")
    <3>1. emitter[e] \in Emission
      BY DEF IInv, Room
    <3>2. CASE e \notin Raises
      BY <1>1, <3>1, <3>2
    <3>3. CASE e \in Raises
      <4>1. emitter[e] \in [at : {"count", "insert"}, type : Types, lag : 0..Lag]
        BY <3>1, <3>3 DEF Emission, Raises, Raising, Idle
      <4>2. emitter[e].lag + 1 \in 0..Lag
        BY <1>1, <3>3, <4>1, OutboxAssumption
      <4>3. emitter'[e] = [emitter[e] EXCEPT !.lag = emitter[e].lag + 1]
        BY <1>1, <3>3
      <4>4. /\ emitter'[e] \in [at : {"count", "insert"}, type : Types, lag : 0..Lag]
            /\ emitter'[e].at = emitter[e].at
        BY <4>1, <4>2, <4>3
      <4> QED
        BY <4>4 DEF Emission
    <3> QED
      BY <3>2, <3>3
  <2>2. emitter' \in [Emitters -> Emission]
    BY <1>1, <2>1
  <2>3. Raises' = Raises
    BY <2>1 DEF Raises, Raising
  <2> QED
    BY <1>3, <2>2, <2>3 DEF IInv, Room
<1>8. ASSUME NEW i \in Ids
      PROVE  RowOK(events'[i], sent'[i], heard'[i], unmarked'[i], Answer(i, mu', batch', posted'))
  <2>1. RowOK(events[i], sent[i], heard[i], unmarked[i], Answer(i, mu, batch, posted))
    BY DEF IInv, RowsOK
  <2> QED
    BY <1>2, <1>3, <2>1 DEF RowOK
<1>9. RowsOK(events', sent', heard', unmarked', mu', batch', posted')
  BY <1>8 DEF RowsOK
<1> QED
  BY <1>3, <1>4, <1>5, <1>6, <1>7, <1>9 DEF IInv

\* An outcome that was to be written down is lost.
LEMMA RestartStep ==
  ASSUME IInv, Restart
  PROVE  IInv'
<1>1. /\ faults < MaxFaults /\ faults' = faults + 1 /\ emitter' = [e \in Emitters |-> Idle]
      /\ mu' = Free /\ batch' = [d \in Deliverers |-> {}]
      /\ posted' = [d \in Deliverers |-> "nothing"]
      /\ unmarked' = [i \in Ids |-> unmarked[i] + Cardinality(UnderWay(i))]
      /\ UNCHANGED <<settings, outbox, sent, accepted, unheard>>
  BY DEF Restart, UnderWay
<1>2. /\ events' = events /\ nextId' = nextId /\ sent' = sent
      /\ accepted' = accepted /\ unheard' = unheard /\ heard' = heard /\ HeardOK'
  BY <1>1, HeardStays DEF IInv, outbox
<1>3. ASSUME NEW i \in Ids
      PROVE  /\ unmarked'[i] = unmarked[i] + IF Answer(i, mu, batch, posted) = "nothing" THEN 0 ELSE 1
             /\ unmarked'[i] \in Nat /\ unmarked[i] \in Nat
  <2>1. Cardinality(UnderWay(i)) = IF Answer(i, mu, batch, posted) = "nothing" THEN 0 ELSE 1
    <3>1. UnderWay(i) = IF Answer(i, mu, batch, posted) = "nothing" THEN {} ELSE {mu}
      BY AnswerIs
    <3>2. Cardinality({}) = 0 /\ Cardinality({mu}) = 1
      BY FS_EmptySet, FS_Singleton
    <3> QED
      BY <3>1, <3>2
  <2>2. unmarked[i] \in Nat
    BY DEF IInv, TypeOK
  <2> QED
    BY <1>1, <2>1, <2>2
<1>4. TypeOK'
  <2>1. unmarked' \in [Ids -> Nat]
    BY <1>1, <1>3
  <2>2. faults' \in 0..MaxFaults
    BY <1>1, OutboxAssumption DEF IInv, TypeOK
  <2> QED
    BY <1>1, <1>2, <2>1, <2>2 DEF IInv, TypeOK
<1>5. DeliveryOK(mu', batch', posted', events')
  BY <1>1, OutboxAssumption DEF DeliveryOK
<1>6. Ahead'
  <2>1. ASSUME NEW i \in Ids, i >= nextId PROVE unmarked'[i] = 0
    <3>1. events[i] = Absent /\ unmarked[i] = 0
      BY <2>1 DEF IInv, Ahead
    <3>2. Answer(i, mu, batch, posted) = "nothing"
      BY <3>1 DEF IInv, RowsOK, RowOK, Absent
    <3> QED
      BY <1>3, <3>1, <3>2
  <2> QED
    BY <1>2, <2>1 DEF IInv, Ahead
<1>7. Room'
  <2>1. Raises' = {} /\ emitter' \in [Emitters -> Emission]
    BY <1>1 DEF Raises, Raising, Emission, Idle
  <2>2. nextId' + Cardinality(Raises') <= MaxEvents + 1
    BY <1>2, <2>1, FS_EmptySet, OutboxAssumption DEF IInv, TypeOK
  <2> QED
    BY <2>1, <2>2 DEF Room
<1>8. ASSUME NEW i \in Ids
      PROVE  RowOK(events'[i], sent'[i], heard'[i], unmarked'[i], Answer(i, mu', batch', posted'))
  <2>1. RowOK(events[i], sent[i], heard[i], unmarked[i], Answer(i, mu, batch, posted))
    BY DEF IInv, RowsOK
  <2>2. Answer(i, mu', batch', posted') = "nothing"
    BY <1>1 DEF Answer
  <2>3. /\ sent[i] \in Nat /\ heard[i] \in Nat
        /\ events[i] # Absent => events[i].attempts \in Nat
    BY HeardIs, TypesAreRows, OutboxAssumption DEF IInv, Event
  <2>4. RowOK(events[i], sent[i], heard[i], unmarked'[i], "nothing")
    <3>1. CASE Answer(i, mu, batch, posted) = "nothing"
      BY <1>3, <2>1, <3>1 DEF RowOK
    <3>2. CASE Answer(i, mu, batch, posted) # "nothing"
      BY <1>3, <2>1, <2>3, <3>2 DEF RowOK
    <3> QED
      BY <3>1, <3>2
  <2> QED
    BY <1>2, <2>2, <2>4
<1>9. RowsOK(events', sent', heard', unmarked', mu', batch', posted')
  BY <1>8 DEF RowsOK
<1> QED
  BY <1>2, <1>4, <1>5, <1>6, <1>7, <1>9 DEF IInv

----------------------------------------------------------------------------
(* The theorem. *)

LEMMA InvInit == Init => IInv
<1> SUFFICES ASSUME Init PROVE IInv
  OBVIOUS
<1>1. TypeOK
  BY OutboxAssumption DEF Init, TypeOK
<1>2. Ahead
  BY DEF Init, Ahead
<1>3. Room
  <2>1. Raises = {} /\ emitter \in [Emitters -> Emission]
    BY DEF Init, Raises, Raising, Emission, Idle
  <2> QED
    BY <2>1, FS_EmptySet, OutboxAssumption DEF Init, Room
<1>4. DeliveryOK(mu, batch, posted, events)
  BY OutboxAssumption DEF Init, DeliveryOK
<1>5. HeardOK /\ \A i \in Ids : heard[i] = 0
  BY DEF Init, HeardOK, heard
<1>6. RowsOK(events, sent, heard, unmarked, mu, batch, posted)
  BY <1>5 DEF Init, RowsOK, RowOK, Answer, Absent
<1> QED
  BY <1>1, <1>2, <1>3, <1>4, <1>5, <1>6 DEF IInv

LEMMA InvStep == IInv /\ [Next]_vars => IInv'
<1> SUFFICES ASSUME IInv, [Next]_vars PROVE IInv'
  OBVIOUS
<1>1. ASSUME NEW e \in Emitters, Notice(e) \/ Emit(e) PROVE IInv'
  BY <1>1, NoticeStep, CountStep, InsertStep DEF Emit
<1>2. ASSUME NEW d \in Deliverers, Deliver(d) PROVE IInv'
  BY <1>2, SelectStep, PostStep, MarkStep, MarkFailsStep DEF Deliver
<1>3. CASE PutAlertSettings \/ Janitor \/ Tick \/ Restart
  BY <1>3, PutStep, JanitorStep, TickStep, RestartStep
<1>4. CASE UNCHANGED vars
  <2>1. HeardOK' /\ heard' = heard
    BY <1>4, HeardStays DEF IInv, vars, history
  <2> QED
    BY <1>4, <2>1 DEF vars, outbox, delivery, history, IInv, TypeOK, Ahead, Room, Raises, Raising
<1> QED
  BY <1>1, <1>2, <1>3, <1>4 DEF Next

LEMMA InvTells == IInv => SendsAreTold
<1> SUFFICES ASSUME IInv PROVE SendsAreTold
  OBVIOUS
<1>1. ASSUME NEW i \in Ids
      PROVE  /\ RowOK(events[i], sent[i], heard[i], unmarked[i], Answer(i, mu, batch, posted))
             /\ Cardinality(UnderWay(i)) = IF Answer(i, mu, batch, posted) = "nothing" THEN 0 ELSE 1
  <2>1. UnderWay(i) = IF Answer(i, mu, batch, posted) = "nothing" THEN {} ELSE {mu}
    BY AnswerIs
  <2>2. Cardinality({}) = 0 /\ Cardinality({mu}) = 1
    BY FS_EmptySet, FS_Singleton
  <2> QED
    BY <2>1, <2>2 DEF IInv, RowsOK
<1>2. AttemptsTold
  BY <1>1 DEF AttemptsTold, There, RowOK
<1>3. \A i \in Ids : /\ heard[i] \in Nat /\ unheard[i] \in Nat /\ unmarked[i] \in Nat
                     /\ accepted[i] = heard[i] + unheard[i]
  BY HeardIs, TypesAreRows DEF IInv
<1>4. AcceptedOnce
  <2>1. \A i \in Ids : heard[i] <= 1 + unmarked[i]
    BY <1>1 DEF RowOK
  <2> QED
    BY <1>3, <2>1 DEF AcceptedOnce
<1>5. MarksAreTrue
  <2>1. \A i \in Ids : events[i].status = "delivered" => heard[i] > 0
    BY <1>1 DEF RowOK
  <2>2. \A i \in Ids : heard[i] > 0 => accepted[i] > 0
    BY <1>3
  <2> QED
    BY <1>1, <2>1, <2>2 DEF MarksAreTrue, RowOK
<1> QED
  BY <1>2, <1>4, <1>5 DEF IInv, SendsAreTold

\* The attempts of an event are its posts but for those not written down, it is
\* accepted once but for those and for acceptances that deliverDue did not hear
\* of in time, and its mark is true: whichever goroutines run deliverDue, whatever
\* UPDATEs fail and answers are lost, and whenever the process restarts.
THEOREM OutboxTellsSends == Spec => []SendsAreTold
BY InvInit, InvStep, InvTells, PTL DEF Spec

----------------------------------------------------------------------------
(* Bursts. Two events of one type and one emitter are more than a window    *)
(* apart, as the second was raised when the count had found nothing. The    *)
(* model does not say who raised an event; somebody (by) has.               *)

Raised(row, t) == row.type = t /\ row.age < MaxAge
Apart(row, age) == row.age > age + Window \/ age > row.age + Window

ByOK(by, ev, em) ==
  /\ by \in [Ids -> Emitters \cup {Free}]
  /\ \A i \in Ids : ev[i].type \in Types => by[i] \in Emitters
  /\ \A t \in Types : \A i, j \in Ids :
       i # j /\ by[i] = by[j] /\ Raised(ev[i], t) /\ Raised(ev[j], t) => Apart(ev[i], ev[j].age)
  /\ \A e \in Emitters : \A i \in Ids :
       em[e].at = "insert" /\ by[i] = e /\ Raised(ev[i], em[e].type) =>
         ev[i].age > em[e].lag + Window

Bursts == \E by : ByOK(by, events, emitter)

\* A step that queues nothing and makes nobody insert.
LEMMA BurstStays ==
  ASSUME NEW by, NEW ev, NEW em, ByOK(by, ev, em), NEW ev2, NEW em2,
         \A i \in Ids : ev2[i].type \in Types => ev2[i].type = ev[i].type /\ ev2[i].age = ev[i].age,
         \A e \in Emitters : em2[e].at = "insert" =>
           em[e].at = "insert" /\ em2[e].type = em[e].type /\ em2[e].lag = em[e].lag /\ em[e].type \in Types
  PROVE  ByOK(by, ev2, em2)
BY DEF ByOK, Raised, Apart

\* The columns that tell when and what for.
LEMMA RowTypes ==
  ASSUME IInv
  PROVE  /\ \A i \in Ids : /\ events[i] \in Event \cup {Absent}
                           /\ events[i].type \in Types => events[i] \in Event /\ events[i].age \in 0..MaxAge
                           /\ events[i] \in Event => events[i].type \in Types
         /\ emitter \in [Emitters -> Emission]
         /\ \A e \in Emitters : emitter[e].at = "insert" =>
              emitter[e] \in [at : {"count", "insert"}, type : Types, lag : 0..Lag]
         /\ Absent.type \notin Types /\ Window \in Nat /\ Lag \in Nat /\ MaxAge = Window + Lag + 1
<1>1. events \in [Ids -> Event \cup {Absent}] /\ emitter \in [Emitters -> Emission]
  BY DEF IInv, TypeOK, Room
<1>2. Absent.type \notin Types
  BY OutboxAssumption DEF Absent
<1>3. \A r \in Event : r.type \in Types /\ r.age \in 0..MaxAge
  BY DEF Event
<1>4. \A e \in Emitters : emitter[e].at = "insert" =>
        emitter[e] \in [at : {"count", "insert"}, type : Types, lag : 0..Lag]
  BY <1>1 DEF Emission, Idle
<1>5. Window \in Nat /\ Lag \in Nat /\ MaxAge = Window + Lag + 1
  BY OutboxAssumption DEF MaxAge
<1> QED
  BY <1>1, <1>2, <1>3, <1>4, <1>5

LEMMA BurstEmit ==
  ASSUME IInv, Bursts, NEW e \in Emitters, Notice(e) \/ Emit(e)
  PROVE  Bursts'
<1>1. PICK by : ByOK(by, events, emitter)
  BY DEF Bursts
<1>2. /\ emitter \in [Emitters -> Emission] /\ events \in [Ids -> Event \cup {Absent}]
      /\ \A f \in Emitters : emitter[f].at = "insert" => emitter[f].type \in Types
  <2>1. \A f \in Emitters : emitter[f].at = "insert" => emitter[f].type \in Types
    BY RowTypes
  <2> QED
    BY <2>1 DEF IInv, TypeOK, Room
<1>3. CASE Notice(e) \/ EmitFails(e)
  <2>1. events' = events /\ \A f \in Emitters : emitter'[f].at = "insert" => emitter'[f] = emitter[f]
    BY <1>2, <1>3 DEF Notice, EmitFails, Idle, outbox
  <2>2. ByOK(by, events', emitter')
    BY <1>1, <1>2, <2>1, BurstStays
  <2> QED
    BY <2>2 DEF Bursts
<1>4. CASE Count(e)
  <2>1. CASE \E i \in Ids : Counts(i, e)
    <3>1. events' = events /\ \A f \in Emitters : emitter'[f].at = "insert" => emitter'[f] = emitter[f]
      BY <1>2, <1>4, <2>1 DEF Count, Idle, outbox
    <3>2. ByOK(by, events', emitter')
      BY <1>1, <1>2, <3>1, BurstStays
    <3> QED
      BY <3>2 DEF Bursts
  <2>2. CASE ~\E i \in Ids : Counts(i, e)
    <3>1. /\ events' = events /\ emitter[e].at = "count"
          /\ emitter' = [emitter EXCEPT ![e].at = "insert"]
      BY <1>4, <2>2 DEF Count, Raising, outbox
    <3>2. emitter[e] \in [at : {"count", "insert"}, type : Types, lag : 0..Lag]
      BY <1>2, <3>1 DEF Emission, Idle
    <3>3. emitter'[e].type = emitter[e].type /\ emitter'[e].lag = emitter[e].lag
      BY <1>2, <3>1, <3>2
    <3>4. \A f \in Emitters : f # e => emitter'[f] = emitter[f]
      BY <1>2, <3>1
    <3>5. \A i \in Ids : Raised(events[i], emitter[e].type) => events[i].age > emitter[e].lag + Window
      <4> SUFFICES ASSUME NEW i \in Ids, Raised(events[i], emitter[e].type)
                   PROVE  events[i].age > emitter[e].lag + Window
        OBVIOUS
      <4>1. events[i].age \in 0..MaxAge /\ emitter[e].lag \in Nat /\ Window \in Nat /\ MaxAge \in Nat
        BY <3>2, RowTypes DEF Raised
      <4>2. ~(events[i].age <= Window + emitter[e].lag)
        BY <2>2 DEF Counts, Raised
      <4> QED
        BY <4>1, <4>2
    <3>6. ByOK(by, events', emitter')
      BY <1>1, <3>1, <3>3, <3>4, <3>5 DEF ByOK
    <3> QED
      BY <3>6 DEF Bursts
  <2> QED
    BY <2>1, <2>2
<1>5. CASE Insert(e)
  <2> DEFINE t == emitter[e].type
  <2> DEFINE lag == emitter[e].lag
  <2> DEFINE new == [type |-> t, status |-> "pending", attempts |-> 0, wait |-> 0, age |-> lag]
  <2> DEFINE by2 == [by EXCEPT ![nextId] = e]
  <2>1. /\ emitter[e].at = "insert" /\ events' = [events EXCEPT ![nextId] = new]
        /\ emitter' = [emitter EXCEPT ![e] = Idle]
    BY <1>5 DEF Insert, Raising
  <2>2. t \in Types /\ lag \in 0..Lag
    BY <2>1, RowTypes
  <2>3. \A f \in Emitters : emitter'[f].at = "insert" => f # e /\ emitter'[f] = emitter[f]
    BY <1>2, <2>1 DEF Idle
  <2>4. new.type = t /\ new.age = lag
    OBVIOUS
  <2> HIDE DEF new
  <2>5. by \in [Ids -> Emitters \cup {Free}]
    BY <1>1 DEF ByOK
  <2>6. /\ \A i \in Ids : i # nextId => events'[i] = events[i] /\ by2[i] = by[i]
        /\ nextId \in Ids => events'[nextId] = new /\ by2[nextId] = e
    BY <1>2, <2>1, <2>5
  <2>7. by2 \in [Ids -> Emitters \cup {Free}]
    BY <2>5
  <2> HIDE DEF by2
  <2>8. \A i \in Ids : i # nextId /\ by[i] = e /\ Raised(events[i], t) => events[i].age > lag + Window
    BY <1>1, <2>1 DEF ByOK
  <2>9. ByOK(by2, events', emitter')
    <3>1. \A i \in Ids : events'[i].type \in Types => by2[i] \in Emitters
      BY <1>1, <2>6 DEF ByOK
    <3>2. ASSUME NEW u \in Types, NEW i \in Ids, NEW j \in Ids, i # j, by2[i] = by2[j],
                 Raised(events'[i], u), Raised(events'[j], u)
          PROVE  Apart(events'[i], events'[j].age)
      <4>1. CASE i # nextId /\ j # nextId
        BY <1>1, <2>6, <3>2, <4>1 DEF ByOK
      <4>2. CASE i = nextId
        <5>1. j # nextId /\ events'[j] = events[j] /\ by[j] = e /\ events'[i] = new /\ u = t
          BY <2>4, <2>6, <3>2, <4>2 DEF Raised
        <5>2. events[j].age > lag + Window
          BY <2>8, <3>2, <5>1
        <5> QED
          BY <2>4, <5>1, <5>2 DEF Apart
      <4>3. CASE j = nextId
        <5>1. i # nextId /\ events'[i] = events[i] /\ by[i] = e /\ events'[j] = new /\ u = t
          BY <2>4, <2>6, <3>2, <4>3 DEF Raised
        <5>2. events[i].age > lag + Window
          BY <2>8, <3>2, <5>1
        <5> QED
          BY <2>4, <5>1, <5>2 DEF Apart
      <4> QED
        BY <4>1, <4>2, <4>3
    <3>3. ASSUME NEW f \in Emitters, NEW i \in Ids, emitter'[f].at = "insert", by2[i] = f,
                 Raised(events'[i], emitter'[f].type)
          PROVE  events'[i].age > emitter'[f].lag + Window
      <4>1. f # e /\ emitter'[f] = emitter[f]
        BY <2>3, <3>3
      <4>2. i # nextId /\ events'[i] = events[i] /\ by[i] = f
        BY <2>6, <3>3, <4>1
      <4> QED
        BY <1>1, <3>3, <4>1, <4>2 DEF ByOK
    <3> QED
      BY <2>7, <3>1, <3>2, <3>3 DEF ByOK
  <2> QED
    BY <2>9 DEF Bursts
<1> QED
  BY <1>3, <1>4, <1>5 DEF Emit

LEMMA BurstTick ==
  ASSUME IInv, Bursts, Tick
  PROVE  Bursts'
<1>1. PICK by : ByOK(by, events, emitter)
  BY DEF Bursts
<1>2. \A i \in Ids : events'[i].type \in Types =>
        /\ events'[i].type = events[i].type /\ events[i].age \in Nat
        /\ events'[i].age < MaxAge => events[i].age < MaxAge /\ events'[i].age = events[i].age + 1
  <2> SUFFICES ASSUME NEW i \in Ids, events'[i].type \in Types
               PROVE  /\ events'[i].type = events[i].type /\ events[i].age \in Nat
                      /\ events'[i].age < MaxAge =>
                           events[i].age < MaxAge /\ events'[i].age = events[i].age + 1
    OBVIOUS
  <2>1. events'[i] = Older(events[i])
    BY DEF Tick
  <2>2. events[i] # Absent /\ events[i] \in Event
    BY <2>1, RowTypes DEF Older
  <2>3. /\ events'[i].type = events[i].type
        /\ events'[i].age = IF events[i].age < MaxAge THEN events[i].age + 1 ELSE events[i].age
    BY <2>1, <2>2 DEF Older, Event
  <2>4. events[i].age \in 0..MaxAge /\ MaxAge \in Nat
    BY <2>2, RowTypes
  <2> QED
    BY <2>3, <2>4
<1>3. \A f \in Emitters : emitter'[f].at = "insert" =>
        /\ emitter[f].at = "insert" /\ emitter'[f].type = emitter[f].type /\ emitter[f].type \in Types
        /\ emitter[f].lag \in Nat /\ emitter'[f].lag = emitter[f].lag + 1
  <2> SUFFICES ASSUME NEW f \in Emitters, emitter'[f].at = "insert"
               PROVE  /\ emitter[f].at = "insert" /\ emitter'[f].type = emitter[f].type
                      /\ emitter[f].type \in Types
                      /\ emitter[f].lag \in Nat /\ emitter'[f].lag = emitter[f].lag + 1
    OBVIOUS
  <2>1. emitter'[f] = IF emitter[f].at # "idle" THEN [emitter[f] EXCEPT !.lag = @ + 1] ELSE emitter[f]
    BY DEF Tick, Raises, Raising
  <2>2. emitter[f] \in Emission
    BY RowTypes
  <2>3. emitter[f].at # "idle" /\ emitter[f] \in [at : {"count", "insert"}, type : Types, lag : 0..Lag]
    BY <2>1, <2>2 DEF Emission, Idle
  <2> QED
    BY <2>1, <2>3
<1>4. ByOK(by, events', emitter')
  <2>1. Window \in Nat /\ MaxAge \in Nat
    BY RowTypes
  <2>2. ASSUME NEW u \in Types, NEW i \in Ids, NEW j \in Ids, i # j, by[i] = by[j],
               Raised(events'[i], u), Raised(events'[j], u)
        PROVE  Apart(events'[i], events'[j].age)
    <3>1. Raised(events[i], u) /\ Raised(events[j], u)
      BY <1>2, <2>2 DEF Raised
    <3>2. Apart(events[i], events[j].age)
      BY <1>1, <2>2, <3>1 DEF ByOK
    <3>3. /\ events'[i].age = events[i].age + 1 /\ events'[j].age = events[j].age + 1
          /\ events[i].age \in Nat /\ events[j].age \in Nat
      BY <1>2, <2>2 DEF Raised
    <3> QED
      BY <2>1, <3>2, <3>3 DEF Apart
  <2>3. ASSUME NEW f \in Emitters, NEW i \in Ids, emitter'[f].at = "insert", by[i] = f,
               Raised(events'[i], emitter'[f].type)
        PROVE  events'[i].age > emitter'[f].lag + Window
    <3>1. /\ emitter[f].at = "insert" /\ emitter'[f].type = emitter[f].type
          /\ emitter[f].type \in Types /\ emitter[f].lag \in Nat /\ emitter'[f].lag = emitter[f].lag + 1
      BY <1>3, <2>3
    <3>2. Raised(events[i], emitter[f].type) /\ events'[i].age = events[i].age + 1 /\ events[i].age \in Nat
      BY <1>2, <2>3, <3>1 DEF Raised
    <3>3. events[i].age > emitter[f].lag + Window
      BY <1>1, <2>3, <3>1, <3>2 DEF ByOK
    <3> QED
      BY <2>1, <3>1, <3>2, <3>3
  <2>4. by \in [Ids -> Emitters \cup {Free}] /\ \A i \in Ids : events'[i].type \in Types => by[i] \in Emitters
    BY <1>1, <1>2 DEF ByOK
  <2> QED
    BY <2>2, <2>3, <2>4 DEF ByOK
<1> QED
  BY <1>4 DEF Bursts

LEMMA BurstElse ==
  ASSUME IInv, Bursts, NEW d,
         Deliver(d) \/ PutAlertSettings \/ Janitor \/ Restart \/ UNCHANGED vars
  PROVE  Bursts'
<1>1. PICK by : ByOK(by, events, emitter)
  BY DEF Bursts
<1>2. \A e \in Emitters : emitter'[e].at = "insert" => emitter'[e] = emitter[e]
  BY DEF Deliver, Select, Post, Mark, MarkFails, PutAlertSettings, Janitor, Restart, Idle, vars
<1>3. \A i \in Ids : events'[i].type \in Types =>
        events'[i].type = events[i].type /\ events'[i].age = events[i].age
  <2>1. CASE Mark(d)
    <3> DEFINE i == Current(d).id
    <3> DEFINE n == Current(d).attempts + 1
    <3>1. events' = IF ~There(i) THEN events
                    ELSE [events EXCEPT ![i] = IF posted[d] = "accepted" THEN Delivered(@, n) ELSE Refused(@, n)]
      BY <2>1 DEF Mark
    <3> HIDE DEF i, n
    <3> SUFFICES ASSUME NEW j \in Ids, events'[j].type \in Types
                 PROVE  events'[j].type = events[j].type /\ events'[j].age = events[j].age
      OBVIOUS
    <3>2. events \in [Ids -> Event \cup {Absent}]
      BY DEF IInv, TypeOK
    <3>3. CASE ~There(i) \/ i # j
      BY <3>1, <3>2, <3>3
    <3>4. CASE There(i) /\ i = j
      <4>1. events[i] \in Event
        BY <3>2, <3>4 DEF There
      <4>2. events'[i] = IF posted[d] = "accepted" THEN Delivered(events[i], n) ELSE Refused(events[i], n)
        BY <3>1, <3>2, <3>4
      <4>3. /\ Delivered(events[i], n).type = events[i].type /\ Delivered(events[i], n).age = events[i].age
            /\ Refused(events[i], n).type = events[i].type /\ Refused(events[i], n).age = events[i].age
        BY <4>1 DEF Delivered, Refused, Event
      <4> QED
        BY <3>4, <4>2, <4>3
    <3> QED
      BY <3>3, <3>4
  <2>2. CASE Janitor
    BY <2>2, RowTypes DEF Janitor
  <2>3. CASE Select(d) \/ Post(d) \/ MarkFails(d) \/ PutAlertSettings \/ Restart \/ UNCHANGED vars
    BY <2>3 DEF Select, Post, MarkFails, PutAlertSettings, Restart, vars, outbox
  <2> QED
    BY <2>1, <2>2, <2>3 DEF Deliver
<1>4. \A e \in Emitters : emitter[e].at = "insert" => emitter[e].type \in Types
  BY RowTypes
<1>5. ByOK(by, events', emitter')
  BY <1>1, <1>2, <1>3, <1>4, BurstStays
<1> QED
  BY <1>5 DEF Bursts

LEMMA BurstInit == Init => Bursts
<1> SUFFICES ASSUME Init PROVE Bursts
  OBVIOUS
<1> DEFINE by == [i \in Ids |-> Free]
<1>1. \A i \in Ids : events[i] = Absent
  BY DEF Init
<1>2. Absent.type \notin Types
  BY OutboxAssumption DEF Absent
<1>3. \A e \in Emitters : emitter[e].at # "insert"
  BY DEF Init, Idle
<1>4. ByOK(by, events, emitter)
  BY <1>1, <1>2, <1>3 DEF ByOK, Raised
<1> QED
  BY <1>4 DEF Bursts

LEMMA BurstStep == IInv /\ Bursts /\ [Next]_vars => Bursts'
<1> SUFFICES ASSUME IInv, Bursts, [Next]_vars PROVE Bursts'
  OBVIOUS
<1>1. ASSUME NEW e \in Emitters, Notice(e) \/ Emit(e) PROVE Bursts'
  BY <1>1, BurstEmit
<1>2. ASSUME NEW d \in Deliverers, Deliver(d) PROVE Bursts'
  BY <1>2, BurstElse
<1>3. CASE PutAlertSettings \/ Janitor \/ Restart \/ UNCHANGED vars
  BY <1>3, BurstElse
<1> QED
  BY <1>1, <1>2, <1>3, BurstTick DEF Next

\* Each of the events in a window was raised by another emitter.
LEMMA BurstsFew == Bursts /\ IInv => BurstsBounded
<1> SUFFICES ASSUME Bursts, IInv, NEW t \in Types, NEW a \in 0..(MaxAge - 1)
             PROVE  Cardinality({i \in Ids : /\ events[i].type = t /\ events[i].age < MaxAge
                                             /\ events[i].age \in a..(a + Window)}) <= Cardinality(Emitters)
  BY DEF BurstsBounded
<1> DEFINE S == {i \in Ids : /\ events[i].type = t /\ events[i].age < MaxAge
                             /\ events[i].age \in a..(a + Window)}
<1>1. PICK by : ByOK(by, events, emitter)
  BY DEF Bursts
<1> DEFINE f == [i \in S |-> by[i]]
<1>2. \A i \in S : by[i] \in Emitters
  BY <1>1 DEF ByOK
<1>3. \A i, j \in S : by[i] = by[j] => i = j
  <2> SUFFICES ASSUME NEW i \in S, NEW j \in S, by[i] = by[j], i # j
               PROVE  FALSE
    OBVIOUS
  <2>1. Apart(events[i], events[j].age)
    BY <1>1 DEF ByOK, Raised
  <2>2. a \in Nat /\ Window \in Nat
    BY OutboxAssumption
  <2>3. events[i].age \in a..(a + Window) /\ events[j].age \in a..(a + Window)
    OBVIOUS
  <2> HIDE DEF S
  <2> QED
    BY <2>1, <2>2, <2>3 DEF Apart
<1> HIDE DEF S
<1>4. f \in Injection(S, Emitters)
  BY <1>2, <1>3 DEF Injection, IsInjective
<1>5. Cardinality(S) <= Cardinality(Emitters)
  <2> HIDE DEF f
  <2> QED
    BY <1>4, OutboxAssumption, FS_Injection
<1> QED
  BY <1>5 DEF S

\* No type of event is queued more often within a window than there are
\* goroutines that raised it at once (emitAlert: the count and the insert).
THEOREM OutboxBursts == Spec => []BurstsBounded
BY InvInit, InvStep, BurstInit, BurstStep, BurstsFew, PTL DEF Spec
=============================================================================
