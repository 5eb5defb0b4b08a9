---------------------------- MODULE AlertOutbox ----------------------------
(***************************************************************************)
(* Alerts are queued in table alert_events and posted to a webhook by       *)
(* deliverDue, which a ticker and every new alert start, one at a time      *)
(* under a mutex. A post that is not answered 2xx in time is retried after  *)
(* a growing delay, four posts in all at most, whether the receiver refused *)
(* the event or accepted it and was not heard. An alert is not queued if    *)
(* one of its type is younger than fifteen minutes.                         *)
(*                                                                          *)
(* A step is one statement, one post or one lock operation. Time is kept    *)
(* relative to now: what is left of a delay and how old a row is, the       *)
(* latter up to an age at which nothing asks for it any more.               *)
(***************************************************************************)
EXTENDS Integers, Sequences, FiniteSets

CONSTANTS
  Types,        \* event types, each its own dedupe_key
  Emitters,     \* goroutines that may raise an alert
  Deliverers,   \* goroutines that may run deliverDue
  MaxEvents,    \* bound on the rows ever inserted
  MaxAttempts,  \* 4 in the code
  Delays,       \* 1, 5 and 30 minutes in the code
  Limit,        \* rows of one batch, 20 in the code
  Window,       \* 15 minutes
  Lag,          \* bound: how long emitAlert takes to insert
  MaxFaults,    \* bound on crashes, failing UPDATEs and lost answers
  NoType, Free

ASSUME OutboxAssumption ==
  /\ MaxEvents \in Nat /\ MaxAttempts \in Nat \ {0} /\ Limit \in Nat \ {0}
  /\ Delays \in Seq(Nat \ {0}) /\ Len(Delays) = MaxAttempts - 1
  /\ Window \in Nat /\ Lag \in Nat /\ MaxFaults \in Nat
  /\ Free \notin Deliverers /\ NoType \notin Types
  /\ IsFiniteSet(Emitters) /\ IsFiniteSet(Deliverers)

Ids == 1..MaxEvents
MaxAge == Window + Lag + 1

VARIABLES
  settings,  \* alerts_enabled and alerts_events
  events,    \* table alert_events
  nextId,
  emitter,   \* where each emitter is, what it raises, and for how long
  mu,        \* alertDispatcher.mu
  batch,     \* the rows each deliverer has selected and not dealt with
  posted,    \* how it takes the post of the first of them to have ended
  faults,
  sent,      \* history: how often each event was posted
  accepted,  \* history: how often the receiver accepted it
  unheard,   \* history: how often its answer was then too late or lost
  unmarked   \* history: how often a post was not written down

outbox == <<events, nextId>>
delivery == <<mu, batch, posted>>
history == <<sent, accepted, unheard, unmarked>>
vars == <<settings, outbox, emitter, delivery, faults, history>>

\* putAlertSettings takes no events for all of them.
Settings == [enabled : BOOLEAN, events : (SUBSET Types) \ {{}}]
Absent == [type |-> NoType, status |-> "absent", attempts |-> 0, wait |-> 0, age |-> 0]
Event == [type : Types, status : {"pending", "delivered", "failed"},
          attempts : 0..MaxAttempts, wait : Nat, age : 0..MaxAge]
Idle == [at |-> "idle"]

Init ==
  /\ settings \in Settings
  /\ events = [i \in Ids |-> Absent]
  /\ nextId = 1
  /\ emitter = [e \in Emitters |-> Idle]
  /\ mu = Free
  /\ batch = [d \in Deliverers |-> {}]
  /\ posted = [d \in Deliverers |-> "nothing"]
  /\ faults = 0
  /\ sent = [i \in Ids |-> 0]
  /\ accepted = [i \in Ids |-> 0]
  /\ unheard = [i \in Ids |-> 0]
  /\ unmarked = [i \in Ids |-> 0]

There(i) == events[i] # Absent
Pending(i) == events[i].status = "pending"

----------------------------------------------------------------------------
(* emitAlert. *)

Raising(e, place) == emitter[e].at = place
Raises == {e \in Emitters : ~Raising(e, "idle")}

\* A condition is met whose alert is wanted; now is read here.
Notice(e) ==
  /\ Raising(e, "idle")
  /\ nextId + Cardinality(Raises) <= MaxEvents
  /\ \E t \in Types :
       /\ settings.enabled /\ t \in settings.events
       /\ emitter' = [emitter EXCEPT ![e] = [at |-> "count", type |-> t, lag |-> 0]]
  /\ UNCHANGED <<settings, outbox, delivery, faults, history>>

\* created_at >= now-15min, whatever has become of the row. The mutated form
\* asks for rows that are still pending.
PendingOnly(i, e) ==
  /\ Pending(i)
  /\ events[i].type = emitter[e].type /\ events[i].age <= Window + emitter[e].lag
Counts(i, e) ==
  events[i].type = emitter[e].type /\ events[i].age <= Window + emitter[e].lag

Count(e) ==
  /\ Raising(e, "count")
  /\ IF \E i \in Ids : Counts(i, e)
     THEN emitter' = [emitter EXCEPT ![e] = Idle]
     ELSE emitter' = [emitter EXCEPT ![e].at = "insert"]
  /\ UNCHANGED <<settings, outbox, delivery, faults, history>>

\* The row is stamped with the time of Notice. The goroutine that is started
\* then is one of Deliverers.
Insert(e) ==
  /\ Raising(e, "insert")
  /\ events' = [events EXCEPT ![nextId] =
                  [type |-> emitter[e].type, status |-> "pending", attempts |-> 0,
                   wait |-> 0, age |-> emitter[e].lag]]
  /\ nextId' = nextId + 1
  /\ emitter' = [emitter EXCEPT ![e] = Idle]
  /\ UNCHANGED <<settings, delivery, faults, history>>

\* A statement fails: the alert is not queued.
EmitFails(e) ==
  /\ e \in Raises
  /\ emitter' = [emitter EXCEPT ![e] = Idle]
  /\ UNCHANGED <<settings, outbox, delivery, faults, history>>

----------------------------------------------------------------------------
(* deliverDue. *)

\* The mutated form has no mutex.
NoMutex(d) == batch[d] = {}
Takes(d) == mu = Free

Due == {i \in Ids : Pending(i) /\ events[i].wait = 0}

\* mu.Lock, and the settings tell to go on; the SELECT. Without a due row the
\* mutex is released again at once.
Select(d) ==
  /\ Takes(d) /\ settings.enabled /\ Due # {}
  /\ mu' = d
  /\ batch' = [batch EXCEPT ![d] =
                 {[id |-> i, attempts |-> events[i].attempts] :
                    i \in {j \in Due : Cardinality({k \in Due : k < j}) < Limit}}]
  /\ UNCHANGED <<settings, outbox, emitter, posted, faults, history>>

Current(d) == CHOOSE r \in batch[d] : \A s \in batch[d] : r.id <= s.id

\* How a post may end: the receiver accepts the event, or it does not (another
\* status, a URL that is none, nobody there); and an acceptance is heard, or the
\* client times out before its answer, or loses it.
Outcomes == {[accepts |-> TRUE, heard |-> TRUE], [accepts |-> TRUE, heard |-> FALSE],
             [accepts |-> FALSE, heard |-> FALSE]}
Lost(o) == IF o.accepts /\ ~o.heard THEN 1 ELSE 0

\* Every error counts as a refusal.
Post(d) ==
  /\ batch[d] # {} /\ posted[d] = "nothing"
  /\ LET i == Current(d).id
     IN  \E o \in Outcomes :
           /\ posted' = [posted EXCEPT ![d] = IF o.heard THEN "accepted" ELSE "refused"]
           /\ accepted' = [accepted EXCEPT ![i] = IF o.accepts THEN @ + 1 ELSE @]
           /\ unheard' = [unheard EXCEPT ![i] = @ + Lost(o)]
           /\ faults' = faults + Lost(o) /\ faults' <= MaxFaults
           /\ sent' = [sent EXCEPT ![i] = @ + 1]
  /\ UNCHANGED <<settings, outbox, emitter, mu, batch, unmarked>>

\* defer mu.Unlock, after the last row; the mutated form has none.
KeepsLocked(rows) == mu
Unlocked(rows) == IF rows = {} THEN Free ELSE mu

\* On to the next row.
Advance(d) ==
  /\ batch' = [batch EXCEPT ![d] = @ \ {Current(d)}]
  /\ posted' = [posted EXCEPT ![d] = "nothing"]
  /\ mu' = Unlocked(batch'[d])

\* The UPDATE of a row after its n-th post, if that counts as refused.
Refused(row, n) ==
  IF n >= MaxAttempts THEN [row EXCEPT !.status = "failed", !.attempts = n]
  ELSE [row EXCEPT !.attempts = n, !.wait = Delays[n]]

Delivered(row, n) == [row EXCEPT !.status = "delivered", !.attempts = n]

Mark(d) ==
  /\ posted[d] # "nothing"
  /\ LET i == Current(d).id
         n == Current(d).attempts + 1
     IN  events' = IF ~There(i) THEN events
                   ELSE [events EXCEPT ![i] = IF posted[d] = "accepted" THEN Delivered(@, n)
                                              ELSE Refused(@, n)]
  /\ Advance(d)
  /\ UNCHANGED <<settings, nextId, emitter, faults, history>>

\* The UPDATE fails, which nobody notices.
MarkFails(d) ==
  /\ posted[d] # "nothing" /\ faults < MaxFaults
  /\ faults' = faults + 1
  /\ unmarked' = [unmarked EXCEPT ![Current(d).id] = @ + 1]
  /\ Advance(d)
  /\ UNCHANGED <<settings, outbox, emitter, sent, accepted, unheard>>

----------------------------------------------------------------------------
(* The console, the janitor, time, and crashes. *)

PutAlertSettings ==
  /\ settings' \in Settings \ {settings}
  /\ UNCHANGED <<outbox, emitter, delivery, faults, history>>

\* Rows that are done with and (more than) old enough.
Janitor ==
  /\ events' = [i \in Ids |-> IF ~Pending(i) /\ events[i].age = MaxAge THEN Absent ELSE events[i]]
  /\ UNCHANGED <<settings, nextId, emitter, delivery, faults, history>>

Older(row) ==
  IF row = Absent THEN row
  ELSE [row EXCEPT !.age = IF @ < MaxAge THEN @ + 1 ELSE @,
                   !.wait = IF @ > 0 THEN @ - 1 ELSE @]

Tick ==
  /\ \A e \in Raises : emitter[e].lag < Lag
  /\ emitter' = [e \in Emitters |-> IF e \in Raises THEN [emitter[e] EXCEPT !.lag = @ + 1]
                                    ELSE emitter[e]]
  /\ events' = [i \in Ids |-> Older(events[i])]
  /\ UNCHANGED <<settings, nextId, delivery, faults, history>>

\* The process stops and starts again: the table is all that is left.
Restart ==
  /\ faults < MaxFaults
  /\ faults' = faults + 1
  /\ emitter' = [e \in Emitters |-> Idle]
  /\ mu' = Free
  /\ batch' = [d \in Deliverers |-> {}]
  /\ posted' = [d \in Deliverers |-> "nothing"]
  /\ unmarked' = [i \in Ids |-> unmarked[i] + Cardinality(
                   {d \in Deliverers : IF posted[d] # "nothing" THEN Current(d).id = i ELSE FALSE})]
  /\ UNCHANGED <<settings, outbox, sent, accepted, unheard>>

----------------------------------------------------------------------------
Emit(e) == Count(e) \/ Insert(e) \/ EmitFails(e)
Deliver(d) == Select(d) \/ Post(d) \/ Mark(d) \/ MarkFails(d)

Next ==
  \/ \E e \in Emitters : Notice(e) \/ Emit(e)
  \/ \E d \in Deliverers : Deliver(d)
  \/ PutAlertSettings \/ Janitor \/ Tick \/ Restart

Spec == Init /\ [][Next]_vars

\* The ticker runs deliverDue every 15 seconds, a post has a timeout of five,
\* goroutines run on and time passes. Nothing is assumed of the console.
FairSpec ==
  /\ Spec
  /\ \A e \in Emitters : WF_vars(Emit(e))
  /\ \A d \in Deliverers : WF_vars(Deliver(d))
  /\ WF_vars(Tick)

----------------------------------------------------------------------------
(* Properties. *)

TypeOK ==
  /\ settings \in Settings
  /\ events \in [Ids -> Event \cup {Absent}]
  /\ nextId \in 1..(MaxEvents + 1)
  /\ mu \in Deliverers \cup {Free}
  /\ batch \in [Deliverers -> SUBSET [id : Ids, attempts : 0..MaxAttempts]]
  /\ posted \in [Deliverers -> {"nothing", "accepted", "refused"}]
  /\ faults \in 0..MaxFaults
  /\ sent \in [Ids -> Nat] /\ accepted \in [Ids -> Nat]
  /\ unheard \in [Ids -> Nat] /\ unmarked \in [Ids -> Nat]

\* Posts of event i whose outcome is not written down yet.
UnderWay(i) == {d \in Deliverers : IF posted[d] # "nothing" THEN Current(d).id = i ELSE FALSE}

\* The attempts of an event are its posts, but for those that were not written
\* down; so it is posted MaxAttempts times at most, and once more for each of
\* these. (Its deliverer is the only one: they exclude each other.)
AttemptsTold ==
  \A i \in Ids : There(i) =>
    sent[i] = events[i].attempts + unmarked[i] + Cardinality(UnderWay(i))

\* The receiver accepts an event once, and once more only for each time that
\* its acceptance was not heard (it came after the timeout, or was lost) or not
\* written down (by a crash or a failing UPDATE); never because two deliverers
\* post it at once, or because one posts what is marked as delivered.
AcceptedOnce == \A i \in Ids : accepted[i] <= 1 + unheard[i] + unmarked[i]

\* What is marked as delivered was accepted, and what is given up was posted
\* as often as there are attempts; it may still have been accepted.
MarksAreTrue ==
  \A i \in Ids : There(i) =>
    /\ events[i].status = "delivered" => accepted[i] > 0
    /\ events[i].status = "failed" => events[i].attempts = MaxAttempts

SendsAreTold == TypeOK /\ AttemptsTold /\ AcceptedOnce /\ MarksAreTrue

\* Within one window an event type is queued no more often than there are
\* goroutines that raised it at once: the check and the insert are two
\* statements, and what became of the earlier row does not matter.
BurstsBounded ==
  \A t \in Types, a \in 0..(MaxAge - 1) :
    Cardinality({i \in Ids : /\ events[i].type = t /\ events[i].age < MaxAge
                             /\ events[i].age \in a..(a + Window)}) <= Cardinality(Emitters)

\* Every queued event is delivered or given up if alerts stay enabled from
\* some time on, through retries, lost marks and restarts.
EventsSettle == <>[]settings.enabled => \A i \in Ids : Pending(i) ~> ~Pending(i)
=============================================================================
