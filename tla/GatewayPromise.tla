--------------------------- MODULE GatewayPromise ---------------------------
(***************************************************************************)
(* What POST /v1/chat/completions promises, whatever exits, upstreams and   *)
(* clients do. A request is either refused without having held one of the   *)
(* gateway's slots or admitted to one. An admitted request chooses its      *)
(* routing engine at most once and never changes it; once it routes, it is  *)
(* answered exactly once, and its usage record is handed to the database    *)
(* exactly once, before its slot is free again; one that never routes is    *)
(* answered once, and its record is handed over at most once. The promise   *)
(* does not go further: a record the database refuses is lost, nobody tries *)
(* again, and the request ends like any other.                              *)
(***************************************************************************)
EXTENDS Integers, FiniteSets

CONSTANTS
  Requests,
  Capacity,  \* slots (MAX_CONCURRENT_REQUESTS)
  NoEngine   \* the request has not chosen an engine

VARIABLES
  phase,    \* "new", "admitted", "routing", "over"
  engine,   \* the engine each request is routed by
  answers,  \* answers each request was given
  records,  \* usage records that were stored for it
  missed    \* usage records that could not be stored

vars == <<phase, engine, answers, records, missed>>

Holders == {r \in Requests : phase[r] \in {"admitted", "routing"}}

Init ==
  /\ phase = [r \in Requests |-> "new"]
  /\ engine = [r \in Requests |-> NoEngine]
  /\ answers = [r \in Requests |-> 0]
  /\ records = [r \in Requests |-> 0]
  /\ missed = [r \in Requests |-> 0]

Refuse(r) ==
  /\ phase[r] = "new"
  /\ phase' = [phase EXCEPT ![r] = "over"]
  /\ answers' = [answers EXCEPT ![r] = 1]
  /\ UNCHANGED <<engine, records, missed>>

Admit(r) ==
  /\ phase[r] = "new" /\ Cardinality(Holders) < Capacity
  /\ phase' = [phase EXCEPT ![r] = "admitted"]
  /\ UNCHANGED <<engine, answers, records, missed>>

Choose(r) ==
  /\ phase[r] = "admitted" /\ engine[r] = NoEngine /\ answers[r] = 0
  /\ \E e \in {"builtin", "resin"} : engine' = [engine EXCEPT ![r] = e]
  /\ UNCHANGED <<phase, answers, records, missed>>

Route(r) ==
  /\ phase[r] = "admitted" /\ engine[r] # NoEngine /\ answers[r] = 0
  /\ records[r] = 0 /\ missed[r] = 0
  /\ phase' = [phase EXCEPT ![r] = "routing"]
  /\ UNCHANGED <<engine, answers, records, missed>>

Answer(r) ==
  /\ r \in Holders /\ answers[r] = 0
  /\ answers' = [answers EXCEPT ![r] = 1]
  /\ UNCHANGED <<phase, engine, records, missed>>

Account(r) ==
  /\ r \in Holders /\ records[r] = 0 /\ missed[r] = 0
  /\ records' = [records EXCEPT ![r] = 1]
  /\ UNCHANGED <<phase, engine, answers, missed>>

Lose(r) ==
  /\ r \in Holders /\ records[r] = 0 /\ missed[r] = 0
  /\ missed' = [missed EXCEPT ![r] = 1]
  /\ UNCHANGED <<phase, engine, answers, records>>

Finish(r) ==
  /\ r \in Holders /\ answers[r] = 1
  /\ phase[r] = "routing" => records[r] + missed[r] = 1
  /\ phase' = [phase EXCEPT ![r] = "over"]
  /\ UNCHANGED <<engine, answers, records, missed>>

Next ==
  \E r \in Requests :
    \/ Refuse(r) \/ Admit(r) \/ Choose(r) \/ Route(r) \/ Answer(r)
    \/ Account(r) \/ Lose(r) \/ Finish(r)

Spec == Init /\ [][Next]_vars
=============================================================================
