---------------------------- MODULE GatewayChat ----------------------------
(***************************************************************************)
(* gatewayChat, the handler of POST /v1/chat/completions: admission by a    *)
(* semaphore, the choice of the routing engine, the loop of attempts (each  *)
(* with an optional vision helper call), the verdicts the loop passes on    *)
(* exits, and the answer and the usage record a request ends in, if the     *)
(* record can be stored. Requests share the semaphore and the engine        *)
(* setting, which the console changes at any time; the client may leave at  *)
(* any time.                                                                *)
(*                                                                          *)
(* What exits and upstreams do is a choice. Which exit an attempt uses is   *)
(* the matter of SessionRouting, and what a verdict does to an exit that of *)
(* ProxyPool; here exits are counted.                                       *)
(***************************************************************************)
EXTENDS Integers, FiniteSets

CONSTANTS
  Requests,
  Capacity,       \* slots of gatewaySem
  MaxExits,       \* bound on the exits available() returns
  BuiltinAttempts, \* 3 in the code
  ResinAttempts,  \* resinMaxAttempts, 10 in the code
  NoEngine

ASSUME ChatAssumption ==
  /\ IsFiniteSet(Requests)
  /\ Capacity \in Nat \ {0} /\ MaxExits \in Nat
  /\ BuiltinAttempts \in Nat \ {0} /\ ResinAttempts \in Nat \ {0}
  /\ NoEngine \notin {"builtin", "resin"}

VARIABLES
  slots,    \* len(gatewaySem)
  setting,  \* the configured engine
  q         \* the requests

vars == <<slots, setting, q>>

Engines == {"builtin", "resin"}

\* What an upstream or an exit may answer, by what the loop tells apart.
Statuses ==
  {"fine",       \* below 500 and none of the following
   "timeout",    \* 408
   "limited",    \* 401, 429
   "proxyauth",  \* 407
   "barred",     \* 403 that disqualifies the exit
   "down",       \* 500, 502, 503, 504
   "odd"}        \* any other 5xx

\* retryableUpstreamStatus; the mutated form has no 5xx.
RetryableBelow500(s) == s \in {"timeout", "limited"}
Retryable(s) == s \in {"timeout", "limited", "down"}

\* A request: its place in the handler, whether its client has left, how it is
\* routed, what it has tried, what it was answered and what was written down.
NewRequest ==
  [pc |-> "new", gone |-> FALSE, engine |-> NoEngine,
   vision |-> "none",    \* the helper call: none, direct, or through the exit
   attempts |-> 0, i |-> 0, retries |-> 0, summary |-> 0, status |-> "none",
   downstream |-> FALSE, \* downstreamErr is set
   answers |-> 0, origin |-> "none",
   records |-> 0, missed |-> 0,  \* usage records stored, and those that could not be
   early |-> FALSE,      \* history: the client had left when the last forward failed
   wronged |-> FALSE]    \* history: and an exit was blamed for it

Request ==
  [pc : {"new", "prepare", "exits", "loop", "pick", "helper", "forward", "errored",
         "wait", "deliver", "record", "fail", "reply", "reject", "release", "over"},
   gone : BOOLEAN, engine : Engines \cup {NoEngine},
   vision : {"none", "direct", "proxy"},
   attempts : Nat, i : Nat, retries : Nat, summary : Nat,
   status : Statuses \cup {"none"}, downstream : BOOLEAN,
   answers : Nat, records : Nat, missed : Nat,
   origin : {"none", "refused", "internal", "external", "delivered"},
   early : BOOLEAN, wronged : BOOLEAN]

\* Between the acquisition of the slot and its deferred release.
Holds(r) == q[r].pc \notin {"new", "over"}

Init ==
  /\ slots = 0
  /\ setting \in Engines
  /\ q = [r \in Requests |-> NewRequest]

Resin(r) == q[r].engine = "resin"

\* Request r becomes new.
Becomes(r, new) ==
  /\ q' = [q EXCEPT ![r] = new]
  /\ UNCHANGED <<slots, setting>>

\* The usage record of request x: one INSERT, whose failure is logged and no
\* more. The mutated form writes none.
Unrecorded(x) == {x}
Recorded(x) == {[x EXCEPT !.records = @ + 1], [x EXCEPT !.missed = @ + 1]}

----------------------------------------------------------------------------
(* Admission. *)

\* The key is not accepted, or its limit is used up: answered without a slot.
Reject(r) ==
  /\ q[r].pc = "new"
  /\ Becomes(r, [q[r] EXCEPT !.pc = "over", !.answers = @ + 1])

\* select with a default: nobody waits for a slot. The mutated form does not
\* look how many are taken.
NoCapacity == TRUE
HasRoom == slots < Capacity

Admit(r) ==
  /\ q[r].pc = "new" /\ HasRoom
  /\ slots' = slots + 1
  /\ q' = [q EXCEPT ![r].pc = "prepare"]
  /\ UNCHANGED setting

AtCapacity(r) ==
  /\ q[r].pc = "new" /\ ~HasRoom
  /\ Becomes(r, [q[r] EXCEPT !.pc = "over", !.answers = @ + 1])

\* The deferred release; the mutated form forgets it. The locals are gone too.
Kept == slots
Released == slots - 1

Release(r) ==
  /\ q[r].pc = "release"
  /\ slots' = Released
  /\ q' = [q EXCEPT ![r] = [NewRequest EXCEPT !.pc = "over", !.engine = q[r].engine,
                            !.answers = q[r].answers, !.records = q[r].records,
                            !.missed = q[r].missed]]
  /\ UNCHANGED setting

----------------------------------------------------------------------------
(* Preparation. *)

\* The body, the model, the upstream or the engine's settings are no good, or
\* no identity can be drawn: answered with no record.
Refuse(r) ==
  /\ q[r].pc \in {"prepare", "exits"}
  /\ Becomes(r, [q[r] EXCEPT !.pc = "release", !.answers = @ + 1])

\* Images for a model that takes none: recorded, then answered.
Unsupported(r) ==
  /\ q[r].pc = "prepare"
  /\ \E y \in Recorded([q[r] EXCEPT !.pc = "reject", !.origin = "refused"]) : Becomes(r, y)

\* loadProxyEngine: the engine is read once and for all.
LoadEngine(r) ==
  /\ q[r].pc = "prepare"
  /\ \E v \in {"none", "direct", "proxy"} :
       Becomes(r, [q[r] EXCEPT !.pc = "exits", !.engine = setting, !.vision = v])

\* Resin rotates accounts; the builtin engine has the exits available() returns.
ResinReady(r) ==
  /\ q[r].pc = "exits" /\ Resin(r)
  /\ Becomes(r, [q[r] EXCEPT !.pc = "loop", !.attempts = ResinAttempts])

LoadProxies(r) ==
  /\ q[r].pc = "exits" /\ ~Resin(r)
  /\ \E n \in 1..MaxExits :
       Becomes(r, [q[r] EXCEPT !.pc = "loop",
                   !.attempts = IF n < BuiltinAttempts THEN n ELSE BuiltinAttempts])

\* There is none, or they cannot be loaded.
NoProxies(r) ==
  /\ q[r].pc = "exits" /\ ~Resin(r)
  /\ \E y \in Recorded([q[r] EXCEPT !.pc = "reject", !.origin = "internal"]) : Becomes(r, y)

RejectReply(r) ==
  /\ q[r].pc = "reject"
  /\ Becomes(r, [q[r] EXCEPT !.pc = "release", !.answers = @ + 1])

----------------------------------------------------------------------------
(* The loop. *)

LastAttempt(r) == q[r].i + 1 = q[r].attempts
Fail(r) == Becomes(r, [q[r] EXCEPT !.pc = "fail"])
FailGone(r) == Becomes(r, [q[r] EXCEPT !.pc = "fail", !.downstream = TRUE])

\* i++ of the loop; the mutated form repeats the attempt for ever.
SameAttempt(r) == q[r].i
NextIndex(r) == q[r].i + 1
NextAttempt(r) == Becomes(r, [q[r] EXCEPT !.pc = "loop", !.i = NextIndex(r)])

\* The loop head: out of attempts, the client has left, or another attempt.
LoopEnd(r) ==
  /\ q[r].pc = "loop" /\ q[r].i = q[r].attempts
  /\ Fail(r)

LoopGone(r) ==
  /\ q[r].pc = "loop" /\ q[r].i # q[r].attempts /\ q[r].gone
  /\ FailGone(r)

LoopGo(r) ==
  /\ q[r].pc = "loop" /\ q[r].i # q[r].attempts /\ ~q[r].gone
  /\ Becomes(r, [q[r] EXCEPT !.pc = "pick"])

\* No exit can be picked: the database refuses, or the account is not valid.
PickError(r) ==
  /\ q[r].pc = "pick"
  /\ Fail(r)

Pick(r) ==
  /\ q[r].pc = "pick"
  /\ Becomes(r, [q[r] EXCEPT !.retries = q[r].i,
                             !.pc = IF q[r].vision = "none" THEN "forward" ELSE "helper"])

\* The helper call does not depend on the client (context.WithoutCancel).
HelperDone(r) ==
  /\ q[r].pc = "helper"
  /\ Becomes(r, [q[r] EXCEPT !.pc = "forward"])

\* A helper call through the exit fails on the way, its response cannot be
\* read, or it is answered 429: the next attempt, which the last one has not.
HelperRetry(r) ==
  /\ q[r].pc = "helper" /\ q[r].vision = "proxy"
  /\ NextAttempt(r)

\* The image cannot be prepared, or the helper fails otherwise (in Resin mode,
\* on the way, which blames Resin; directly; or with its answer).
HelperFail(r) ==
  /\ q[r].pc = "helper"
  /\ Fail(r)

\* gatewayAttempt is appended; the mutated form does so for answers only.
Unlisted(r) == q[r].summary
Listed(r) == q[r].summary + 1

\* forward fails, for the exit's reasons or because the client has left.
ForwardError(r) ==
  /\ q[r].pc = "forward"
  /\ Becomes(r, [q[r] EXCEPT !.pc = "errored", !.summary = Listed(r), !.early = q[r].gone])

\* r.Context().Err() after a failed forward. The mutated form does not look.
Unnoticed(r) == FALSE
SeesGone(r) == q[r].gone

ErrorGone(r) ==
  /\ q[r].pc = "errored" /\ SeesGone(r)
  /\ FailGone(r)

\* markProxyFailure and clearSessionProxy, or the Resin account is advanced;
\* after the last of them Resin itself is blamed (resinFailure).
Blame(r) ==
  /\ q[r].pc = "errored" /\ ~SeesGone(r)
  /\ LET w == q[r].wronged \/ q[r].early
     IN  IF Resin(r) /\ LastAttempt(r)
         THEN Becomes(r, [q[r] EXCEPT !.pc = "fail", !.wronged = w])
         ELSE Becomes(r, [q[r] EXCEPT !.pc = "loop", !.i = NextIndex(r), !.wronged = w])

\* An answer that ends the attempt but not the request. Builtin: 407 always,
\* retryable ones and barred exits with attempts left, after a delay. Resin:
\* retryable ones and barred exits with attempts left, at once.
Passed(r, s) ==
  IF s = "proxyauth" THEN ~Resin(r)
  ELSE (Retryable(s) \/ s = "barred") /\ ~LastAttempt(r)

Respond(r) ==
  /\ q[r].pc = "forward"
  /\ \E s \in Statuses :
       IF ~Passed(r, s)
       THEN Becomes(r, [q[r] EXCEPT !.pc = "deliver", !.status = s])
       ELSE IF Resin(r) \/ s = "proxyauth"
       THEN Becomes(r, [q[r] EXCEPT !.pc = "loop", !.i = NextIndex(r), !.summary = @ + 1])
       ELSE Becomes(r, [q[r] EXCEPT !.pc = "wait", !.summary = @ + 1])

\* waitForRetry: the timer fires; or the client has left, and if both, either.
Waited(r) ==
  /\ q[r].pc = "wait"
  /\ NextAttempt(r)

WaitGone(r) ==
  /\ q[r].pc = "wait" /\ q[r].gone
  /\ FailGone(r)

----------------------------------------------------------------------------
(* The end. *)

\* copyResponse: the client gets the upstream's answer, whole or broken off.
Deliver(r) ==
  /\ q[r].pc = "deliver"
  /\ Becomes(r, [q[r] EXCEPT !.pc = "record", !.answers = @ + 1, !.summary = @ + 1])

Record(r) ==
  /\ q[r].pc = "record"
  /\ \E y \in Recorded([q[r] EXCEPT !.pc = "release", !.origin = "delivered",
                                    !.retries = q[r].i]) : Becomes(r, y)

\* terminalGatewayFailure: 499 or 504, external, when the client has left;
\* else 502, internal.
FailRecord(r) ==
  /\ q[r].pc = "fail"
  /\ LET x == [q[r] EXCEPT !.pc = "reply",
                           !.origin = IF q[r].downstream THEN "external" ELSE "internal"]
     IN  \E y \in Recorded(x) : Becomes(r, y)

FailReply(r) ==
  /\ q[r].pc = "reply"
  /\ Becomes(r, [q[r] EXCEPT !.pc = "release", !.answers = @ + 1])

----------------------------------------------------------------------------
(* The client and the console. *)

Leave(r) ==
  /\ Holds(r) /\ ~q[r].gone
  /\ Becomes(r, [q[r] EXCEPT !.gone = TRUE])

\* putProxyEngine.
PutEngine ==
  /\ setting' \in Engines \ {setting}
  /\ UNCHANGED <<slots, q>>

----------------------------------------------------------------------------
RequestStep(r) ==
  \/ Reject(r) \/ Admit(r) \/ AtCapacity(r) \/ Release(r)
  \/ Refuse(r) \/ Unsupported(r) \/ NoProxies(r) \/ RejectReply(r)
  \/ LoadEngine(r) \/ ResinReady(r) \/ LoadProxies(r)
  \/ LoopEnd(r) \/ LoopGone(r) \/ LoopGo(r) \/ PickError(r) \/ Pick(r)
  \/ HelperDone(r) \/ HelperRetry(r) \/ HelperFail(r)
  \/ ForwardError(r) \/ ErrorGone(r) \/ Blame(r) \/ Respond(r) \/ Waited(r) \/ WaitGone(r)
  \/ Deliver(r) \/ Record(r) \/ FailRecord(r) \/ FailReply(r)

Next == (\E r \in Requests : RequestStep(r) \/ Leave(r)) \/ PutEngine

Spec == Init /\ [][Next]_vars

\* Handlers run; a forward gets a response header or an error within
\* ResponseHeaderTimeout, and a body ends or its client leaves.
FairSpec == Spec /\ \A r \in Requests : WF_vars(RequestStep(r))

----------------------------------------------------------------------------
(* Properties. *)

\* Types; no request makes more attempts than it has.
TypeOK ==
  /\ slots \in 0..Capacity
  /\ setting \in Engines
  /\ q \in [Requests -> Request]
  /\ \A r \in Requests : q[r].i <= q[r].attempts

\* The semaphore holds one token for each request that is being handled, never
\* more than its capacity; none is lost by any way out of the handler.
SlotsBalanced ==
  /\ slots = Cardinality({r \in Requests : Holds(r)})
  /\ slots <= Capacity

\* A response that another exit might better is handed to the client only when
\* no attempt is left.
KeepsTrying ==
  \A r \in Requests :
    q[r].status \in {"timeout", "limited", "barred", "down"} => LastAttempt(r)

\* The attempts a usage record lists are retry_count + 1 at most; without a
\* vision helper they are that many, unless the loop made none at all.
RecordsTellAttempts ==
  \A r \in Requests :
    q[r].origin \in {"external", "internal", "delivered"} /\ q[r].attempts # 0
    => /\ q[r].summary <= q[r].retries + 1
       /\ q[r].vision = "none" /\ q[r].summary # q[r].retries + 1
          => q[r].retries = 0 /\ q[r].summary = 0

\* A client that leaves costs no exit its health: a forward that fails once its
\* client has left blames nobody, and such a request is recorded as external.
LeavingIsNoFault ==
  \A r \in Requests :
    /\ ~q[r].wronged
    /\ q[r].early /\ q[r].pc \in {"fail", "reply"} => q[r].downstream

\* Where GatewayPromise sees a request.
Phase(r) ==
  CASE q[r].pc \in {"new", "over"} -> q[r].pc
    [] q[r].attempts # 0 /\ Holds(r) -> "routing"
    [] OTHER -> "admitted"

Promise == INSTANCE GatewayPromise
  WITH phase <- [r \in Requests |-> Phase(r)],
       engine <- [r \in Requests |-> q[r].engine],
       answers <- [r \in Requests |-> q[r].answers],
       records <- [r \in Requests |-> q[r].records],
       missed <- [r \in Requests |-> q[r].missed]

\* Every request is answered once and routed by one and the same engine, whatever
\* fails and whatever the console sets meanwhile; Resin requests never fall back
\* to the builtin pool. No way through the handler leaves its usage record out
\* or writes it twice: a request ends with one, or with one failed INSERT.
KeepsPromise == Promise!Spec

\* Every request ends, and gives its slot back.
EveryRequestEnds == \A r \in Requests : Holds(r) ~> q[r].pc = "over"
=============================================================================
