------------------------- MODULE GatewayChatProofs -------------------------
(***************************************************************************)
(* The safety of gatewayChat, and that it keeps its promise, for any number *)
(* of requests, slots, exits and attempts. What a request may still do      *)
(* depends on its own record alone, so the invariant says of each place in  *)
(* the handler what the record holds there; the semaphore counts the        *)
(* records that are between the two ends.                                   *)
(***************************************************************************)
EXTENDS GatewayChat, FiniteSetTheorems, TLAPS

Trying == {"loop", "pick", "helper", "forward", "errored", "wait", "deliver",
           "record", "fail", "reply"}

\* Attempts are given out with an engine, before the loop, and not exceeded in it.
PlaceOK(x) ==
  /\ x.pc \in {"new", "prepare"} => x.engine = NoEngine
  /\ x.pc = "exits" \/ x.attempts # 0 => x.engine # NoEngine
  /\ x.pc \in Trying => x.attempts # 0
  /\ x.pc \in {"new", "prepare", "exits", "reject", "over"} => x.attempts = 0
  /\ x.i <= x.attempts
  /\ x.pc \in Trying \ {"loop", "fail", "reply"} => x.i < x.attempts
  /\ x.pc = "wait" => x.i + 1 < x.attempts

\* Answers and usage records, stored or lost, by place.
BookOK(x) ==
  /\ x.answers = IF x.pc \in {"record", "release", "over"} THEN 1 ELSE 0
  /\ x.pc \in {"reject", "reply"} => x.records + x.missed = 1
  /\ x.pc \in {"release", "over"} => /\ x.records + x.missed <= 1
                                     /\ x.attempts # 0 => x.records + x.missed = 1
  /\ x.pc \notin {"reject", "reply", "release", "over"} =>
       x.records = 0 /\ x.missed = 0 /\ x.origin = "none"

\* The attempts listed are those made, unless a helper call ended some; and
\* retries is the index of the last.
Tally(x, n) == x.summary <= n /\ (x.vision = "none" => x.summary = n)
TallyOK(x) ==
  /\ x.pc \in {"new", "prepare", "exits"} => x.i = 0 /\ x.retries = 0 /\ x.summary = 0
  /\ x.pc \in {"loop", "pick"} => /\ Tally(x, x.i)
                                  /\ x.retries = IF x.i = 0 THEN 0 ELSE x.i - 1
  /\ x.pc \in {"helper", "forward", "deliver"} => Tally(x, x.i) /\ x.retries = x.i
  /\ x.pc = "helper" => x.vision # "none"
  /\ x.pc \in {"errored", "wait", "record"} => Tally(x, x.i + 1) /\ x.retries = x.i
  /\ x.pc \in {"fail", "reply", "release"} /\ x.attempts # 0 =>
       Tally(x, x.retries + 1) \/ (x.retries = 0 /\ x.summary = 0)

\* An early failure is noticed before anyone is blamed; a status is the last
\* thing an attempt has.
FaultOK(x) ==
  /\ ~x.wronged
  /\ x.early => x.pc \in {"errored", "fail", "reply", "release"}
  /\ x.early /\ x.pc = "errored" => x.gone
  /\ x.early /\ x.pc \in {"fail", "reply"} => x.downstream
  /\ x.status # "none" => x.pc \in {"deliver", "record", "release"}
  /\ x.status \in {"timeout", "limited", "barred", "down"} => x.i + 1 = x.attempts

RequestOK(x) == x \in Request /\ PlaceOK(x) /\ BookOK(x) /\ TallyOK(x) /\ FaultOK(x)

IInv ==
  /\ setting \in Engines
  /\ q \in [Requests -> Request]
  /\ \A r \in Requests : RequestOK(q[r])
  /\ SlotsBalanced

----------------------------------------------------------------------------
\* A request at the start.
LEMMA NewOK == RequestOK(NewRequest)
BY DEF NewRequest, RequestOK, Request, PlaceOK, BookOK, TallyOK, FaultOK, Trying

\* The counters of a request stay numbers.
LEMMA Counters ==
  ASSUME NEW x \in Request
  PROVE  /\ x.i \in Nat /\ x.i + 1 \in Nat /\ x.attempts \in Nat /\ x.retries \in Nat
         /\ x.summary \in Nat /\ x.summary + 1 \in Nat
         /\ x.answers \in Nat /\ x.answers + 1 \in Nat
         /\ x.records \in Nat /\ x.records + 1 \in Nat
         /\ x.missed \in Nat /\ x.missed + 1 \in Nat
BY DEF Request

\* Every step of a request keeps its record as it should be at the new place,
\* and touches no other request.
LEMMA RequestStepOK ==
  ASSUME q \in [Requests -> Request], setting \in Engines, NEW r \in Requests, RequestOK(q[r]),
         RequestStep(r) \/ Leave(r)
  PROVE  RequestOK(q'[r]) /\ q' = [q EXCEPT ![r] = q'[r]]
<1> DEFINE x == q[r]
<1> x \in Request /\ PlaceOK(x) /\ BookOK(x) /\ TallyOK(x) /\ FaultOK(x)
  BY DEF RequestOK
<1>a. ASSUME NEW new, RequestOK(new), q' = [q EXCEPT ![r] = new] PROVE RequestOK(q'[r]) /\ q' = [q EXCEPT ![r] = q'[r]]
  BY <1>a
<1> USE ChatAssumption
<1>b. ASSUME NEW z \in Request, PlaceOK(z), TallyOK(z), FaultOK(z),
             z.pc \in {"reject", "reply", "release"}, z.records = 0, z.missed = 0,
             z.answers = (IF z.pc = "release" THEN 1 ELSE 0),
             \E y \in Recorded(z) : Becomes(r, y)
      PROVE  RequestOK(q'[r]) /\ q' = [q EXCEPT ![r] = q'[r]]
  <2>1. PICK y \in Recorded(z) : Becomes(r, y)
    BY <1>b
  <2>2. z \in Request /\ z.records + 1 \in Nat /\ z.missed + 1 \in Nat
    BY <1>b, Counters
  <2>3. y = [z EXCEPT !.records = @ + 1] \/ y = [z EXCEPT !.missed = @ + 1]
    BY <2>1 DEF Recorded
  <2>4. y \in Request
    BY ONLY <2>2, <2>3 DEF Request
  <2>5. PlaceOK(y)
    BY <1>b, <2>3 DEF Request, PlaceOK, Trying
  <2>6. BookOK(y)
    BY <1>b, <2>3 DEF Request, BookOK
  <2>7. TallyOK(y)
    BY <1>b, <2>3 DEF Request, TallyOK, Tally
  <2>8. FaultOK(y)
    BY <1>b, <2>3 DEF Request, FaultOK
  <2>9. q' = [q EXCEPT ![r] = y]
    BY <2>1 DEF Becomes
  <2> QED
    BY <2>4, <2>5, <2>6, <2>7, <2>8, <2>9, <1>a DEF RequestOK
<1>1. CASE Reject(r)
  <2> DEFINE y == [x EXCEPT !.pc = "over", !.answers = @ + 1]
  <2>1. y \in Request
    BY <1>1, Counters DEF Reject, Request
  <2>2. PlaceOK(y)
    BY <1>1 DEF Reject, Request, PlaceOK, Trying
  <2>3. BookOK(y)
    BY <1>1 DEF Reject, Request, BookOK, PlaceOK, Trying
  <2>4. TallyOK(y)
    BY <1>1 DEF Reject, Request, TallyOK, Tally, PlaceOK
  <2>5. FaultOK(y)
    BY <1>1 DEF Reject, Request, FaultOK, PlaceOK, Trying
  <2>6. q' = [q EXCEPT ![r] = y]
    BY <1>1 DEF Becomes, Reject
  <2> QED
    BY <2>1, <2>2, <2>3, <2>4, <2>5, <2>6, <1>a DEF RequestOK
<1>2. CASE AtCapacity(r)
  <2> DEFINE y == [x EXCEPT !.pc = "over", !.answers = @ + 1]
  <2>1. y \in Request
    BY <1>2, Counters DEF AtCapacity, Request
  <2>2. PlaceOK(y)
    BY <1>2 DEF AtCapacity, Request, PlaceOK, Trying
  <2>3. BookOK(y)
    BY <1>2 DEF AtCapacity, Request, BookOK, PlaceOK, Trying
  <2>4. TallyOK(y)
    BY <1>2 DEF AtCapacity, Request, TallyOK, Tally, PlaceOK
  <2>5. FaultOK(y)
    BY <1>2 DEF AtCapacity, Request, FaultOK, PlaceOK, Trying
  <2>6. q' = [q EXCEPT ![r] = y]
    BY <1>2 DEF Becomes, AtCapacity
  <2> QED
    BY <2>1, <2>2, <2>3, <2>4, <2>5, <2>6, <1>a DEF RequestOK
<1>3. CASE Refuse(r)
  <2> DEFINE y == [x EXCEPT !.pc = "release", !.answers = @ + 1]
  <2>1. y \in Request
    BY <1>3, Counters DEF Refuse, Request
  <2>2. PlaceOK(y)
    BY <1>3 DEF Refuse, Request, PlaceOK, Trying
  <2>3. BookOK(y)
    BY <1>3 DEF Refuse, Request, BookOK, PlaceOK, Trying
  <2>4. TallyOK(y)
    BY <1>3 DEF Refuse, Request, TallyOK, Tally, PlaceOK
  <2>5. FaultOK(y)
    BY <1>3 DEF Refuse, Request, FaultOK, PlaceOK, Trying
  <2>6. q' = [q EXCEPT ![r] = y]
    BY <1>3 DEF Becomes, Refuse
  <2> QED
    BY <2>1, <2>2, <2>3, <2>4, <2>5, <2>6, <1>a DEF RequestOK
<1>4. CASE Unsupported(r)
  <2> DEFINE z == [x EXCEPT !.pc = "reject", !.origin = "refused"]
  <2>1. z \in Request
    BY <1>4, Counters DEF Unsupported, Request
  <2>2. PlaceOK(z)
    BY <1>4 DEF Unsupported, Request, PlaceOK, Trying
  <2>3. /\ z.pc \in {"reject", "reply", "release"} /\ z.records = 0 /\ z.missed = 0
        /\ z.answers = IF z.pc = "release" THEN 1 ELSE 0
    BY <1>4 DEF Unsupported, Request, BookOK
  <2>4. TallyOK(z)
    BY <1>4 DEF Unsupported, Request, TallyOK, Tally, PlaceOK
  <2>5. FaultOK(z)
    BY <1>4 DEF Unsupported, Request, FaultOK, PlaceOK, Trying
  <2>6. \E y \in Recorded(z) : Becomes(r, y)
    BY <1>4 DEF Unsupported
  <2> QED
    BY <2>1, <2>2, <2>3, <2>4, <2>5, <2>6, <1>b
<1>5. CASE NoProxies(r)
  <2> DEFINE z == [x EXCEPT !.pc = "reject", !.origin = "internal"]
  <2>1. z \in Request
    BY <1>5, Counters DEF NoProxies, Request
  <2>2. PlaceOK(z)
    BY <1>5 DEF NoProxies, Request, PlaceOK, Trying
  <2>3. /\ z.pc \in {"reject", "reply", "release"} /\ z.records = 0 /\ z.missed = 0
        /\ z.answers = IF z.pc = "release" THEN 1 ELSE 0
    BY <1>5 DEF NoProxies, Request, BookOK
  <2>4. TallyOK(z)
    BY <1>5 DEF NoProxies, Request, TallyOK, Tally, PlaceOK
  <2>5. FaultOK(z)
    BY <1>5 DEF NoProxies, Request, FaultOK, PlaceOK, Trying
  <2>6. \E y \in Recorded(z) : Becomes(r, y)
    BY <1>5 DEF NoProxies
  <2> QED
    BY <2>1, <2>2, <2>3, <2>4, <2>5, <2>6, <1>b
<1>6. CASE RejectReply(r)
  <2> DEFINE y == [x EXCEPT !.pc = "release", !.answers = @ + 1]
  <2>1. y \in Request
    BY <1>6, Counters DEF RejectReply, Request
  <2>2. PlaceOK(y)
    BY <1>6 DEF RejectReply, Request, PlaceOK, Trying
  <2>3. BookOK(y)
    BY <1>6 DEF RejectReply, Request, BookOK, PlaceOK, Trying
  <2>4. TallyOK(y)
    BY <1>6 DEF RejectReply, Request, TallyOK, Tally, PlaceOK
  <2>5. FaultOK(y)
    BY <1>6 DEF RejectReply, Request, FaultOK, PlaceOK, Trying
  <2>6. q' = [q EXCEPT ![r] = y]
    BY <1>6 DEF Becomes, RejectReply
  <2> QED
    BY <2>1, <2>2, <2>3, <2>4, <2>5, <2>6, <1>a DEF RequestOK
<1>7. CASE ResinReady(r)
  <2> DEFINE y == [x EXCEPT !.pc = "loop", !.attempts = ResinAttempts]
  <2>1. y \in Request
    BY <1>7, Counters DEF ResinReady, Request
  <2>2. PlaceOK(y)
    BY <1>7 DEF ResinReady, Request, PlaceOK, Trying
  <2>3. BookOK(y)
    BY <1>7 DEF ResinReady, Request, BookOK, PlaceOK, Trying
  <2>4. TallyOK(y)
    BY <1>7 DEF ResinReady, Request, TallyOK, Tally, PlaceOK
  <2>5. FaultOK(y)
    BY <1>7 DEF ResinReady, Request, FaultOK, PlaceOK, Trying
  <2>6. q' = [q EXCEPT ![r] = y]
    BY <1>7 DEF Becomes, ResinReady
  <2> QED
    BY <2>1, <2>2, <2>3, <2>4, <2>5, <2>6, <1>a DEF RequestOK
<1>8. CASE LoopEnd(r)
  <2> DEFINE y == [x EXCEPT !.pc = "fail"]
  <2>1. y \in Request
    BY <1>8, Counters DEF LoopEnd, Request
  <2>2. PlaceOK(y)
    BY <1>8 DEF LoopEnd, Request, PlaceOK, Trying
  <2>3. BookOK(y)
    BY <1>8 DEF LoopEnd, Request, BookOK, PlaceOK, Trying
  <2>4. TallyOK(y)
    BY <1>8 DEF LoopEnd, Request, TallyOK, Tally, PlaceOK
  <2>5. FaultOK(y)
    BY <1>8 DEF LoopEnd, Request, FaultOK, PlaceOK, Trying
  <2>6. q' = [q EXCEPT ![r] = y]
    BY <1>8 DEF Becomes, LoopEnd, Fail
  <2> QED
    BY <2>1, <2>2, <2>3, <2>4, <2>5, <2>6, <1>a DEF RequestOK
<1>9. CASE LoopGone(r)
  <2> DEFINE y == [x EXCEPT !.pc = "fail", !.downstream = TRUE]
  <2>1. y \in Request
    BY <1>9, Counters DEF LoopGone, Request
  <2>2. PlaceOK(y)
    BY <1>9 DEF LoopGone, Request, PlaceOK, Trying
  <2>3. BookOK(y)
    BY <1>9 DEF LoopGone, Request, BookOK, PlaceOK, Trying
  <2>4. TallyOK(y)
    BY <1>9 DEF LoopGone, Request, TallyOK, Tally, PlaceOK
  <2>5. FaultOK(y)
    BY <1>9 DEF LoopGone, Request, FaultOK, PlaceOK, Trying
  <2>6. q' = [q EXCEPT ![r] = y]
    BY <1>9 DEF Becomes, LoopGone, FailGone
  <2> QED
    BY <2>1, <2>2, <2>3, <2>4, <2>5, <2>6, <1>a DEF RequestOK
<1>10. CASE LoopGo(r)
  <2> DEFINE y == [x EXCEPT !.pc = "pick"]
  <2>1. y \in Request
    BY <1>10, Counters DEF LoopGo, Request
  <2>2. PlaceOK(y)
    BY <1>10 DEF LoopGo, Request, PlaceOK, Trying
  <2>3. BookOK(y)
    BY <1>10 DEF LoopGo, Request, BookOK, PlaceOK, Trying
  <2>4. TallyOK(y)
    BY <1>10 DEF LoopGo, Request, TallyOK, Tally, PlaceOK
  <2>5. FaultOK(y)
    BY <1>10 DEF LoopGo, Request, FaultOK, PlaceOK, Trying
  <2>6. q' = [q EXCEPT ![r] = y]
    BY <1>10 DEF Becomes, LoopGo
  <2> QED
    BY <2>1, <2>2, <2>3, <2>4, <2>5, <2>6, <1>a DEF RequestOK
<1>11. CASE PickError(r)
  <2> DEFINE y == [x EXCEPT !.pc = "fail"]
  <2>1. y \in Request
    BY <1>11, Counters DEF PickError, Request
  <2>2. PlaceOK(y)
    BY <1>11 DEF PickError, Request, PlaceOK, Trying
  <2>3. BookOK(y)
    BY <1>11 DEF PickError, Request, BookOK, PlaceOK, Trying
  <2>4. TallyOK(y)
    BY <1>11 DEF PickError, Request, TallyOK, Tally, PlaceOK
  <2>5. FaultOK(y)
    BY <1>11 DEF PickError, Request, FaultOK, PlaceOK, Trying
  <2>6. q' = [q EXCEPT ![r] = y]
    BY <1>11 DEF Becomes, PickError, Fail
  <2> QED
    BY <2>1, <2>2, <2>3, <2>4, <2>5, <2>6, <1>a DEF RequestOK
<1>12. CASE Pick(r)
  <2> DEFINE p == IF x.vision = "none" THEN "forward" ELSE "helper"
             y == [x EXCEPT !.retries = x.i, !.pc = p]
  <2>1. y \in Request
    <3>1. x \in Request /\ x.i \in Nat
      BY Counters
    <3>2. p \in {"forward", "helper"}
      OBVIOUS
    <3> HIDE DEF x, p
    <3> QED
      BY ONLY <3>1, <3>2 DEF y, Request
  <2>2. PlaceOK(y)
    BY <1>12 DEF Pick, Request, PlaceOK, Trying
  <2>3. BookOK(y)
    BY <1>12 DEF Pick, Request, BookOK, PlaceOK, Trying
  <2>4. TallyOK(y)
    BY <1>12 DEF Pick, Request, TallyOK, Tally, PlaceOK
  <2>5. FaultOK(y)
    BY <1>12 DEF Pick, Request, FaultOK, PlaceOK, Trying
  <2>6. q' = [q EXCEPT ![r] = y]
    BY <1>12 DEF Becomes, Pick
  <2> QED
    BY <2>1, <2>2, <2>3, <2>4, <2>5, <2>6, <1>a DEF RequestOK
<1>13. CASE HelperDone(r)
  <2> DEFINE y == [x EXCEPT !.pc = "forward"]
  <2>1. y \in Request
    BY <1>13, Counters DEF HelperDone, Request
  <2>2. PlaceOK(y)
    BY <1>13 DEF HelperDone, Request, PlaceOK, Trying
  <2>3. BookOK(y)
    BY <1>13 DEF HelperDone, Request, BookOK, PlaceOK, Trying
  <2>4. TallyOK(y)
    BY <1>13 DEF HelperDone, Request, TallyOK, Tally, PlaceOK
  <2>5. FaultOK(y)
    BY <1>13 DEF HelperDone, Request, FaultOK, PlaceOK, Trying
  <2>6. q' = [q EXCEPT ![r] = y]
    BY <1>13 DEF Becomes, HelperDone
  <2> QED
    BY <2>1, <2>2, <2>3, <2>4, <2>5, <2>6, <1>a DEF RequestOK
<1>14. CASE HelperRetry(r)
  <2> DEFINE y == [x EXCEPT !.pc = "loop", !.i = x.i + 1]
  <2>1. y \in Request
    BY <1>14, Counters DEF HelperRetry, Request
  <2>2. PlaceOK(y)
    BY <1>14 DEF HelperRetry, Request, PlaceOK, Trying
  <2>3. BookOK(y)
    BY <1>14 DEF HelperRetry, Request, BookOK, PlaceOK, Trying
  <2>4. TallyOK(y)
    BY <1>14 DEF HelperRetry, Request, TallyOK, Tally, PlaceOK
  <2>5. FaultOK(y)
    BY <1>14 DEF HelperRetry, Request, FaultOK, PlaceOK, Trying
  <2>6. q' = [q EXCEPT ![r] = y]
    BY <1>14 DEF Becomes, HelperRetry, NextAttempt, NextIndex
  <2> QED
    BY <2>1, <2>2, <2>3, <2>4, <2>5, <2>6, <1>a DEF RequestOK
<1>15. CASE HelperFail(r)
  <2> DEFINE y == [x EXCEPT !.pc = "fail"]
  <2>1. y \in Request
    BY <1>15, Counters DEF HelperFail, Request
  <2>2. PlaceOK(y)
    BY <1>15 DEF HelperFail, Request, PlaceOK, Trying
  <2>3. BookOK(y)
    BY <1>15 DEF HelperFail, Request, BookOK, PlaceOK, Trying
  <2>4. TallyOK(y)
    BY <1>15 DEF HelperFail, Request, TallyOK, Tally, PlaceOK
  <2>5. FaultOK(y)
    BY <1>15 DEF HelperFail, Request, FaultOK, PlaceOK, Trying
  <2>6. q' = [q EXCEPT ![r] = y]
    BY <1>15 DEF Becomes, HelperFail, Fail
  <2> QED
    BY <2>1, <2>2, <2>3, <2>4, <2>5, <2>6, <1>a DEF RequestOK
<1>16. CASE ForwardError(r)
  <2> DEFINE y == [x EXCEPT !.pc = "errored", !.summary = x.summary + 1, !.early = x.gone]
  <2>1. y \in Request
    BY <1>16, Counters DEF ForwardError, Request
  <2>2. PlaceOK(y)
    BY <1>16 DEF ForwardError, Request, PlaceOK, Trying
  <2>3. BookOK(y)
    BY <1>16 DEF ForwardError, Request, BookOK, PlaceOK, Trying
  <2>4. TallyOK(y)
    BY <1>16 DEF ForwardError, Request, TallyOK, Tally, PlaceOK
  <2>5. FaultOK(y)
    BY <1>16 DEF ForwardError, Request, FaultOK, PlaceOK, Trying
  <2>6. q' = [q EXCEPT ![r] = y]
    BY <1>16 DEF Becomes, ForwardError, Listed
  <2> QED
    BY <2>1, <2>2, <2>3, <2>4, <2>5, <2>6, <1>a DEF RequestOK
<1>17. CASE ErrorGone(r)
  <2> DEFINE y == [x EXCEPT !.pc = "fail", !.downstream = TRUE]
  <2>1. y \in Request
    BY <1>17, Counters DEF ErrorGone, SeesGone, Request
  <2>2. PlaceOK(y)
    BY <1>17 DEF ErrorGone, SeesGone, Request, PlaceOK, Trying
  <2>3. BookOK(y)
    BY <1>17 DEF ErrorGone, SeesGone, Request, BookOK, PlaceOK, Trying
  <2>4. TallyOK(y)
    BY <1>17 DEF ErrorGone, SeesGone, Request, TallyOK, Tally, PlaceOK
  <2>5. FaultOK(y)
    BY <1>17 DEF ErrorGone, SeesGone, Request, FaultOK, PlaceOK, Trying
  <2>6. q' = [q EXCEPT ![r] = y]
    BY <1>17 DEF Becomes, ErrorGone, SeesGone, FailGone
  <2> QED
    BY <2>1, <2>2, <2>3, <2>4, <2>5, <2>6, <1>a DEF RequestOK
<1>18. CASE Waited(r)
  <2> DEFINE y == [x EXCEPT !.pc = "loop", !.i = x.i + 1]
  <2>1. y \in Request
    BY <1>18, Counters DEF Waited, Request
  <2>2. PlaceOK(y)
    BY <1>18 DEF Waited, Request, PlaceOK, Trying
  <2>3. BookOK(y)
    BY <1>18 DEF Waited, Request, BookOK, PlaceOK, Trying
  <2>4. TallyOK(y)
    BY <1>18 DEF Waited, Request, TallyOK, Tally, PlaceOK
  <2>5. FaultOK(y)
    BY <1>18 DEF Waited, Request, FaultOK, PlaceOK, Trying
  <2>6. q' = [q EXCEPT ![r] = y]
    BY <1>18 DEF Becomes, Waited, NextAttempt, NextIndex
  <2> QED
    BY <2>1, <2>2, <2>3, <2>4, <2>5, <2>6, <1>a DEF RequestOK
<1>19. CASE WaitGone(r)
  <2> DEFINE y == [x EXCEPT !.pc = "fail", !.downstream = TRUE]
  <2>1. y \in Request
    BY <1>19, Counters DEF WaitGone, Request
  <2>2. PlaceOK(y)
    BY <1>19 DEF WaitGone, Request, PlaceOK, Trying
  <2>3. BookOK(y)
    BY <1>19 DEF WaitGone, Request, BookOK, PlaceOK, Trying
  <2>4. TallyOK(y)
    BY <1>19 DEF WaitGone, Request, TallyOK, Tally, PlaceOK
  <2>5. FaultOK(y)
    BY <1>19 DEF WaitGone, Request, FaultOK, PlaceOK, Trying
  <2>6. q' = [q EXCEPT ![r] = y]
    BY <1>19 DEF Becomes, WaitGone, FailGone
  <2> QED
    BY <2>1, <2>2, <2>3, <2>4, <2>5, <2>6, <1>a DEF RequestOK
<1>20. CASE Deliver(r)
  <2> DEFINE y == [x EXCEPT !.pc = "record", !.answers = @ + 1, !.summary = @ + 1]
  <2>1. y \in Request
    BY <1>20, Counters DEF Deliver, Request
  <2>2. PlaceOK(y)
    BY <1>20 DEF Deliver, Request, PlaceOK, Trying
  <2>3. BookOK(y)
    BY <1>20 DEF Deliver, Request, BookOK, PlaceOK, Trying
  <2>4. TallyOK(y)
    BY <1>20 DEF Deliver, Request, TallyOK, Tally, PlaceOK
  <2>5. FaultOK(y)
    BY <1>20 DEF Deliver, Request, FaultOK, PlaceOK, Trying
  <2>6. q' = [q EXCEPT ![r] = y]
    BY <1>20 DEF Becomes, Deliver
  <2> QED
    BY <2>1, <2>2, <2>3, <2>4, <2>5, <2>6, <1>a DEF RequestOK
<1>21. CASE Record(r)
  <2> DEFINE z == [x EXCEPT !.pc = "release", !.origin = "delivered", !.retries = x.i]
  <2>1. z \in Request
    BY <1>21, Counters DEF Record, Request
  <2>2. PlaceOK(z)
    BY <1>21 DEF Record, Request, PlaceOK, Trying
  <2>3. /\ z.pc \in {"reject", "reply", "release"} /\ z.records = 0 /\ z.missed = 0
        /\ z.answers = IF z.pc = "release" THEN 1 ELSE 0
    BY <1>21 DEF Record, Request, BookOK
  <2>4. TallyOK(z)
    BY <1>21 DEF Record, Request, TallyOK, Tally, PlaceOK
  <2>5. FaultOK(z)
    BY <1>21 DEF Record, Request, FaultOK, PlaceOK, Trying
  <2>6. \E y \in Recorded(z) : Becomes(r, y)
    BY <1>21 DEF Record
  <2> QED
    BY <2>1, <2>2, <2>3, <2>4, <2>5, <2>6, <1>b
<1>22. CASE FailRecord(r)
  <2> DEFINE e == IF x.downstream THEN "external" ELSE "internal"
             z == [x EXCEPT !.pc = "reply", !.origin = e]
  <2>1. z \in Request
    <3>1. x \in Request /\ e \in {"internal", "external"}
      OBVIOUS
    <3> HIDE DEF x, e
    <3> QED
      BY ONLY <3>1 DEF z, Request
  <2>2. PlaceOK(z)
    BY <1>22 DEF FailRecord, Request, PlaceOK, Trying
  <2>3. /\ z.pc \in {"reject", "reply", "release"} /\ z.records = 0 /\ z.missed = 0
        /\ z.answers = IF z.pc = "release" THEN 1 ELSE 0
    BY <1>22 DEF FailRecord, Request, BookOK
  <2>4. TallyOK(z)
    BY <1>22 DEF FailRecord, Request, TallyOK, Tally, PlaceOK
  <2>5. FaultOK(z)
    BY <1>22 DEF FailRecord, Request, FaultOK, PlaceOK, Trying
  <2>6. \E y \in Recorded(z) : Becomes(r, y)
    BY <1>22 DEF FailRecord
  <2> QED
    BY <2>1, <2>2, <2>3, <2>4, <2>5, <2>6, <1>b
<1>23. CASE FailReply(r)
  <2> DEFINE y == [x EXCEPT !.pc = "release", !.answers = @ + 1]
  <2>1. y \in Request
    BY <1>23, Counters DEF FailReply, Request
  <2>2. PlaceOK(y)
    BY <1>23 DEF FailReply, Request, PlaceOK, Trying
  <2>3. BookOK(y)
    BY <1>23 DEF FailReply, Request, BookOK, PlaceOK, Trying
  <2>4. TallyOK(y)
    BY <1>23 DEF FailReply, Request, TallyOK, Tally, PlaceOK
  <2>5. FaultOK(y)
    BY <1>23 DEF FailReply, Request, FaultOK, PlaceOK, Trying
  <2>6. q' = [q EXCEPT ![r] = y]
    BY <1>23 DEF Becomes, FailReply
  <2> QED
    BY <2>1, <2>2, <2>3, <2>4, <2>5, <2>6, <1>a DEF RequestOK
<1>24. CASE Leave(r)
  <2> DEFINE y == [x EXCEPT !.gone = TRUE]
  <2>1. y \in Request
    BY <1>24, Counters DEF Leave, Holds, Request
  <2>2. PlaceOK(y)
    BY <1>24 DEF Leave, Holds, Request, PlaceOK, Trying
  <2>3. BookOK(y)
    BY <1>24 DEF Leave, Holds, Request, BookOK, PlaceOK, Trying
  <2>4. TallyOK(y)
    BY <1>24 DEF Leave, Holds, Request, TallyOK, Tally, PlaceOK
  <2>5. FaultOK(y)
    BY <1>24 DEF Leave, Holds, Request, FaultOK, PlaceOK, Trying
  <2>6. q' = [q EXCEPT ![r] = y]
    BY <1>24 DEF Becomes, Leave, Holds
  <2> QED
    BY <2>1, <2>2, <2>3, <2>4, <2>5, <2>6, <1>a DEF RequestOK
<1>25. CASE Admit(r)
  <2> DEFINE y == [x EXCEPT !.pc = "prepare"]
  <2>1. y \in Request
    BY <1>25, Counters DEF Admit, Request
  <2>2. PlaceOK(y)
    BY <1>25 DEF Admit, Request, PlaceOK, Trying
  <2>3. BookOK(y)
    BY <1>25 DEF Admit, Request, BookOK, PlaceOK, Trying
  <2>4. TallyOK(y)
    BY <1>25 DEF Admit, Request, TallyOK, Tally, PlaceOK
  <2>5. FaultOK(y)
    BY <1>25 DEF Admit, Request, FaultOK, PlaceOK, Trying
  <2>6. q' = [q EXCEPT ![r] = y]
    BY <1>25 DEF Admit, Becomes
  <2> QED
    BY <2>1, <2>2, <2>3, <2>4, <2>5, <2>6, <1>a DEF RequestOK
<1>26. CASE Release(r)
  <2>1. /\ x.pc = "release" /\ x.answers = 1 /\ x.records + x.missed <= 1
        /\ x.records \in Nat /\ x.missed \in Nat /\ x.engine \in Engines \cup {NoEngine}
        /\ q' = [q EXCEPT ![r] = [NewRequest EXCEPT !.pc = "over", !.engine = x.engine,
                                   !.answers = x.answers, !.records = x.records,
                                   !.missed = x.missed]]
    BY <1>26 DEF Release, BookOK, Request
  <2> DEFINE y == [NewRequest EXCEPT !.pc = "over", !.engine = x.engine,
                                     !.answers = x.answers, !.records = x.records,
                                     !.missed = x.missed]
  <2>2. NewRequest \in Request /\ x.answers \in Nat
    BY NewOK, Counters DEF RequestOK
  <2>3. y \in Request
    BY <2>1, <2>2 DEF Request
  <2>4. PlaceOK(y) /\ BookOK(y)
    BY <2>1, <2>2 DEF PlaceOK, BookOK, Trying, NewRequest
  <2>5. TallyOK(y) /\ FaultOK(y)
    BY <2>1, <2>2 DEF TallyOK, FaultOK, NewRequest
  <2> QED
    BY <2>1, <2>3, <2>4, <2>5, <1>a DEF RequestOK
<1>27. CASE LoadEngine(r)
  <2>0. PICK v \in {"none", "direct", "proxy"} :
          x.pc = "prepare" /\ Becomes(r, [x EXCEPT !.pc = "exits", !.engine = setting, !.vision = v])
    BY <1>27 DEF LoadEngine
  <2> DEFINE y == [x EXCEPT !.pc = "exits", !.engine = setting, !.vision = v]
  <2>1. y \in Request
    BY <2>0, Counters DEF Request
  <2>2. PlaceOK(y)
    BY <2>0 DEF Request, PlaceOK, Trying, Engines
  <2>3. BookOK(y)
    BY <2>0 DEF Request, BookOK, PlaceOK, Trying
  <2>4. TallyOK(y)
    BY <2>0 DEF Request, TallyOK, Tally, PlaceOK
  <2>5. FaultOK(y)
    BY <2>0 DEF Request, FaultOK, PlaceOK, Trying
  <2>6. q' = [q EXCEPT ![r] = y]
    BY <2>0 DEF Becomes
  <2> QED
    BY <2>1, <2>2, <2>3, <2>4, <2>5, <2>6, <1>a DEF RequestOK
<1>28. CASE LoadProxies(r)
  <2>0. PICK n \in 1..MaxExits :
          /\ x.pc = "exits"
          /\ Becomes(r, [x EXCEPT !.pc = "loop", !.attempts = IF n < BuiltinAttempts THEN n ELSE BuiltinAttempts])
    BY <1>28 DEF LoadProxies
  <2> DEFINE m == IF n < BuiltinAttempts THEN n ELSE BuiltinAttempts
  <2>m. m \in Nat /\ m # 0 /\ m > 0
    OBVIOUS
  <2> HIDE DEF m
  <2> DEFINE y == [x EXCEPT !.pc = "loop", !.attempts = m]
  <2>1. y \in Request
    BY <2>0, <2>m, Counters DEF Request
  <2>2. PlaceOK(y)
    BY <2>0, <2>m DEF Request, PlaceOK, Trying
  <2>3. BookOK(y)
    BY <2>0, <2>m DEF Request, BookOK, PlaceOK, Trying
  <2>4. TallyOK(y)
    BY <2>0, <2>m DEF Request, TallyOK, Tally, PlaceOK
  <2>5. FaultOK(y)
    BY <2>0, <2>m DEF Request, FaultOK, PlaceOK, Trying
  <2>6. q' = [q EXCEPT ![r] = y]
    BY <2>0, <2>m DEF Becomes, m
  <2> QED
    BY <2>1, <2>2, <2>3, <2>4, <2>5, <2>6, <1>a DEF RequestOK
<1>29. CASE Blame(r)
  <2>0. /\ x.pc = "errored" /\ ~x.gone /\ ~x.early /\ ~x.wronged
        /\ \/ Becomes(r, [x EXCEPT !.pc = "fail", !.wronged = FALSE])
           \/ Becomes(r, [x EXCEPT !.pc = "loop", !.i = x.i + 1, !.wronged = FALSE])
    BY <1>29 DEF Blame, SeesGone, FaultOK, NextIndex, Request
  <2>a. CASE Becomes(r, [x EXCEPT !.pc = "fail", !.wronged = FALSE])
    <3> DEFINE y == [x EXCEPT !.pc = "fail", !.wronged = FALSE]
    <3>1. y \in Request
      BY <2>0, <2>a, Counters DEF Request
    <3>2. PlaceOK(y)
      BY <2>0, <2>a DEF Request, PlaceOK, Trying
    <3>3. BookOK(y)
      BY <2>0, <2>a DEF Request, BookOK, PlaceOK, Trying
    <3>4. TallyOK(y)
      BY <2>0, <2>a DEF Request, TallyOK, Tally, PlaceOK
    <3>5. FaultOK(y)
      BY <2>0, <2>a DEF Request, FaultOK, PlaceOK, Trying
    <3>6. q' = [q EXCEPT ![r] = y]
      BY <2>0, <2>a DEF Becomes
    <3> QED
      BY <3>1, <3>2, <3>3, <3>4, <3>5, <3>6, <1>a DEF RequestOK
  <2>b. CASE Becomes(r, [x EXCEPT !.pc = "loop", !.i = x.i + 1, !.wronged = FALSE])
    <3> DEFINE y == [x EXCEPT !.pc = "loop", !.i = x.i + 1, !.wronged = FALSE]
    <3>1. y \in Request
      BY <2>0, <2>b, Counters DEF Request
    <3>2. PlaceOK(y)
      BY <2>0, <2>b DEF Request, PlaceOK, Trying
    <3>3. BookOK(y)
      BY <2>0, <2>b DEF Request, BookOK, PlaceOK, Trying
    <3>4. TallyOK(y)
      <4>1. Tally(x, x.i + 1) /\ x.retries = x.i /\ x.i \in Nat
        BY <2>0, Counters DEF TallyOK, Request
      <4>2. /\ y.pc = "loop" /\ y.i = x.i + 1 /\ y.retries = x.retries
            /\ y.summary = x.summary /\ y.vision = x.vision
        BY DEF Request
      <4> HIDE DEF y
      <4> QED
        BY <4>1, <4>2 DEF TallyOK, Tally
    <3>5. FaultOK(y)
      BY <2>0, <2>b DEF Request, FaultOK, PlaceOK, Trying
    <3>6. q' = [q EXCEPT ![r] = y]
      BY <2>0, <2>b DEF Becomes
    <3> QED
      BY <3>1, <3>2, <3>3, <3>4, <3>5, <3>6, <1>a DEF RequestOK
  <2> QED
    BY <2>0, <2>a, <2>b
<1>30. CASE Respond(r)
  <2>0. PICK s \in Statuses :
          /\ x.pc = "forward"
          /\ \/ /\ Becomes(r, [x EXCEPT !.pc = "deliver", !.status = s])
                /\ s \in {"timeout", "limited", "barred", "down"} => x.i + 1 = x.attempts
             \/ Becomes(r, [x EXCEPT !.pc = "loop", !.i = x.i + 1, !.summary = @ + 1])
             \/ Becomes(r, [x EXCEPT !.pc = "wait", !.summary = @ + 1]) /\ x.i + 1 # x.attempts
    BY <1>30 DEF Respond, Passed, LastAttempt, Retryable, NextIndex
  <2>a. CASE /\ Becomes(r, [x EXCEPT !.pc = "deliver", !.status = s])
             /\ s \in {"timeout", "limited", "barred", "down"} => x.i + 1 = x.attempts
    <3> DEFINE y == [x EXCEPT !.pc = "deliver", !.status = s]
    <3>1. y \in Request
      BY <2>0, <2>a, Counters DEF Request
    <3>2. PlaceOK(y)
      BY <2>0, <2>a DEF Request, PlaceOK, Trying
    <3>3. BookOK(y)
      BY <2>0, <2>a DEF Request, BookOK, PlaceOK, Trying
    <3>4. TallyOK(y)
      BY <2>0, <2>a DEF Request, TallyOK, Tally, PlaceOK
    <3>5. FaultOK(y)
      BY <2>0, <2>a DEF Request, FaultOK, PlaceOK, Trying
    <3>6. q' = [q EXCEPT ![r] = y]
      BY <2>0, <2>a DEF Becomes
    <3> QED
      BY <3>1, <3>2, <3>3, <3>4, <3>5, <3>6, <1>a DEF RequestOK
  <2>b. CASE Becomes(r, [x EXCEPT !.pc = "loop", !.i = x.i + 1, !.summary = @ + 1])
    <3> DEFINE y == [x EXCEPT !.pc = "loop", !.i = x.i + 1, !.summary = @ + 1]
    <3>1. y \in Request
      BY <2>0, <2>b, Counters DEF Request
    <3>2. PlaceOK(y)
      BY <2>0, <2>b DEF Request, PlaceOK, Trying
    <3>3. BookOK(y)
      BY <2>0, <2>b DEF Request, BookOK, PlaceOK, Trying
    <3>4. TallyOK(y)
      BY <2>0, <2>b DEF Request, TallyOK, Tally, PlaceOK
    <3>5. FaultOK(y)
      BY <2>0, <2>b DEF Request, FaultOK, PlaceOK, Trying
    <3>6. q' = [q EXCEPT ![r] = y]
      BY <2>0, <2>b DEF Becomes
    <3> QED
      BY <3>1, <3>2, <3>3, <3>4, <3>5, <3>6, <1>a DEF RequestOK
  <2>c. CASE Becomes(r, [x EXCEPT !.pc = "wait", !.summary = @ + 1]) /\ x.i + 1 # x.attempts
    <3> DEFINE y == [x EXCEPT !.pc = "wait", !.summary = @ + 1]
    <3>1. y \in Request
      BY <2>0, <2>c, Counters DEF Request
    <3>2. PlaceOK(y)
      BY <2>0, <2>c DEF Request, PlaceOK, Trying
    <3>3. BookOK(y)
      BY <2>0, <2>c DEF Request, BookOK, PlaceOK, Trying
    <3>4. TallyOK(y)
      BY <2>0, <2>c DEF Request, TallyOK, Tally, PlaceOK
    <3>5. FaultOK(y)
      BY <2>0, <2>c DEF Request, FaultOK, PlaceOK, Trying
    <3>6. q' = [q EXCEPT ![r] = y]
      BY <2>0, <2>c DEF Becomes
    <3> QED
      BY <3>1, <3>2, <3>3, <3>4, <3>5, <3>6, <1>a DEF RequestOK
  <2> QED
    BY <2>0, <2>a, <2>b, <2>c
<1> QED
  BY <1>1, <1>2, <1>3, <1>4, <1>5, <1>6, <1>7, <1>8, <1>9, <1>10, <1>11, <1>12, <1>13, <1>14, <1>15, <1>16, <1>17, <1>18, <1>19, <1>20, <1>21, <1>22, <1>23, <1>24, <1>25, <1>26, <1>27, <1>28, <1>29, <1>30 DEF RequestStep

----------------------------------------------------------------------------
\* The requests between the two ends of the handler.
Holders == {r \in Requests : Holds(r)}

LEMMA HoldersFinite == IsFiniteSet(Holders) /\ Cardinality(Holders) \in Nat
<1>1. Holders \in SUBSET Requests
  BY DEF Holders
<1>2. IsFiniteSet(Holders)
  BY <1>1, FS_Subset, ChatAssumption
<1> QED
  BY <1>2, FS_CardinalityType

\* What a step of a request amounts to, seen from outside: what it does to the
\* phase, the engine, the answers and the usage records, stored or lost, of its
\* record x, which becomes y.
PhaseOf(x) ==
  IF x.pc \in {"new", "over"} THEN x.pc ELSE IF x.attempts # 0 THEN "routing" ELSE "admitted"

Filed(x, y) == y.records = x.records /\ y.missed = x.missed
Books(x, y) == y.engine = x.engine /\ y.answers = x.answers /\ Filed(x, y)

Stayed(x, y)     == PhaseOf(y) = PhaseOf(x) /\ Books(x, y)
TurnedAway(x, y) == /\ x.pc = "new" /\ y.pc = "over" /\ y.answers = 1
                    /\ y.engine = x.engine /\ Filed(x, y)
Admitted(x, y)   == x.pc = "new" /\ PhaseOf(y) = "admitted" /\ Books(x, y)
Chosen(x, y)     == /\ PhaseOf(x) = "admitted" /\ PhaseOf(y) = "admitted"
                    /\ x.engine = NoEngine /\ y.engine \in Engines
                    /\ x.answers = 0 /\ y.answers = 0 /\ Filed(x, y)
Routed(x, y)     == /\ PhaseOf(x) = "admitted" /\ PhaseOf(y) = "routing"
                    /\ x.engine # NoEngine /\ x.answers = 0
                    /\ x.records = 0 /\ x.missed = 0 /\ Books(x, y)
Answered(x, y)   == /\ x.pc \notin {"new", "over"} /\ PhaseOf(y) = PhaseOf(x)
                    /\ x.answers = 0 /\ y.answers = 1
                    /\ y.engine = x.engine /\ Filed(x, y)
Handed(x, y)     == /\ x.pc \notin {"new", "over"} /\ PhaseOf(y) = PhaseOf(x)
                    /\ x.records = 0 /\ x.missed = 0
                    /\ y.engine = x.engine /\ y.answers = x.answers
Accounted(x, y)  == Handed(x, y) /\ y.records = 1 /\ y.missed = 0
Lost(x, y)       == Handed(x, y) /\ y.records = 0 /\ y.missed = 1
Finished(x, y)   == /\ x.pc \notin {"new", "over"} /\ y.pc = "over" /\ x.answers = 1
                    /\ PhaseOf(x) = "routing" => x.records + x.missed = 1
                    /\ Books(x, y)

\* Only the two ends of the handler touch the semaphore.
StepKinds(r) ==
  \/ Admitted(q[r], q'[r]) /\ slots < Capacity /\ slots' = slots + 1
  \/ Finished(q[r], q'[r]) /\ slots' = slots - 1
  \/ /\ slots' = slots
     /\ \/ Stayed(q[r], q'[r]) \/ TurnedAway(q[r], q'[r]) \/ Chosen(q[r], q'[r])
        \/ Routed(q[r], q'[r]) \/ Answered(q[r], q'[r])
        \/ Accounted(q[r], q'[r]) \/ Lost(q[r], q'[r])

LEMMA StepKind ==
  ASSUME q \in [Requests -> Request], setting \in Engines, NEW r \in Requests, RequestOK(q[r]),
         RequestStep(r) \/ Leave(r)
  PROVE  StepKinds(r)
<1> DEFINE x == q[r]
<1>a. x \in Request /\ PlaceOK(x) /\ BookOK(x)
  BY DEF RequestOK
<1>b. ASSUME NEW new, Becomes(r, new) PROVE slots' = slots /\ q'[r] = new
  BY <1>b DEF Becomes
<1>c. ASSUME NEW z, z.records = 0, z.missed = 0, z \in Request, Handed(x, z),
             \E y \in Recorded(z) : Becomes(r, y)
      PROVE  StepKinds(r)
  <2>1. PICK y \in Recorded(z) : Becomes(r, y)
    BY <1>c
  <2>2. slots' = slots /\ q'[r] = y
    BY <2>1, <1>b
  <2>3. CASE y = [z EXCEPT !.records = @ + 1]
    <3>1. Accounted(x, y)
      BY <1>c, <2>3 DEF Accounted, Handed, PhaseOf, Request
    <3> QED
      BY <2>2, <3>1 DEF StepKinds
  <2>4. CASE y = [z EXCEPT !.missed = @ + 1]
    <3>1. Lost(x, y)
      BY <1>c, <2>4 DEF Lost, Handed, PhaseOf, Request
    <3> QED
      BY <2>2, <3>1 DEF StepKinds
  <2> QED
    BY <2>1, <2>3, <2>4 DEF Recorded
<1>1. CASE Reject(r)
  <2>1. slots' = slots /\ q'[r] = [x EXCEPT !.pc = "over", !.answers = @ + 1]
    BY <1>1, <1>b DEF Reject
  <2>2. TurnedAway(x, q'[r])
    BY <1>1, <1>a, <2>1 DEF Filed, Reject, TurnedAway, Request, PlaceOK, BookOK, Trying
  <2> QED
    BY <2>1, <2>2 DEF StepKinds
<1>2. CASE AtCapacity(r)
  <2>1. slots' = slots /\ q'[r] = [x EXCEPT !.pc = "over", !.answers = @ + 1]
    BY <1>2, <1>b DEF AtCapacity
  <2>2. TurnedAway(x, q'[r])
    BY <1>2, <1>a, <2>1 DEF Filed, AtCapacity, TurnedAway, Request, PlaceOK, BookOK, Trying
  <2> QED
    BY <2>1, <2>2 DEF StepKinds
<1>3. CASE Refuse(r)
  <2>1. slots' = slots /\ q'[r] = [x EXCEPT !.pc = "release", !.answers = @ + 1]
    BY <1>3, <1>b DEF Refuse
  <2>2. Answered(x, q'[r])
    BY <1>3, <1>a, <2>1 DEF Filed, Refuse, Answered, PhaseOf, Request, PlaceOK, BookOK, Trying
  <2> QED
    BY <2>1, <2>2 DEF StepKinds
<1>4. CASE Unsupported(r)
  <2> DEFINE z == [x EXCEPT !.pc = "reject", !.origin = "refused"]
  <2>1. \E y \in Recorded(z) : Becomes(r, y)
    BY <1>4 DEF Unsupported
  <2>2. z \in Request /\ z.records = 0 /\ z.missed = 0 /\ Handed(x, z)
    BY <1>4, <1>a DEF Unsupported, Handed, PhaseOf, Request, PlaceOK, BookOK, Trying
  <2> QED
    BY <2>1, <2>2, <1>c
<1>5. CASE NoProxies(r)
  <2> DEFINE z == [x EXCEPT !.pc = "reject", !.origin = "internal"]
  <2>1. \E y \in Recorded(z) : Becomes(r, y)
    BY <1>5 DEF NoProxies
  <2>2. z \in Request /\ z.records = 0 /\ z.missed = 0 /\ Handed(x, z)
    BY <1>5, <1>a DEF NoProxies, Handed, PhaseOf, Request, PlaceOK, BookOK, Trying
  <2> QED
    BY <2>1, <2>2, <1>c
<1>6. CASE RejectReply(r)
  <2>1. slots' = slots /\ q'[r] = [x EXCEPT !.pc = "release", !.answers = @ + 1]
    BY <1>6, <1>b DEF RejectReply
  <2>2. Answered(x, q'[r])
    BY <1>6, <1>a, <2>1 DEF Filed, RejectReply, Answered, PhaseOf, Request, PlaceOK, BookOK, Trying
  <2> QED
    BY <2>1, <2>2 DEF StepKinds
<1>7. CASE ResinReady(r)
  <2>1. slots' = slots /\ q'[r] = [x EXCEPT !.pc = "loop", !.attempts = ResinAttempts]
    BY <1>7, <1>b DEF ResinReady
  <2>2. Routed(x, q'[r])
    BY <1>7, <1>a, <2>1, ChatAssumption DEF Filed, ResinReady, Routed, PhaseOf, Books, Request, PlaceOK, BookOK, Trying
  <2> QED
    BY <2>1, <2>2 DEF StepKinds
<1>8. CASE LoopEnd(r)
  <2>1. slots' = slots /\ q'[r] = [x EXCEPT !.pc = "fail"]
    BY <1>8, <1>b DEF LoopEnd, Fail
  <2>2. Stayed(x, q'[r])
    BY <1>8, <1>a, <2>1 DEF Filed, LoopEnd, Stayed, PhaseOf, Books, Request, PlaceOK, BookOK, Trying
  <2> QED
    BY <2>1, <2>2 DEF StepKinds
<1>9. CASE LoopGone(r)
  <2>1. slots' = slots /\ q'[r] = [x EXCEPT !.pc = "fail", !.downstream = TRUE]
    BY <1>9, <1>b DEF LoopGone, FailGone
  <2>2. Stayed(x, q'[r])
    BY <1>9, <1>a, <2>1 DEF Filed, LoopGone, Stayed, PhaseOf, Books, Request, PlaceOK, BookOK, Trying
  <2> QED
    BY <2>1, <2>2 DEF StepKinds
<1>10. CASE LoopGo(r)
  <2>1. slots' = slots /\ q'[r] = [x EXCEPT !.pc = "pick"]
    BY <1>10, <1>b DEF LoopGo
  <2>2. Stayed(x, q'[r])
    BY <1>10, <1>a, <2>1 DEF Filed, LoopGo, Stayed, PhaseOf, Books, Request, PlaceOK, BookOK, Trying
  <2> QED
    BY <2>1, <2>2 DEF StepKinds
<1>11. CASE PickError(r)
  <2>1. slots' = slots /\ q'[r] = [x EXCEPT !.pc = "fail"]
    BY <1>11, <1>b DEF PickError, Fail
  <2>2. Stayed(x, q'[r])
    BY <1>11, <1>a, <2>1 DEF Filed, PickError, Stayed, PhaseOf, Books, Request, PlaceOK, BookOK, Trying
  <2> QED
    BY <2>1, <2>2 DEF StepKinds
<1>12. CASE Pick(r)
  <2>1. slots' = slots /\ q'[r] = [x EXCEPT !.retries = x.i, !.pc = IF x.vision = "none" THEN "forward" ELSE "helper"]
    BY <1>12, <1>b DEF Pick
  <2>2. Stayed(x, q'[r])
    BY <1>12, <1>a, <2>1 DEF Filed, Pick, Stayed, PhaseOf, Books, Request, PlaceOK, BookOK, Trying
  <2> QED
    BY <2>1, <2>2 DEF StepKinds
<1>13. CASE HelperDone(r)
  <2>1. slots' = slots /\ q'[r] = [x EXCEPT !.pc = "forward"]
    BY <1>13, <1>b DEF HelperDone
  <2>2. Stayed(x, q'[r])
    BY <1>13, <1>a, <2>1 DEF Filed, HelperDone, Stayed, PhaseOf, Books, Request, PlaceOK, BookOK, Trying
  <2> QED
    BY <2>1, <2>2 DEF StepKinds
<1>14. CASE HelperRetry(r)
  <2>1. slots' = slots /\ q'[r] = [x EXCEPT !.pc = "loop", !.i = x.i + 1]
    BY <1>14, <1>b DEF HelperRetry, NextAttempt, NextIndex
  <2>2. Stayed(x, q'[r])
    BY <1>14, <1>a, <2>1 DEF Filed, HelperRetry, Stayed, PhaseOf, Books, Request, PlaceOK, BookOK, Trying
  <2> QED
    BY <2>1, <2>2 DEF StepKinds
<1>15. CASE HelperFail(r)
  <2>1. slots' = slots /\ q'[r] = [x EXCEPT !.pc = "fail"]
    BY <1>15, <1>b DEF HelperFail, Fail
  <2>2. Stayed(x, q'[r])
    BY <1>15, <1>a, <2>1 DEF Filed, HelperFail, Stayed, PhaseOf, Books, Request, PlaceOK, BookOK, Trying
  <2> QED
    BY <2>1, <2>2 DEF StepKinds
<1>16. CASE ForwardError(r)
  <2>1. slots' = slots /\ q'[r] = [x EXCEPT !.pc = "errored", !.summary = x.summary + 1, !.early = x.gone]
    BY <1>16, <1>b DEF ForwardError, Listed
  <2>2. Stayed(x, q'[r])
    BY <1>16, <1>a, <2>1 DEF Filed, ForwardError, Stayed, PhaseOf, Books, Request, PlaceOK, BookOK, Trying
  <2> QED
    BY <2>1, <2>2 DEF StepKinds
<1>17. CASE ErrorGone(r)
  <2>1. slots' = slots /\ q'[r] = [x EXCEPT !.pc = "fail", !.downstream = TRUE]
    BY <1>17, <1>b DEF ErrorGone, FailGone, SeesGone
  <2>2. Stayed(x, q'[r])
    BY <1>17, <1>a, <2>1 DEF Filed, ErrorGone, Stayed, PhaseOf, Books, Request, PlaceOK, BookOK, Trying
  <2> QED
    BY <2>1, <2>2 DEF StepKinds
<1>18. CASE Waited(r)
  <2>1. slots' = slots /\ q'[r] = [x EXCEPT !.pc = "loop", !.i = x.i + 1]
    BY <1>18, <1>b DEF Waited, NextAttempt, NextIndex
  <2>2. Stayed(x, q'[r])
    BY <1>18, <1>a, <2>1 DEF Filed, Waited, Stayed, PhaseOf, Books, Request, PlaceOK, BookOK, Trying
  <2> QED
    BY <2>1, <2>2 DEF StepKinds
<1>19. CASE WaitGone(r)
  <2>1. slots' = slots /\ q'[r] = [x EXCEPT !.pc = "fail", !.downstream = TRUE]
    BY <1>19, <1>b DEF WaitGone, FailGone
  <2>2. Stayed(x, q'[r])
    BY <1>19, <1>a, <2>1 DEF Filed, WaitGone, Stayed, PhaseOf, Books, Request, PlaceOK, BookOK, Trying
  <2> QED
    BY <2>1, <2>2 DEF StepKinds
<1>20. CASE Deliver(r)
  <2>1. slots' = slots /\ q'[r] = [x EXCEPT !.pc = "record", !.answers = @ + 1, !.summary = @ + 1]
    BY <1>20, <1>b DEF Deliver
  <2>2. Answered(x, q'[r])
    BY <1>20, <1>a, <2>1 DEF Filed, Deliver, Answered, PhaseOf, Request, PlaceOK, BookOK, Trying
  <2> QED
    BY <2>1, <2>2 DEF StepKinds
<1>21. CASE Record(r)
  <2> DEFINE z == [x EXCEPT !.pc = "release", !.origin = "delivered", !.retries = x.i]
  <2>1. \E y \in Recorded(z) : Becomes(r, y)
    BY <1>21 DEF Record
  <2>2. z \in Request /\ z.records = 0 /\ z.missed = 0 /\ Handed(x, z)
    BY <1>21, <1>a DEF Record, Handed, PhaseOf, Request, PlaceOK, BookOK, Trying
  <2> QED
    BY <2>1, <2>2, <1>c
<1>22. CASE FailRecord(r)
  <2> DEFINE z == [x EXCEPT !.pc = "reply",
                       !.origin = IF x.downstream THEN "external" ELSE "internal"]
  <2>1. \E y \in Recorded(z) : Becomes(r, y)
    BY <1>22 DEF FailRecord
  <2>2. z \in Request /\ z.records = 0 /\ z.missed = 0 /\ Handed(x, z)
    BY <1>22, <1>a DEF FailRecord, Handed, PhaseOf, Request, PlaceOK, BookOK, Trying
  <2> QED
    BY <2>1, <2>2, <1>c
<1>23. CASE FailReply(r)
  <2>1. slots' = slots /\ q'[r] = [x EXCEPT !.pc = "release", !.answers = @ + 1]
    BY <1>23, <1>b DEF FailReply
  <2>2. Answered(x, q'[r])
    BY <1>23, <1>a, <2>1 DEF Filed, FailReply, Answered, PhaseOf, Request, PlaceOK, BookOK, Trying
  <2> QED
    BY <2>1, <2>2 DEF StepKinds
<1>24. CASE Leave(r)
  <2>1. slots' = slots /\ q'[r] = [x EXCEPT !.gone = TRUE]
    BY <1>24, <1>b DEF Leave
  <2>2. Stayed(x, q'[r])
    BY <1>24, <1>a, <2>1 DEF Filed, Leave, Stayed, PhaseOf, Books, Request, PlaceOK, BookOK, Trying, Holds
  <2> QED
    BY <2>1, <2>2 DEF StepKinds
<1>25. CASE Admit(r)
  <2>1. slots' = slots + 1 /\ slots < Capacity /\ x.pc = "new" /\ q'[r] = [x EXCEPT !.pc = "prepare"]
    BY <1>25 DEF Admit, HasRoom
  <2>2. Admitted(x, q'[r])
    BY <1>a, <2>1 DEF Filed, Admitted, PhaseOf, Books, Request, PlaceOK
  <2> QED
    BY <2>1, <2>2 DEF StepKinds
<1>26. CASE Release(r)
  <2>1. /\ slots' = slots - 1 /\ x.pc = "release"
        /\ q'[r] = [NewRequest EXCEPT !.pc = "over", !.engine = x.engine,
                                    !.answers = x.answers, !.records = x.records,
                                    !.missed = x.missed]
    BY <1>26 DEF Release, Released
  <2>2. Finished(x, q'[r])
    BY <1>a, <2>1 DEF Filed, Finished, PhaseOf, Books, Request, PlaceOK, BookOK, NewRequest
  <2> QED
    BY <2>1, <2>2 DEF StepKinds
<1>27. CASE LoadEngine(r)
  <2>1. PICK v \in {"none", "direct", "proxy"} :
             Becomes(r, [x EXCEPT !.pc = "exits", !.engine = setting, !.vision = v])
    BY <1>27 DEF LoadEngine
  <2>2. slots' = slots /\ q'[r] = [x EXCEPT !.pc = "exits", !.engine = setting, !.vision = v]
    BY <2>1, <1>b
  <2>3. Chosen(x, q'[r])
    BY <1>27, <1>a, <2>2 DEF Filed, LoadEngine, Chosen, PhaseOf, Request, PlaceOK, BookOK, Trying
  <2> QED
    BY <2>2, <2>3 DEF StepKinds
<1>28. CASE LoadProxies(r)
  <2>1. PICK n \in 1..MaxExits :
             Becomes(r, [x EXCEPT !.pc = "loop",
                         !.attempts = IF n < BuiltinAttempts THEN n ELSE BuiltinAttempts])
    BY <1>28 DEF LoadProxies
  <2> DEFINE m == IF n < BuiltinAttempts THEN n ELSE BuiltinAttempts
  <2>2. slots' = slots /\ q'[r] = [x EXCEPT !.pc = "loop", !.attempts = m]
    BY <2>1, <1>b
  <2>3. m # 0
    BY ChatAssumption
  <2> HIDE DEF m
  <2>4. Routed(x, q'[r])
    BY <1>28, <1>a, <2>2, <2>3 DEF Filed, LoadProxies, Routed, PhaseOf, Books, Request, PlaceOK, BookOK, Trying
  <2> QED
    BY <2>2, <2>4 DEF StepKinds
<1>29. CASE Blame(r)
  <2>1. /\ slots' = slots /\ x.pc = "errored" /\ q'[r].pc \in {"fail", "loop"}
        /\ q'[r].attempts = x.attempts /\ Books(x, q'[r])
    <3> DEFINE w == x.wronged \/ x.early
    <3>1. CASE Becomes(r, [x EXCEPT !.pc = "fail", !.wronged = w])
      <4>1. x.pc = "errored" /\ slots' = slots /\ q'[r] = [x EXCEPT !.pc = "fail", !.wronged = w]
        BY <1>29, <3>1, <1>b DEF Blame
      <4> QED
        BY <1>a, <4>1 DEF Filed, Books, Request
    <3>2. CASE Becomes(r, [x EXCEPT !.pc = "loop", !.i = NextIndex(r), !.wronged = w])
      <4>1. /\ x.pc = "errored" /\ slots' = slots
            /\ q'[r] = [x EXCEPT !.pc = "loop", !.i = NextIndex(r), !.wronged = w]
        BY <1>29, <3>2, <1>b DEF Blame
      <4> QED
        BY <1>a, <4>1 DEF Filed, Books, Request
    <3> QED
      BY <1>29, <3>1, <3>2 DEF Blame
  <2>2. Stayed(x, q'[r])
    BY <1>a, <2>1 DEF Stayed, PhaseOf
  <2> QED
    BY <2>1, <2>2 DEF StepKinds
<1>30. CASE Respond(r)
  <2>1. /\ slots' = slots /\ x.pc = "forward" /\ q'[r].pc \in {"deliver", "loop", "wait"}
        /\ q'[r].attempts = x.attempts /\ Books(x, q'[r])
    <3>1. PICK s \in Statuses :
            \/ Becomes(r, [x EXCEPT !.pc = "deliver", !.status = s])
            \/ Becomes(r, [x EXCEPT !.pc = "loop", !.i = NextIndex(r), !.summary = @ + 1])
            \/ Becomes(r, [x EXCEPT !.pc = "wait", !.summary = @ + 1])
      BY <1>30 DEF Respond
    <3>2. CASE Becomes(r, [x EXCEPT !.pc = "deliver", !.status = s])
      <4>1. /\ x.pc = "forward" /\ slots' = slots
            /\ q'[r] = [x EXCEPT !.pc = "deliver", !.status = s]
        BY <1>30, <3>2, <1>b DEF Respond
      <4> QED
        BY <1>a, <4>1 DEF Filed, Books, Request
    <3>3. CASE Becomes(r, [x EXCEPT !.pc = "loop", !.i = NextIndex(r), !.summary = @ + 1])
      <4>1. /\ x.pc = "forward" /\ slots' = slots
            /\ q'[r] = [x EXCEPT !.pc = "loop", !.i = NextIndex(r), !.summary = @ + 1]
        BY <1>30, <3>3, <1>b DEF Respond
      <4> QED
        BY <1>a, <4>1 DEF Filed, Books, Request
    <3>4. CASE Becomes(r, [x EXCEPT !.pc = "wait", !.summary = @ + 1])
      <4>1. /\ x.pc = "forward" /\ slots' = slots
            /\ q'[r] = [x EXCEPT !.pc = "wait", !.summary = @ + 1]
        BY <1>30, <3>4, <1>b DEF Respond
      <4> QED
        BY <1>a, <4>1 DEF Filed, Books, Request
    <3> QED
      BY <3>1, <3>2, <3>3, <3>4
  <2>2. Stayed(x, q'[r])
    BY <1>a, <2>1 DEF Stayed, PhaseOf
  <2> QED
    BY <2>1, <2>2 DEF StepKinds
<1> QED
  BY <1>1, <1>2, <1>3, <1>4, <1>5, <1>6, <1>7, <1>8, <1>9, <1>10, <1>11, <1>12, <1>13,
     <1>14, <1>15, <1>16, <1>17, <1>18, <1>19, <1>20, <1>21, <1>22, <1>23, <1>24, <1>25,
     <1>26, <1>27, <1>28, <1>29, <1>30 DEF RequestStep

\* One token for each request between them.
LEMMA SlotsStep ==
  ASSUME q \in [Requests -> Request], NEW r \in Requests, SlotsBalanced,
         StepKinds(r), q' = [q EXCEPT ![r] = q'[r]]
  PROVE  SlotsBalanced'
<1> USE HoldersFinite, ChatAssumption
<1>0. slots = Cardinality(Holders) /\ slots <= Capacity
  BY DEF SlotsBalanced, Holders
<1>1. \A s \in Requests \ {r} : Holds(s)' <=> Holds(s)
  BY DEF Holds
<1>2. CASE Admitted(q[r], q'[r]) /\ slots < Capacity /\ slots' = slots + 1
  <2>1. ~Holds(r) /\ Holds(r)'
    BY <1>2 DEF Admitted, PhaseOf, Holds
  <2>2. Holders' = Holders \cup {r} /\ r \notin Holders
    BY <1>1, <2>1 DEF Holders
  <2>3. Cardinality(Holders') = Cardinality(Holders) + 1
    BY <2>2, FS_AddElement
  <2> QED
    BY <1>0, <1>2, <2>3 DEF SlotsBalanced, Holders
<1>3. CASE Finished(q[r], q'[r]) /\ slots' = slots - 1
  <2>1. Holds(r) /\ ~Holds(r)'
    BY <1>3 DEF Finished, Holds
  <2>2. Holders' = Holders \ {r} /\ r \in Holders
    BY <1>1, <2>1 DEF Holders
  <2>3. Cardinality(Holders') = Cardinality(Holders) - 1
    BY <2>2, FS_RemoveElement
  <2> QED
    BY <1>0, <1>3, <2>3 DEF SlotsBalanced, Holders
<1>4. ASSUME slots' = slots, PhaseOf(q'[r]) = PhaseOf(q[r]) \/ TurnedAway(q[r], q'[r])
                             \/ (PhaseOf(q[r]) = "admitted" /\ PhaseOf(q'[r]) = "routing")
      PROVE  SlotsBalanced'
  <2>1. Holds(r)' <=> Holds(r)
    BY <1>4 DEF TurnedAway, PhaseOf, Holds
  <2>2. Holders' = Holders
    BY <1>1, <2>1 DEF Holders
  <2> QED
    BY <1>0, <1>4, <2>2 DEF SlotsBalanced, Holders
<1> QED
  <2>1. \/ Admitted(q[r], q'[r]) /\ slots < Capacity /\ slots' = slots + 1
        \/ Finished(q[r], q'[r]) /\ slots' = slots - 1
        \/ /\ slots' = slots
           /\ \/ PhaseOf(q'[r]) = PhaseOf(q[r]) \/ TurnedAway(q[r], q'[r])
              \/ (PhaseOf(q[r]) = "admitted" /\ PhaseOf(q'[r]) = "routing")
    <3>1. (\/ Stayed(q[r], q'[r]) \/ Chosen(q[r], q'[r]) \/ Answered(q[r], q'[r])
           \/ Accounted(q[r], q'[r]) \/ Lost(q[r], q'[r]))
          => PhaseOf(q'[r]) = PhaseOf(q[r])
      BY DEF Stayed, Chosen, Answered, Accounted, Lost, Handed
    <3>2. Routed(q[r], q'[r]) => PhaseOf(q[r]) = "admitted" /\ PhaseOf(q'[r]) = "routing"
      BY DEF Routed
    <3> QED
      BY <3>1, <3>2 DEF StepKinds
  <2> QED
    BY <2>1, <1>2, <1>3, <1>4

\* The invariant holds in every reachable state.
LEMMA InvInit == Init => IInv
<1> SUFFICES ASSUME Init PROVE IInv
  OBVIOUS
<1>1. \A r \in Requests : q[r] = NewRequest
  BY DEF Init
<1>2. {r \in Requests : Holds(r)} = {}
  BY <1>1 DEF Holds, NewRequest
<1>3. SlotsBalanced
  <2>1. Cardinality({r \in Requests : Holds(r)}) = 0
    BY <1>2, FS_EmptySet
  <2> QED
    BY <2>1, ChatAssumption DEF Init, SlotsBalanced
<1>4. q \in [Requests -> Request] /\ \A r \in Requests : RequestOK(q[r])
  BY <1>1, NewOK DEF Init, RequestOK
<1> QED
  BY <1>3, <1>4 DEF IInv, Init

LEMMA InvStep == IInv /\ [Next]_vars => IInv'
<1> SUFFICES ASSUME IInv, [Next]_vars PROVE IInv'
  OBVIOUS
<1>1. ASSUME NEW r \in Requests, RequestStep(r) \/ Leave(r) PROVE IInv'
  <2>1. q \in [Requests -> Request] /\ RequestOK(q[r]) /\ SlotsBalanced /\ setting \in Engines
    BY DEF IInv
  <2>2. RequestOK(q'[r]) /\ q' = [q EXCEPT ![r] = q'[r]]
    BY <1>1, <2>1, RequestStepOK
  <2>3. SlotsBalanced'
    BY <1>1, <2>1, <2>2, StepKind, SlotsStep
  <2>4. setting' = setting
    BY <1>1 DEF RequestStep, Reject, Admit, AtCapacity, Release, Refuse, Unsupported, NoProxies, RejectReply,
       LoadEngine, ResinReady, LoadProxies, LoopEnd, LoopGone, LoopGo, PickError, Pick, HelperDone,
       HelperRetry, HelperFail, ForwardError, ErrorGone, Blame, Respond, Waited, WaitGone, Deliver,
       Record, FailRecord, FailReply, Leave, Becomes, Fail, FailGone, NextAttempt
  <2>5. q' \in [Requests -> Request] /\ \A s \in Requests : RequestOK(q'[s])
    BY <2>1, <2>2 DEF IInv, RequestOK
  <2> QED
    BY <2>1, <2>3, <2>4, <2>5 DEF IInv
<1>2. CASE PutEngine
  BY <1>2 DEF PutEngine, IInv, SlotsBalanced, Holds
<1>3. CASE UNCHANGED vars
  BY <1>3 DEF vars, IInv, SlotsBalanced, Holds
<1> QED
  BY <1>1, <1>2, <1>3 DEF Next

LEMMA Invariance == Spec => []IInv
BY InvInit, InvStep, PTL DEF Spec

----------------------------------------------------------------------------
\* Every variable keeps its type, and no request makes more attempts than it
\* was given.
THEOREM ChatTypes == Spec => []TypeOK
<1>1. IInv => TypeOK
  <2> SUFFICES ASSUME IInv PROVE TypeOK
    OBVIOUS
  <2>1. slots \in 0..Capacity
    BY HoldersFinite, ChatAssumption DEF IInv, SlotsBalanced, Holders
  <2> QED
    BY <2>1 DEF IInv, TypeOK, RequestOK, PlaceOK
<1> QED
  BY <1>1, Invariance, PTL

\* The semaphore holds one token for each request being handled: no way out of
\* the handler loses one or gives one back twice.
THEOREM ChatSlots == Spec => []SlotsBalanced
<1>1. IInv => SlotsBalanced
  BY DEF IInv
<1> QED
  BY <1>1, Invariance, PTL

\* A failure another exit might better reaches the client only from the last
\* attempt.
THEOREM ChatKeepsTrying == Spec => []KeepsTrying
<1>1. IInv => KeepsTrying
  BY DEF IInv, RequestOK, FaultOK, KeepsTrying, LastAttempt
<1> QED
  BY <1>1, Invariance, PTL

\* The attempts of a usage record agree with its retry_count, on every path.
THEOREM ChatRecords == Spec => []RecordsTellAttempts
<1>1. IInv => RecordsTellAttempts
  <2> SUFFICES ASSUME IInv, NEW r \in Requests,
                      q[r].origin \in {"external", "internal", "delivered"}, q[r].attempts # 0
               PROVE  /\ q[r].summary <= q[r].retries + 1
                      /\ q[r].vision = "none" /\ q[r].summary # q[r].retries + 1
                         => q[r].retries = 0 /\ q[r].summary = 0
    BY DEF RecordsTellAttempts
  <2>1. q[r] \in Request /\ RequestOK(q[r])
    BY DEF IInv
  <2>2. q[r].pc \in {"reply", "release"}
    BY <2>1 DEF RequestOK, BookOK, PlaceOK
  <2>3. Tally(q[r], q[r].retries + 1) \/ (q[r].retries = 0 /\ q[r].summary = 0)
    BY <2>1, <2>2 DEF RequestOK, TallyOK
  <2> QED
    BY <2>3 DEF Tally
<1> QED
  BY <1>1, Invariance, PTL

\* A client that leaves costs no exit its health.
THEOREM ChatLeaving == Spec => []LeavingIsNoFault
<1>1. IInv => LeavingIsNoFault
  BY DEF IInv, RequestOK, FaultOK, LeavingIsNoFault
<1> QED
  BY <1>1, Invariance, PTL

----------------------------------------------------------------------------
(* The refinement. *)

\* A request as the promise sees it, all requests together.
phase   == [r \in Requests |-> Phase(r)]
engine  == [r \in Requests |-> q[r].engine]
answers == [r \in Requests |-> q[r].answers]
records == [r \in Requests |-> q[r].records]
missed  == [r \in Requests |-> q[r].missed]

LEMMA PhaseIs == \A r \in Requests : Phase(r) = PhaseOf(q[r])
BY DEF Phase, PhaseOf, Holds

\* The instance brings a copy of Cardinality.
LEMMA SameCardinality == \A S : Promise!Cardinality(S) = Cardinality(S)
BY DEF Promise!Cardinality, Cardinality

LEMMA HoldersAre == Promise!Holders = Holders
<1>1. \A r \in Requests : phase[r] \in {"admitted", "routing"} <=> Holds(r)
  BY PhaseIs DEF phase, PhaseOf, Holds
<1> QED
  BY <1>1 DEF Promise!Holders, Holders, phase

\* A step of request r changes what is seen of r alone.
LEMMA Seen ==
  ASSUME q \in [Requests -> Request], NEW r \in Requests, q' = [q EXCEPT ![r] = q'[r]]
  PROVE  /\ phase' = [phase EXCEPT ![r] = PhaseOf(q'[r])]
         /\ engine' = [engine EXCEPT ![r] = q'[r].engine]
         /\ answers' = [answers EXCEPT ![r] = q'[r].answers]
         /\ records' = [records EXCEPT ![r] = q'[r].records]
         /\ missed' = [missed EXCEPT ![r] = q'[r].missed]
<1>1. \A s \in Requests : Phase(s) = PhaseOf(q[s])
  BY PhaseIs
<1>2. \A s \in Requests : Phase(s)' = PhaseOf(q'[s])
  BY DEF Phase, PhaseOf, Holds
<1>3. \A s \in Requests \ {r} : q'[s] = q[s]
  OBVIOUS
<1>4. phase' = [phase EXCEPT ![r] = PhaseOf(q'[r])]
  <2>1. phase = [s \in Requests |-> PhaseOf(q[s])]
    BY <1>1 DEF phase
  <2>2. phase' = [s \in Requests |-> PhaseOf(q'[s])]
    BY <1>2 DEF phase
  <2> QED
    BY <1>3, <2>1, <2>2
<1> QED
  BY <1>3, <1>4 DEF engine, answers, records, missed

\* Each kind of step is the promise's action of that kind, or is not seen.
LEMMA StepSeen ==
  ASSUME q \in [Requests -> Request], NEW r \in Requests, SlotsBalanced,
         StepKinds(r), q' = [q EXCEPT ![r] = q'[r]]
  PROVE  [Promise!Next]_(Promise!vars)
<1> DEFINE x == q[r]
           y == q'[r]
<1>1. /\ phase' = [phase EXCEPT ![r] = PhaseOf(y)]
      /\ engine' = [engine EXCEPT ![r] = y.engine]
      /\ answers' = [answers EXCEPT ![r] = y.answers]
      /\ records' = [records EXCEPT ![r] = y.records]
      /\ missed' = [missed EXCEPT ![r] = y.missed]
  BY Seen
<1>2. /\ phase[r] = PhaseOf(x) /\ engine[r] = x.engine
      /\ answers[r] = x.answers /\ records[r] = x.records /\ missed[r] = x.missed
  BY PhaseIs DEF phase, engine, answers, records, missed
<1>3. /\ phase = [phase EXCEPT ![r] = phase[r]] /\ engine = [engine EXCEPT ![r] = engine[r]]
      /\ answers = [answers EXCEPT ![r] = answers[r]] /\ records = [records EXCEPT ![r] = records[r]]
      /\ missed = [missed EXCEPT ![r] = missed[r]]
  BY DEF phase, engine, answers, records, missed
<1>4. Promise!Holders = Holders /\ (r \in Holders <=> x.pc \notin {"new", "over"})
  BY HoldersAre DEF Holders, Holds
<1> HIDE DEF x, y
<1>5. CASE Stayed(x, y)
  <2>1. phase' = phase /\ engine' = engine /\ answers' = answers /\ records' = records /\ missed' = missed
    BY <1>1, <1>2, <1>3, <1>5 DEF Stayed, Filed, Books
  <2> QED
    BY <2>1 DEF Promise!vars, phase, engine, answers, records, missed
<1>6. CASE TurnedAway(x, y)
  <2>1. phase[r] = "new"
    BY <1>6, <1>2, <1>4 DEF TurnedAway, PhaseOf
  <2>2. /\ phase' = [phase EXCEPT ![r] = "over"] /\ engine' = engine
        /\ answers' = [answers EXCEPT ![r] = 1] /\ records' = records /\ missed' = missed
    BY <1>6, <1>1, <1>2, <1>3 DEF TurnedAway, Filed, PhaseOf
  <2>3. Promise!Refuse(r)
    BY <2>1, <2>2 DEF Promise!Refuse, phase, engine, answers, records, missed
  <2> QED
    BY <2>3 DEF Promise!Next
<1>7. CASE Chosen(x, y)
  <2>1. phase[r] = "admitted" /\ engine[r] = NoEngine /\ answers[r] = 0 /\ y.engine \in {"builtin", "resin"}
    BY <1>7, <1>2, <1>4 DEF Chosen, Engines
  <2>2. /\ phase' = phase /\ engine' = [engine EXCEPT ![r] = y.engine]
        /\ answers' = answers /\ records' = records /\ missed' = missed
    BY <1>7, <1>1, <1>2, <1>3 DEF Chosen, Filed
  <2>3. Promise!Choose(r)
    BY <2>1, <2>2 DEF Promise!Choose, phase, engine, answers, records, missed
  <2> QED
    BY <2>3 DEF Promise!Next
<1>8. CASE Routed(x, y)
  <2>1. /\ phase[r] = "admitted" /\ engine[r] # NoEngine /\ answers[r] = 0
        /\ records[r] = 0 /\ missed[r] = 0
    BY <1>8, <1>2, <1>4 DEF Routed
  <2>2. /\ phase' = [phase EXCEPT ![r] = "routing"] /\ engine' = engine
        /\ answers' = answers /\ records' = records /\ missed' = missed
    BY <1>8, <1>1, <1>2, <1>3 DEF Routed, Filed, Books
  <2>3. Promise!Route(r)
    BY <2>1, <2>2 DEF Promise!Route, phase, engine, answers, records, missed
  <2> QED
    BY <2>3 DEF Promise!Next
<1>9. CASE Answered(x, y)
  <2>1. r \in Promise!Holders /\ answers[r] = 0
    BY <1>9, <1>2, <1>4 DEF Answered
  <2>2. /\ phase' = phase /\ engine' = engine
        /\ answers' = [answers EXCEPT ![r] = 1] /\ records' = records /\ missed' = missed
    BY <1>9, <1>1, <1>2, <1>3 DEF Answered, Filed
  <2>3. Promise!Answer(r)
    BY <2>1, <2>2 DEF Promise!Answer, phase, engine, answers, records, missed
  <2> QED
    BY <2>3 DEF Promise!Next
<1>10. CASE Accounted(x, y)
  <2>1. r \in Promise!Holders /\ records[r] = 0 /\ missed[r] = 0
    BY <1>10, <1>2, <1>4 DEF Accounted, Handed
  <2>2. /\ phase' = phase /\ engine' = engine
        /\ answers' = answers /\ records' = [records EXCEPT ![r] = 1] /\ missed' = missed
    BY <1>10, <1>1, <1>2, <1>3, <2>1 DEF Accounted, Handed
  <2>3. Promise!Account(r)
    BY <2>1, <2>2 DEF Promise!Account, phase, engine, answers, records, missed
  <2> QED
    BY <2>3 DEF Promise!Next
<1>13. CASE Lost(x, y)
  <2>1. r \in Promise!Holders /\ records[r] = 0 /\ missed[r] = 0
    BY <1>13, <1>2, <1>4 DEF Lost, Handed
  <2>2. /\ phase' = phase /\ engine' = engine
        /\ answers' = answers /\ records' = records /\ missed' = [missed EXCEPT ![r] = 1]
    BY <1>13, <1>1, <1>2, <1>3, <2>1 DEF Lost, Handed
  <2>3. Promise!Lose(r)
    BY <2>1, <2>2 DEF Promise!Lose, phase, engine, answers, records, missed
  <2> QED
    BY <2>3 DEF Promise!Next
<1>11. CASE Finished(x, y)
  <2>1. /\ r \in Promise!Holders /\ answers[r] = 1
        /\ phase[r] = "routing" => records[r] + missed[r] = 1
    BY <1>11, <1>2, <1>4 DEF Finished
  <2>2. /\ phase' = [phase EXCEPT ![r] = "over"] /\ engine' = engine
        /\ answers' = answers /\ records' = records /\ missed' = missed
    BY <1>11, <1>1, <1>2, <1>3 DEF Finished, Filed, Books, PhaseOf
  <2>3. Promise!Finish(r)
    BY <2>1, <2>2 DEF Promise!Finish, phase, engine, answers, records, missed
  <2> QED
    BY <2>3 DEF Promise!Next
<1>12. CASE Admitted(x, y) /\ slots < Capacity
  <2>1. phase[r] = "new" /\ Cardinality(Promise!Holders) < Capacity
    BY <1>12, <1>2, <1>4, HoldersFinite DEF Admitted, PhaseOf, SlotsBalanced, Holders
  <2>2. /\ phase' = [phase EXCEPT ![r] = "admitted"] /\ engine' = engine
        /\ answers' = answers /\ records' = records /\ missed' = missed
    BY <1>12, <1>1, <1>2, <1>3 DEF Admitted, Filed, Books
  <2>3. Promise!Admit(r)
    BY <2>1, <2>2, SameCardinality DEF Promise!Admit, phase, engine, answers, records, missed
  <2> QED
    BY <2>3 DEF Promise!Next
<1> QED
  BY <1>5, <1>6, <1>7, <1>8, <1>9, <1>10, <1>11, <1>12, <1>13 DEF StepKinds, x, y

\* Every request is answered once and routed by one engine, and its usage record
\* is handed to the database once, which stores or refuses it, whatever fails and
\* whatever the console sets meanwhile: the handler implements GatewayPromise,
\* step by step.
THEOREM ChatKeepsPromise == Spec => KeepsPromise
<1>1. Init => Promise!Init
  <2> SUFFICES ASSUME Init PROVE Promise!Init
    OBVIOUS
  <2>1. \A r \in Requests : /\ Phase(r) = "new" /\ q[r].engine = NoEngine
                            /\ q[r].answers = 0 /\ q[r].records = 0 /\ q[r].missed = 0
    BY DEF Init, NewRequest, Phase
  <2> QED
    BY <2>1 DEF Promise!Init
<1>2. IInv /\ [Next]_vars => [Promise!Next]_(Promise!vars)
  <2> SUFFICES ASSUME IInv, [Next]_vars PROVE [Promise!Next]_(Promise!vars)
    OBVIOUS
  <2>1. ASSUME NEW r \in Requests, RequestStep(r) \/ Leave(r)
        PROVE  [Promise!Next]_(Promise!vars)
    <3>1. q \in [Requests -> Request] /\ setting \in Engines /\ RequestOK(q[r]) /\ SlotsBalanced
      BY DEF IInv
    <3>2. q' = [q EXCEPT ![r] = q'[r]]
      BY <2>1, <3>1, RequestStepOK
    <3> QED
      BY <2>1, <3>1, <3>2, StepKind, StepSeen
  <2>2. CASE q' = q
    BY <2>2 DEF Promise!vars, Phase, Holds
  <2> QED
    BY <2>1, <2>2 DEF Next, PutEngine, vars
<1> QED
  BY <1>1, <1>2, Invariance, PTL DEF Spec, KeepsPromise, Promise!Spec
=============================================================================
