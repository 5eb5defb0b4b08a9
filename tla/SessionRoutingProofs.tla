------------------------ MODULE SessionRoutingProofs ------------------------
(***************************************************************************)
(* The safety of session affinity, for any number of sessions, exits,       *)
(* requests and attempts. The argument is mutual exclusion: between a       *)
(* request's SELECT and its write only the janitor, which takes no lock,    *)
(* changes the row of its session, and it can only delete it. So what the   *)
(* request has read is still what was served.                               *)
(***************************************************************************)
EXTENDS SessionRouting, FiniteSetTheorems, TLAPS

Picking(r) == pc[r] \in {"select", "route"}

\* As many exits are left to try as attempts: the one under way has its exit.
Budget(r) ==
  /\ pc[r] = "idle" => used[r] = {}
  /\ Picking(r) \/ pc[r] = "pick" => left[r] >= 1 /\ Cardinality(Eligible(r)) >= left[r]
  /\ pc[r] \in {"attempt", "clear"} => Cardinality(Eligible(r)) >= left[r] - 1
BudgetOK == \A r \in Requests : Budget(r)

\* A limit that was read under the lock has been in force since the session
\* last moved.
LimitOK ==
  /\ \A k \in Keys : limit \in allowed[k]
  /\ \A r \in Requests : Picking(r) => lim[r] \in allowed[key[r]]

\* The route a request has read counts what was served, and its row is that
\* route or gone.
HeldOK ==
  \A r \in Requests : pc[r] = "route" =>
    /\ sel[r] # NoRoute => sel[r].count = served[key[r]]
    /\ routes[key[r]] # NoRoute => sel[r] # NoRoute /\ routes[key[r]].proxy = sel[r].proxy

Rest == BudgetOK /\ LimitOK /\ HeldOK /\ CountsEveryRequest /\ QuotaRespected
IInv == TypeOK /\ Rest

----------------------------------------------------------------------------
\* What the code's counts of exits rest on: sets of proxies are finite.
LEMMA ExitsCounted ==
  ASSUME NEW S \in SUBSET Proxies
  PROVE  /\ IsFiniteSet(S) /\ Cardinality(S) \in Nat
         /\ S # {} => Cardinality(S) >= 1
         /\ \A p : Cardinality(S \ {p}) >= Cardinality(S) - 1
<1>1. IsFiniteSet(S)
  BY FS_Subset, RoutingAssumption
<1>2. Cardinality(S) \in Nat
  BY <1>1, FS_CardinalityType
<1>3. S # {} => Cardinality(S) >= 1
  <2>1. S # {} => Cardinality(S) # 0
    BY <1>1, FS_EmptySet
  <2> QED
    BY <1>2, <2>1
<1>4. \A p : Cardinality(S \ {p}) >= Cardinality(S) - 1
  BY <1>1, <1>2, FS_RemoveElement
<1> QED
  BY <1>1, <1>2, <1>3, <1>4

\* A request makes at least one attempt, and no more than it has exits.
LEMMA AttemptsBounded ==
  ASSUME NEW S \in SUBSET Proxies, S # {}
  PROVE  Attempts(S) \in 1..MaxAttempts /\ Attempts(S) <= Cardinality(S)
BY ExitsCounted, RoutingAssumption DEF Attempts

\* Two requests of one session do not pick at once, and none picks while the
\* lock of its session is free.
LEMMA Exclusion ==
  ASSUME TypeOK, NEW r \in Requests, NEW s \in Requests, Picking(s), key[r] = key[s]
  PROVE  (Picking(r) => r = s) /\ ~LockFree(r)
<1>1. key[s] \in Keys
  BY DEF TypeOK, Picking
<1>2. MyLock(s) \in Locks /\ MyLock(r) = MyLock(s)
  BY <1>1, RoutingAssumption DEF MyLock
<1>3. lock[MyLock(s)] = s /\ (Picking(r) => lock[MyLock(r)] = r)
  BY <1>2 DEF TypeOK, Picking
<1> QED
  BY <1>2, <1>3, RoutingAssumption DEF LockFree

----------------------------------------------------------------------------
\* The types at the start.
LEMMA TypeInit == Init => TypeOK
BY RoutingAssumption DEF Init, TypeOK

\* Time only ages a row.
LEMMA RouteAged ==
  ASSUME NEW k \in Keys, routes \in [Keys -> Route \cup {NoRoute}], routes[k] # NoRoute,
         routes' = [routes EXCEPT ![k].old = TRUE]
  PROVE  /\ routes' \in [Keys -> Route \cup {NoRoute}]
         /\ routes'[k] # NoRoute /\ routes'[k].count = routes[k].count /\ routes'[k].proxy = routes[k].proxy
         /\ \A j \in Keys \ {k} : routes'[j] = routes[j]
<1> DEFINE row == [routes[k] EXCEPT !.old = TRUE]
<1>1. row \in Route /\ row.count = routes[k].count /\ row.proxy = routes[k].proxy
  BY DEF Route
<1>2. row # NoRoute
  BY <1>1, RoutingAssumption DEF Route
<1>3. routes' = [routes EXCEPT ![k] = row]
  OBVIOUS
<1> HIDE DEF row
<1> QED
  BY <1>1, <1>2, <1>3

\* Counting a request keeps the row a route, to the same exit.
LEMMA RouteStamped ==
  ASSUME NEW k \in Keys, routes \in [Keys -> Route \cup {NoRoute}], routes[k] # NoRoute,
         routes' = [routes EXCEPT ![k].count = Incremented(@), ![k].old = FALSE]
  PROVE  /\ routes' \in [Keys -> Route \cup {NoRoute}]
         /\ routes'[k] # NoRoute /\ routes'[k].count = routes[k].count + 1 /\ routes'[k].proxy = routes[k].proxy
         /\ \A j \in Keys \ {k} : routes'[j] = routes[j]
<1> DEFINE counted == [routes[k] EXCEPT !.count = @ + 1]
           row == [counted EXCEPT !.old = FALSE]
<1>1. counted \in Route /\ counted.count = routes[k].count + 1 /\ counted.proxy = routes[k].proxy
  BY DEF Route
<1>2. row \in Route /\ row.count = counted.count /\ row.proxy = counted.proxy
  <2> HIDE DEF counted
  <2> QED
    BY <1>1 DEF Route
<1>3. row # NoRoute
  BY <1>2, RoutingAssumption DEF Route
<1>4. routes' = [routes EXCEPT ![k] = row]
  BY DEF Incremented
<1> HIDE DEF row, counted
<1> QED
  BY <1>1, <1>2, <1>3, <1>4

\* Every step keeps the types, and the locks with those who pick.
LEMMA TypeStep == TypeOK /\ [Next]_vars => TypeOK'
<1> SUFFICES ASSUME TypeOK, [Next]_vars PROVE TypeOK'
  OBVIOUS
<1> USE RoutingAssumption DEF Goto, asked, picking, history, MyLock
<1>1. ASSUME NEW r \in Requests, Start(r) PROVE TypeOK'
  <2>1. PICK k \in Keys, S \in (SUBSET Proxies) \ {{}} :
               /\ key' = [key EXCEPT ![r] = k] /\ list' = [list EXCEPT ![r] = S]
               /\ left' = [left EXCEPT ![r] = Attempts(S)]
    BY <1>1 DEF Start
  <2>2. Attempts(S) \in 0..MaxAttempts
    <3>1. S \in SUBSET Proxies /\ S # {}
      OBVIOUS
    <3>2. Attempts(S) \in 1..MaxAttempts
      BY <3>1, AttemptsBounded
    <3> QED
      BY <3>2
  <2>3. k # NoRoute
    OBVIOUS
  <2> QED
    BY <1>1, <2>1, <2>2, <2>3 DEF Start, TypeOK
<1>2. ASSUME NEW r \in Requests, Cancel(r) PROVE TypeOK'
  BY <1>2 DEF Cancel, EndRequest, TypeOK
<1>3. ASSUME NEW r \in Requests, Lock(r) PROVE TypeOK'
  BY <1>3 DEF Lock, LockFree, TypeOK
<1>4. ASSUME NEW r \in Requests, Select(r) PROVE TypeOK'
  BY <1>4 DEF Select, TypeOK
<1>5. ASSUME NEW r \in Requests, Keep(r) PROVE TypeOK'
  <2>1. key[r] \in Keys /\ sel[r] \in Route /\ sel[r].proxy \in Proxies
    BY <1>5 DEF Keep, Sticky, Route, TypeOK
  <2>2. routes' \in [Keys -> Route \cup {NoRoute}]
    BY <1>5, <2>1, RouteStamped DEF Keep, TypeOK
  <2>3. served' \in [Keys -> Nat]
    BY <1>5, <2>1 DEF Keep, TypeOK
  <2> QED
    BY <1>5, <2>1, <2>2, <2>3 DEF Keep, Picked, EndPick, TypeOK
<1>6. ASSUME NEW r \in Requests, Assign(r) PROVE TypeOK'
  BY <1>6 DEF Assign, Picked, Eligible, Route, EndPick, TypeOK
<1>7. ASSUME NEW r \in Requests, SqlError(r) PROVE TypeOK'
  BY <1>7 DEF SqlError, MuAfterError, EndPick, EndRequest, TypeOK
<1>8. ASSUME NEW r \in Requests, Deliver(r) PROVE TypeOK'
  BY <1>8 DEF Deliver, EndRequest, TypeOK
<1>9. ASSUME NEW r \in Requests, Retry(r) PROVE TypeOK'
  BY <1>9 DEF Retry, EndAttempt, TypeOK
<1>10. ASSUME NEW r \in Requests, Drop(r) PROVE TypeOK'
  BY <1>10 DEF Drop, TypeOK
<1>11. ASSUME NEW r \in Requests, Clear(r) PROVE TypeOK'
  BY <1>11 DEF Clear, EndRequest, EndAttempt, TypeOK
<1>12. CASE Janitor
  BY <1>12 DEF Janitor, TypeOK
<1>13. CASE PutRouting
  BY <1>13 DEF PutRouting, TypeOK
<1>14. CASE DeleteProxy
  BY <1>14 DEF DeleteProxy, TypeOK
<1>15. CASE Age
  <2>1. routes' \in [Keys -> Route \cup {NoRoute}]
    <3>1. PICK k \in Keys : routes[k] # NoRoute /\ routes' = [routes EXCEPT ![k].old = TRUE]
      BY <1>15 DEF Age
    <3> QED
      BY <3>1, RouteAged DEF TypeOK
  <2> QED
    BY <1>15, <2>1 DEF Age, TypeOK
<1>16. CASE UNCHANGED vars
  BY <1>16 DEF vars, TypeOK
<1> QED
  BY <1>1, <1>2, <1>3, <1>4, <1>5, <1>6, <1>7, <1>8, <1>9, <1>10, <1>11, <1>12, <1>13, <1>14, <1>15, <1>16 DEF Next, RequestStep
----------------------------------------------------------------------------
\* The rest of the invariant holds at the start.
LEMMA InvInit == Init => IInv
<1> SUFFICES ASSUME Init PROVE IInv
  OBVIOUS
<1>1. Rest
  BY RoutingAssumption DEF Init, Rest, BudgetOK, Budget, LimitOK, HeldOK, CountsEveryRequest, QuotaRespected, Picking
<1> QED
  BY <1>1, TypeInit DEF IInv

\* What a request has left is its own business.
LEMMA BudgetLocal ==
  ASSUME TypeOK, BudgetOK, NEW r \in Requests, Budget(r)',
         \A s \in Requests \ {r} : pc'[s] = pc[s] /\ list'[s] = list[s] /\ used'[s] = used[s] /\ left'[s] = left[s]
  PROVE  BudgetOK'
<1>1. ASSUME NEW s \in Requests, s # r PROVE Budget(s)'
  BY <1>1 DEF BudgetOK, Budget, Picking, Eligible
<1> QED
  BY <1>1 DEF BudgetOK

\* An attempt uses one exit, so as many are left for the attempts after it.
LEMMA UseOne ==
  ASSUME TypeOK, BudgetOK, NEW r \in Requests, Picking(r), NEW x \in Eligible(r),
         used' = [used EXCEPT ![r] = @ \cup {x}], pc' = [pc EXCEPT ![r] = "attempt"],
         UNCHANGED <<list, left>>
  PROVE  BudgetOK'
<1>1. Eligible(r) \in SUBSET Proxies /\ Eligible(r)' = Eligible(r) \ {x}
  BY DEF TypeOK, Eligible
<1>2. Cardinality(Eligible(r)') >= Cardinality(Eligible(r)) - 1 /\ Cardinality(Eligible(r)') \in Nat
  <2>1. Eligible(r) \ {x} \in SUBSET Proxies
    BY <1>1
  <2> QED
    BY <1>1, <2>1, ExitsCounted
<1>3. Cardinality(Eligible(r)) >= left[r] /\ Cardinality(Eligible(r)) \in Nat /\ left[r] \in Nat
  BY <1>1, ExitsCounted, RoutingAssumption DEF BudgetOK, Budget, TypeOK
<1>4. Cardinality(Eligible(r)') >= left[r] - 1
  BY <1>2, <1>3
<1>5. Budget(r)'
  BY <1>4 DEF Budget, Picking, TypeOK
<1> QED
  BY <1>5, BudgetLocal DEF TypeOK

\* The numbers are numbers.
LEMMA Numbers ==
  ASSUME TypeOK
  PROVE  /\ \A r \in Requests : lim[r] \in Nat /\ left[r] \in Nat /\ Eligible(r) \in SUBSET Proxies
         /\ \A k \in Keys : served[k] \in Nat /\ (routes[k] # NoRoute => routes[k].count \in Nat)
<1>1. ASSUME NEW r \in Requests PROVE lim[r] \in Nat /\ left[r] \in Nat /\ Eligible(r) \in SUBSET Proxies
  <2>1. lim[r] \in Limits \cup {0} /\ left[r] \in 0..MaxAttempts /\ list[r] \in SUBSET Proxies
    BY DEF TypeOK
  <2>2. lim[r] \in Nat
    <3>1. \A l \in Limits : l \in Nat
      BY RoutingAssumption
    <3> QED
      BY <2>1, <3>1
  <2>3. left[r] \in Nat
    BY <2>1
  <2>4. Eligible(r) \in SUBSET Proxies
    BY <2>1 DEF Eligible
  <2> QED
    BY <2>2, <2>3, <2>4
<1>2. ASSUME NEW k \in Keys PROVE served[k] \in Nat /\ (routes[k] # NoRoute => routes[k].count \in Nat)
  BY DEF TypeOK, Route
<1> QED
  BY <1>1, <1>2

\* Every step keeps it.
LEMMA InvStep == IInv /\ [Next]_vars => Rest'
<1> SUFFICES ASSUME TypeOK, TypeOK', Rest, [Next]_vars PROVE Rest'
  BY TypeStep DEF IInv
<1> USE RoutingAssumption DEF Goto, asked, picking, history
<1>1. ASSUME NEW r \in Requests, Start(r) PROVE Rest'
  <2>1. BudgetOK'
    <3>1. PICK k \in Keys, S \in (SUBSET Proxies) \ {{}} :
                 list' = [list EXCEPT ![r] = S] /\ left' = [left EXCEPT ![r] = Attempts(S)]
      BY <1>1 DEF Start
    <3>2. S \in SUBSET Proxies /\ S \ {} = S
      OBVIOUS
    <3>3. Attempts(S) >= 1 /\ Cardinality(S) >= Attempts(S)
      BY <3>1, <3>2, AttemptsBounded
    <3>4. used[r] = {} /\ used' = used /\ pc' = [pc EXCEPT ![r] = "pick"]
      BY <1>1 DEF Start, Rest, BudgetOK, Budget
    <3> QED
      <4>1. Budget(r)'
        <5>1. Eligible(r)' = S /\ left'[r] = Attempts(S) /\ pc'[r] = "pick"
          BY <3>1, <3>2, <3>4 DEF Eligible, TypeOK
        <5> QED
          BY <3>3, <5>1 DEF Budget, Picking
      <4> QED
        BY <3>1, <3>4, <4>1, BudgetLocal DEF Rest, TypeOK
  <2>2. LimitOK'
    BY <1>1 DEF Start, Rest, LimitOK, Picking, TypeOK
  <2>3. HeldOK'
    BY <1>1 DEF Start, Rest, HeldOK, TypeOK
  <2>4. CountsEveryRequest'
    BY <1>1 DEF Start, Rest, CountsEveryRequest, TypeOK
  <2>5. QuotaRespected'
    BY <1>1 DEF Start, Rest, QuotaRespected, TypeOK
  <2> QED
    BY <2>1, <2>2, <2>3, <2>4, <2>5 DEF Rest
<1>2. ASSUME NEW r \in Requests, Cancel(r) PROVE Rest'
  <2>1. BudgetOK'
    <3>1. Budget(r)'
      BY <1>2 DEF Cancel, EndRequest, Rest, BudgetOK, Budget, Picking, Eligible, TypeOK
    <3>2. \A s \in Requests \ {r} : pc'[s] = pc[s] /\ list'[s] = list[s] /\ used'[s] = used[s] /\ left'[s] = left[s]
      BY <1>2 DEF Cancel, EndRequest, TypeOK
    <3> QED
      BY <3>1, <3>2, BudgetLocal DEF Rest
  <2>2. LimitOK'
    BY <1>2 DEF Cancel, EndRequest, Rest, LimitOK, Picking, TypeOK
  <2>3. HeldOK'
    BY <1>2 DEF Cancel, EndRequest, Rest, HeldOK, TypeOK
  <2>4. CountsEveryRequest'
    BY <1>2 DEF Cancel, EndRequest, Rest, CountsEveryRequest, TypeOK
  <2>5. QuotaRespected'
    BY <1>2 DEF Cancel, EndRequest, Rest, QuotaRespected, TypeOK
  <2> QED
    BY <2>1, <2>2, <2>3, <2>4, <2>5 DEF Rest
<1>3. ASSUME NEW r \in Requests, Lock(r) PROVE Rest'
  <2>a. key[r] \in Keys
    BY <1>3 DEF Lock, TypeOK
  <2>1. BudgetOK'
    <3>1. Budget(r)'
      BY <1>3 DEF Lock, Rest, BudgetOK, Budget, Picking, Eligible, TypeOK
    <3>2. \A s \in Requests \ {r} : pc'[s] = pc[s] /\ list'[s] = list[s] /\ used'[s] = used[s] /\ left'[s] = left[s]
      BY <1>3 DEF Lock, TypeOK
    <3> QED
      BY <3>1, <3>2, BudgetLocal DEF Rest
  <2>2. LimitOK'
    BY <1>3, <2>a DEF Lock, Rest, LimitOK, Picking, TypeOK
  <2>3. HeldOK'
    BY <1>3 DEF Lock, Rest, HeldOK, TypeOK
  <2>4. CountsEveryRequest'
    BY <1>3 DEF Lock, Rest, CountsEveryRequest, TypeOK
  <2>5. QuotaRespected'
    BY <1>3 DEF Lock, Rest, QuotaRespected, TypeOK
  <2> QED
    BY <2>1, <2>2, <2>3, <2>4, <2>5 DEF Rest
<1>4. ASSUME NEW r \in Requests, Select(r) PROVE Rest'
  <2>a. key[r] \in Keys
    BY <1>4 DEF Select, TypeOK
  <2>1. BudgetOK'
    <3>1. Budget(r)'
      BY <1>4 DEF Select, Rest, BudgetOK, Budget, Picking, Eligible, TypeOK
    <3>2. \A s \in Requests \ {r} : pc'[s] = pc[s] /\ list'[s] = list[s] /\ used'[s] = used[s] /\ left'[s] = left[s]
      BY <1>4 DEF Select, TypeOK
    <3> QED
      BY <3>1, <3>2, BudgetLocal DEF Rest
  <2>2. LimitOK'
    BY <1>4 DEF Select, Rest, LimitOK, Picking, TypeOK
  <2>3. HeldOK'
    BY <1>4, <2>a DEF Select, Rest, HeldOK, CountsEveryRequest, TypeOK
  <2>4. CountsEveryRequest'
    BY <1>4 DEF Select, Rest, CountsEveryRequest, TypeOK
  <2>5. QuotaRespected'
    BY <1>4 DEF Select, Rest, QuotaRespected, TypeOK
  <2> QED
    BY <2>1, <2>2, <2>3, <2>4, <2>5 DEF Rest
<1>5. ASSUME NEW r \in Requests, Keep(r) PROVE Rest'
  <2>a. PICK k \in Keys : k = key[r]
    BY <1>5 DEF Keep, TypeOK
  <2>b. Picking(r) /\ sel[r] \in Route /\ sel[r].proxy \in Eligible(r) /\ sel[r].count = served[k]
        /\ (lim[r] = 0 \/ sel[r].count < lim[r]) /\ lim[r] \in allowed[k]
    BY <1>5, <2>a DEF Keep, Sticky, WithinLimit, Picking, Rest, HeldOK, LimitOK, TypeOK
  <2>c. routes[k] # NoRoute => routes[k].proxy = sel[r].proxy
    BY <1>5, <2>a DEF Keep, Rest, HeldOK
  <2>d. /\ served' = [served EXCEPT ![k] = @ + 1] /\ UNCHANGED <<allowed, limit, key, list, left>>
        /\ pc' = [pc EXCEPT ![r] = "attempt"] /\ used' = [used EXCEPT ![r] = @ \cup {sel[r].proxy}]
        /\ lim' = [lim EXCEPT ![r] = 0] /\ sel' = [sel EXCEPT ![r] = NoRoute]
    BY <1>5, <2>a DEF Keep, Picked, EndPick
  <2>e. IF routes[k] = NoRoute THEN routes' = routes
        ELSE routes' = [routes EXCEPT ![k].count = Incremented(@), ![k].old = FALSE]
    BY <1>5, <2>a, <2>c DEF Keep
  <2>f. \A j \in Keys : /\ routes'[j] # NoRoute <=> routes[j] # NoRoute
                        /\ routes[j] # NoRoute => /\ routes'[j].proxy = routes[j].proxy
                                                  /\ routes'[j].count = IF j = k THEN routes[j].count + 1
                                                                        ELSE routes[j].count
    <3>1. CASE routes[k] = NoRoute
      BY <2>e, <3>1
    <3>2. CASE routes[k] # NoRoute
      <4>1. /\ routes'[k] # NoRoute /\ routes'[k].proxy = routes[k].proxy /\ routes'[k].count = routes[k].count + 1
            /\ \A j \in Keys \ {k} : routes'[j] = routes[j]
        BY <2>e, <3>2, RouteStamped DEF TypeOK
      <4> QED
        BY <3>2, <4>1
    <3> QED
      BY <3>1, <3>2
  <2>g. \A s \in Requests : Picking(s) /\ s # r => key[s] # k
    BY <2>a, <2>b, Exclusion
  <2>1. BudgetOK'
    BY <2>b, <2>d, UseOne DEF Rest
  <2>2. LimitOK'
    BY <2>d DEF Rest, LimitOK, Picking, TypeOK
  <2>3. HeldOK'
    BY <2>d, <2>f, <2>g DEF Rest, HeldOK, Picking, TypeOK
  <2>4. CountsEveryRequest'
    BY <2>d, <2>f DEF Rest, CountsEveryRequest, TypeOK
  <2>5. QuotaRespected'
    <3>1. lim[r] = 0 \/ served[k] + 1 <= lim[r]
      BY <2>b, Numbers
    <3> QED
      BY <2>b, <2>d, <3>1, Numbers DEF Rest, QuotaRespected, TypeOK
  <2> QED
    BY <2>1, <2>2, <2>3, <2>4, <2>5 DEF Rest
<1>6. ASSUME NEW r \in Requests, Assign(r) PROVE Rest'
  <2>a. PICK k \in Keys : k = key[r]
    BY <1>6 DEF Assign, TypeOK
  <2>b. PICK x \in Eligible(r) :
          /\ routes' = [routes EXCEPT ![k] = [proxy |-> x, count |-> 1, old |-> FALSE]]
          /\ used' = [used EXCEPT ![r] = @ \cup {x}]
    BY <1>6, <2>a DEF Assign, Picked
  <2>c. /\ served' = [served EXCEPT ![k] = 1] /\ allowed' = [allowed EXCEPT ![k] = {limit}]
        /\ UNCHANGED <<limit, key, list, left>> /\ pc' = [pc EXCEPT ![r] = "attempt"]
        /\ lim' = [lim EXCEPT ![r] = 0] /\ sel' = [sel EXCEPT ![r] = NoRoute] /\ Picking(r)
    BY <1>6, <2>a DEF Assign, Picked, EndPick, Picking
  <2>d. \A s \in Requests : Picking(s) /\ s # r => key[s] # k
    BY <2>a, <2>c, Exclusion
  <2>1. BudgetOK'
    BY <2>b, <2>c, UseOne DEF Rest
  <2>2. LimitOK'
    BY <2>c, <2>d DEF Rest, LimitOK, Picking, TypeOK
  <2>3. HeldOK'
    BY <2>b, <2>c, <2>d DEF Rest, HeldOK, Picking, TypeOK
  <2>4. CountsEveryRequest'
    BY <2>b, <2>c DEF Rest, CountsEveryRequest, TypeOK
  <2>5. QuotaRespected'
    BY <2>c DEF Rest, QuotaRespected, TypeOK
  <2> QED
    BY <2>1, <2>2, <2>3, <2>4, <2>5 DEF Rest
<1>7. ASSUME NEW r \in Requests, SqlError(r) PROVE Rest'
  <2>1. BudgetOK'
    <3>1. Budget(r)'
      BY <1>7 DEF SqlError, EndPick, EndRequest, Rest, BudgetOK, Budget, Picking, Eligible, TypeOK
    <3>2. \A s \in Requests \ {r} : pc'[s] = pc[s] /\ list'[s] = list[s] /\ used'[s] = used[s] /\ left'[s] = left[s]
      BY <1>7 DEF SqlError, EndPick, EndRequest, TypeOK
    <3> QED
      BY <3>1, <3>2, BudgetLocal DEF Rest
  <2>2. LimitOK'
    BY <1>7 DEF SqlError, EndPick, EndRequest, Rest, LimitOK, Picking, TypeOK
  <2>3. HeldOK'
    BY <1>7 DEF SqlError, EndPick, EndRequest, Rest, HeldOK, TypeOK
  <2>4. CountsEveryRequest'
    BY <1>7 DEF SqlError, EndPick, EndRequest, Rest, CountsEveryRequest, TypeOK
  <2>5. QuotaRespected'
    BY <1>7 DEF SqlError, EndPick, EndRequest, Rest, QuotaRespected, TypeOK
  <2> QED
    BY <2>1, <2>2, <2>3, <2>4, <2>5 DEF Rest
<1>8. ASSUME NEW r \in Requests, Deliver(r) PROVE Rest'
  <2>1. BudgetOK'
    <3>1. Budget(r)'
      BY <1>8 DEF Deliver, EndRequest, Rest, BudgetOK, Budget, Picking, Eligible, TypeOK
    <3>2. \A s \in Requests \ {r} : pc'[s] = pc[s] /\ list'[s] = list[s] /\ used'[s] = used[s] /\ left'[s] = left[s]
      BY <1>8 DEF Deliver, EndRequest, TypeOK
    <3> QED
      BY <3>1, <3>2, BudgetLocal DEF Rest
  <2>2. LimitOK'
    BY <1>8 DEF Deliver, EndRequest, Rest, LimitOK, Picking, TypeOK
  <2>3. HeldOK'
    BY <1>8 DEF Deliver, EndRequest, Rest, HeldOK, TypeOK
  <2>4. CountsEveryRequest'
    BY <1>8 DEF Deliver, EndRequest, Rest, CountsEveryRequest, TypeOK
  <2>5. QuotaRespected'
    BY <1>8 DEF Deliver, EndRequest, Rest, QuotaRespected, TypeOK
  <2> QED
    BY <2>1, <2>2, <2>3, <2>4, <2>5 DEF Rest
<1>9. ASSUME NEW r \in Requests, Retry(r) PROVE Rest'
  <2>1. BudgetOK'
    <3>1. Budget(r)'
      BY <1>9 DEF Retry, EndAttempt, Rest, BudgetOK, Budget, Picking, Eligible, TypeOK
    <3>2. \A s \in Requests \ {r} : pc'[s] = pc[s] /\ list'[s] = list[s] /\ used'[s] = used[s] /\ left'[s] = left[s]
      BY <1>9 DEF Retry, EndAttempt, TypeOK
    <3> QED
      BY <3>1, <3>2, BudgetLocal DEF Rest
  <2>2. LimitOK'
    BY <1>9 DEF Retry, EndAttempt, Rest, LimitOK, Picking, TypeOK
  <2>3. HeldOK'
    BY <1>9 DEF Retry, EndAttempt, Rest, HeldOK, TypeOK
  <2>4. CountsEveryRequest'
    BY <1>9 DEF Retry, EndAttempt, Rest, CountsEveryRequest, TypeOK
  <2>5. QuotaRespected'
    BY <1>9 DEF Retry, EndAttempt, Rest, QuotaRespected, TypeOK
  <2> QED
    BY <2>1, <2>2, <2>3, <2>4, <2>5 DEF Rest
<1>10. ASSUME NEW r \in Requests, Drop(r) PROVE Rest'
  <2>1. BudgetOK'
    <3>1. Budget(r)'
      BY <1>10 DEF Drop, Rest, BudgetOK, Budget, Picking, Eligible, TypeOK
    <3>2. \A s \in Requests \ {r} : pc'[s] = pc[s] /\ list'[s] = list[s] /\ used'[s] = used[s] /\ left'[s] = left[s]
      BY <1>10 DEF Drop, TypeOK
    <3> QED
      BY <3>1, <3>2, BudgetLocal DEF Rest
  <2>2. LimitOK'
    BY <1>10 DEF Drop, Rest, LimitOK, Picking, TypeOK
  <2>3. HeldOK'
    BY <1>10 DEF Drop, Rest, HeldOK, TypeOK
  <2>4. CountsEveryRequest'
    BY <1>10 DEF Drop, Rest, CountsEveryRequest, TypeOK
  <2>5. QuotaRespected'
    BY <1>10 DEF Drop, Rest, QuotaRespected, TypeOK
  <2> QED
    BY <2>1, <2>2, <2>3, <2>4, <2>5 DEF Rest
<1>11. ASSUME NEW r \in Requests, Clear(r) PROVE Rest'
  <2>a. PICK k \in Keys : k = key[r]
    BY <1>11 DEF Clear, TypeOK
  <2>b. /\ \A s \in Requests : Picking(s) => key[s] # k
        /\ \A j \in Keys : routes'[j] = routes[j] \/ (j = k /\ routes'[j] = NoRoute)
    BY <1>11, <2>a, Exclusion DEF Clear, TypeOK
  <2>1. BudgetOK'
    <3>1. Budget(r)'
      BY <1>11 DEF Clear, EndRequest, EndAttempt, Rest, BudgetOK, Budget, Picking, Eligible, TypeOK
    <3>2. \A s \in Requests \ {r} : pc'[s] = pc[s] /\ list'[s] = list[s] /\ used'[s] = used[s] /\ left'[s] = left[s]
      BY <1>11 DEF Clear, EndRequest, EndAttempt, TypeOK
    <3> QED
      BY <3>1, <3>2, BudgetLocal DEF Rest
  <2>2. LimitOK'
    BY <1>11 DEF Clear, EndRequest, EndAttempt, Rest, LimitOK, Picking, TypeOK
  <2>3. HeldOK'
    BY <1>11, <2>b DEF Clear, EndRequest, EndAttempt, Rest, HeldOK, Picking, TypeOK
  <2>4. CountsEveryRequest'
    BY <1>11, <2>b DEF Clear, Rest, CountsEveryRequest, TypeOK
  <2>5. QuotaRespected'
    BY <1>11 DEF Clear, EndRequest, EndAttempt, Rest, QuotaRespected, TypeOK
  <2> QED
    BY <2>1, <2>2, <2>3, <2>4, <2>5 DEF Rest
<1>12. CASE Janitor
  <2>1. BudgetOK'
    BY <1>12 DEF Janitor, Rest, BudgetOK, Budget, Picking, Eligible, TypeOK
  <2>2. LimitOK'
    BY <1>12 DEF Janitor, Rest, LimitOK, Picking, TypeOK
  <2>3. HeldOK'
    BY <1>12 DEF Janitor, Rest, HeldOK, TypeOK
  <2>4. CountsEveryRequest'
    BY <1>12 DEF Janitor, Rest, CountsEveryRequest, TypeOK
  <2>5. QuotaRespected'
    BY <1>12 DEF Janitor, Rest, QuotaRespected, TypeOK
  <2> QED
    BY <2>1, <2>2, <2>3, <2>4, <2>5 DEF Rest
<1>13. CASE PutRouting
  <2>1. BudgetOK'
    BY <1>13 DEF PutRouting, Rest, BudgetOK, Budget, Picking, Eligible, TypeOK
  <2>2. LimitOK'
    BY <1>13 DEF PutRouting, Rest, LimitOK, Picking, TypeOK
  <2>3. HeldOK'
    BY <1>13 DEF PutRouting, Rest, HeldOK, TypeOK
  <2>4. CountsEveryRequest'
    BY <1>13 DEF PutRouting, Rest, CountsEveryRequest, TypeOK
  <2>5. QuotaRespected'
    BY <1>13 DEF PutRouting, Rest, QuotaRespected, TypeOK
  <2> QED
    BY <2>1, <2>2, <2>3, <2>4, <2>5 DEF Rest
<1>14. CASE DeleteProxy
  <2>1. BudgetOK'
    BY <1>14 DEF DeleteProxy, Rest, BudgetOK, Budget, Picking, Eligible, TypeOK
  <2>2. LimitOK'
    BY <1>14 DEF DeleteProxy, Rest, LimitOK, Picking, TypeOK
  <2>3. HeldOK'
    BY <1>14 DEF DeleteProxy, Rest, HeldOK, TypeOK
  <2>4. CountsEveryRequest'
    BY <1>14 DEF DeleteProxy, Rest, CountsEveryRequest, TypeOK
  <2>5. QuotaRespected'
    BY <1>14 DEF DeleteProxy, Rest, QuotaRespected, TypeOK
  <2> QED
    BY <2>1, <2>2, <2>3, <2>4, <2>5 DEF Rest
<1>15. CASE Age
  <2>a. PICK k \in Keys : routes[k] # NoRoute /\ routes' = [routes EXCEPT ![k].old = TRUE]
    BY <1>15 DEF Age
  <2>b. \A j \in Keys : /\ routes'[j] # NoRoute <=> routes[j] # NoRoute
                        /\ routes[j] # NoRoute => routes'[j].proxy = routes[j].proxy /\ routes'[j].count = routes[j].count
    <3>1. /\ routes'[k] # NoRoute /\ routes'[k].proxy = routes[k].proxy /\ routes'[k].count = routes[k].count
          /\ \A j \in Keys \ {k} : routes'[j] = routes[j]
      BY <2>a, RouteAged DEF TypeOK
    <3> QED
      BY <2>a, <3>1
  <2>c. UNCHANGED <<table, limit, lock, pc, asked, cur, picking, history>>
    BY <1>15 DEF Age
  <2>1. BudgetOK'
    BY <2>c DEF Rest, BudgetOK, Budget, Picking, Eligible, TypeOK
  <2>2. LimitOK'
    BY <2>c DEF Rest, LimitOK, Picking, TypeOK
  <2>3. HeldOK'
    BY <2>b, <2>c DEF Rest, HeldOK, TypeOK
  <2>4. CountsEveryRequest'
    BY <2>b, <2>c DEF Rest, CountsEveryRequest, TypeOK
  <2>5. QuotaRespected'
    BY <2>c DEF Rest, QuotaRespected, TypeOK
  <2> QED
    BY <2>1, <2>2, <2>3, <2>4, <2>5 DEF Rest
<1>16. CASE UNCHANGED vars
  BY <1>16 DEF vars, Rest, BudgetOK, Budget, LimitOK, HeldOK, CountsEveryRequest, QuotaRespected, Picking, Eligible
<1> QED
  BY <1>1, <1>2, <1>3, <1>4, <1>5, <1>6, <1>7, <1>8, <1>9, <1>10, <1>11, <1>12, <1>13, <1>14, <1>15, <1>16 DEF Next, RequestStep

\* The invariant holds in every reachable state.
LEMMA Invariance == Spec => []IInv
<1>1. IInv /\ [Next]_vars => IInv'
  BY TypeStep, InvStep DEF IInv
<1> QED
  BY InvInit, <1>1, PTL DEF Spec

----------------------------------------------------------------------------
\* Every variable keeps its type, and a routing lock is held exactly while its
\* holder picks an exit: no error leaves one behind.
THEOREM RoutingTypes == Spec => []TypeOK
<1>1. IInv => TypeOK
  BY DEF IInv
<1> QED
  BY <1>1, Invariance, PTL

\* However many requests of a session pick at once, and whenever the janitor
\* deletes its route, it stays on an exit within some limit in force since it
\* moved there.
THEOREM RoutingQuota == Spec => []QuotaRespected
<1>1. IInv => QuotaRespected
  BY DEF IInv, Rest
<1> QED
  BY <1>1, Invariance, PTL

\* The count of a route is the number of requests that were sent there.
THEOREM RoutingCounts == Spec => []CountsEveryRequest
<1>1. IInv => CountsEveryRequest
  BY DEF IInv, Rest
<1> QED
  BY <1>1, Invariance, PTL

\* pickSessionProxy always has an exit to hand out.
THEOREM RoutingHasExit == Spec => []AlwaysAnExitLeft
<1>1. IInv => AlwaysAnExitLeft
  <2> SUFFICES ASSUME IInv, NEW r \in Requests, pc[r] = "route", Eligible(r) = {} PROVE FALSE
    BY DEF AlwaysAnExitLeft
  <2>1. left[r] >= 1 /\ Cardinality(Eligible(r)) >= left[r] /\ left[r] \in Nat
    BY Numbers DEF IInv, Rest, BudgetOK, Budget, Picking
  <2>2. Cardinality(Eligible(r)) = 0
    BY FS_EmptySet
  <2> QED
    BY <2>1, <2>2
<1> QED
  BY <1>1, Invariance, PTL

\* A route is replaced only by a request that may not use it, and disappears
\* only when it is stale or its own exit is dropped.
THEOREM RoutingMovesForCause == Spec => RoutesChangeForCause
<1> DEFINE ForCause ==
      \A k \in Keys : routes[k] # NoRoute =>
        IF routes'[k] = NoRoute THEN Stale(k) \/ MayDrop(k)
        ELSE routes'[k].proxy # routes[k].proxy \/ routes'[k].count < routes[k].count => MayMove(k)
<1>1. IInv /\ [Next]_vars => [ForCause]_vars
  <2> SUFFICES ASSUME IInv, Next, NEW k \in Keys, routes[k] # NoRoute, routes'[k] # routes[k]
               PROVE  IF routes'[k] = NoRoute THEN Stale(k) \/ MayDrop(k)
                      ELSE routes'[k].proxy # routes[k].proxy \/ routes'[k].count < routes[k].count => MayMove(k)
    <3>1. IInv => \A k \in Keys : routes[k] # NoRoute => ~(routes[k].count < routes[k].count)
      BY DEF IInv, TypeOK, Route
    <3> QED
      BY <3>1 DEF vars
  <2>1. ASSUME NEW r \in Requests, Keep(r)
        PROVE  routes'[k] # NoRoute /\ routes'[k].proxy = routes[k].proxy /\ ~(routes'[k].count < routes[k].count)
    <3>1. key[r] \in Keys /\ k = key[r] /\ routes' = [routes EXCEPT ![k].count = Incremented(@), ![k].old = FALSE]
      <4>1. PICK j \in Keys : j = key[r]
        BY <2>1 DEF Keep, IInv, TypeOK
      <4>2. /\ routes[j] # NoRoute => routes[j].proxy = sel[r].proxy
            /\ routes' = IF routes[j] = NoRoute THEN routes
                         ELSE IF routes[j].proxy # sel[r].proxy THEN routes
                         ELSE [routes EXCEPT ![j].count = Incremented(@), ![j].old = FALSE]
        BY <2>1, <4>1 DEF Keep, IInv, Rest, HeldOK
      <4>3. routes' = [routes EXCEPT ![j].count = Incremented(@), ![j].old = FALSE] /\ routes[j] # NoRoute
        BY <4>2
      <4>a. routes \in [Keys -> Route \cup {NoRoute}]
        BY DEF IInv, TypeOK
      <4>b. \A i \in Keys \ {j} : routes'[i] = routes[i]
        BY <4>3, <4>a, RouteStamped
      <4>4. j = k
        BY <4>b
      <4> QED
        BY <4>1, <4>3, <4>4
    <3>2. routes'[k] # NoRoute /\ routes'[k].proxy = routes[k].proxy /\ routes'[k].count = routes[k].count + 1
      BY <3>1, RouteStamped DEF IInv, TypeOK
    <3>3. routes[k].count \in Nat
      BY DEF IInv, TypeOK, Route
    <3> QED
      BY <3>2, <3>3
  <2>2. ASSUME NEW r \in Requests, Assign(r) PROVE routes'[k] # NoRoute /\ MayMove(k)
    <3>1. PICK x \in Eligible(r) : routes' = [routes EXCEPT ![key[r]] = [proxy |-> x, count |-> 1, old |-> FALSE]]
      BY <2>2 DEF Assign
    <3>2. pc[r] = "route" /\ ~Sticky(r) /\ key[r] = k /\ x \in Proxies
      BY <2>2, <3>1 DEF Assign, IInv, TypeOK, Eligible
    <3>3. routes'[k] = [proxy |-> x, count |-> 1, old |-> FALSE]
      BY <3>1, <3>2 DEF IInv, TypeOK
    <3>4. routes'[k] # NoRoute
      <4>1. routes'[k] \in Route
        BY <3>2, <3>3 DEF Route
      <4> QED
        BY <4>1, RoutingAssumption DEF Route
    <3>5. /\ sel[r] # NoRoute /\ routes[k].proxy = sel[r].proxy /\ sel[r].count = served[k]
          /\ lim[r] \in allowed[k]
      BY <3>2 DEF IInv, Rest, HeldOK, LimitOK, Picking
    <3>6. lim[r] \in Nat /\ served[k] \in Nat
      BY Numbers DEF IInv
    <3>7. sel[r].proxy \notin Eligible(r) \/ (lim[r] # 0 /\ lim[r] <= served[k])
      BY <3>2, <3>5, <3>6 DEF Sticky, WithinLimit
    <3> QED
      BY <3>2, <3>4, <3>5, <3>7 DEF MayMove
  <2>3. ASSUME NEW r \in Requests, Clear(r) PROVE routes'[k] = NoRoute /\ MayDrop(k)
    BY <2>3 DEF Clear, IsRouteTo, MayDrop, IInv, TypeOK
  <2>4. ASSUME Janitor PROVE routes'[k] = NoRoute /\ Stale(k)
    BY <2>4 DEF Janitor
  <2>5. ASSUME Age
        PROVE  routes'[k] # NoRoute /\ routes'[k].proxy = routes[k].proxy /\ ~(routes'[k].count < routes[k].count)
    <3>1. routes' = [routes EXCEPT ![k].old = TRUE] /\ routes[k] \in Route
      <4>1. PICK j \in Keys : routes[j] # NoRoute /\ routes' = [routes EXCEPT ![j].old = TRUE]
        BY <2>5 DEF Age
      <4>2. j = k
        BY <4>1, RouteAged DEF IInv, TypeOK
      <4> QED
        BY <4>1, <4>2 DEF IInv, TypeOK
    <3>2. routes'[k] # NoRoute /\ routes'[k].proxy = routes[k].proxy /\ routes'[k].count = routes[k].count
      BY <3>1, RouteAged DEF IInv, TypeOK
    <3>3. routes[k].count \in Nat
      BY <3>1 DEF Route
    <3> QED
      BY <3>2, <3>3
  <2>6. ASSUME NEW r \in Requests,
               \/ Start(r) \/ Cancel(r) \/ Lock(r) \/ Select(r) \/ SqlError(r)
               \/ Deliver(r) \/ Retry(r) \/ Drop(r)
        PROVE  FALSE
    BY <2>6 DEF Start, Cancel, Lock, Select, SqlError, Deliver, Retry, Drop
  <2>7. ~PutRouting /\ ~DeleteProxy
    BY DEF PutRouting, DeleteProxy
  <2> QED
    BY <2>1, <2>2, <2>3, <2>4, <2>5, <2>6, <2>7 DEF Next, RequestStep
<1> QED
  BY <1>1, Invariance, PTL DEF Spec, RoutesChangeForCause
=============================================================================
