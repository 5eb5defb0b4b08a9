--------------------------- MODULE SessionRouting ---------------------------
(***************************************************************************)
(* Session affinity of the builtin proxy engine: table session_proxy_routes *)
(* maps a session to the exit it is routed through and to the number of     *)
(* requests that went there. A chat request makes several attempts; each    *)
(* picks an exit under the session's routing lock (pickSessionProxy), and a *)
(* failing exit may be dropped again under that lock (clearSessionProxy).   *)
(* The janitor deletes routes without the lock, and the console changes the *)
(* request limit and deletes proxies at any time.                           *)
(*                                                                          *)
(* A step is one statement or one lock operation. Round robin is a choice:  *)
(* its counter is shared with every other session and with requests that    *)
(* have none. What an upstream answers is a choice as well.                 *)
(***************************************************************************)
EXTENDS Integers, FiniteSets

CONSTANTS
  Keys,         \* session keys
  Locks,        \* App.routingLocks (64 in the code)
  LockOf,       \* sessionRouteLockIndex, a hash of the key
  Proxies,      \* ids that are or were in table proxies
  Requests,     \* chat requests with a session
  Limits,       \* values of session_proxy_request_limit; 0 is no limit
  MaxAttempts,  \* attempts of one request, 3 in the code
  MaxCount,     \* bound: no request starts on a route that has served as many
  NoRoute, Free

ASSUME RoutingAssumption ==
  /\ LockOf \in [Keys -> Locks]
  /\ Limits \subseteq Nat
  /\ MaxAttempts \in Nat \ {0} /\ MaxCount \in Nat
  /\ Free \notin Requests
  /\ NoRoute \notin [proxy : Proxies, count : Nat, old : BOOLEAN] \cup Keys
  /\ IsFiniteSet(Proxies)

Route == [proxy : Proxies, count : Nat, old : BOOLEAN]

VARIABLES
  table,    \* table proxies
  routes,   \* table session_proxy_routes; old when updated_at is 24 h back
  limit,    \* session_proxy_request_limit
  lock,     \* holders of the routing locks
  pc,       \* where each request is
  key,      \* the session of each request
  list,     \* the exits available() offered it
  used,     \* the exits it has tried
  left,     \* attempts it may still make, the present one included
  cur,      \* the exit of the present attempt
  lim, sel, \* the limit and the route it has read under the lock
  served,   \* history: requests each session sent where it last moved to
  allowed   \* history: the limits in force since then

asked == <<key, list, used, left>>
picking == <<lim, sel>>
history == <<served, allowed>>
vars == <<table, routes, limit, lock, pc, key, list, used, left, cur, lim, sel,
          served, allowed>>

Init ==
  /\ table = Proxies
  /\ routes = [k \in Keys |-> NoRoute]
  /\ limit \in Limits
  /\ lock = [l \in Locks |-> Free]
  /\ pc = [r \in Requests |-> "idle"]
  /\ key = [r \in Requests |-> NoRoute]
  /\ list = [r \in Requests |-> {}]
  /\ used = [r \in Requests |-> {}]
  /\ left = [r \in Requests |-> 0]
  /\ cur = [r \in Requests |-> NoRoute]
  /\ lim = [r \in Requests |-> 0]
  /\ sel = [r \in Requests |-> NoRoute]
  /\ served = [k \in Keys |-> 0]
  /\ allowed = [k \in Keys |-> {limit}]

\* Locals are reset where their scope ends.
EndPick(r) ==
  /\ lim' = [lim EXCEPT ![r] = 0]
  /\ sel' = [sel EXCEPT ![r] = NoRoute]

EndAttempt(r) ==
  /\ pc' = [pc EXCEPT ![r] = "pick"]
  /\ left' = [left EXCEPT ![r] = @ - 1]
  /\ cur' = [cur EXCEPT ![r] = NoRoute]
  /\ UNCHANGED <<key, list, used>>

EndRequest(r) ==
  /\ pc' = [pc EXCEPT ![r] = "idle"]
  /\ key' = [key EXCEPT ![r] = NoRoute]
  /\ list' = [list EXCEPT ![r] = {}]
  /\ used' = [used EXCEPT ![r] = {}]
  /\ left' = [left EXCEPT ![r] = 0]
  /\ cur' = [cur EXCEPT ![r] = NoRoute]

Goto(r, label) == pc' = [pc EXCEPT ![r] = label]
MyLock(r) == LockOf[key[r]]
Eligible(r) == list[r] \ used[r]

\* The mutated form does not wait for the lock.
NoLock(r) == TRUE
LockFree(r) == lock[MyLock(r)] = Free

----------------------------------------------------------------------------
(* The attempts of a request. *)

\* min(3, len(proxies)); the mutated form is 3 whatever the list holds.
AlwaysMax(S) == MaxAttempts
Attempts(S) == IF Cardinality(S) < MaxAttempts THEN Cardinality(S) ELSE MaxAttempts

\* The snapshot a request is given may still hold proxies deleted since.
Start(r) ==
  /\ pc[r] = "idle"
  /\ \E k \in Keys, S \in (SUBSET Proxies) \ {{}} :
       /\ IF routes[k] = NoRoute THEN TRUE ELSE routes[k].count < MaxCount
       /\ key' = [key EXCEPT ![r] = k]
       /\ list' = [list EXCEPT ![r] = S]
       /\ left' = [left EXCEPT ![r] = Attempts(S)]
  /\ Goto(r, "pick")
  /\ UNCHANGED <<table, routes, limit, lock, used, cur, picking, history>>

\* The client is gone when an attempt would begin.
Cancel(r) ==
  /\ pc[r] = "pick"
  /\ EndRequest(r)
  /\ UNCHANGED <<table, routes, limit, lock, picking, history>>

Lock(r) ==
  /\ pc[r] = "pick" /\ LockFree(r)
  /\ lock' = [lock EXCEPT ![MyLock(r)] = r]
  /\ lim' = [lim EXCEPT ![r] = limit]
  /\ Goto(r, "select")
  /\ UNCHANGED <<table, routes, limit, asked, cur, sel, history>>

Select(r) ==
  /\ pc[r] = "select"
  /\ sel' = [sel EXCEPT ![r] = routes[key[r]]]
  /\ Goto(r, "route")
  /\ UNCHANGED <<table, routes, limit, lock, asked, cur, lim, history>>

\* The exit of the attempt is p: remember it and release the lock.
Picked(r, p) ==
  /\ cur' = [cur EXCEPT ![r] = p]
  /\ used' = [used EXCEPT ![r] = @ \cup {p}]
  /\ lock' = [lock EXCEPT ![MyLock(r)] = Free]
  /\ Goto(r, "attempt")
  /\ EndPick(r)
  /\ UNCHANGED <<table, limit, key, list, left>>

\* limit == 0 || count < limit
WithinLimit(r) == lim[r] = 0 \/ sel[r].count < lim[r]

Sticky(r) == IF sel[r] = NoRoute THEN FALSE
             ELSE sel[r].proxy \in Eligible(r) /\ WithinLimit(r)

\* request_count=request_count+1; the mutated form only touches updated_at.
Same(n) == n
Incremented(n) == n + 1

\* The UPDATE of the route that was read; the janitor may have deleted it,
\* which is no error.
Keep(r) ==
  /\ pc[r] = "route" /\ Sticky(r)
  /\ LET k == key[r]
         row == routes[k]
     IN  /\ routes' = IF row = NoRoute THEN routes
                      ELSE IF row.proxy # sel[r].proxy THEN routes
                      ELSE [routes EXCEPT ![k].count = Incremented(@), ![k].old = FALSE]
         /\ served' = [served EXCEPT ![k] = @ + 1]
  /\ Picked(r, sel[r].proxy)
  /\ UNCHANGED allowed

\* Round robin over the exits not tried yet, and the upsert.
Assign(r) ==
  /\ pc[r] = "route" /\ ~Sticky(r)
  /\ \E p \in Eligible(r) :
       /\ routes' = [routes EXCEPT ![key[r]] = [proxy |-> p, count |-> 1, old |-> FALSE]]
       /\ Picked(r, p)
  /\ served' = [served EXCEPT ![key[r]] = 1]
  /\ allowed' = [allowed EXCEPT ![key[r]] = {limit}]

\* The SELECT or the write fails: the loop breaks and the deferred Unlock runs.
\* The mutated form has none.
ForgetUnlock(r) == lock
MuAfterError(r) == [lock EXCEPT ![MyLock(r)] = Free]

SqlError(r) ==
  /\ pc[r] \in {"select", "route"}
  /\ lock' = MuAfterError(r)
  /\ EndPick(r) /\ EndRequest(r)
  /\ UNCHANGED <<table, routes, limit, history>>

\* The attempt is answered, or the client leaves: the route stays.
Deliver(r) ==
  /\ pc[r] = "attempt"
  /\ EndRequest(r)
  /\ UNCHANGED <<table, routes, limit, lock, picking, history>>

\* 408 and 5xx with attempts left: try again; the route is not dropped.
Retry(r) ==
  /\ pc[r] = "attempt" /\ left[r] > 1
  /\ EndAttempt(r)
  /\ UNCHANGED <<table, routes, limit, lock, picking, history>>

\* Transport error, 407, 401, 429, or a disqualified exit: the route is to go.
Drop(r) ==
  /\ pc[r] = "attempt"
  /\ Goto(r, "clear")
  /\ UNCHANGED <<table, routes, limit, lock, asked, cur, picking, history>>

\* clearSessionProxy deletes the row only while it names the exit that failed.
\* The mutated form forgets AND proxy_id=?.
AnyRoute(row, p) == TRUE
IsRouteTo(row, p) == row.proxy = p

\* DELETE and Unlock; then the next attempt, or the end of the request.
Clear(r) ==
  /\ pc[r] = "clear" /\ LockFree(r)
  /\ LET row == routes[key[r]]
     IN  routes' = IF row = NoRoute THEN routes
                   ELSE IF IsRouteTo(row, cur[r]) THEN [routes EXCEPT ![key[r]] = NoRoute]
                   ELSE routes
  /\ EndRequest(r) \/ (left[r] > 1 /\ EndAttempt(r))
  /\ UNCHANGED <<table, limit, lock, picking, history>>

----------------------------------------------------------------------------
(* The rest of the server, and time. *)

Stale(k) == IF routes[k] = NoRoute THEN FALSE
            ELSE routes[k].old \/ routes[k].proxy \notin table

\* deleteStaleSessionRoutes, without any routing lock.
Janitor ==
  /\ \E k \in Keys : Stale(k)
  /\ routes' = [k \in Keys |-> IF Stale(k) THEN NoRoute ELSE routes[k]]
  /\ UNCHANGED <<table, limit, lock, pc, asked, cur, picking, history>>

\* putRouting.
PutRouting ==
  /\ limit' \in Limits \ {limit}
  /\ allowed' = [k \in Keys |-> allowed[k] \cup {limit'}]
  /\ UNCHANGED <<table, routes, lock, pc, asked, cur, picking, served>>

DeleteProxy ==
  /\ \E p \in table : table' = table \ {p}
  /\ UNCHANGED <<routes, limit, lock, pc, asked, cur, picking, history>>

\* 24 hours pass without a request of session k.
Age ==
  /\ \E k \in Keys :
       /\ routes[k] # NoRoute
       /\ routes' = [routes EXCEPT ![k].old = TRUE]
  /\ UNCHANGED <<table, limit, lock, pc, asked, cur, picking, history>>

----------------------------------------------------------------------------
RequestStep(r) ==
  \/ Cancel(r) \/ Lock(r) \/ Select(r) \/ Keep(r) \/ Assign(r) \/ SqlError(r)
  \/ Deliver(r) \/ Retry(r) \/ Drop(r) \/ Clear(r)

Next ==
  \/ \E r \in Requests : Start(r) \/ RequestStep(r)
  \/ Janitor \/ PutRouting \/ DeleteProxy \/ Age

Spec == Init /\ [][Next]_vars

\* A request that is not waiting for something runs on: attempts end by
\* themselves or time out.
FairSpec == Spec /\ \A r \in Requests : WF_vars(RequestStep(r))

----------------------------------------------------------------------------
(* Properties. *)

\* Types; a routing lock is held exactly while its holder picks an exit.
TypeOK ==
  /\ table \subseteq Proxies
  /\ routes \in [Keys -> Route \cup {NoRoute}]
  /\ limit \in Limits
  /\ lock \in [Locks -> Requests \cup {Free}]
  /\ pc \in [Requests -> {"idle", "pick", "select", "route", "attempt", "clear"}]
  /\ key \in [Requests -> Keys \cup {NoRoute}]
  /\ list \in [Requests -> SUBSET Proxies] /\ used \in [Requests -> SUBSET Proxies]
  /\ cur \in [Requests -> Proxies \cup {NoRoute}]
  /\ left \in [Requests -> 0..MaxAttempts]
  /\ lim \in [Requests -> Limits \cup {0}]
  /\ sel \in [Requests -> Route \cup {NoRoute}]
  /\ served \in [Keys -> Nat]
  /\ allowed \in [Keys -> SUBSET Limits]
  /\ \A r \in Requests : key[r] = NoRoute <=> pc[r] = "idle"
  /\ \A r \in Requests, l \in Locks :
       lock[l] = r <=> pc[r] \in {"select", "route"} /\ MyLock(r) = l

\* A session sends no more requests through an exit, since it moved there, than
\* some limit in force since then allows, however many of its requests pick at
\* once and whatever the janitor deletes meanwhile.
QuotaRespected ==
  \A k \in Keys : \/ served[k] <= 1
                  \/ \E l \in allowed[k] : l = 0 \/ served[k] <= l

\* The count of a route is the number of requests that were sent there: no
\* concurrent pick, drop or deletion loses one or leaves one behind.
CountsEveryRequest ==
  \A k \in Keys : routes[k] # NoRoute => routes[k].count = served[k]

\* pickSessionProxy never comes back with nothing: the attempts are as many as
\* the exits at most, so an untried one is left at each of them (Assign is
\* never stuck, and "all proxies failed" always tells an error).
AlwaysAnExitLeft == \A r \in Requests : pc[r] = "route" => Eligible(r) # {}

\* A request that may not use the route of its session: it is not offered that
\* exit, has tried it, or the session has used up a limit.
MayMove(k) ==
  \E r \in Requests :
    /\ pc[r] = "route" /\ key[r] = k
    /\ \/ routes[k].proxy \notin Eligible(r)
       \/ \E l \in allowed[k] : l # 0 /\ l <= served[k]

\* A request of the session that drops the very exit the route names.
MayDrop(k) ==
  \E r \in Requests : pc[r] = "clear" /\ key[r] = k /\ cur[r] = routes[k].proxy

\* A route that is there is replaced, or starts to count again, only by a
\* request that may not use it, and disappears only when it is stale or is
\* dropped for what its own exit did: a late failure of another leaves it.
RoutesChangeForCause ==
  [][\A k \in Keys : routes[k] # NoRoute =>
       IF routes'[k] = NoRoute THEN Stale(k) \/ MayDrop(k)
       ELSE routes'[k].proxy # routes[k].proxy \/ routes'[k].count < routes[k].count => MayMove(k)]_vars

\* A routing lock is always released again, also after a database error, so
\* that the sessions that share it go on.
LocksReleased == \A l \in Locks : lock[l] # Free ~> lock[l] = Free
=============================================================================
