---------------------------- MODULE ResinRouting ----------------------------
(***************************************************************************)
(* Which Resin account a request goes out with. A session has a row in      *)
(* resin_session_routes: a generation, and how many requests it has served. *)
(* A generation is left when it has served session_proxy_request_limit      *)
(* requests, or when an attempt with it fails. A request without a session  *)
(* counts generations of its own. Under dynamic scoring the account of the  *)
(* generation may be replaced by one that has scored well.                  *)
(*                                                                          *)
(* There is one session: sessions share the scores only. An account is      *)
(* an owner, the session or a request, and a generation. Of the scores the  *)
(* model keeps which accounts have a positive one.                          *)
(***************************************************************************)
EXTENDS Integers, FiniteSets

CONSTANTS
  Requests,
  Session,
  Limits,      \* values the console sets session_proxy_request_limit to
  Default,     \* defaultLimit, 50 in the code
  MaxAttempts, \* resinMaxAttempts, 10 in the code
  MaxGen,      \* bound on the generations
  MaxPuts,     \* bound on the console's changes
  MaxFaults,   \* bound on failing statements
  NoRow, NoLimit, Nobody

ASSUME ResinAssumption ==
  /\ Session \notin Requests /\ Nobody \notin Requests
  /\ Limits \subseteq Nat /\ Limits # {} /\ Default \in Nat \ {0}
  /\ NoRow \notin [gen : Nat, count : Nat, old : BOOLEAN] /\ NoLimit \notin Nat
  /\ MaxAttempts \in Nat \ {0} /\ MaxGen \in Nat /\ MaxPuts \in Nat /\ MaxFaults \in Nat

Gens == 0..MaxGen
Account == (Requests \cup {Session}) \X Gens
Limit == Limits \cup {Default}

VARIABLES
  row,     \* the session's row of resin_session_routes
  lock,    \* its routing lock
  setting, \* session_proxy_request_limit
  cached,  \* runtimeCaches.routingLimit, or NoLimit
  put,     \* the console has written the limit and not yet dropped the cached one
  good,    \* the accounts whose score is positive
  q,       \* the requests
  puts, faults,
  served,  \* history: requests served by each generation of the row
  valid    \* history: the limits in force, and those that may be

bounds == <<puts, faults>>
limits == <<setting, cached, put>>
vars == <<row, lock, limits, good, q, bounds, served, valid>>

\* Locals of a request: its session or itself, whether it scores, its own
\* generation, the attempt it is at, the row and the limit it has read, the
\* account of its generation and the one it uses, and those it has used (the
\* code keeps these only if it scores). History: the limits in force since it
\* read the row, how many requests its generation has served with it, whether
\* an attempt went by without a new generation, and whether its session's row
\* was deleted under it or before it used an account of that row.
NewRequest(r) ==
  [pc |-> "idle", owner |-> r, scoring |-> FALSE, gen |-> 0, attempt |-> 0,
   row |-> NoRow, limit |-> NoLimit, fresh |-> <<r, 0>>, account |-> <<r, 0>>,
   used |-> {}, valid |-> {}, turn |-> 0, kept |-> FALSE, lost |-> FALSE]

\* The setting has not been set.
Init ==
  /\ row = NoRow /\ lock = Nobody
  /\ setting = Default /\ cached = NoLimit /\ put = FALSE
  /\ good = {}
  /\ q = [r \in Requests |-> NewRequest(r)]
  /\ puts = 0 /\ faults = 0
  /\ served = [g \in Gens |-> 0]
  /\ valid = {Default}

At(r, place) == q[r].pc = place
Sticky(r) == q[r].owner = Session
Becomes(r, new) == q' = [q EXCEPT ![r] = new]
Ends(r) == q' = [q EXCEPT ![r] = [NewRequest(r) EXCEPT !.pc = "done"]]
Faulty == faults < MaxFaults /\ faults' = faults + 1
Free == lock = Nobody

\* A limit comes into force while requests hold one they have read.
Holds(r) == q[r].pc \in {"limit", "write"}
InForce(l) == /\ valid' = valid \cup {l}
              /\ q' = [r \in Requests |-> IF Holds(r) THEN [q[r] EXCEPT !.valid = @ \cup {l}] ELSE q[r]]

----------------------------------------------------------------------------
(* resinRequestRoute.proxy and nextResinAccount. *)

Begin(r) ==
  /\ At(r, "idle")
  /\ \E owner \in {Session, r}, scoring \in BOOLEAN :
       Becomes(r, [q[r] EXCEPT !.pc = "route", !.owner = owner, !.scoring = scoring])
  /\ UNCHANGED <<row, lock, limits, good, bounds, served, valid>>

OwnAccount(r) ==
  /\ At(r, "route") /\ ~Sticky(r)
  /\ Becomes(r, [q[r] EXCEPT !.pc = "pick", !.fresh = <<r, q[r].gen>>])
  /\ UNCHANGED <<row, lock, limits, good, bounds, served, valid>>

\* The lock is taken. The mutated form goes without.
Unlocked(r) == lock' = Nobody
Takes(r) == lock' = r

SelectRow(r) ==
  /\ At(r, "route") /\ Sticky(r) /\ Free
  /\ \/ /\ Takes(r)
        /\ Becomes(r, [q[r] EXCEPT !.pc = "limit", !.row = row, !.valid = valid])
        /\ UNCHANGED faults
     \/ Faulty /\ Ends(r) /\ UNCHANGED lock
  /\ UNCHANGED <<row, limits, good, puts, served, valid>>

\* cachedRoutingLimit: the lock of the cache is held over the SELECT. If that
\* fails the default is what is cached.
CachedLimit(r) ==
  /\ At(r, "limit") /\ cached # NoLimit
  /\ Becomes(r, [q[r] EXCEPT !.pc = "write", !.limit = cached])
  /\ UNCHANGED <<row, lock, limits, good, bounds, served, valid>>

LoadLimit(r) ==
  /\ At(r, "limit") /\ cached = NoLimit
  /\ cached' = setting
  /\ Becomes(r, [q[r] EXCEPT !.pc = "write", !.limit = setting])
  /\ UNCHANGED <<row, lock, setting, put, good, bounds, served, valid>>

LoadFails(r) ==
  /\ At(r, "limit") /\ cached = NoLimit /\ Faulty
  /\ cached' = Default
  /\ valid' = valid \cup {Default}
  /\ q' = [s \in Requests |->
       IF s = r THEN [q[r] EXCEPT !.pc = "write", !.limit = Default, !.valid = @ \cup {Default}]
       ELSE IF Holds(s) THEN [q[s] EXCEPT !.valid = @ \cup {Default}] ELSE q[s]]
  /\ UNCHANGED <<row, lock, setting, put, good, puts, served>>

Spent(count, limit) == limit > 0 /\ count >= limit

\* What the row is to be: inserted, at its next generation, or counted up.
NextRow(r) ==
  LET old == q[r].row
  IN  IF old = NoRow THEN [gen |-> 0, count |-> 1, old |-> FALSE]
      ELSE IF Spent(old.count, q[r].limit) THEN [gen |-> old.gen + 1, count |-> 1, old |-> FALSE]
      ELSE [gen |-> old.gen, count |-> old.count + 1, old |-> FALSE]

\* An INSERT fails if there is a row, an UPDATE without one does nothing.
WriteRow(r) ==
  LET new == NextRow(r)
  IN  /\ At(r, "write") /\ new.gen <= MaxGen
      /\ (q[r].row = NoRow) => (row = NoRow)
      /\ row' = IF q[r].row # NoRow /\ row = NoRow THEN NoRow ELSE new
      /\ served' = IF row' = NoRow THEN served ELSE [served EXCEPT ![new.gen] = @ + 1]
      /\ lock' = Nobody
      /\ Becomes(r, [q[r] EXCEPT !.pc = "pick", !.fresh = <<Session, new.gen>>,
                                      !.turn = served'[new.gen]])
      /\ UNCHANGED <<limits, good, bounds, valid>>

WriteFails(r) ==
  /\ At(r, "write") /\ Faulty
  /\ lock' = Nobody
  /\ Ends(r)
  /\ UNCHANGED <<row, limits, good, puts, served, valid>>

\* resinScoreStore.pick. The mutated form forgets what the request has used.
AnyGood(r) == good
Eligible(r) == good \ q[r].used

\* The account belongs to a row of the session that was deleted: a request that
\* held the row then has earned it its score since.
Outlived(r, a) == Sticky(r) /\ a[1] = Session /\ (IF row = NoRow THEN TRUE ELSE a[2] > row.gen)

Pick(r) ==
  /\ At(r, "pick")
  /\ \E a \in {q[r].fresh} \cup (IF q[r].scoring THEN Eligible(r) ELSE {}) :
       Becomes(r, [q[r] EXCEPT !.pc = "sent", !.account = a, !.used = @ \cup {a},
                               !.row = NoRow, !.limit = NoLimit, !.valid = {}, !.turn = 0,
                               !.lost = @ \/ Outlived(r, a)])
  /\ UNCHANGED <<row, lock, limits, good, bounds, served, valid>>

----------------------------------------------------------------------------
(* The loop of gatewayChat. *)

\* resinScoreStore.observe: a success adds 3, a failure takes 4 to 10, a status
\* in between leaves the score alone.
Observed(r) ==
  good' \in IF q[r].scoring THEN {good, good \cup {q[r].account}, good \ {q[r].account}} ELSE {good}
ObservedBad(r) ==
  good' \in IF q[r].scoring THEN {good, good \ {q[r].account}} ELSE {good}

LastAttempt(r) == q[r].attempt + 1 = MaxAttempts
NextAttempt(r, t) ==
  IF LastAttempt(r) THEN [t EXCEPT !.pc = "deliver"]
  ELSE [t EXCEPT !.pc = "route", !.attempt = @ + 1]

\* A status the account is left for, or no answer.
Fails(r) ==
  /\ At(r, "sent")
  /\ ObservedBad(r)
  /\ Becomes(r, [q[r] EXCEPT !.pc = "advance"])
  /\ UNCHANGED <<row, lock, limits, bounds, served, valid>>

\* The helper that describes images is refused with 429.
HelperRefused(r) ==
  /\ At(r, "sent") /\ ~LastAttempt(r)
  /\ Becomes(r, [q[r] EXCEPT !.pc = "advance"])
  /\ UNCHANGED <<row, lock, limits, good, bounds, served, valid>>

\* Its response cannot be read: the next attempt keeps the generation.
HelperUnread(r) ==
  /\ At(r, "sent")
  /\ IF LastAttempt(r) THEN Ends(r) ELSE Becomes(r, NextAttempt(r, [q[r] EXCEPT !.kept = TRUE]))
  /\ UNCHANGED <<row, lock, limits, good, bounds, served, valid>>

\* resinRequestRoute.advance and advanceResinAccount.
AdvanceOwn(r) ==
  /\ At(r, "advance") /\ ~Sticky(r) /\ q[r].gen < MaxGen
  /\ Becomes(r, NextAttempt(r, [q[r] EXCEPT !.gen = @ + 1, !.kept = FALSE]))
  /\ UNCHANGED <<row, lock, limits, good, bounds, served, valid>>

AdvanceRow(r) ==
  /\ At(r, "advance") /\ Sticky(r) /\ Free
  /\ IF row = NoRow THEN UNCHANGED row
     ELSE /\ row.gen < MaxGen
          /\ row' = [gen |-> row.gen + 1, count |-> 0, old |-> FALSE]
  /\ Becomes(r, NextAttempt(r, [q[r] EXCEPT !.kept = FALSE]))
  /\ UNCHANGED <<lock, limits, good, bounds, served, valid>>

\* Its error is logged.
AdvanceFails(r) ==
  /\ At(r, "advance") /\ Sticky(r) /\ Free /\ Faulty
  /\ Becomes(r, NextAttempt(r, [q[r] EXCEPT !.kept = TRUE]))
  /\ UNCHANGED <<row, lock, limits, good, puts, served, valid>>

\* The answer is the client's, or the client has gone. (Of the last attempt a
\* failure is an answer, and is observed a second time.)
Finish(r) ==
  /\ \/ At(r, "sent") /\ Observed(r)
     \/ At(r, "deliver") /\ ObservedBad(r)
  /\ Ends(r)
  /\ UNCHANGED <<row, lock, limits, bounds, served, valid>>

----------------------------------------------------------------------------
(* Everybody else. *)

\* decayResinScore, and the eviction of the oldest of 257 accounts.
ScoreFades ==
  /\ \E a \in good : good' = good \ {a}
  /\ UNCHANGED <<row, lock, limits, q, bounds, served, valid>>

\* putRouting: the UPDATE, then invalidateRoutingLimit.
PutLimit ==
  /\ ~put /\ puts < MaxPuts
  /\ \E l \in Limits : setting' = l /\ InForce(l)
  /\ put' = TRUE /\ puts' = puts + 1
  /\ UNCHANGED <<row, lock, cached, good, faults, served>>

DropLimit ==
  /\ put
  /\ put' = FALSE /\ cached' = NoLimit
  /\ valid' = {setting}
  /\ UNCHANGED <<row, lock, setting, good, q, bounds, served>>

\* 24 hours go by, in which every score decays to 0 (100 minutes are enough);
\* it is assumed that no request lasts that long.
DayPasses ==
  /\ row # NoRow /\ ~row.old
  /\ \A r \in Requests : q[r].pc \in {"idle", "done"}
  /\ row' = [row EXCEPT !.old = TRUE]
  /\ good' = {}
  /\ UNCHANGED <<lock, limits, q, bounds, served, valid>>

\* clearStaleResinSessionRoutes, which takes no lock.
Janitor ==
  /\ row # NoRow /\ row.old
  /\ row' = NoRow
  /\ served' = [g \in Gens |-> 0]
  /\ q' = [r \in Requests |-> IF Sticky(r) THEN [q[r] EXCEPT !.lost = TRUE] ELSE q[r]]
  /\ UNCHANGED <<lock, limits, good, bounds, valid>>

Request(r) ==
  \/ Begin(r) \/ OwnAccount(r) \/ SelectRow(r) \/ CachedLimit(r) \/ LoadLimit(r) \/ LoadFails(r)
  \/ WriteRow(r) \/ WriteFails(r) \/ Pick(r) \/ Fails(r) \/ HelperRefused(r) \/ HelperUnread(r)
  \/ AdvanceOwn(r) \/ AdvanceRow(r) \/ AdvanceFails(r) \/ Finish(r)

Next ==
  \/ \E r \in Requests : Request(r)
  \/ ScoreFades \/ PutLimit \/ DropLimit \/ DayPasses \/ Janitor

Spec == Init /\ [][Next]_vars

----------------------------------------------------------------------------
(* Properties. *)

Rows == [gen : Gens, count : Nat, old : BOOLEAN]
TypeOK ==
  /\ row \in Rows \cup {NoRow} /\ lock \in Requests \cup {Nobody}
  /\ setting \in Limit /\ cached \in Limit \cup {NoLimit} /\ put \in BOOLEAN
  /\ good \subseteq Account /\ valid \subseteq Limit
  /\ served \in [Gens -> Nat]
  /\ puts \in 0..MaxPuts /\ faults \in 0..MaxFaults
  /\ \A r \in Requests :
       /\ q[r].owner \in {Session, r} /\ q[r].gen \in Gens /\ q[r].attempt < MaxAttempts
       /\ q[r].fresh \in Account /\ q[r].account \in Account /\ q[r].used \subseteq Account
       /\ lock = r <=> Sticky(r) /\ Holds(r)

\* The row counts the requests of its generation, whoever counts them at once:
\* requests, their advances, the janitor between two of their statements.
CountsTell ==
  row # NoRow => \A g \in Gens : served[g] > 0 => g <= row.gen /\ (g = row.gen => row.count = served[g])

\* No generation serves more requests than a limit in force while the request
\* looked: one that was set, or the default if it could not be read since the
\* limit was last set.
QuotaKept ==
  \A r \in Requests : At(r, "pick") /\ q[r].turn > 0 =>
    \E l \in q[r].valid : l = 0 \/ q[r].turn <= l

RoutesHold == TypeOK /\ CountsTell /\ QuotaKept

\* A request never goes out again with an account it has used, whether it was
\* the session's or was picked for its score, whatever other requests of the
\* session do meanwhile: unless the generation was kept after the last attempt,
\* or the session's row was deleted, be it before the request came, if an
\* account of it was scored afterwards and the request was given that.
NoAccountTwice ==
  [][\A r \in Requests :
       At(r, "pick") /\ q'[r].pc = "sent" /\ ~q[r].kept /\ ~q[r].lost =>
         q'[r].account \notin q[r].used]_vars
=============================================================================
