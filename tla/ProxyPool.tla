----------------------------- MODULE ProxyPool -----------------------------
(***************************************************************************)
(* The builtin proxy pool of src/cmd/server: the rows of table proxies, the *)
(* in-memory routing snapshot (proxyRuntime.snapshot) that requests are     *)
(* routed from, and the goroutines that meet there:                         *)
(*   - requests that call availableProxies, one of which (re)loads the      *)
(*     snapshot under loadMu when there is none;                            *)
(*   - console handlers and the janitor, which change rows and then         *)
(*     invalidate the snapshot, without taking loadMu;                      *)
(*   - probers (chat attempts, probe workers, testProxy), which persist a   *)
(*     health verdict and then patch the snapshot with a compare-and-swap.  *)
(* One step is one database statement or one atomic access to the snapshot: *)
(* SQLite serialises statements, atomic.Pointer serialises the accesses,    *)
(* and everything between two of them may interleave.                       *)
(*                                                                          *)
(* Time is counted in minutes, the unit of the cooldown; a time of 0 stands *)
(* for SQL NULL. health_status follows failure_count and cooldown_until and *)
(* is display only, so it is left out.                                      *)
(***************************************************************************)
EXTENDS Integers, Sequences, FiniteSets

CONSTANTS
  Proxies,      \* ids of table proxies; AUTOINCREMENT, so never used twice
  Requests,     \* goroutines that call availableProxies
  Admins,       \* goroutines of the console handlers and of the janitor
  Probers,      \* goroutines that end in markProxyFailure or markProxySuccess
  MaxTime,      \* bound on the clock
  MaxFailures,  \* bound on failure_count
  NoRow,        \* no such row, in the table or in a snapshot
  NoSnapshot,   \* the nil snapshot pointer
  Free          \* loadMu is not held

Threads == Requests \cup Admins \cup Probers

Row == [enabled : BOOLEAN, failures : Nat, cooldown : Nat, expires : Nat]
RoutedRow == [enabled : {TRUE}, failures : Nat, cooldown : Nat, expires : Nat]
Snapshot == [Proxies -> RoutedRow \cup {NoRow}]

ASSUME PoolAssumption ==
  /\ Requests \cap Admins = {} /\ Requests \cap Probers = {}
  /\ Admins \cap Probers = {}
  /\ MaxTime \in Nat /\ MaxFailures \in Nat
  /\ NoRow \notin Row
  /\ NoSnapshot \notin Snapshot
  /\ Free \notin Requests

VARIABLES
  now,      \* the wall clock
  db,       \* table proxies
  used,     \* ids handed out so far
  snap,     \* proxyRuntime.snapshot
  loadMu,   \* holder of proxyRuntime.loadMu
  pc,       \* where each goroutine is
  rows,     \* the rows the loader has read and not yet stored
  verdict,  \* the health update each prober carries
  seen,     \* the snapshot each prober's compare-and-swap loop has loaded
  touched,  \* history: the rows each console handler has changed
  missed,   \* history: rows written after the loader's SELECT, before its Store
  skipped,  \* history: enabled rows the last Store left out because they cooled
  late,     \* history: probers whose UPDATE a later UPDATE has overwritten
  racy      \* history: rows that a lost race left stale in the snapshot

code == <<now, db, used, snap, loadMu, pc, rows, verdict, seen>>
history == <<touched, missed, skipped, late, racy>>
vars == <<now, db, used, snap, loadMu, pc, rows, verdict, seen,
          touched, missed, skipped, late, racy>>

NoVerdict == [proxy |-> NoRow, failures |-> 0, cooldown |-> 0]
Verdict == [proxy : Proxies \cup {NoRow}, failures : Nat, cooldown : Nat]

----------------------------------------------------------------------------
(* What the code asks of a row. *)

Expired(row) == row.expires # 0 /\ row.expires <= now
Cooling(row) == row.cooldown > now

\* The rows loadAvailableProxiesFromDB keeps. The mutated form lacks the
\* WHERE enabled=1 of its SELECT.
LoadableOrDisabled(p) == db[p] # NoRow /\ ~Cooling(db[p]) /\ ~Expired(db[p])
Loadable(p) == db[p] # NoRow /\ db[p].enabled /\ ~Cooling(db[p]) /\ ~Expired(db[p])

Listed(p) == IF snap = NoSnapshot THEN FALSE ELSE snap[p] # NoRow

\* What available() hands to a request out of the stored snapshot.
Usable ==
  {p \in Proxies : Listed(p) /\ snap[p].enabled /\ ~Cooling(snap[p]) /\ ~Expired(snap[p])}

\* markProxyFailure: min(2^min(failures-1,5), 30) minutes.
Delay(failures) == <<1, 2, 4, 8, 16, 30>>[IF failures < 6 THEN failures ELSE 6]

ExpiredRows == {p \in Proxies : db[p] # NoRow /\ Expired(db[p])}
NoRows == [p \in Proxies |-> NoRow]
Without(S) == [p \in Proxies |-> IF p \in S THEN NoRow ELSE db[p]]

Loading == \E r \in Requests : pc[r] = "store"
\* A write to the rows S that a loader past its SELECT does not see.
Miss(S) == missed' = IF Loading THEN missed \cup S ELSE missed

----------------------------------------------------------------------------
Init ==
  /\ now = 1
  /\ db \in [Proxies -> {NoRow, [enabled |-> TRUE, failures |-> 0, cooldown |-> 0, expires |-> 0]}]
  /\ used = {p \in Proxies : db[p] # NoRow}
  /\ snap = NoSnapshot
  /\ loadMu = Free
  /\ pc = [t \in Threads |-> "idle"]
  /\ rows = NoRows
  /\ verdict = [h \in Probers |-> NoVerdict]
  /\ seen = [h \in Probers |-> NoSnapshot]
  /\ touched = [a \in Admins |-> {}]
  /\ missed = {} /\ skipped = {} /\ late = {} /\ racy = {}

Goto(t, label) == pc' = [pc EXCEPT ![t] = label]

----------------------------------------------------------------------------
(* Requests: proxyRuntime.available. *)

\* The first Load finds no snapshot. (With one, the request filters it and is
\* answered without a change of state.)
LoadNil(r) ==
  /\ pc[r] = "idle" /\ snap = NoSnapshot
  /\ Goto(r, "miss")
  /\ UNCHANGED <<now, db, used, snap, loadMu, rows, verdict, seen, history>>

\* The double check under the lock: a snapshot that another loader stored
\* meanwhile is used. The mutated form forgets to look again.
NoRecheck == FALSE
RecheckHits == snap # NoSnapshot

LockHit(r) ==
  /\ pc[r] = "miss" /\ loadMu = Free /\ RecheckHits
  /\ Goto(r, "idle")
  /\ UNCHANGED <<now, db, used, snap, loadMu, rows, verdict, seen, history>>

LockMiss(r) ==
  /\ pc[r] = "miss" /\ loadMu = Free /\ ~RecheckHits
  /\ loadMu' = r
  /\ Goto(r, "purge")
  /\ UNCHANGED <<now, db, used, snap, rows, verdict, seen, history>>

\* deleteExpiredProxies inside the loader: the DELETE and, when it removed
\* rows, the invalidation. The snapshot is nil all through a load (see
\* FillOnlyWhenEmpty), so nobody can tell the two apart.
LoadPurge(r) ==
  /\ pc[r] = "purge"
  /\ db' = Without(ExpiredRows)
  /\ snap' = IF ExpiredRows # {} THEN NoSnapshot ELSE snap
  /\ Goto(r, "select")
  /\ UNCHANGED <<now, used, loadMu, rows, verdict, seen, history>>

LoadSelect(r) ==
  /\ pc[r] = "select"
  /\ rows' = [p \in Proxies |-> IF Loadable(p) THEN db[p] ELSE NoRow]
  /\ missed' = {}
  /\ skipped' = {p \in Proxies : db[p] # NoRow /\ db[p].enabled /\ Cooling(db[p])}
  /\ Goto(r, "store")
  /\ UNCHANGED <<now, db, used, snap, loadMu, verdict, seen, touched, late, racy>>

\* Store, Unlock, and the request filters the rows it has just stored.
LoadStore(r) ==
  /\ pc[r] = "store"
  /\ snap' = rows
  /\ racy' = missed
  /\ loadMu' = Free
  /\ rows' = NoRows
  /\ missed' = {}
  /\ Goto(r, "idle")
  /\ UNCHANGED <<now, db, used, verdict, seen, touched, skipped, late>>

\* The SELECT, a Scan or a decrypt fails: the request gets the error, and the
\* lock is released first. The mutated form returns with the lock held.
ForgetUnlock == loadMu
MuAfterLoadError == Free

LoadError(r) ==
  /\ pc[r] = "select"
  /\ loadMu' = MuAfterLoadError
  /\ Goto(r, "idle")
  /\ UNCHANGED <<now, db, used, snap, rows, verdict, seen, history>>

----------------------------------------------------------------------------
(* Console handlers and the janitor: one write, then the invalidation. *)

Changed(a, S) ==
  /\ touched' = [touched EXCEPT ![a] = S]
  /\ Miss(S)
  /\ Goto(a, "invalidate")
  /\ UNCHANGED <<now, snap, loadMu, rows, verdict, seen, skipped, late, racy>>

\* insertProxy, for a proxy that lives forever or that expires a minute on.
Insert(a) ==
  /\ pc[a] = "idle"
  /\ \E p \in Proxies \ used, expires \in {0, now + 1} :
       /\ db' = [db EXCEPT ![p] = [enabled |-> TRUE, failures |-> 0,
                                   cooldown |-> 0, expires |-> expires]]
       /\ used' = used \cup {p}
       /\ Changed(a, {p})

\* patchProxy, when the UPDATE finds the row.
SetEnabled(a) ==
  /\ pc[a] = "idle"
  /\ \E p \in Proxies, on \in BOOLEAN :
       /\ db[p] # NoRow
       /\ db' = [db EXCEPT ![p].enabled = on]
       /\ used' = used
       /\ Changed(a, {p})

\* deleteProxy (one id, which must exist) and bulkDeleteProxies (any ids, in
\* one transaction).
Delete(a) ==
  /\ pc[a] = "idle"
  /\ \E S \in (SUBSET used) \ {{}} :
       /\ db' = Without(S)
       /\ used' = used
       /\ Changed(a, S)

\* deleteExpiredProxies from the janitor's tick or a list request.
Janitor(a) ==
  /\ pc[a] = "idle" /\ ExpiredRows # {}
  /\ db' = Without(ExpiredRows)
  /\ used' = used
  /\ Changed(a, ExpiredRows)

\* proxyRuntime.invalidate: the pointer is set to nil, whoever is loading. The
\* mutated form leaves the snapshot in place.
KeepSnapshot == snap
Invalidated == NoSnapshot

Invalidate(a) ==
  /\ pc[a] = "invalidate"
  /\ snap' = Invalidated
  /\ racy' = {}
  /\ touched' = [touched EXCEPT ![a] = {}]
  /\ skipped' = IF Loading THEN skipped ELSE {}
  /\ Goto(a, "idle")
  /\ UNCHANGED <<now, db, used, loadMu, rows, verdict, seen, missed, late>>

----------------------------------------------------------------------------
(* Probers. *)

\* Probers that have written their verdict for p and not yet patched the
\* snapshot: a write of p makes what they carry out of date.
Carrying(p) == {h \in Probers : pc[h] \in {"patch", "swap"} /\ verdict[h].proxy = p}

Finish(h) == Goto(h, "idle") /\ verdict' = [verdict EXCEPT ![h] = NoVerdict]

\* markProxyFailure reads failure_count; a missing row ends it.
FailRead(h) ==
  /\ pc[h] = "idle"
  /\ \E p \in Proxies :
       /\ db[p] # NoRow /\ db[p].failures < MaxFailures
       /\ verdict' = [verdict EXCEPT ![h] = [proxy |-> p, failures |-> db[p].failures + 1,
                                             cooldown |-> now + Delay(db[p].failures + 1)]]
  /\ Goto(h, "write")
  /\ UNCHANGED <<now, db, used, snap, loadMu, rows, seen, history>>

\* The UPDATE of a verdict; it affects no row when the proxy is gone, which is
\* no error.
Persist(h, v) ==
  /\ db' = IF db[v.proxy] = NoRow THEN db
           ELSE [db EXCEPT ![v.proxy].failures = v.failures, ![v.proxy].cooldown = v.cooldown]
  /\ Miss({v.proxy})
  /\ late' = (late \ {h}) \cup Carrying(v.proxy)
  /\ Goto(h, "patch")
  /\ UNCHANGED <<now, used, snap, loadMu, rows, seen, touched, skipped, racy>>

FailWrite(h) ==
  /\ pc[h] = "write"
  /\ Persist(h, verdict[h])
  /\ verdict' = verdict

\* markProxySuccess, of any proxy that ever was: probes run on rows read before.
Success(h) ==
  /\ pc[h] = "idle"
  /\ \E p \in used :
       LET v == [proxy |-> p, failures |-> 0, cooldown |-> 0]
       IN  /\ Persist(h, v)
           /\ verdict' = [verdict EXCEPT ![h] = v]

\* The database refuses the statement: the verdict is dropped.
FailError(h) ==
  /\ pc[h] = "write"
  /\ Finish(h)
  /\ UNCHANGED <<now, db, used, snap, loadMu, rows, seen, history>>

\* replaceHealth. No snapshot, or none with this proxy: nothing to patch.
PatchNothing(h) ==
  /\ pc[h] = "patch"
  /\ ~Listed(verdict[h].proxy)
  /\ late' = late \ {h}
  /\ Finish(h)
  /\ UNCHANGED <<now, db, used, snap, loadMu, rows, seen,
                 touched, missed, skipped, racy>>

PatchLoad(h) ==
  /\ pc[h] = "patch"
  /\ Listed(verdict[h].proxy)
  /\ seen' = [seen EXCEPT ![h] = snap]
  /\ Goto(h, "swap")
  /\ UNCHANGED <<now, db, used, snap, loadMu, rows, verdict, history>>

\* CompareAndSwap on the pointer. Comparing the values instead is the same:
\* where they are equal, a failed swap would only be retried with equal values.
\* The mutated form stores without comparing.
SwapAlways(h) == TRUE
SwapSucceeds(h) == snap = seen[h]

PatchSwap(h) ==
  /\ pc[h] = "swap" /\ SwapSucceeds(h)
  /\ snap' = [seen[h] EXCEPT ![verdict[h].proxy].failures = verdict[h].failures,
                             ![verdict[h].proxy].cooldown = verdict[h].cooldown]
  /\ racy' = IF h \in late THEN racy \cup {verdict[h].proxy} ELSE racy
  /\ late' = late \ {h}
  /\ seen' = [seen EXCEPT ![h] = NoSnapshot]
  /\ Finish(h)
  /\ UNCHANGED <<now, db, used, loadMu, rows, touched, missed, skipped>>

PatchRetry(h) ==
  /\ pc[h] = "swap" /\ ~SwapSucceeds(h)
  /\ seen' = [seen EXCEPT ![h] = NoSnapshot]
  /\ Goto(h, "patch")
  /\ UNCHANGED <<now, db, used, snap, loadMu, rows, verdict, history>>

\* testProxy of a row that has expired: it is deleted, and the snapshot is not
\* told.
TestExpired(h) ==
  /\ pc[h] = "idle"
  /\ \E p \in ExpiredRows : /\ db' = Without({p})
                            /\ Miss({p})
  /\ UNCHANGED <<now, used, snap, loadMu, pc, rows, verdict, seen,
                 touched, skipped, late, racy>>

Tick ==
  /\ now < MaxTime
  /\ now' = now + 1
  /\ UNCHANGED <<db, used, snap, loadMu, pc, rows, verdict, seen, history>>

----------------------------------------------------------------------------
RequestStep(r) ==
  \/ LockHit(r) \/ LockMiss(r) \/ LoadPurge(r) \/ LoadSelect(r) \/ LoadStore(r) \/ LoadError(r)

Next ==
  \/ \E r \in Requests : LoadNil(r) \/ RequestStep(r)
  \/ \E a \in Admins : Insert(a) \/ SetEnabled(a) \/ Delete(a) \/ Janitor(a) \/ Invalidate(a)
  \/ \E h \in Probers : \/ FailRead(h) \/ FailWrite(h) \/ FailError(h) \/ Success(h)
                        \/ PatchNothing(h) \/ PatchLoad(h) \/ PatchSwap(h) \/ PatchRetry(h)
                        \/ TestExpired(h)
  \/ Tick

Spec == Init /\ [][Next]_vars

\* A request runs until it is answered; sync.Mutex hands a lock it has starved
\* a waiter of to that waiter, so waiting for loadMu is strongly fair.
Fairness ==
  \A r \in Requests : WF_vars(RequestStep(r)) /\ SF_vars(LockHit(r) \/ LockMiss(r))

FairSpec == Spec /\ Fairness

----------------------------------------------------------------------------
(* Properties. *)

\* Types; a snapshot holds no disabled row, because the loader reads none.
TypeOK ==
  /\ now \in Nat
  /\ db \in [Proxies -> Row \cup {NoRow}]
  /\ used \subseteq Proxies
  /\ snap \in Snapshot \cup {NoSnapshot}
  /\ loadMu \in Requests \cup {Free}
  /\ pc \in [Threads -> {"idle", "miss", "purge", "select", "store",
                         "invalidate", "write", "patch", "swap"}]
  /\ rows \in Snapshot
  /\ verdict \in [Probers -> Verdict]
  /\ seen \in [Probers -> Snapshot \cup {NoSnapshot}]
  /\ touched \in [Admins -> SUBSET Proxies]
  /\ missed \subseteq Proxies /\ skipped \subseteq Proxies /\ racy \subseteq Proxies
  /\ late \subseteq Probers

\* While a request loads, the snapshot is nil: available() never loads over a
\* snapshot it could have used, and two requests never load at once.
FillOnlyWhenEmpty ==
  \A r \in Requests : pc[r] \in {"purge", "select", "store"} => loadMu = r /\ snap = NoSnapshot

\* The rows of p that some goroutine has written and not yet published.
Unpublished(p) ==
  \/ \E a \in Admins : pc[a] = "invalidate" /\ p \in touched[a]
  \/ Carrying(p) # {}

\* What a request is routed by is what the table says, for every proxy whose
\* writers are done, except where one of two races was lost: a write between a
\* loader's SELECT and its Store, or two health updates patching the snapshot
\* in another order than they reached the table (racy holds those proxies).
\* loadAvailableProxiesFromDB, invalidate and replaceHealth must all play along.
RoutedIsCurrent ==
  \A p \in Usable : p \in racy \/ Unpublished(p) \/ db[p] = snap[p]

\* Conversely a proxy the table calls enabled, rested and alive is offered to
\* requests, except after those races and except when the loader left it out
\* because it was cooling then (skipped).
UsableIsRouted ==
  \A p \in Proxies :
    snap # NoSnapshot /\ Loadable(p) => \/ p \in Usable
                                        \/ p \in racy \cup skipped
                                        \/ Unpublished(p)

\* Only a loader's Store puts a snapshot where there was none: a health patch
\* never brings back a snapshot that has been invalidated under it.
OnlyLoadersPublish ==
  [][snap = NoSnapshot /\ snap' # NoSnapshot => \E r \in Requests : LoadStore(r)]_vars

\* Every request that found no snapshot is answered, also when loads fail and
\* when snapshots are invalidated as fast as they are built.
RequestsAnswered == \A r \in Requests : pc[r] = "miss" ~> pc[r] = "idle"

\* loadProxiesForProbeFromDB says that a successful probe "is the signal that
\* clears their cooldown": once it is published, the proxy is routed again.
ProbeRestoresRoute ==
  \A p \in Proxies :
    /\ snap # NoSnapshot /\ Loadable(p)
    /\ db[p].failures = 0 /\ p \notin racy /\ ~Unpublished(p)
    => p \in Usable
=============================================================================
