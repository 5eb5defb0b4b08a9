-------------------------- MODULE ProxyPoolProofs --------------------------
(***************************************************************************)
(* The safety of the routing snapshot, for any number of proxies,           *)
(* requests, console handlers and probers. RoutedIsCurrent and              *)
(* UsableIsRouted are not inductive: they speak only of a stored snapshot   *)
(* whose writers are done, so the invariant below also says what a loader   *)
(* holds before it stores, and what a prober still has to publish.          *)
(***************************************************************************)
EXTENDS ProxyPool, TLAPS

Health(row) == <<row.failures, row.cooldown>>

\* Some console handler has changed p and has yet to invalidate.
Dirty(p) == \E a \in Admins : pc[a] = "invalidate" /\ p \in touched[a]

\* What a row keeps when only its health changes.
SameProxy(p, row) == db[p].enabled = row.enabled /\ db[p].expires = row.expires

\* p is rightly left out of a snapshot, whatever its health is.
Unroutable(p) == db[p] = NoRow \/ ~db[p].enabled \/ Expired(db[p])

\* Ids are handed out before rows or verdicts carry them.
UsedOK ==
  /\ \A p \in Proxies : db[p] # NoRow => p \in used
  /\ \A h \in Probers : pc[h] \in {"write", "patch", "swap"} => verdict[h].proxy \in used

\* What a loader has read is still true, but for what it has missed.
RowsOK ==
  \A r \in Requests, p \in Proxies :
    pc[r] = "store" /\ p \notin missed =>
      IF rows[p] # NoRow THEN db[p] = rows[p] ELSE p \in skipped \/ Unroutable(p)

\* The latest verdict on p is the one the table holds.
VerdictOK ==
  \A h \in Probers : pc[h] \in {"patch", "swap"} /\ h \notin late =>
    LET p == verdict[h].proxy IN db[p] = NoRow \/ Health(db[p]) = Health(verdict[h])

\* A compare-and-swap loop has loaded a snapshot that lists its proxy.
SeenOK ==
  \A h \in Probers : pc[h] = "swap" => seen[h] # NoSnapshot /\ seen[h][verdict[h].proxy] # NoRow

\* A stored row: only its health may be behind the table, and only while the
\* latest verdict is on its way.
ListedOK(p) ==
  IF db[p] = NoRow THEN Expired(snap[p])
  ELSE /\ SameProxy(p, snap[p])
       /\ \/ Health(db[p]) = Health(snap[p])
          \/ \E h \in Probers : /\ pc[h] \in {"patch", "swap"} /\ h \notin late
                                /\ verdict[h].proxy = p

SnapOK ==
  snap # NoSnapshot =>
    \A p \in Proxies : p \notin racy /\ ~Dirty(p) =>
      IF snap[p] # NoRow THEN ListedOK(p) ELSE p \in skipped \/ Unroutable(p)

IInv == /\ TypeOK /\ FillOnlyWhenEmpty /\ UsedOK /\ RowsOK
        /\ VerdictOK /\ SeenOK /\ SnapOK

----------------------------------------------------------------------------
\* The cooldown after a failure is a number of ticks.
LEMMA DelayNat == ASSUME NEW f \in Nat, f # 0 PROVE Delay(f) \in Nat
  BY DEF Delay

\* The types, for every value of the constants.
LEMMA TypeInit == Init => TypeOK
<1> SUFFICES ASSUME Init PROVE TypeOK
  OBVIOUS
<1>1. db \in [Proxies -> Row \cup {NoRow}]
  <2>1. [enabled |-> TRUE, failures |-> 0, cooldown |-> 0, expires |-> 0] \in Row
    BY DEF Row
  <2>2. QED
    BY <2>1 DEF Init
<1>2. rows \in Snapshot
  BY DEF Init, NoRows, Snapshot
<1>3. verdict \in [Probers -> Verdict]
  BY DEF Init, Verdict, NoVerdict
<1>4. QED
  BY <1>1, <1>2, <1>3 DEF Init, TypeOK, Threads

\* Every step keeps the types.
LEMMA TypeStep == TypeOK /\ UsedOK /\ SeenOK /\ [Next]_vars => TypeOK'
<1> SUFFICES ASSUME TypeOK, UsedOK, SeenOK, [Next]_vars PROVE TypeOK'
  OBVIOUS
<1> USE PoolAssumption DEF TypeOK, Threads, Goto, history
<1>1. ASSUME NEW r \in Requests, LoadNil(r) PROVE TypeOK'
  BY <1>1 DEF LoadNil
<1>2. ASSUME NEW r \in Requests, LockHit(r) PROVE TypeOK'
  BY <1>2 DEF LockHit
<1>3. ASSUME NEW r \in Requests, LockMiss(r) PROVE TypeOK'
  BY <1>3 DEF LockMiss
<1>4. ASSUME NEW r \in Requests, LoadPurge(r) PROVE TypeOK'
  BY <1>4 DEF LoadPurge, Without
<1>5. ASSUME NEW r \in Requests, LoadSelect(r) PROVE TypeOK'
  <2>1. rows' \in Snapshot
    BY <1>5 DEF LoadSelect, Loadable, Row, RoutedRow, Snapshot
  <2>2. QED
    BY <1>5, <2>1 DEF LoadSelect
<1>6. ASSUME NEW r \in Requests, LoadStore(r) PROVE TypeOK'
  BY <1>6 DEF LoadStore, Snapshot, NoRows
<1>7. ASSUME NEW r \in Requests, LoadError(r) PROVE TypeOK'
  BY <1>7 DEF LoadError, MuAfterLoadError
<1>8. ASSUME NEW a \in Admins, Insert(a) PROVE TypeOK'
  BY <1>8 DEF Insert, Changed, Miss, Row
<1>9. ASSUME NEW a \in Admins, SetEnabled(a) PROVE TypeOK'
  BY <1>9 DEF SetEnabled, Changed, Miss, Row
<1>10. ASSUME NEW a \in Admins, Delete(a) PROVE TypeOK'
  BY <1>10 DEF Delete, Changed, Miss, Without
<1>11. ASSUME NEW a \in Admins, Janitor(a) PROVE TypeOK'
  BY <1>11 DEF Janitor, Changed, Miss, Without, ExpiredRows
<1>12. ASSUME NEW a \in Admins, Invalidate(a) PROVE TypeOK'
  BY <1>12 DEF Invalidate, Invalidated, Loading
<1>13. ASSUME NEW h \in Probers, FailRead(h) PROVE TypeOK'
  <2>1. PICK p \in Proxies : /\ db[p] # NoRow
                             /\ verdict' = [verdict EXCEPT ![h] =
                                  [proxy |-> p, failures |-> db[p].failures + 1,
                                   cooldown |-> now + Delay(db[p].failures + 1)]]
    BY <1>13 DEF FailRead
  <2>2. db[p].failures \in Nat
    BY <2>1 DEF Row
  <2>3. Delay(db[p].failures + 1) \in Nat
    BY <2>2, DelayNat
  <2>4. verdict' \in [Probers -> Verdict]
    BY <2>1, <2>2, <2>3 DEF Verdict
  <2>5. QED
    BY <1>13, <2>4 DEF FailRead
<1>14. ASSUME NEW h \in Probers, FailWrite(h) \/ Success(h) PROVE TypeOK'
  <2>1. PICK v \in Verdict : v.proxy \in Proxies /\ Persist(h, v) /\ verdict' \in [Probers -> Verdict]
    <3>1. CASE FailWrite(h)
      <4>1. verdict[h] \in Verdict /\ verdict[h].proxy \in Proxies
        BY <3>1 DEF FailWrite, UsedOK
      <4>2. QED
        BY <3>1, <4>1 DEF FailWrite
    <3>2. CASE Success(h)
      <4>1. PICK p \in used : LET v == [proxy |-> p, failures |-> 0, cooldown |-> 0]
                              IN Persist(h, v) /\ verdict' = [verdict EXCEPT ![h] = v]
        BY <3>2 DEF Success
      <4>2. [proxy |-> p, failures |-> 0, cooldown |-> 0] \in Verdict
        BY DEF Verdict
      <4>3. QED
        BY <4>1, <4>2
    <3>3. QED
      BY <1>14, <3>1, <3>2
  <2>2. db' \in [Proxies -> Row \cup {NoRow}]
    BY <2>1 DEF Persist, Row, Verdict
  <2>3. QED
    BY <2>1, <2>2 DEF Persist, Miss, Carrying
<1>15. ASSUME NEW h \in Probers, FailError(h) PROVE TypeOK'
  BY <1>15 DEF FailError, Finish, NoVerdict, Verdict
<1>16. ASSUME NEW h \in Probers, PatchNothing(h) PROVE TypeOK'
  BY <1>16 DEF PatchNothing, Finish, NoVerdict, Verdict
<1>17. ASSUME NEW h \in Probers, PatchLoad(h) PROVE TypeOK'
  BY <1>17 DEF PatchLoad, Listed
<1>18. ASSUME NEW h \in Probers, PatchSwap(h) PROVE TypeOK'
  <2>1. seen[h] \in Snapshot /\ verdict[h] \in Verdict /\ verdict[h].proxy \in Proxies
    BY <1>18 DEF PatchSwap, SeenOK, UsedOK
  <2>2. snap' \in Snapshot \cup {NoSnapshot}
    <3> DEFINE p == verdict[h].proxy
               s == seen[h]
               row == [s[p] EXCEPT !.failures = verdict[h].failures, !.cooldown = verdict[h].cooldown]
    <3>1. s[p] \in RoutedRow
      BY <1>18, <2>1 DEF PatchSwap, SeenOK, Snapshot
    <3>2. row \in RoutedRow
      BY <2>1, <3>1 DEF RoutedRow, Verdict
    <3>3. snap' = [s EXCEPT ![p] = row]
      BY <1>18, <2>1 DEF PatchSwap, Snapshot
    <3>4. QED
      BY <2>1, <3>2, <3>3 DEF Snapshot
  <2>3. QED
    BY <1>18, <2>1, <2>2 DEF PatchSwap, Finish, NoVerdict, Verdict
<1>19. ASSUME NEW h \in Probers, PatchRetry(h) PROVE TypeOK'
  BY <1>19 DEF PatchRetry
<1>20. ASSUME NEW h \in Probers, TestExpired(h) PROVE TypeOK'
  BY <1>20 DEF TestExpired, Without, Miss, ExpiredRows
<1>21. ASSUME Tick PROVE TypeOK'
  BY <1>21 DEF Tick
<1>22. ASSUME UNCHANGED vars PROVE TypeOK'
  BY <1>22 DEF vars
<1>23. QED
  BY <1>1, <1>2, <1>3, <1>4, <1>5, <1>6, <1>7, <1>8, <1>9, <1>10, <1>11, <1>12, <1>13,
     <1>14, <1>15, <1>16, <1>17, <1>18, <1>19, <1>20, <1>21, <1>22 DEF Next, RequestStep

Rest == FillOnlyWhenEmpty /\ UsedOK /\ RowsOK /\ VerdictOK /\ SeenOK /\ SnapOK

\* Persisting a verdict: its row is the latest, and its prober is not late.
LEMMA PersistStep ==
  ASSUME IInv, TypeOK', NEW h \in Probers, NEW v \in Verdict, v.proxy \in used,
         pc[h] \notin {"patch", "swap"}, Persist(h, v), verdict' = [verdict EXCEPT ![h] = v]
  PROVE  VerdictOK' /\ SnapOK'
<1> USE PoolAssumption DEF TypeOK, Threads, Goto
<1>1. VerdictOK'
  <2> SUFFICES ASSUME NEW g \in Probers, pc'[g] \in {"patch", "swap"}, g \notin late'
               PROVE  LET p == verdict'[g].proxy
                      IN  db'[p] = NoRow \/ Health(db'[p]) = Health(verdict'[g])
    BY DEF VerdictOK, Health
  <2>1. CASE g = h
    BY <2>1 DEF IInv, Persist, Health, Row, Verdict
  <2>2. CASE g # h
    <3>1. pc[g] \in {"patch", "swap"} /\ verdict'[g] = verdict[g] /\ g \notin late
      BY <2>2 DEF Persist
    <3>2. verdict[g].proxy # v.proxy
      BY <3>1, <2>2 DEF Persist, Carrying
    <3>3. verdict[g].proxy \in Proxies
      BY <3>1 DEF IInv, UsedOK
    <3>4. db'[verdict[g].proxy] = db[verdict[g].proxy]
      BY <3>2, <3>3 DEF Persist, Row
    <3>5. QED
      BY <3>1, <3>4 DEF IInv, VerdictOK
  <2>3. QED
    BY <2>1, <2>2
<1>2. SnapOK'
  <2> SUFFICES ASSUME snap # NoSnapshot, NEW p \in Proxies, p \notin racy, ~Dirty(p)
               PROVE  IF snap[p] # NoRow THEN ListedOK(p)' ELSE p \in skipped \/ Unroutable(p)'
    BY DEF SnapOK, Persist, Dirty
  <2>1. IF snap[p] # NoRow THEN ListedOK(p) ELSE p \in skipped \/ Unroutable(p)
    BY DEF IInv, SnapOK
  <2>2. CASE p = v.proxy
    <3>1. db'[p] = IF db[p] = NoRow THEN NoRow
                   ELSE [db[p] EXCEPT !.failures = v.failures, !.cooldown = v.cooldown]
      BY <2>2 DEF Persist
    <3>2. db[p] # NoRow => db'[p] # NoRow /\ db'[p].enabled = db[p].enabled
                                          /\ db'[p].expires = db[p].expires
      <4> SUFFICES ASSUME db[p] # NoRow
                   PROVE  db'[p] # NoRow /\ db'[p].enabled = db[p].enabled
                                         /\ db'[p].expires = db[p].expires
        OBVIOUS
      <4>1. db[p] \in Row
        BY DEF IInv
      <4>2. db'[p] = [db[p] EXCEPT !.failures = v.failures, !.cooldown = v.cooldown]
        BY <3>1
      <4>3. db'[p] \in Row
        BY <4>1, <4>2 DEF Row, Verdict
      <4>4. QED
        BY <4>1, <4>2, <4>3 DEF Row
    <3>3. pc'[h] = "patch" /\ h \notin late' /\ verdict'[h].proxy = p
      BY <2>2 DEF Persist, Carrying
    <3>4. QED
      BY <2>1, <3>1, <3>2, <3>3 DEF ListedOK, SameProxy, Unroutable, Expired, Persist
  <2>3. CASE p # v.proxy
    <3>1. db'[p] = db[p]
      BY <2>3 DEF Persist, Row
    <3>2. ASSUME NEW g \in Probers, pc[g] \in {"patch", "swap"}, g \notin late, verdict[g].proxy = p
          PROVE  pc'[g] \in {"patch", "swap"} /\ g \notin late' /\ verdict'[g].proxy = p
      BY <2>3, <3>2 DEF Persist, Carrying
    <3>3. QED
      BY <2>1, <3>1, <3>2 DEF ListedOK, SameProxy, Unroutable, Expired, Persist
  <2>4. QED
    BY <2>2, <2>3
<1>3. QED
  BY <1>1, <1>2

\* Every step keeps the rest of the invariant, action by action.
LEMMA InvStep == IInv /\ [Next]_vars => Rest'
<1> SUFFICES ASSUME IInv, TypeOK', [Next]_vars PROVE Rest'
  BY TypeStep DEF IInv
<1> USE PoolAssumption DEF TypeOK, Threads, Goto, history
<1>1. ASSUME NEW r \in Requests, LoadNil(r) PROVE Rest'
  <2>1. FillOnlyWhenEmpty'
    BY <1>1 DEF IInv, FillOnlyWhenEmpty, LoadNil
  <2>2. UsedOK'
    BY <1>1 DEF IInv, UsedOK, LoadNil
  <2>3. RowsOK'
    BY <1>1 DEF IInv, RowsOK, FillOnlyWhenEmpty, Unroutable, Expired, Row, LoadNil
  <2>4. VerdictOK'
    BY <1>1 DEF IInv, VerdictOK, UsedOK, Health, Row, Verdict, LoadNil
  <2>5. SeenOK'
    BY <1>1 DEF IInv, SeenOK, UsedOK, LoadNil
  <2>6. SnapOK'
    BY <1>1 DEF IInv, SnapOK, ListedOK, Unroutable, SameProxy, Expired, Dirty, Carrying, Health, LoadNil
  <2>7. QED
    BY <2>1, <2>2, <2>3, <2>4, <2>5, <2>6 DEF Rest
<1>2. ASSUME NEW r \in Requests, LockHit(r) PROVE Rest'
  <2>1. FillOnlyWhenEmpty'
    BY <1>2 DEF IInv, FillOnlyWhenEmpty, LockHit, RecheckHits
  <2>2. UsedOK'
    BY <1>2 DEF IInv, UsedOK, LockHit, RecheckHits
  <2>3. RowsOK'
    BY <1>2 DEF IInv, RowsOK, FillOnlyWhenEmpty, Unroutable, Expired, Row, LockHit, RecheckHits
  <2>4. VerdictOK'
    BY <1>2 DEF IInv, VerdictOK, UsedOK, Health, Row, Verdict, LockHit, RecheckHits
  <2>5. SeenOK'
    BY <1>2 DEF IInv, SeenOK, UsedOK, LockHit, RecheckHits
  <2>6. SnapOK'
    BY <1>2 DEF IInv, SnapOK, ListedOK, Unroutable, SameProxy, Expired, Dirty, Carrying, Health, LockHit, RecheckHits
  <2>7. QED
    BY <2>1, <2>2, <2>3, <2>4, <2>5, <2>6 DEF Rest
<1>3. ASSUME NEW r \in Requests, LockMiss(r) PROVE Rest'
  <2>1. FillOnlyWhenEmpty'
    BY <1>3 DEF IInv, FillOnlyWhenEmpty, LockMiss, RecheckHits
  <2>2. UsedOK'
    BY <1>3 DEF IInv, UsedOK, LockMiss, RecheckHits
  <2>3. RowsOK'
    BY <1>3 DEF IInv, RowsOK, FillOnlyWhenEmpty, Unroutable, Expired, Row, LockMiss, RecheckHits
  <2>4. VerdictOK'
    BY <1>3 DEF IInv, VerdictOK, UsedOK, Health, Row, Verdict, LockMiss, RecheckHits
  <2>5. SeenOK'
    BY <1>3 DEF IInv, SeenOK, UsedOK, LockMiss, RecheckHits
  <2>6. SnapOK'
    BY <1>3 DEF IInv, SnapOK, ListedOK, Unroutable, SameProxy, Expired, Dirty, Carrying, Health, LockMiss, RecheckHits
  <2>7. QED
    BY <2>1, <2>2, <2>3, <2>4, <2>5, <2>6 DEF Rest
<1>4. ASSUME NEW r \in Requests, LoadPurge(r) PROVE Rest'
  <2>1. FillOnlyWhenEmpty'
    BY <1>4 DEF IInv, FillOnlyWhenEmpty, LoadPurge, Without, ExpiredRows
  <2>2. UsedOK'
    BY <1>4 DEF IInv, UsedOK, LoadPurge, Without, ExpiredRows
  <2>3. RowsOK'
    BY <1>4 DEF IInv, RowsOK, FillOnlyWhenEmpty, Unroutable, Expired, Row, LoadPurge, Without, ExpiredRows
  <2>4. VerdictOK'
    BY <1>4 DEF IInv, VerdictOK, UsedOK, Health, Row, Verdict, LoadPurge, Without, ExpiredRows
  <2>5. SeenOK'
    BY <1>4 DEF IInv, SeenOK, UsedOK, LoadPurge, Without, ExpiredRows
  <2>6. SnapOK'
    BY <1>4 DEF IInv, SnapOK, ListedOK, Unroutable, SameProxy, Expired, Dirty, Carrying, Health, LoadPurge, Without, ExpiredRows
  <2>7. QED
    BY <2>1, <2>2, <2>3, <2>4, <2>5, <2>6 DEF Rest
<1>5. ASSUME NEW r \in Requests, LoadSelect(r) PROVE Rest'
  <2>1. FillOnlyWhenEmpty'
    BY <1>5 DEF IInv, FillOnlyWhenEmpty, LoadSelect, Loadable
  <2>2. UsedOK'
    BY <1>5 DEF IInv, UsedOK, LoadSelect, Loadable
  <2>3. RowsOK'
    BY <1>5 DEF IInv, RowsOK, FillOnlyWhenEmpty, Unroutable, Expired, Row, LoadSelect, Loadable
  <2>4. VerdictOK'
    BY <1>5 DEF IInv, VerdictOK, UsedOK, Health, Row, Verdict, LoadSelect, Loadable
  <2>5. SeenOK'
    BY <1>5 DEF IInv, SeenOK, UsedOK, LoadSelect, Loadable
  <2>6. SnapOK'
    BY <1>5 DEF IInv, SnapOK, ListedOK, Unroutable, SameProxy, Expired, Dirty, Carrying, Health, FillOnlyWhenEmpty, LoadSelect, Loadable
  <2>7. QED
    BY <2>1, <2>2, <2>3, <2>4, <2>5, <2>6 DEF Rest
<1>6. ASSUME NEW r \in Requests, LoadStore(r) PROVE Rest'
  <2>1. FillOnlyWhenEmpty'
    BY <1>6 DEF IInv, FillOnlyWhenEmpty, LoadStore
  <2>2. UsedOK'
    BY <1>6 DEF IInv, UsedOK, LoadStore
  <2>3. RowsOK'
    BY <1>6 DEF IInv, RowsOK, FillOnlyWhenEmpty, Unroutable, Expired, Row, LoadStore
  <2>4. VerdictOK'
    BY <1>6 DEF IInv, VerdictOK, UsedOK, Health, Row, Verdict, LoadStore
  <2>5. SeenOK'
    BY <1>6 DEF IInv, SeenOK, UsedOK, LoadStore
  <2>6. SnapOK'
    BY <1>6 DEF IInv, SnapOK, ListedOK, Unroutable, SameProxy, Expired, Dirty, Carrying, Health, RowsOK, FillOnlyWhenEmpty, Row, LoadStore
  <2>7. QED
    BY <2>1, <2>2, <2>3, <2>4, <2>5, <2>6 DEF Rest
<1>7. ASSUME NEW r \in Requests, LoadError(r) PROVE Rest'
  <2>1. FillOnlyWhenEmpty'
    BY <1>7 DEF IInv, FillOnlyWhenEmpty, LoadError, MuAfterLoadError
  <2>2. UsedOK'
    BY <1>7 DEF IInv, UsedOK, LoadError, MuAfterLoadError
  <2>3. RowsOK'
    BY <1>7 DEF IInv, RowsOK, FillOnlyWhenEmpty, Unroutable, Expired, Row, LoadError, MuAfterLoadError
  <2>4. VerdictOK'
    BY <1>7 DEF IInv, VerdictOK, UsedOK, Health, Row, Verdict, LoadError, MuAfterLoadError
  <2>5. SeenOK'
    BY <1>7 DEF IInv, SeenOK, UsedOK, LoadError, MuAfterLoadError
  <2>6. SnapOK'
    BY <1>7 DEF IInv, SnapOK, ListedOK, Unroutable, SameProxy, Expired, Dirty, Carrying, Health, LoadError, MuAfterLoadError
  <2>7. QED
    BY <2>1, <2>2, <2>3, <2>4, <2>5, <2>6 DEF Rest
<1>8. ASSUME NEW a \in Admins, Insert(a) PROVE Rest'
  <2>1. FillOnlyWhenEmpty'
    BY <1>8 DEF IInv, FillOnlyWhenEmpty, Insert, Changed, Miss, Loading
  <2>2. UsedOK'
    BY <1>8 DEF IInv, UsedOK, Insert, Changed, Miss, Loading
  <2>3. RowsOK'
    BY <1>8 DEF IInv, RowsOK, FillOnlyWhenEmpty, Unroutable, Expired, Row, Insert, Changed, Miss, Loading
  <2>4. VerdictOK'
    BY <1>8 DEF IInv, VerdictOK, UsedOK, Health, Row, Verdict, Insert, Changed, Miss, Loading
  <2>5. SeenOK'
    BY <1>8 DEF IInv, SeenOK, UsedOK, Insert, Changed, Miss, Loading
  <2>6. SnapOK'
    <3> SUFFICES ASSUME snap' # NoSnapshot, NEW p \in Proxies, p \notin racy', ~Dirty(p)'
                 PROVE  IF snap'[p] # NoRow THEN ListedOK(p)' ELSE p \in skipped' \/ Unroutable(p)'
      BY DEF SnapOK
    <3>1. PICK q \in Proxies \ used : (p # q => db'[p] = db[p]) /\ touched'[a] = {q}
      BY <1>8 DEF IInv, Insert, Changed
    <3>2. p # q /\ ~Dirty(p)
      BY <1>8, <3>1 DEF IInv, Insert, Changed, Dirty
    <3>3. db'[p] = db[p]
      BY <3>1, <3>2
    <3>4. \A g \in Probers : pc'[g] = pc[g]
      BY <1>8 DEF Insert, Changed
    <3>5. snap' = snap /\ skipped' = skipped /\ racy' = racy /\ late' = late /\ verdict' = verdict /\ now' = now
      BY <1>8 DEF Insert, Changed
    <3>6. IF snap[p] # NoRow THEN ListedOK(p) ELSE p \in skipped \/ Unroutable(p)
      BY <3>2, <3>5 DEF IInv, SnapOK
    <3>7. QED
      BY <3>3, <3>4, <3>5, <3>6 DEF ListedOK, Unroutable, SameProxy, Expired, Health
  <2>7. QED
    BY <2>1, <2>2, <2>3, <2>4, <2>5, <2>6 DEF Rest
<1>9. ASSUME NEW a \in Admins, SetEnabled(a) PROVE Rest'
  <2>1. FillOnlyWhenEmpty'
    BY <1>9 DEF IInv, FillOnlyWhenEmpty, SetEnabled, Changed, Miss, Loading
  <2>2. UsedOK'
    BY <1>9 DEF IInv, UsedOK, SetEnabled, Changed, Miss, Loading
  <2>3. RowsOK'
    BY <1>9 DEF IInv, RowsOK, FillOnlyWhenEmpty, Unroutable, Expired, Row, SetEnabled, Changed, Miss, Loading
  <2>4. VerdictOK'
    BY <1>9 DEF IInv, VerdictOK, UsedOK, Health, Row, Verdict, SetEnabled, Changed, Miss, Loading
  <2>5. SeenOK'
    BY <1>9 DEF IInv, SeenOK, UsedOK, SetEnabled, Changed, Miss, Loading
  <2>6. SnapOK'
    BY <1>9 DEF IInv, SnapOK, ListedOK, Unroutable, SameProxy, Expired, Dirty, Carrying, Health, SetEnabled, Changed, Miss, Loading
  <2>7. QED
    BY <2>1, <2>2, <2>3, <2>4, <2>5, <2>6 DEF Rest
<1>10. ASSUME NEW a \in Admins, Delete(a) PROVE Rest'
  <2>1. FillOnlyWhenEmpty'
    BY <1>10 DEF IInv, FillOnlyWhenEmpty, Delete, Changed, Miss, Loading, Without
  <2>2. UsedOK'
    BY <1>10 DEF IInv, UsedOK, Delete, Changed, Miss, Loading, Without
  <2>3. RowsOK'
    BY <1>10 DEF IInv, RowsOK, FillOnlyWhenEmpty, Unroutable, Expired, Row, Delete, Changed, Miss, Loading, Without
  <2>4. VerdictOK'
    BY <1>10 DEF IInv, VerdictOK, UsedOK, Health, Row, Verdict, Delete, Changed, Miss, Loading, Without
  <2>5. SeenOK'
    BY <1>10 DEF IInv, SeenOK, UsedOK, Delete, Changed, Miss, Loading, Without
  <2>6. SnapOK'
    BY <1>10 DEF IInv, SnapOK, ListedOK, Unroutable, SameProxy, Expired, Dirty, Carrying, Health, Delete, Changed, Miss, Loading, Without
  <2>7. QED
    BY <2>1, <2>2, <2>3, <2>4, <2>5, <2>6 DEF Rest
<1>11. ASSUME NEW a \in Admins, Janitor(a) PROVE Rest'
  <2>1. FillOnlyWhenEmpty'
    BY <1>11 DEF IInv, FillOnlyWhenEmpty, Janitor, Changed, Miss, Loading, Without, ExpiredRows
  <2>2. UsedOK'
    BY <1>11 DEF IInv, UsedOK, Janitor, Changed, Miss, Loading, Without, ExpiredRows
  <2>3. RowsOK'
    BY <1>11 DEF IInv, RowsOK, FillOnlyWhenEmpty, Unroutable, Expired, Row, Janitor, Changed, Miss, Loading, Without, ExpiredRows
  <2>4. VerdictOK'
    BY <1>11 DEF IInv, VerdictOK, UsedOK, Health, Row, Verdict, Janitor, Changed, Miss, Loading, Without, ExpiredRows
  <2>5. SeenOK'
    BY <1>11 DEF IInv, SeenOK, UsedOK, Janitor, Changed, Miss, Loading, Without, ExpiredRows
  <2>6. SnapOK'
    BY <1>11 DEF IInv, SnapOK, ListedOK, Unroutable, SameProxy, Expired, Dirty, Carrying, Health, Janitor, Changed, Miss, Loading, Without, ExpiredRows
  <2>7. QED
    BY <2>1, <2>2, <2>3, <2>4, <2>5, <2>6 DEF Rest
<1>12. ASSUME NEW a \in Admins, Invalidate(a) PROVE Rest'
  <2>1. FillOnlyWhenEmpty'
    BY <1>12 DEF IInv, FillOnlyWhenEmpty, Invalidate, Invalidated, Loading
  <2>2. UsedOK'
    BY <1>12 DEF IInv, UsedOK, Invalidate, Invalidated, Loading
  <2>3. RowsOK'
    BY <1>12 DEF IInv, RowsOK, FillOnlyWhenEmpty, Unroutable, Expired, Row, Invalidate, Invalidated, Loading
  <2>4. VerdictOK'
    BY <1>12 DEF IInv, VerdictOK, UsedOK, Health, Row, Verdict, Invalidate, Invalidated, Loading
  <2>5. SeenOK'
    BY <1>12 DEF IInv, SeenOK, UsedOK, Invalidate, Invalidated, Loading
  <2>6. SnapOK'
    BY <1>12 DEF IInv, SnapOK, ListedOK, Unroutable, SameProxy, Expired, Dirty, Carrying, Health, Invalidate, Invalidated, Loading
  <2>7. QED
    BY <2>1, <2>2, <2>3, <2>4, <2>5, <2>6 DEF Rest
<1>13. ASSUME NEW h \in Probers, FailRead(h) PROVE Rest'
  <2>1. FillOnlyWhenEmpty'
    BY <1>13 DEF IInv, FillOnlyWhenEmpty, FailRead
  <2>2. UsedOK'
    BY <1>13 DEF IInv, UsedOK, FailRead
  <2>3. RowsOK'
    BY <1>13 DEF IInv, RowsOK, FillOnlyWhenEmpty, Unroutable, Expired, Row, FailRead
  <2>4. VerdictOK'
    BY <1>13 DEF IInv, VerdictOK, UsedOK, Health, Row, Verdict, FailRead
  <2>5. SeenOK'
    BY <1>13 DEF IInv, SeenOK, UsedOK, FailRead
  <2>6. SnapOK'
    BY <1>13 DEF IInv, SnapOK, ListedOK, Unroutable, SameProxy, Expired, Dirty, Carrying, Health, FailRead
  <2>7. QED
    BY <2>1, <2>2, <2>3, <2>4, <2>5, <2>6 DEF Rest
<1>14. ASSUME NEW h \in Probers, FailWrite(h) PROVE Rest'
  <2>1. FillOnlyWhenEmpty'
    BY <1>14 DEF IInv, FillOnlyWhenEmpty, FailWrite, Persist, Miss, Loading
  <2>2. UsedOK'
    BY <1>14 DEF IInv, UsedOK, FailWrite, Persist, Miss, Loading
  <2>3. RowsOK'
    BY <1>14 DEF IInv, RowsOK, FillOnlyWhenEmpty, Unroutable, Expired, Row, FailWrite, Persist, Miss, Loading
  <2>4. VerdictOK' /\ SnapOK'
    <3>1. verdict[h] \in Verdict /\ verdict[h].proxy \in used
      BY <1>14 DEF IInv, UsedOK, FailWrite
    <3>2. QED
      BY <1>14, <3>1, PersistStep DEF FailWrite
  <2>5. SeenOK'
    BY <1>14 DEF IInv, SeenOK, UsedOK, FailWrite, Persist, Miss, Loading
  <2>7. QED
    BY <2>1, <2>2, <2>3, <2>4, <2>5 DEF Rest
<1>15. ASSUME NEW h \in Probers, FailError(h) PROVE Rest'
  <2>1. FillOnlyWhenEmpty'
    BY <1>15 DEF IInv, FillOnlyWhenEmpty, FailError, Finish
  <2>2. UsedOK'
    BY <1>15 DEF IInv, UsedOK, FailError, Finish
  <2>3. RowsOK'
    BY <1>15 DEF IInv, RowsOK, FillOnlyWhenEmpty, Unroutable, Expired, Row, FailError, Finish
  <2>4. VerdictOK'
    BY <1>15 DEF IInv, VerdictOK, UsedOK, Health, Row, Verdict, FailError, Finish
  <2>5. SeenOK'
    BY <1>15 DEF IInv, SeenOK, UsedOK, FailError, Finish
  <2>6. SnapOK'
    BY <1>15 DEF IInv, SnapOK, ListedOK, Unroutable, SameProxy, Expired, Dirty, Carrying, Health, FailError, Finish
  <2>7. QED
    BY <2>1, <2>2, <2>3, <2>4, <2>5, <2>6 DEF Rest
<1>16. ASSUME NEW h \in Probers, Success(h) PROVE Rest'
  <2>1. FillOnlyWhenEmpty'
    BY <1>16 DEF IInv, FillOnlyWhenEmpty, Success, Persist, Miss, Loading
  <2>2. UsedOK'
    BY <1>16 DEF IInv, UsedOK, Success, Persist, Miss, Loading
  <2>3. RowsOK'
    BY <1>16 DEF IInv, RowsOK, FillOnlyWhenEmpty, Unroutable, Expired, Row, Success, Persist, Miss, Loading
  <2>4. VerdictOK' /\ SnapOK'
    <3>1. PICK p \in used : LET v == [proxy |-> p, failures |-> 0, cooldown |-> 0]
                            IN  Persist(h, v) /\ verdict' = [verdict EXCEPT ![h] = v]
      BY <1>16 DEF Success
    <3>2. [proxy |-> p, failures |-> 0, cooldown |-> 0] \in Verdict
      BY DEF IInv, Verdict
    <3>3. QED
      BY <1>16, <3>1, <3>2, PersistStep DEF Success
  <2>5. SeenOK'
    BY <1>16 DEF IInv, SeenOK, UsedOK, Success, Persist, Miss, Loading
  <2>7. QED
    BY <2>1, <2>2, <2>3, <2>4, <2>5 DEF Rest
<1>17. ASSUME NEW h \in Probers, PatchNothing(h) PROVE Rest'
  <2>1. FillOnlyWhenEmpty'
    BY <1>17 DEF IInv, FillOnlyWhenEmpty, PatchNothing, Finish, Listed
  <2>2. UsedOK'
    BY <1>17 DEF IInv, UsedOK, PatchNothing, Finish, Listed
  <2>3. RowsOK'
    BY <1>17 DEF IInv, RowsOK, FillOnlyWhenEmpty, Unroutable, Expired, Row, PatchNothing, Finish, Listed
  <2>4. VerdictOK'
    BY <1>17 DEF IInv, VerdictOK, UsedOK, Health, Row, Verdict, PatchNothing, Finish, Listed
  <2>5. SeenOK'
    BY <1>17 DEF IInv, SeenOK, UsedOK, PatchNothing, Finish, Listed
  <2>6. SnapOK'
    BY <1>17 DEF IInv, SnapOK, ListedOK, Unroutable, SameProxy, Expired, Dirty, Carrying, Health, PatchNothing, Finish, Listed
  <2>7. QED
    BY <2>1, <2>2, <2>3, <2>4, <2>5, <2>6 DEF Rest
<1>18. ASSUME NEW h \in Probers, PatchLoad(h) PROVE Rest'
  <2>1. FillOnlyWhenEmpty'
    BY <1>18 DEF IInv, FillOnlyWhenEmpty, PatchLoad, Listed
  <2>2. UsedOK'
    BY <1>18 DEF IInv, UsedOK, PatchLoad, Listed
  <2>3. RowsOK'
    BY <1>18 DEF IInv, RowsOK, FillOnlyWhenEmpty, Unroutable, Expired, Row, PatchLoad, Listed
  <2>4. VerdictOK'
    BY <1>18 DEF IInv, VerdictOK, UsedOK, Health, Row, Verdict, PatchLoad, Listed
  <2>5. SeenOK'
    BY <1>18 DEF IInv, SeenOK, UsedOK, PatchLoad, Listed
  <2>6. SnapOK'
    BY <1>18 DEF IInv, SnapOK, ListedOK, Unroutable, SameProxy, Expired, Dirty, Carrying, Health, PatchLoad, Listed
  <2>7. QED
    BY <2>1, <2>2, <2>3, <2>4, <2>5, <2>6 DEF Rest
<1>19. ASSUME NEW h \in Probers, PatchSwap(h) PROVE Rest'
  <2>1. FillOnlyWhenEmpty'
    BY <1>19 DEF IInv, FillOnlyWhenEmpty, SeenOK, PatchSwap, Finish, SwapSucceeds
  <2>2. UsedOK'
    BY <1>19 DEF IInv, UsedOK, PatchSwap, Finish, SwapSucceeds
  <2>3. RowsOK'
    BY <1>19 DEF IInv, RowsOK, FillOnlyWhenEmpty, Unroutable, Expired, Row, PatchSwap, Finish, SwapSucceeds
  <2>4. VerdictOK'
    BY <1>19 DEF IInv, VerdictOK, UsedOK, Health, Row, Verdict, PatchSwap, Finish, SwapSucceeds
  <2>5. SeenOK'
    BY <1>19 DEF IInv, SeenOK, UsedOK, PatchSwap, Finish, SwapSucceeds
  <2>6. SnapOK'
    <3> SUFFICES ASSUME snap' # NoSnapshot, NEW p \in Proxies, p \notin racy', ~Dirty(p)'
                 PROVE  IF snap'[p] # NoRow THEN ListedOK(p)' ELSE p \in skipped' \/ Unroutable(p)'
      BY DEF SnapOK
    <3>1. IF snap[p] # NoRow THEN ListedOK(p) ELSE p \in skipped \/ Unroutable(p)
      BY <1>19 DEF IInv, SnapOK, SeenOK, Dirty, PatchSwap, Finish, SwapSucceeds
    <3>2. snap = seen[h] /\ snap \in Snapshot /\ verdict[h] \in Verdict /\ verdict[h].proxy \in Proxies
      BY <1>19 DEF IInv, SeenOK, UsedOK, PatchSwap, SwapSucceeds
    <3>3. CASE p = verdict[h].proxy
      <4>1. h \notin late /\ snap[p] \in RoutedRow
        BY <1>19, <3>2, <3>3 DEF IInv, SeenOK, PatchSwap, Snapshot
      <4>2. snap'[p] = [snap[p] EXCEPT !.failures = verdict[h].failures, !.cooldown = verdict[h].cooldown]
        BY <1>19, <3>2, <3>3 DEF PatchSwap, Snapshot
      <4>3. /\ snap'[p] \in RoutedRow /\ Health(snap'[p]) = Health(verdict[h])
            /\ snap'[p].enabled = snap[p].enabled /\ snap'[p].expires = snap[p].expires
        BY <3>2, <4>1, <4>2 DEF RoutedRow, Verdict, Health
      <4>4. db[p] = NoRow \/ Health(db[p]) = Health(verdict[h])
        BY <1>19, <3>3, <4>1 DEF IInv, VerdictOK, PatchSwap
      <4>5. snap[p] # NoRow /\ snap'[p] # NoRow
        BY <1>19, <3>2, <3>3, <4>3 DEF IInv, SeenOK, PatchSwap, Row, RoutedRow
      <4>6. QED
        BY <1>19, <3>1, <4>3, <4>4, <4>5 DEF ListedOK, SameProxy, Expired, Health, PatchSwap
    <3>4. CASE p # verdict[h].proxy
      <4>1. snap'[p] = snap[p]
        BY <1>19, <3>2, <3>4 DEF PatchSwap, Snapshot
      <4>2. \A g \in Probers : g # h => pc'[g] = pc[g] /\ verdict'[g] = verdict[g] /\ (g \in late' <=> g \in late)
        BY <1>19 DEF PatchSwap, Finish
      <4>3. db' = db /\ skipped' = skipped /\ now' = now
        BY <1>19 DEF PatchSwap
      <4>4. Unroutable(p)' <=> Unroutable(p)
        BY <4>3 DEF Unroutable, Expired
      <4>5. snap[p] # NoRow /\ ListedOK(p) => ListedOK(p)'
        BY <3>4, <4>1, <4>2, <4>3 DEF ListedOK, SameProxy, Expired, Health
      <4>6. QED
        BY <3>1, <4>1, <4>3, <4>4, <4>5
    <3>5. QED
      BY <3>3, <3>4
  <2>7. QED
    BY <2>1, <2>2, <2>3, <2>4, <2>5, <2>6 DEF Rest
<1>20. ASSUME NEW h \in Probers, PatchRetry(h) PROVE Rest'
  <2>1. FillOnlyWhenEmpty'
    BY <1>20 DEF IInv, FillOnlyWhenEmpty, PatchRetry, SwapSucceeds
  <2>2. UsedOK'
    BY <1>20 DEF IInv, UsedOK, PatchRetry, SwapSucceeds
  <2>3. RowsOK'
    BY <1>20 DEF IInv, RowsOK, FillOnlyWhenEmpty, Unroutable, Expired, Row, PatchRetry, SwapSucceeds
  <2>4. VerdictOK'
    BY <1>20 DEF IInv, VerdictOK, UsedOK, Health, Row, Verdict, PatchRetry, SwapSucceeds
  <2>5. SeenOK'
    BY <1>20 DEF IInv, SeenOK, UsedOK, PatchRetry, SwapSucceeds
  <2>6. SnapOK'
    BY <1>20 DEF IInv, SnapOK, ListedOK, Unroutable, SameProxy, Expired, Dirty, Carrying, Health, PatchRetry, SwapSucceeds
  <2>7. QED
    BY <2>1, <2>2, <2>3, <2>4, <2>5, <2>6 DEF Rest
<1>21. ASSUME NEW h \in Probers, TestExpired(h) PROVE Rest'
  <2>1. FillOnlyWhenEmpty'
    BY <1>21 DEF IInv, FillOnlyWhenEmpty, TestExpired, Without, Miss, Loading, ExpiredRows
  <2>2. UsedOK'
    BY <1>21 DEF IInv, UsedOK, TestExpired, Without, Miss, Loading, ExpiredRows
  <2>3. RowsOK'
    BY <1>21 DEF IInv, RowsOK, FillOnlyWhenEmpty, Unroutable, Expired, Row, TestExpired, Without, Miss, Loading, ExpiredRows
  <2>4. VerdictOK'
    BY <1>21 DEF IInv, VerdictOK, UsedOK, Health, Row, Verdict, TestExpired, Without, Miss, Loading, ExpiredRows
  <2>5. SeenOK'
    BY <1>21 DEF IInv, SeenOK, UsedOK, TestExpired, Without, Miss, Loading, ExpiredRows
  <2>6. SnapOK'
    BY <1>21 DEF IInv, SnapOK, ListedOK, Unroutable, SameProxy, Expired, Dirty, Carrying, Health, TestExpired, Without, Miss, Loading, ExpiredRows
  <2>7. QED
    BY <2>1, <2>2, <2>3, <2>4, <2>5, <2>6 DEF Rest
<1>22. ASSUME Tick PROVE Rest'
  <2>1. FillOnlyWhenEmpty'
    BY <1>22 DEF IInv, FillOnlyWhenEmpty, Tick
  <2>2. UsedOK'
    BY <1>22 DEF IInv, UsedOK, Tick
  <2>3. RowsOK'
    BY <1>22 DEF IInv, RowsOK, FillOnlyWhenEmpty, Unroutable, Expired, Row, Tick
  <2>4. VerdictOK'
    BY <1>22 DEF IInv, VerdictOK, UsedOK, Health, Row, Verdict, Tick
  <2>5. SeenOK'
    BY <1>22 DEF IInv, SeenOK, UsedOK, Tick
  <2>6. SnapOK'
    <3> SUFFICES ASSUME snap' # NoSnapshot, NEW p \in Proxies, p \notin racy', ~Dirty(p)'
                 PROVE  IF snap'[p] # NoRow THEN ListedOK(p)' ELSE p \in skipped' \/ Unroutable(p)'
      BY DEF SnapOK
    <3>1. IF snap[p] # NoRow THEN ListedOK(p) ELSE p \in skipped \/ Unroutable(p)
      BY <1>22 DEF IInv, SnapOK, Dirty, Tick
    <3>2. snap[p] # NoRow => (Expired(snap[p]) => Expired(snap[p])')
      <4>1. snap \in Snapshot /\ now \in Nat /\ now' = now + 1 /\ snap' = snap
        BY <1>22 DEF IInv, Tick
      <4>2. snap[p] # NoRow => snap[p].expires \in Nat
        BY <4>1 DEF Snapshot, RoutedRow
      <4>3. QED
        BY <4>1, <4>2 DEF Expired
    <3>3. db[p] # NoRow => (Expired(db[p]) => Expired(db[p])')
      BY <1>22 DEF IInv, Expired, Tick, Row
    <3>4. QED
      BY <1>22, <3>1, <3>2, <3>3 DEF ListedOK, SameProxy, Unroutable, Health, Tick
  <2>7. QED
    BY <2>1, <2>2, <2>3, <2>4, <2>5, <2>6 DEF Rest
<1>23. ASSUME UNCHANGED vars PROVE Rest'
  <2>1. FillOnlyWhenEmpty'
    BY <1>23 DEF IInv, FillOnlyWhenEmpty, vars
  <2>2. UsedOK'
    BY <1>23 DEF IInv, UsedOK, vars
  <2>3. RowsOK'
    BY <1>23 DEF IInv, RowsOK, FillOnlyWhenEmpty, Unroutable, Expired, Row, vars
  <2>4. VerdictOK'
    BY <1>23 DEF IInv, VerdictOK, UsedOK, Health, Row, Verdict, vars
  <2>5. SeenOK'
    BY <1>23 DEF IInv, SeenOK, UsedOK, vars
  <2>6. SnapOK'
    BY <1>23 DEF IInv, SnapOK, ListedOK, Unroutable, SameProxy, Expired, Dirty, Carrying, Health, vars
  <2>7. QED
    BY <2>1, <2>2, <2>3, <2>4, <2>5, <2>6 DEF Rest
<1>24. QED
  BY <1>1, <1>2, <1>3, <1>4, <1>5, <1>6, <1>7, <1>8, <1>9, <1>10, <1>11, <1>12, <1>13, <1>14, <1>15, <1>16, <1>17, <1>18, <1>19, <1>20, <1>21, <1>22, <1>23 DEF Next, RequestStep

\* The invariant holds at the start.
LEMMA InvInit == Init => IInv
<1> SUFFICES ASSUME Init PROVE IInv
  OBVIOUS
<1>1. TypeOK
  BY TypeInit
<1>2. Rest
  BY PoolAssumption DEF Init, Rest, Threads, FillOnlyWhenEmpty, UsedOK, RowsOK, VerdictOK, SeenOK, SnapOK
<1>3. QED
  BY <1>1, <1>2 DEF IInv, Rest

\* The invariant holds in every reachable state.
LEMMA Invariance == Spec => []IInv
<1>1. IInv /\ [Next]_vars => IInv'
  <2> SUFFICES ASSUME IInv, [Next]_vars PROVE IInv'
    OBVIOUS
  <2>1. TypeOK'
    BY TypeStep DEF IInv
  <2>2. Rest'
    BY InvStep
  <2>3. QED
    BY <2>1, <2>2 DEF IInv, Rest
<1>2. QED
  BY InvInit, <1>1, PTL DEF Spec

----------------------------------------------------------------------------
\* Every variable keeps its type; in particular no disabled row is ever stored
\* in the snapshot that requests are routed by.
THEOREM PoolTypes == Spec => []TypeOK
<1>1. IInv => TypeOK
  BY DEF IInv
<1>2. QED
  BY Invariance, <1>1, PTL

\* available() loads only when there is no snapshot, one request at a time.
THEOREM PoolFillsOnce == Spec => []FillOnlyWhenEmpty
<1>1. IInv => FillOnlyWhenEmpty
  BY DEF IInv
<1>2. QED
  BY Invariance, <1>1, PTL

\* Whatever the number of requests, handlers and probers, a request is routed
\* by what the table says, unless one of the two races was lost for that proxy.
THEOREM PoolRoutesCurrent == Spec => []RoutedIsCurrent
<1>1. IInv => RoutedIsCurrent
  <2> SUFFICES ASSUME IInv, NEW p \in Usable, p \notin racy, ~Unpublished(p)
               PROVE  db[p] = snap[p]
    BY DEF RoutedIsCurrent
  <2>1. p \in Proxies /\ snap # NoSnapshot /\ snap[p] # NoRow /\ ~Expired(snap[p])
    BY DEF Usable, Listed
  <2>2. ListedOK(p)
    BY <2>1 DEF IInv, SnapOK, Unpublished, Dirty
  <2>3. db[p] # NoRow /\ SameProxy(p, snap[p]) /\ Health(db[p]) = Health(snap[p])
    BY <2>1, <2>2 DEF ListedOK, Unpublished, Carrying
  <2>4. db[p] \in Row /\ snap[p] \in RoutedRow
    BY <2>1, <2>3 DEF IInv, TypeOK, Snapshot
  <2>5. /\ db[p].enabled = snap[p].enabled /\ db[p].expires = snap[p].expires
        /\ db[p].failures = snap[p].failures /\ db[p].cooldown = snap[p].cooldown
    BY <2>3 DEF SameProxy, Health
  <2>6. snap[p] \in Row
    BY <2>4 DEF Row, RoutedRow
  <2>7. QED
    BY <2>4, <2>5, <2>6 DEF Row
<1>2. QED
  BY Invariance, <1>1, PTL

\* Conversely no routable proxy is withheld, unless it was cooling when the
\* snapshot was loaded or a race was lost for it.
THEOREM PoolRoutesUsable == Spec => []UsableIsRouted
<1>1. IInv => UsableIsRouted
  <2> SUFFICES ASSUME IInv, NEW p \in Proxies, snap # NoSnapshot, Loadable(p),
                      p \notin racy \cup skipped, ~Unpublished(p)
               PROVE  p \in Usable
    BY DEF UsableIsRouted
  <2>1. ~Unroutable(p)
    BY DEF Loadable, Unroutable
  <2>2. snap[p] # NoRow /\ ListedOK(p)
    BY <2>1 DEF IInv, SnapOK, Unpublished, Dirty
  <2>3. SameProxy(p, snap[p]) /\ Health(db[p]) = Health(snap[p])
    BY <2>1, <2>2 DEF ListedOK, Unroutable, Unpublished, Carrying
  <2>4. QED
    BY <2>2, <2>3 DEF Usable, Listed, Loadable, SameProxy, Health, Expired, Cooling
<1>2. QED
  BY Invariance, <1>1, PTL

\* A health patch never brings back a snapshot that was invalidated under it.
THEOREM PoolPublication == Spec => OnlyLoadersPublish
<1>1. IInv /\ [Next]_vars => [snap = NoSnapshot /\ snap' # NoSnapshot =>
                                \E r \in Requests : LoadStore(r)]_vars
  <2> SUFFICES ASSUME IInv, Next, snap = NoSnapshot, snap' # NoSnapshot
               PROVE  \E r \in Requests : LoadStore(r)
    OBVIOUS
  <2>1. ASSUME NEW h \in Probers, PatchSwap(h) PROVE FALSE
    BY <2>1 DEF IInv, SeenOK, PatchSwap, SwapSucceeds
  <2>2. QED
    BY <2>1 DEF Next, RequestStep, LoadNil, LockHit, LockMiss, LoadPurge, LoadSelect, LoadError,
       Insert, SetEnabled, Delete, Janitor, Changed, Invalidate, Invalidated, FailRead, FailWrite,
       FailError, Success, Persist, PatchNothing, PatchLoad, PatchRetry, TestExpired, Tick
<1>2. QED
  BY Invariance, <1>1, PTL DEF Spec, OnlyLoadersPublish
=============================================================================
