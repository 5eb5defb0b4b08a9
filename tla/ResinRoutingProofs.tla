------------------------- MODULE ResinRoutingProofs -------------------------
(***************************************************************************)
(* The safety of Resin routing, for any requests, limits, attempts,         *)
(* generations and faults. The routing lock is left out of two steps, those *)
(* of the janitor and of time; what a request has read of the row is either *)
(* still there or the row is gone. The generations a request has used lie   *)
(* behind the one it is given next, unless its row was deleted.             *)
(***************************************************************************)
EXTENDS ResinRouting, TLAPS

Place == {"idle", "route", "limit", "write", "pick", "sent", "advance", "deliver", "done"}

Req ==
  [pc : Place, owner : Requests \cup {Session}, scoring : BOOLEAN, gen : Gens,
   attempt : 0..(MaxAttempts - 1), row : Rows \cup {NoRow}, limit : Limit \cup {NoLimit},
   fresh : Account, account : Account, used : SUBSET Account, valid : SUBSET Limit,
   turn : Nat, kept : BOOLEAN, lost : BOOLEAN]

TypedOK(r, x) ==
  /\ x \in Req /\ x.owner \in {Session, r}
  /\ x.pc = "idle" => x.used = {}
  /\ x.pc \in {"sent", "advance", "deliver"} => x.account \in x.used
  /\ x.pc = "pick" => x.fresh[1] = x.owner

\* What the holder of the lock has read of the row w, and that it is told of
\* every limit, be it set (s) or cached (c).
HoldOK(x, w) == x.pc \in {"limit", "write"} =>
                  x.owner = Session /\ (x.row = w \/ (x.lost /\ w = NoRow))
TellOK(x, s, c) == /\ x.pc \in {"limit", "write"} =>
                        s \in x.valid /\ (c # NoLimit => c \in x.valid)
                   /\ x.pc = "write" => x.limit \in x.valid

TurnOK(x) == /\ x.pc = "pick" /\ x.turn > 0 => \E l \in x.valid : l = 0 \/ x.turn <= l
             /\ x.pc # "pick" => x.turn = 0

\* The generations of owner o in the accounts A are at most g, or less.
UpTo(A, o, g) == \A h \in Gens : <<o, h>> \in A => h <= g
Below(A, o, g) == \A h \in Gens : <<o, h>> \in A => h < g

\* A request r without a session counts its own generations.
OwnOK(r, x) == x.owner = r /\ x.pc \notin {"idle", "done"} =>
  /\ UpTo(x.used, r, x.gen)
  /\ x.pc \in {"route", "pick"} /\ ~x.kept => Below(x.used, r, x.gen)
  /\ x.pc = "pick" => x.fresh = <<r, x.gen>>

\* One with a session is given those of the row w, while that is not deleted.
SessionOK(x, w) == x.owner = Session /\ ~x.lost =>
  /\ x.used # {} \/ x.pc \in {"pick", "sent", "advance", "deliver"} => w # NoRow
  /\ w # NoRow =>
       /\ UpTo(x.used, Session, w.gen)
       /\ x.pc \in {"route", "limit", "write"} /\ ~x.kept => Below(x.used, Session, w.gen)
       /\ x.pc = "pick" =>
            /\ x.fresh \in {Session} \X (0..w.gen)
            /\ ~x.kept => Below(x.used, Session, x.fresh[2])

\* An account of a request s, which is y now, is earned by it alone.
EarnedOK(A, s, y) == y.pc # "done" => /\ y.pc = "idle" => \A h \in Gens : <<s, h>> \notin A
                                      /\ UpTo(A, s, y.gen)

\* The row counts what was served.
CountOK ==
  IF row = NoRow THEN \A g \in Gens : served[g] = 0
  ELSE served[row.gen] = row.count /\ \A g \in Gens : g > row.gen => served[g] = 0

RequestOK(r, x, w, s, c) ==
  TypedOK(r, x) /\ HoldOK(x, w) /\ TellOK(x, s, c) /\ TurnOK(x) /\ OwnOK(r, x) /\ SessionOK(x, w)

Requesting == q \in [Requests -> Req]
              /\ \A r \in Requests : RequestOK(r, q[r], row, setting, cached)

StoreOK ==
  /\ row \in Rows \cup {NoRow} /\ lock \in Requests \cup {Nobody}
  /\ setting \in Limit /\ cached \in Limit \cup {NoLimit} /\ put \in BOOLEAN
  /\ good \subseteq Account /\ valid \subseteq Limit
  /\ served \in [Gens -> Nat]
  /\ puts \in 0..MaxPuts /\ faults \in 0..MaxFaults
  /\ setting \in valid /\ (cached # NoLimit => cached \in valid)

\* The lock is held over the two statements.
Holding(x) == x.owner = Session /\ x.pc \in {"limit", "write"}
LockOK == \A r \in Requests : lock = r <=> Holding(q[r])

Earned ==
  \A s \in Requests : EarnedOK(good, s, q[s]) /\ \A r \in Requests : EarnedOK(q[r].used, s, q[s])

IInv == StoreOK /\ CountOK /\ LockOK /\ Requesting /\ Earned

----------------------------------------------------------------------------
(* Frames. *)

LEMMA Numbers ==
  /\ 0 \in Gens /\ Gens \subseteq Nat /\ Limit \subseteq Nat /\ NoLimit \notin Limit
  /\ NoRow \notin Rows /\ 0 \in 0..(MaxAttempts - 1) /\ Session \notin Requests
<1>1. Gens \subseteq Nat /\ 0 \in Gens
  BY ResinAssumption DEF Gens
<1>2. Rows \subseteq [gen : Nat, count : Nat, old : BOOLEAN]
  BY <1>1 DEF Rows
<1>3. NoRow \notin Rows
  BY <1>2, ResinAssumption
<1>4. 0 \in 0..(MaxAttempts - 1)
  BY ResinAssumption
<1>5. Limit \subseteq Nat /\ NoLimit \notin Limit
  BY ResinAssumption DEF Limit
<1> QED
  BY <1>1, <1>3, <1>4, <1>5, ResinAssumption

\* The row goes on: from w to v.
Onward(w, v) == v \in Rows /\ (w # NoRow => v.gen >= w.gen)

\* A request that does not hold the lock does not mind if the row goes on.
LEMMA RowGoesOn ==
  ASSUME NEW w \in Rows \cup {NoRow}, NEW v, Onward(w, v), NEW r, NEW x, NEW s, NEW c,
         RequestOK(r, x, w, s, c), x.pc \notin {"limit", "write"}
  PROVE  RequestOK(r, x, v, s, c)
<1>1. v \in Rows /\ v # NoRow /\ (w # NoRow => v.gen >= w.gen) /\ v.gen \in Nat
      /\ (w # NoRow => w.gen \in Nat)
  BY Numbers DEF Onward, Rows
<1>2. HoldOK(x, v)
  BY DEF HoldOK
<1>3. SessionOK(x, v)
  <2> SUFFICES ASSUME x.owner = Session, ~x.lost PROVE SessionOK(x, v)
    BY DEF SessionOK
  <2>0. x \in Req
    BY DEF RequestOK, TypedOK
  <2>1. CASE w = NoRow
    <3>1. x.used = {} /\ x.pc \notin {"pick", "sent", "advance", "deliver"}
      BY <2>1 DEF RequestOK, SessionOK
    <3> QED
      BY <1>1, <3>1 DEF SessionOK, UpTo, Below
  <2>2. CASE w # NoRow
    <3>1. \A h \in Gens : h \in Nat
      BY Numbers
    <3>2. UpTo(x.used, Session, v.gen)
      BY <1>1, <2>2, <3>1 DEF RequestOK, SessionOK, UpTo
    <3>3. x.pc \in {"route", "limit", "write"} /\ ~x.kept => Below(x.used, Session, v.gen)
      BY <1>1, <2>2, <3>1 DEF RequestOK, SessionOK, Below
    <3>4. x.pc = "pick" => /\ x.fresh \in {Session} \X (0..v.gen)
                           /\ ~x.kept => Below(x.used, Session, x.fresh[2])
      <4>1. 0..w.gen \subseteq 0..v.gen
        BY <1>1, <2>2
      <4> QED
        BY <2>2, <4>1 DEF RequestOK, SessionOK
    <3> QED
      BY <1>1, <3>2, <3>3, <3>4 DEF SessionOK
  <2> QED
    BY <2>1, <2>2
<1> QED
  BY <1>2, <1>3 DEF RequestOK

\* Request r becomes y: what is left to show is about y and the stores.
LEMMA OneStep ==
  ASSUME IInv, NEW r \in Requests, NEW y, q' = [q EXCEPT ![r] = y],
         StoreOK', CountOK', RequestOK(r, y, row', setting', cached'),
         \A s \in Requests : lock' = s <=> IF s = r THEN Holding(y) ELSE lock = s,
         \/ row' = row
         \/ Onward(row, row') /\ \A s \in Requests \ {r} : lock # s,
         setting' = setting, cached' \in {cached, setting},
         y.pc # "idle", y.pc # "done" => q[r].pc # "done" /\ y.gen >= q[r].gen,
         \A a \in y.used : a \in q[r].used \cup good \/ a[1] = Session \/ a = <<r, y.gen>>,
         good' \subseteq good \cup q[r].used
  PROVE  IInv'
<1>0. q' \in [Requests -> Req] /\ q'[r] = y /\ \A s \in Requests \ {r} : q'[s] = q[s]
  BY DEF IInv, Requesting, RequestOK, TypedOK
<1>1. LockOK'
  BY <1>0 DEF IInv, LockOK
<1>2. ASSUME NEW s \in Requests \ {r} PROVE RequestOK(s, q[s], row', setting', cached')
  <2>1. RequestOK(s, q[s], row, setting, cached) /\ row \in Rows \cup {NoRow}
    BY DEF IInv, Requesting, StoreOK
  <2>2. RequestOK(s, q[s], row, setting', cached')
    BY <2>1 DEF RequestOK, TellOK
  <2>3. CASE row' = row
    BY <2>2, <2>3
  <2>4. CASE Onward(row, row') /\ lock # s
    <3>1. q[s].pc \notin {"limit", "write"}
      BY <2>1, <2>4 DEF IInv, LockOK, Holding, RequestOK, HoldOK
    <3> QED
      BY <2>1, <2>2, <2>4, <3>1, RowGoesOn
  <2> QED
    BY <2>3, <2>4
<1>3. Requesting'
  BY <1>0, <1>2 DEF Requesting
<1>4. Earned'
  <2>0. \A s \in Requests, h \in Gens : <<s, h>>[1] # Session /\ h \in Nat
    BY Numbers
  <2>1. ASSUME NEW A, A = good' \/ A = y.used \/ \E t \in Requests : A = q[t].used,
               NEW s \in Requests \ {r}
        PROVE  EarnedOK(A, s, q[s])
    <3>1. EarnedOK(good, s, q[s]) /\ \A t \in Requests : EarnedOK(q[t].used, s, q[s])
      BY DEF IInv, Earned
    <3>2. \A h \in Gens : <<s, h>> \in A => \/ <<s, h>> \in good
                                            \/ \E t \in Requests : <<s, h>> \in q[t].used
      BY <2>0, <2>1
    <3> QED
      BY <3>1, <3>2 DEF EarnedOK, UpTo
  <2>2. ASSUME NEW A, A = good' \/ A = y.used \/ \E t \in Requests : A = q[t].used
        PROVE  EarnedOK(A, r, y)
    <3>1. EarnedOK(good, r, q[r]) /\ \A t \in Requests : EarnedOK(q[t].used, r, q[r])
      BY DEF IInv, Earned
    <3>2. \A h \in Gens : <<r, h>> \in A => \/ <<r, h>> \in good
                                            \/ \E t \in Requests : <<r, h>> \in q[t].used
                                            \/ h = y.gen
      BY <2>0, <2>2
    <3>3. y.gen \in Nat /\ q[r].gen \in Nat
      BY Numbers DEF IInv, Requesting, RequestOK, TypedOK, Req
    <3>4. ASSUME y.pc # "done" PROVE UpTo(A, r, y.gen)
      <4>1. q[r].pc # "done" /\ y.gen >= q[r].gen
        BY <3>4
      <4>2. \A h \in Gens : <<r, h>> \in A => h <= q[r].gen \/ h = y.gen
        BY <3>1, <3>2, <4>1 DEF EarnedOK, UpTo
      <4> QED
        BY <2>0, <3>3, <4>1, <4>2 DEF UpTo
    <3> QED
      BY <3>4 DEF EarnedOK
  <2> QED
    BY <1>0, <2>1, <2>2 DEF Earned
<1> QED
  BY <1>1, <1>3, <1>4 DEF IInv

----------------------------------------------------------------------------
(* The steps of a request. *)

LEMMA Known ==
  ASSUME IInv, NEW r \in Requests
  PROVE  /\ StoreOK /\ CountOK /\ q[r] \in Req /\ RequestOK(r, q[r], row, setting, cached)
         /\ (lock = r <=> Holding(q[r])) /\ q[r].owner \in {Session, r}
         /\ \A s \in Requests : EarnedOK(good, s, q[s])
BY DEF IInv, Requesting, LockOK, RequestOK, TypedOK, Earned

\* A request that is done holds nothing and has used nothing.
Over(r) == [NewRequest(r) EXCEPT !.pc = "done"]

LEMMA OverOK ==
  ASSUME NEW r \in Requests, NEW w, NEW s, NEW c
  PROVE  /\ RequestOK(r, Over(r), w, s, c) /\ ~Holding(Over(r)) /\ Over(r).used = {}
         /\ Over(r).pc = "done"
<1> DEFINE y == Over(r)
<1>1. <<r, 0>> \in Account
  BY Numbers DEF Account
<1>2. NewRequest(r) \in Req
  BY <1>1, Numbers DEF Req, Place, NewRequest
<1>3. y \in Req
  BY <1>2, Zenon DEF Req, Place, Over
<1>4. y.pc = "done" /\ y.owner = r /\ y.used = {} /\ y.turn = 0
  BY DEF Over, NewRequest
<1> HIDE DEF y
<1>5. RequestOK(r, y, w, s, c)
  BY <1>3, <1>4, Numbers DEF RequestOK, TypedOK, HoldOK, TellOK, TurnOK, OwnOK, SessionOK
<1> QED
  BY <1>4, <1>5, Numbers DEF y, Holding

LEMMA EndStep ==
  ASSUME IInv, NEW r \in Requests, Ends(r), StoreOK', CountOK', row' = row,
         (lock' = lock /\ lock # r) \/ (lock = r /\ lock' = Nobody),
         setting' = setting, cached' = cached, good' \subseteq good \cup q[r].used
  PROVE  IInv'
<1>1. q' = [q EXCEPT ![r] = Over(r)]
  BY DEF Ends, Over
<1>2. RequestOK(r, Over(r), row', setting', cached') /\ ~Holding(Over(r)) /\ Over(r).used = {}
      /\ Over(r).pc = "done"
  BY OverOK
<1>3. \A t \in Requests : lock' = t <=> IF t = r THEN Holding(Over(r)) ELSE lock = t
  BY <1>2, ResinAssumption
<1> QED
  BY <1>1, <1>2, <1>3, OneStep

LEMMA SameStores ==
  ASSUME StoreOK, CountOK, UNCHANGED <<row, limits, served, valid>>, lock' \in Requests \cup {Nobody},
         good' \subseteq Account, puts' \in 0..MaxPuts, faults' \in 0..MaxFaults
  PROVE  StoreOK' /\ CountOK'
BY DEF StoreOK, CountOK, limits

\* A request comes, for the session or for none.
LEMMA BeginStep ==
  ASSUME IInv, NEW r \in Requests, Begin(r)
  PROVE  IInv'
<1> DEFINE x == q[r]
<1>1. /\ StoreOK /\ CountOK /\ x \in Req /\ RequestOK(r, x, row, setting, cached)
      /\ (lock = r <=> Holding(x)) /\ x.owner \in {Session, r}
      /\ \A u \in Requests : EarnedOK(good, u, q[u])
  BY Known
<1>2. PICK o \in {Session, r}, b \in BOOLEAN :
        /\ x.pc = "idle" /\ q' = [q EXCEPT ![r] = [x EXCEPT !.pc = "route", !.owner = o, !.scoring = b]]
        /\ UNCHANGED <<row, lock, limits, good, bounds, served, valid>>
  BY DEF Begin, At, Becomes
<1> DEFINE y == [x EXCEPT !.pc = "route", !.owner = o, !.scoring = b]
<1>3. y \in Req
  BY <1>1, <1>2, Zenon DEF Req, Place
<1>4. /\ y.pc = "route" /\ y.owner = o /\ y.scoring = b
      /\ y.gen = x.gen /\ y.attempt = x.attempt /\ y.row = x.row
      /\ y.limit = x.limit /\ y.fresh = x.fresh /\ y.account = x.account
      /\ y.used = x.used /\ y.valid = x.valid /\ y.turn = x.turn
      /\ y.kept = x.kept /\ y.lost = x.lost
  BY <1>1 DEF Req
<1> HIDE DEF y
<1>5. StoreOK' /\ CountOK'
  BY <1>1, <1>2, SameStores DEF StoreOK, bounds, limits
<1>6. TypedOK(r, y) /\ HoldOK(y, row') /\ TellOK(y, setting', cached') /\ TurnOK(y)
  BY <1>1, <1>2, <1>3, <1>4, Numbers DEF RequestOK, TypedOK, HoldOK, TellOK, TurnOK, limits
<1>7. OwnOK(r, y)
  BY <1>1, <1>2, <1>4, Numbers DEF RequestOK, OwnOK, TypedOK, HoldOK, UpTo, Below, limits
<1>8. SessionOK(y, row')
  BY <1>1, <1>2, <1>4, Numbers DEF RequestOK, SessionOK, TypedOK, UpTo, Below, limits
<1>9. RequestOK(r, y, row', setting', cached')
  BY <1>6, <1>7, <1>8 DEF RequestOK
<1>10. \A u \in Requests : lock' = u <=> IF u = r THEN Holding(y) ELSE lock = u
  BY <1>1, <1>2, <1>4, ResinAssumption DEF Holding
<1>11. \A e \in y.used : e \in q[r].used \cup good \/ e[1] = Session \/ e = <<r, y.gen>>
  BY <1>1, <1>2, <1>4
<1>12. y.gen >= x.gen
  <2>1. x.gen \in Gens /\ y.gen = x.gen
    BY <1>1, <1>4 DEF Req
  <2>2. x.gen \in Nat
    BY <2>1, Numbers
  <2> QED
    BY <2>1, <2>2
<1>13. q' = [q EXCEPT ![r] = y] /\ y.pc # "idle" /\ (y.pc # "done" => x.pc # "done")
  BY <1>2, <1>4 DEF y
<1> QED
  BY <1>13, <1>1, <1>2, <1>4, <1>5, <1>9, <1>10, <1>11, <1>12, OneStep DEF limits

\* A request without a session goes by its own generation.
LEMMA OwnStep ==
  ASSUME IInv, NEW r \in Requests, OwnAccount(r)
  PROVE  IInv'
<1> DEFINE x == q[r]
<1>1. /\ StoreOK /\ CountOK /\ x \in Req /\ RequestOK(r, x, row, setting, cached)
      /\ (lock = r <=> Holding(x)) /\ x.owner \in {Session, r}
      /\ \A u \in Requests : EarnedOK(good, u, q[u])
  BY Known
<1>2. /\ x.pc = "route" /\ x.owner = r /\ q' = [q EXCEPT ![r] = [x EXCEPT !.pc = "pick", !.fresh = <<r, x.gen>>]]
      /\ UNCHANGED <<row, lock, limits, good, bounds, served, valid>>
  BY <1>1 DEF OwnAccount, At, Becomes, Sticky
<1>b. <<r, x.gen>> \in Account
  BY <1>1 DEF Req, Account
<1> DEFINE y == [x EXCEPT !.pc = "pick", !.fresh = <<r, x.gen>>]
<1>3. y \in Req
  BY <1>1, <1>2, <1>b, Zenon DEF Req, Place
<1>4. /\ y.pc = "pick" /\ y.owner = x.owner /\ y.scoring = x.scoring
      /\ y.gen = x.gen /\ y.attempt = x.attempt /\ y.row = x.row
      /\ y.limit = x.limit /\ y.fresh = <<r, x.gen>> /\ y.account = x.account
      /\ y.used = x.used /\ y.valid = x.valid /\ y.turn = x.turn
      /\ y.kept = x.kept /\ y.lost = x.lost
  BY <1>1 DEF Req
<1> HIDE DEF y
<1>5. StoreOK' /\ CountOK'
  BY <1>1, <1>2, SameStores DEF StoreOK, bounds, limits
<1>6. TypedOK(r, y) /\ HoldOK(y, row') /\ TellOK(y, setting', cached') /\ TurnOK(y)
  BY <1>1, <1>2, <1>3, <1>4, Numbers DEF RequestOK, TypedOK, HoldOK, TellOK, TurnOK, limits
<1>7. OwnOK(r, y)
  BY <1>1, <1>2, <1>4, Numbers DEF RequestOK, OwnOK, TypedOK, HoldOK, UpTo, Below, limits
<1>8. SessionOK(y, row')
  BY <1>1, <1>2, <1>4, Numbers DEF RequestOK, SessionOK, TypedOK, UpTo, Below, limits
<1>9. RequestOK(r, y, row', setting', cached')
  BY <1>6, <1>7, <1>8 DEF RequestOK
<1>10. \A u \in Requests : lock' = u <=> IF u = r THEN Holding(y) ELSE lock = u
  BY <1>1, <1>2, <1>4, ResinAssumption DEF Holding
<1>11. \A e \in y.used : e \in q[r].used \cup good \/ e[1] = Session \/ e = <<r, y.gen>>
  BY <1>1, <1>2, <1>4
<1>12. y.gen >= x.gen
  <2>1. x.gen \in Gens /\ y.gen = x.gen
    BY <1>1, <1>4 DEF Req
  <2>2. x.gen \in Nat
    BY <2>1, Numbers
  <2> QED
    BY <2>1, <2>2
<1>13. q' = [q EXCEPT ![r] = y] /\ y.pc # "idle" /\ (y.pc # "done" => x.pc # "done")
  BY <1>2, <1>4 DEF y
<1> QED
  BY <1>13, <1>1, <1>2, <1>4, <1>5, <1>9, <1>10, <1>11, <1>12, OneStep DEF limits

\* The lock is taken and the row is read.
LEMMA TakeStep ==
  ASSUME IInv, NEW r \in Requests, Free, At(r, "route"), Sticky(r), Takes(r),
         Becomes(r, [q[r] EXCEPT !.pc = "limit", !.row = row, !.valid = valid]),
         UNCHANGED <<row, limits, good, bounds, served, valid>>
  PROVE  IInv'
<1> DEFINE x == q[r]
<1>1. /\ StoreOK /\ CountOK /\ x \in Req /\ RequestOK(r, x, row, setting, cached)
      /\ (lock = r <=> Holding(x)) /\ x.owner \in {Session, r}
      /\ \A u \in Requests : EarnedOK(good, u, q[u])
  BY Known
<1>2. /\ x.pc = "route" /\ x.owner = Session /\ lock = Nobody /\ lock' = r
      /\ q' = [q EXCEPT ![r] = [x EXCEPT !.pc = "limit", !.row = row, !.valid = valid]]
      /\ UNCHANGED <<row, limits, good, bounds, served, valid>>
  BY DEF Free, At, Sticky, Takes, Becomes
<1>b. row \in Rows \cup {NoRow} /\ valid \in SUBSET Limit
  BY <1>1 DEF StoreOK
<1> DEFINE y == [x EXCEPT !.pc = "limit", !.row = row, !.valid = valid]
<1>3. y \in Req
  BY <1>1, <1>2, <1>b, Zenon DEF Req, Place
<1>4. /\ y.pc = "limit" /\ y.owner = x.owner /\ y.scoring = x.scoring
      /\ y.gen = x.gen /\ y.attempt = x.attempt /\ y.row = row
      /\ y.limit = x.limit /\ y.fresh = x.fresh /\ y.account = x.account
      /\ y.used = x.used /\ y.valid = valid /\ y.turn = x.turn
      /\ y.kept = x.kept /\ y.lost = x.lost
  BY <1>1 DEF Req
<1> HIDE DEF y
<1>5. StoreOK' /\ CountOK'
  BY <1>1, <1>2, SameStores DEF StoreOK, bounds, limits
<1>6. TypedOK(r, y) /\ HoldOK(y, row') /\ TellOK(y, setting', cached') /\ TurnOK(y)
  BY <1>1, <1>2, <1>3, <1>4, Numbers DEF RequestOK, TypedOK, HoldOK, TellOK, TurnOK, limits, StoreOK
<1>7. OwnOK(r, y)
  BY <1>1, <1>2, <1>4, Numbers DEF RequestOK, OwnOK, TypedOK, HoldOK, UpTo, Below, limits, StoreOK
<1>8. SessionOK(y, row')
  BY <1>1, <1>2, <1>4, Numbers DEF RequestOK, SessionOK, TypedOK, UpTo, Below, limits, StoreOK
<1>9. RequestOK(r, y, row', setting', cached')
  BY <1>6, <1>7, <1>8 DEF RequestOK
<1>10. \A u \in Requests : lock' = u <=> IF u = r THEN Holding(y) ELSE lock = u
  BY <1>1, <1>2, <1>4, ResinAssumption DEF Holding
<1>11. \A e \in y.used : e \in q[r].used \cup good \/ e[1] = Session \/ e = <<r, y.gen>>
  BY <1>1, <1>2, <1>4
<1>12. y.gen >= x.gen
  <2>1. x.gen \in Gens /\ y.gen = x.gen
    BY <1>1, <1>4 DEF Req
  <2>2. x.gen \in Nat
    BY <2>1, Numbers
  <2> QED
    BY <2>1, <2>2
<1>13. q' = [q EXCEPT ![r] = y] /\ y.pc # "idle" /\ (y.pc # "done" => x.pc # "done")
  BY <1>2, <1>4 DEF y
<1> QED
  BY <1>13, <1>1, <1>2, <1>4, <1>5, <1>9, <1>10, <1>11, <1>12, OneStep DEF limits

\* The cached limit is the one told of.
LEMMA CachedStep ==
  ASSUME IInv, NEW r \in Requests, CachedLimit(r)
  PROVE  IInv'
<1> DEFINE x == q[r]
<1>1. /\ StoreOK /\ CountOK /\ x \in Req /\ RequestOK(r, x, row, setting, cached)
      /\ (lock = r <=> Holding(x)) /\ x.owner \in {Session, r}
      /\ \A u \in Requests : EarnedOK(good, u, q[u])
  BY Known
<1>2. /\ x.pc = "limit" /\ cached # NoLimit /\ q' = [q EXCEPT ![r] = [x EXCEPT !.pc = "write", !.limit = cached]]
      /\ UNCHANGED <<row, lock, limits, good, bounds, served, valid>>
  BY DEF CachedLimit, At, Becomes
<1>b. cached \in Limit \cup {NoLimit}
  BY <1>1 DEF StoreOK
<1> DEFINE y == [x EXCEPT !.pc = "write", !.limit = cached]
<1>3. y \in Req
  BY <1>1, <1>2, <1>b, Zenon DEF Req, Place
<1>4. /\ y.pc = "write" /\ y.owner = x.owner /\ y.scoring = x.scoring
      /\ y.gen = x.gen /\ y.attempt = x.attempt /\ y.row = x.row
      /\ y.limit = cached /\ y.fresh = x.fresh /\ y.account = x.account
      /\ y.used = x.used /\ y.valid = x.valid /\ y.turn = x.turn
      /\ y.kept = x.kept /\ y.lost = x.lost
  BY <1>1 DEF Req
<1> HIDE DEF y
<1>5. StoreOK' /\ CountOK'
  BY <1>1, <1>2, SameStores DEF StoreOK, bounds, limits
<1>6. TypedOK(r, y) /\ HoldOK(y, row') /\ TellOK(y, setting', cached') /\ TurnOK(y)
  BY <1>1, <1>2, <1>3, <1>4, Numbers DEF RequestOK, TypedOK, HoldOK, TellOK, TurnOK, limits
<1>7. OwnOK(r, y)
  BY <1>1, <1>2, <1>4, Numbers DEF RequestOK, OwnOK, TypedOK, HoldOK, UpTo, Below, limits
<1>8. SessionOK(y, row')
  BY <1>1, <1>2, <1>4, Numbers DEF RequestOK, SessionOK, TypedOK, UpTo, Below, limits
<1>9. RequestOK(r, y, row', setting', cached')
  BY <1>6, <1>7, <1>8 DEF RequestOK
<1>10. \A u \in Requests : lock' = u <=> IF u = r THEN Holding(y) ELSE lock = u
  BY <1>1, <1>2, <1>4, ResinAssumption DEF Holding
<1>11. \A e \in y.used : e \in q[r].used \cup good \/ e[1] = Session \/ e = <<r, y.gen>>
  BY <1>1, <1>2, <1>4
<1>12. y.gen >= x.gen
  <2>1. x.gen \in Gens /\ y.gen = x.gen
    BY <1>1, <1>4 DEF Req
  <2>2. x.gen \in Nat
    BY <2>1, Numbers
  <2> QED
    BY <2>1, <2>2
<1>13. q' = [q EXCEPT ![r] = y] /\ y.pc # "idle" /\ (y.pc # "done" => x.pc # "done")
  BY <1>2, <1>4 DEF y
<1> QED
  BY <1>13, <1>1, <1>2, <1>4, <1>5, <1>9, <1>10, <1>11, <1>12, OneStep DEF limits

\* The limit is read and cached.
LEMMA LoadStep ==
  ASSUME IInv, NEW r \in Requests, LoadLimit(r)
  PROVE  IInv'
<1> DEFINE x == q[r]
<1>1. /\ StoreOK /\ CountOK /\ x \in Req /\ RequestOK(r, x, row, setting, cached)
      /\ (lock = r <=> Holding(x)) /\ x.owner \in {Session, r}
      /\ \A u \in Requests : EarnedOK(good, u, q[u])
  BY Known
<1>2. /\ x.pc = "limit" /\ cached = NoLimit /\ cached' = setting
      /\ q' = [q EXCEPT ![r] = [x EXCEPT !.pc = "write", !.limit = setting]]
      /\ UNCHANGED <<row, lock, setting, put, good, bounds, served, valid>>
  BY DEF LoadLimit, At, Becomes
<1>b. setting \in Limit \cup {NoLimit}
  BY <1>1 DEF StoreOK
<1> DEFINE y == [x EXCEPT !.pc = "write", !.limit = setting]
<1>3. y \in Req
  BY <1>1, <1>2, <1>b, Zenon DEF Req, Place
<1>4. /\ y.pc = "write" /\ y.owner = x.owner /\ y.scoring = x.scoring
      /\ y.gen = x.gen /\ y.attempt = x.attempt /\ y.row = x.row
      /\ y.limit = setting /\ y.fresh = x.fresh /\ y.account = x.account
      /\ y.used = x.used /\ y.valid = x.valid /\ y.turn = x.turn
      /\ y.kept = x.kept /\ y.lost = x.lost
  BY <1>1 DEF Req
<1> HIDE DEF y
<1>5. StoreOK' /\ CountOK'
  BY <1>1, <1>2 DEF StoreOK, CountOK, bounds
<1>6. TypedOK(r, y) /\ HoldOK(y, row') /\ TellOK(y, setting', cached') /\ TurnOK(y)
  BY <1>1, <1>2, <1>3, <1>4, Numbers DEF RequestOK, TypedOK, HoldOK, TellOK, TurnOK, limits
<1>7. OwnOK(r, y)
  BY <1>1, <1>2, <1>4, Numbers DEF RequestOK, OwnOK, TypedOK, HoldOK, UpTo, Below, limits
<1>8. SessionOK(y, row')
  BY <1>1, <1>2, <1>4, Numbers DEF RequestOK, SessionOK, TypedOK, UpTo, Below, limits
<1>9. RequestOK(r, y, row', setting', cached')
  BY <1>6, <1>7, <1>8 DEF RequestOK
<1>10. \A u \in Requests : lock' = u <=> IF u = r THEN Holding(y) ELSE lock = u
  BY <1>1, <1>2, <1>4, ResinAssumption DEF Holding
<1>11. \A e \in y.used : e \in q[r].used \cup good \/ e[1] = Session \/ e = <<r, y.gen>>
  BY <1>1, <1>2, <1>4
<1>12. y.gen >= x.gen
  <2>1. x.gen \in Gens /\ y.gen = x.gen
    BY <1>1, <1>4 DEF Req
  <2>2. x.gen \in Nat
    BY <2>1, Numbers
  <2> QED
    BY <2>1, <2>2
<1>13. q' = [q EXCEPT ![r] = y] /\ y.pc # "idle" /\ (y.pc # "done" => x.pc # "done")
  BY <1>2, <1>4 DEF y
<1> QED
  BY <1>13, <1>1, <1>2, <1>4, <1>5, <1>9, <1>10, <1>11, <1>12, OneStep DEF limits

\* Either the account of the generation or one that has scored, which the
\* request has not used.
LEMMA PickStep ==
  ASSUME IInv, NEW r \in Requests, Pick(r)
  PROVE  IInv'
<1> DEFINE x == q[r]
<1>1. /\ StoreOK /\ CountOK /\ x \in Req /\ RequestOK(r, x, row, setting, cached)
      /\ (lock = r <=> Holding(x)) /\ x.owner \in {Session, r}
      /\ \A u \in Requests : EarnedOK(good, u, q[u])
  BY Known
<1>2. PICK a \in {x.fresh} \cup (IF x.scoring THEN Eligible(r) ELSE {}) :
        /\ x.pc = "pick"
        /\ q' = [q EXCEPT ![r] = [x EXCEPT !.pc = "sent", !.account = a, !.used = @ \cup {a},
                        !.row = NoRow, !.limit = NoLimit, !.valid = {}, !.turn = 0,
                        !.lost = @ \/ Outlived(r, a)]]
        /\ UNCHANGED <<row, lock, limits, good, bounds, served, valid>>
  BY DEF Pick, At, Becomes
<1>b. a \in Account /\ (a = x.fresh \/ a \in good)
  BY <1>1, <1>2 DEF Eligible, StoreOK, Req
<1>d. Outlived(r, a) \in BOOLEAN
  BY DEF Outlived
<1> DEFINE y == [x EXCEPT !.pc = "sent", !.account = a, !.used = x.used \cup {a},
                  !.row = NoRow, !.limit = NoLimit, !.valid = {}, !.turn = 0,
                  !.lost = x.lost \/ Outlived(r, a)]
<1>3. y \in Req
  <2>1. x \in Req
    BY <1>1
  <2>2. x.used \cup {a} \in SUBSET Account /\ {} \in SUBSET Limit
    BY <2>1, <1>b DEF Req
  <2>3. (x.lost \/ Outlived(r, a)) \in BOOLEAN
    BY <2>1, <1>d, Zenon DEF Req
  <2>4. "sent" \in Place /\ 0 \in Nat
    BY DEF Place
  <2>5. NoRow \in Rows \cup {NoRow} /\ NoLimit \in Limit \cup {NoLimit}
    OBVIOUS
  <2> QED
    BY <2>1, <2>2, <2>3, <2>4, <2>5, <1>b, Zenon DEF Req
<1>4. /\ y.pc = "sent" /\ y.owner = x.owner /\ y.scoring = x.scoring
      /\ y.gen = x.gen /\ y.attempt = x.attempt /\ y.row = NoRow
      /\ y.limit = NoLimit /\ y.fresh = x.fresh /\ y.account = a
      /\ y.used = x.used \cup {a} /\ y.valid = {} /\ y.turn = 0
      /\ y.kept = x.kept /\ y.lost = (x.lost \/ Outlived(r, a))
  BY <1>1 DEF Req
<1> HIDE DEF y
<1>c. x.owner = Session /\ ~y.lost /\ a[1] = Session => row # NoRow /\ a[2] <= row.gen
  <2>1. Outlived(r, a) \in BOOLEAN
    BY DEF Outlived
  <2>2. y.lost = (x.lost \/ Outlived(r, a))
    BY <1>4
  <2>3. a[2] \in Nat /\ (row # NoRow => row.gen \in Nat)
    BY <1>b, <1>1, Numbers DEF StoreOK, Rows, Account
  <2>4. ~y.lost => ~Outlived(r, a)
    BY <2>1, <2>2, Zenon
  <2> QED
    BY <2>3, <2>4 DEF Outlived, Sticky
<1>e. y.used = x.used \cup {a} /\ x.fresh[1] = x.owner
  BY <1>1, <1>2, <1>4 DEF RequestOK, TypedOK
<1>f. x.gen \in Nat /\ \A h \in Gens : h \in Nat /\ <<r, h>>[2] = h /\ <<r, h>>[1] = r
  BY <1>1, Numbers DEF Req
<1>5. StoreOK' /\ CountOK'
  BY <1>1, <1>2, SameStores DEF StoreOK, bounds, limits
<1>6. TypedOK(r, y) /\ HoldOK(y, row') /\ TellOK(y, setting', cached') /\ TurnOK(y)
  BY <1>1, <1>2, <1>3, <1>4, <1>b, Numbers DEF RequestOK, TypedOK, HoldOK, TellOK, TurnOK, limits
<1>7. OwnOK(r, y)
  <2> SUFFICES ASSUME x.owner = r PROVE UpTo(y.used, r, x.gen)
    BY <1>4 DEF OwnOK
  <2>1. UpTo(x.used, r, x.gen) /\ x.fresh = <<r, x.gen>>
    BY <1>1, <1>2 DEF RequestOK, OwnOK
  <2>2. UpTo(good, r, x.gen)
    BY <1>1, <1>2 DEF EarnedOK
  <2> QED
    BY <1>b, <1>e, <1>f, <2>1, <2>2 DEF UpTo
<1>8. SessionOK(y, row')
  <2> SUFFICES ASSUME x.owner = Session, ~y.lost PROVE row # NoRow /\ UpTo(y.used, Session, row.gen)
    BY <1>2, <1>4 DEF SessionOK
  <2>1. ~x.lost
    BY <1>4
  <2>2. row # NoRow /\ UpTo(x.used, Session, row.gen)
    BY <1>1, <1>2, <2>1 DEF RequestOK, SessionOK
  <2>3. \A h \in Gens : <<Session, h>>[2] = h /\ <<Session, h>>[1] = Session
    OBVIOUS
  <2> QED
    BY <1>c, <1>e, <2>2, <2>3 DEF UpTo
<1>9. RequestOK(r, y, row', setting', cached')
  BY <1>6, <1>7, <1>8 DEF RequestOK
<1>10. \A u \in Requests : lock' = u <=> IF u = r THEN Holding(y) ELSE lock = u
  BY <1>1, <1>2, <1>4, ResinAssumption DEF Holding
<1>11. \A e \in y.used : e \in q[r].used \cup good \/ e[1] = Session \/ e = <<r, y.gen>>
  <2>1. x.owner = r => x.fresh = <<r, y.gen>>
    BY <1>1, <1>2, <1>4 DEF RequestOK, OwnOK
  <2> QED
    BY <1>1, <1>b, <1>e, <2>1
<1>12. y.gen >= x.gen
  <2>1. x.gen \in Gens /\ y.gen = x.gen
    BY <1>1, <1>4 DEF Req
  <2>2. x.gen \in Nat
    BY <2>1, Numbers
  <2> QED
    BY <2>1, <2>2
<1>13. q' = [q EXCEPT ![r] = y] /\ y.pc # "idle" /\ (y.pc # "done" => x.pc # "done")
  BY <1>2, <1>4 DEF y
<1> QED
  BY <1>13, <1>1, <1>2, <1>4, <1>5, <1>9, <1>10, <1>11, <1>12, OneStep DEF limits

\* The account is left.
LEMMA FailStep ==
  ASSUME IInv, NEW r \in Requests, Fails(r)
  PROVE  IInv'
<1> DEFINE x == q[r]
<1>1. /\ StoreOK /\ CountOK /\ x \in Req /\ RequestOK(r, x, row, setting, cached)
      /\ (lock = r <=> Holding(x)) /\ x.owner \in {Session, r}
      /\ \A u \in Requests : EarnedOK(good, u, q[u])
  BY Known
<1>2. /\ x.pc = "sent" /\ q' = [q EXCEPT ![r] = [x EXCEPT !.pc = "advance"]]
      /\ good' \subseteq good /\ UNCHANGED <<row, lock, limits, bounds, served, valid>>
  BY DEF Fails, At, Becomes, ObservedBad
<1> DEFINE y == [x EXCEPT !.pc = "advance"]
<1>3. y \in Req
  BY <1>1, <1>2, Zenon DEF Req, Place
<1>4. /\ y.pc = "advance" /\ y.owner = x.owner /\ y.scoring = x.scoring
      /\ y.gen = x.gen /\ y.attempt = x.attempt /\ y.row = x.row
      /\ y.limit = x.limit /\ y.fresh = x.fresh /\ y.account = x.account
      /\ y.used = x.used /\ y.valid = x.valid /\ y.turn = x.turn
      /\ y.kept = x.kept /\ y.lost = x.lost
  BY <1>1 DEF Req
<1> HIDE DEF y
<1>5. StoreOK' /\ CountOK'
  BY <1>1, <1>2, SameStores DEF StoreOK, bounds, limits
<1>6. TypedOK(r, y) /\ HoldOK(y, row') /\ TellOK(y, setting', cached') /\ TurnOK(y)
  BY <1>1, <1>2, <1>3, <1>4, Numbers DEF RequestOK, TypedOK, HoldOK, TellOK, TurnOK, limits
<1>7. OwnOK(r, y)
  BY <1>1, <1>2, <1>4, Numbers DEF RequestOK, OwnOK, TypedOK, HoldOK, UpTo, Below, limits
<1>8. SessionOK(y, row')
  BY <1>1, <1>2, <1>4, Numbers DEF RequestOK, SessionOK, TypedOK, UpTo, Below, limits
<1>9. RequestOK(r, y, row', setting', cached')
  BY <1>6, <1>7, <1>8 DEF RequestOK
<1>10. \A u \in Requests : lock' = u <=> IF u = r THEN Holding(y) ELSE lock = u
  BY <1>1, <1>2, <1>4, ResinAssumption DEF Holding
<1>11. \A e \in y.used : e \in q[r].used \cup good \/ e[1] = Session \/ e = <<r, y.gen>>
  BY <1>1, <1>2, <1>4
<1>12. y.gen >= x.gen
  <2>1. x.gen \in Gens /\ y.gen = x.gen
    BY <1>1, <1>4 DEF Req
  <2>2. x.gen \in Nat
    BY <2>1, Numbers
  <2> QED
    BY <2>1, <2>2
<1>13. q' = [q EXCEPT ![r] = y] /\ y.pc # "idle" /\ (y.pc # "done" => x.pc # "done")
  BY <1>2, <1>4 DEF y
<1> QED
  BY <1>13, <1>1, <1>2, <1>4, <1>5, <1>9, <1>10, <1>11, <1>12, OneStep DEF limits

\* So it is if the helper is refused.
LEMMA RefusedStep ==
  ASSUME IInv, NEW r \in Requests, HelperRefused(r)
  PROVE  IInv'
<1> DEFINE x == q[r]
<1>1. /\ StoreOK /\ CountOK /\ x \in Req /\ RequestOK(r, x, row, setting, cached)
      /\ (lock = r <=> Holding(x)) /\ x.owner \in {Session, r}
      /\ \A u \in Requests : EarnedOK(good, u, q[u])
  BY Known
<1>2. /\ x.pc = "sent" /\ q' = [q EXCEPT ![r] = [x EXCEPT !.pc = "advance"]]
      /\ UNCHANGED <<row, lock, limits, good, bounds, served, valid>>
  BY DEF HelperRefused, At, Becomes
<1> DEFINE y == [x EXCEPT !.pc = "advance"]
<1>3. y \in Req
  BY <1>1, <1>2, Zenon DEF Req, Place
<1>4. /\ y.pc = "advance" /\ y.owner = x.owner /\ y.scoring = x.scoring
      /\ y.gen = x.gen /\ y.attempt = x.attempt /\ y.row = x.row
      /\ y.limit = x.limit /\ y.fresh = x.fresh /\ y.account = x.account
      /\ y.used = x.used /\ y.valid = x.valid /\ y.turn = x.turn
      /\ y.kept = x.kept /\ y.lost = x.lost
  BY <1>1 DEF Req
<1> HIDE DEF y
<1>5. StoreOK' /\ CountOK'
  BY <1>1, <1>2, SameStores DEF StoreOK, bounds, limits
<1>6. TypedOK(r, y) /\ HoldOK(y, row') /\ TellOK(y, setting', cached') /\ TurnOK(y)
  BY <1>1, <1>2, <1>3, <1>4, Numbers DEF RequestOK, TypedOK, HoldOK, TellOK, TurnOK, limits
<1>7. OwnOK(r, y)
  BY <1>1, <1>2, <1>4, Numbers DEF RequestOK, OwnOK, TypedOK, HoldOK, UpTo, Below, limits
<1>8. SessionOK(y, row')
  BY <1>1, <1>2, <1>4, Numbers DEF RequestOK, SessionOK, TypedOK, UpTo, Below, limits
<1>9. RequestOK(r, y, row', setting', cached')
  BY <1>6, <1>7, <1>8 DEF RequestOK
<1>10. \A u \in Requests : lock' = u <=> IF u = r THEN Holding(y) ELSE lock = u
  BY <1>1, <1>2, <1>4, ResinAssumption DEF Holding
<1>11. \A e \in y.used : e \in q[r].used \cup good \/ e[1] = Session \/ e = <<r, y.gen>>
  BY <1>1, <1>2, <1>4
<1>12. y.gen >= x.gen
  <2>1. x.gen \in Gens /\ y.gen = x.gen
    BY <1>1, <1>4 DEF Req
  <2>2. x.gen \in Nat
    BY <2>1, Numbers
  <2> QED
    BY <2>1, <2>2
<1>13. q' = [q EXCEPT ![r] = y] /\ y.pc # "idle" /\ (y.pc # "done" => x.pc # "done")
  BY <1>2, <1>4 DEF y
<1> QED
  BY <1>13, <1>1, <1>2, <1>4, <1>5, <1>9, <1>10, <1>11, <1>12, OneStep DEF limits

\* The next attempt, or the answer.
LEMMA NextIs ==
  ASSUME NEW r \in Requests, q[r] \in Req, NEW t \in Req, t.attempt = q[r].attempt
  PROVE  /\ NextAttempt(r, t) \in Req /\ NextAttempt(r, t).pc \in {"deliver", "route"}
         /\ NextAttempt(r, t).owner = t.owner /\ NextAttempt(r, t).scoring = t.scoring /\ NextAttempt(r, t).gen = t.gen
         /\ NextAttempt(r, t).row = t.row /\ NextAttempt(r, t).limit = t.limit /\ NextAttempt(r, t).fresh = t.fresh
         /\ NextAttempt(r, t).account = t.account /\ NextAttempt(r, t).used = t.used /\ NextAttempt(r, t).valid = t.valid
         /\ NextAttempt(r, t).turn = t.turn /\ NextAttempt(r, t).kept = t.kept /\ NextAttempt(r, t).lost = t.lost
<1>1. CASE LastAttempt(r)
  <2>1. NextAttempt(r, t) = [t EXCEPT !.pc = "deliver"]
    BY <1>1 DEF NextAttempt
  <2>2. [t EXCEPT !.pc = "deliver"] \in Req
    BY Zenon DEF Req, Place
  <2> QED
    BY <2>1, <2>2 DEF Req
<1>2. CASE ~LastAttempt(r)
  <2>1. NextAttempt(r, t) = [t EXCEPT !.pc = "route", !.attempt = t.attempt + 1]
    BY <1>2 DEF NextAttempt
  <2>2. t.attempt + 1 \in 0..(MaxAttempts - 1)
    BY <1>2, ResinAssumption DEF LastAttempt, Req
  <2>3. [t EXCEPT !.pc = "route", !.attempt = t.attempt + 1] \in Req
    BY <2>2, Zenon DEF Req, Place
  <2> QED
    BY <2>1, <2>3 DEF Req
<1> QED
  BY <1>1, <1>2

\* The generation is kept.
LEMMA UnreadStep ==
  ASSUME IInv, NEW r \in Requests, ~LastAttempt(r), HelperUnread(r)
  PROVE  IInv'
<1> DEFINE x == q[r]
<1>1. /\ StoreOK /\ CountOK /\ x \in Req /\ RequestOK(r, x, row, setting, cached)
      /\ (lock = r <=> Holding(x)) /\ x.owner \in {Session, r}
      /\ \A u \in Requests : EarnedOK(good, u, q[u])
  BY Known
<1>2. /\ x.pc = "sent" /\ q' = [q EXCEPT ![r] = NextAttempt(r, [x EXCEPT !.kept = TRUE])]
      /\ UNCHANGED <<row, lock, limits, good, bounds, served, valid>>
  BY DEF HelperUnread, At, Becomes
<1> DEFINE t == [x EXCEPT !.kept = TRUE]
<1> DEFINE y == NextAttempt(r, t)
<1>a. t \in Req /\ t.attempt = x.attempt
  <2>1. t \in Req
    BY <1>1, <1>2, Zenon DEF Req, Place
  <2> QED
    BY <1>1, <2>1 DEF Req
<1>3. y \in Req
  BY <1>1, <1>a, NextIs
<1>4. /\ y.pc \in {"deliver", "route"} /\ y.owner = x.owner /\ y.scoring = x.scoring
      /\ y.gen = x.gen /\ y.row = x.row
      /\ y.limit = x.limit /\ y.fresh = x.fresh /\ y.account = x.account
      /\ y.used = x.used /\ y.valid = x.valid /\ y.turn = x.turn
      /\ y.kept = TRUE /\ y.lost = x.lost
  <2>1. /\ t.pc = x.pc /\ t.owner = x.owner /\ t.scoring = x.scoring
        /\ t.gen = x.gen /\ t.attempt = x.attempt /\ t.row = x.row
        /\ t.limit = x.limit /\ t.fresh = x.fresh /\ t.account = x.account
        /\ t.used = x.used /\ t.valid = x.valid /\ t.turn = x.turn
        /\ t.kept = TRUE /\ t.lost = x.lost
    BY <1>1 DEF Req
  <2> HIDE DEF t
  <2> QED
    BY <1>1, <1>a, <2>1, NextIs
<1> HIDE DEF y
<1>5. StoreOK' /\ CountOK'
  BY <1>1, <1>2, SameStores DEF StoreOK, bounds, limits
<1>6. TypedOK(r, y) /\ HoldOK(y, row') /\ TellOK(y, setting', cached') /\ TurnOK(y)
  BY <1>1, <1>2, <1>3, <1>4, Numbers DEF RequestOK, TypedOK, HoldOK, TellOK, TurnOK, limits
<1>7. OwnOK(r, y)
  BY <1>1, <1>2, <1>4, Numbers DEF RequestOK, OwnOK, TypedOK, HoldOK, UpTo, Below, limits
<1>8. SessionOK(y, row')
  BY <1>1, <1>2, <1>4, Numbers DEF RequestOK, SessionOK, TypedOK, UpTo, Below, limits
<1>9. RequestOK(r, y, row', setting', cached')
  BY <1>6, <1>7, <1>8 DEF RequestOK
<1>10. \A u \in Requests : lock' = u <=> IF u = r THEN Holding(y) ELSE lock = u
  BY <1>1, <1>2, <1>4, ResinAssumption DEF Holding
<1>11. \A e \in y.used : e \in q[r].used \cup good \/ e[1] = Session \/ e = <<r, y.gen>>
  BY <1>1, <1>2, <1>4
<1>12. y.gen >= x.gen
  <2>1. x.gen \in Gens /\ y.gen = x.gen
    BY <1>1, <1>4 DEF Req
  <2>2. x.gen \in Nat
    BY <2>1, Numbers
  <2> QED
    BY <2>1, <2>2
<1>13. q' = [q EXCEPT ![r] = y] /\ y.pc # "idle" /\ (y.pc # "done" => x.pc # "done")
  BY <1>2, <1>4 DEF y
<1> QED
  BY <1>13, <1>1, <1>2, <1>4, <1>5, <1>9, <1>10, <1>11, <1>12, OneStep DEF limits

\* A request of no session has a new generation.
LEMMA AdvanceOwnStep ==
  ASSUME IInv, NEW r \in Requests, AdvanceOwn(r)
  PROVE  IInv'
<1> DEFINE x == q[r]
<1>1. /\ StoreOK /\ CountOK /\ x \in Req /\ RequestOK(r, x, row, setting, cached)
      /\ (lock = r <=> Holding(x)) /\ x.owner \in {Session, r}
      /\ \A u \in Requests : EarnedOK(good, u, q[u])
  BY Known
<1>2. /\ x.pc = "advance" /\ x.owner = r /\ x.gen < MaxGen
      /\ q' = [q EXCEPT ![r] = NextAttempt(r, [x EXCEPT !.gen = x.gen + 1, !.kept = FALSE])]
      /\ UNCHANGED <<row, lock, limits, good, bounds, served, valid>>
  BY <1>1 DEF AdvanceOwn, At, Becomes, Sticky
<1>b. x.gen + 1 \in Gens
  BY <1>1, <1>2, ResinAssumption DEF Req, Gens
<1> DEFINE t == [x EXCEPT !.gen = x.gen + 1, !.kept = FALSE]
<1> DEFINE y == NextAttempt(r, t)
<1>a. t \in Req /\ t.attempt = x.attempt
  <2>1. t \in Req
    BY <1>1, <1>2, <1>b, Zenon DEF Req, Place
  <2> QED
    BY <1>1, <2>1 DEF Req
<1>3. y \in Req
  BY <1>1, <1>a, NextIs
<1>4. /\ y.pc \in {"deliver", "route"} /\ y.owner = x.owner /\ y.scoring = x.scoring
      /\ y.gen = x.gen + 1 /\ y.row = x.row
      /\ y.limit = x.limit /\ y.fresh = x.fresh /\ y.account = x.account
      /\ y.used = x.used /\ y.valid = x.valid /\ y.turn = x.turn
      /\ y.kept = FALSE /\ y.lost = x.lost
  <2>1. /\ t.pc = x.pc /\ t.owner = x.owner /\ t.scoring = x.scoring
        /\ t.gen = x.gen + 1 /\ t.attempt = x.attempt /\ t.row = x.row
        /\ t.limit = x.limit /\ t.fresh = x.fresh /\ t.account = x.account
        /\ t.used = x.used /\ t.valid = x.valid /\ t.turn = x.turn
        /\ t.kept = FALSE /\ t.lost = x.lost
    BY <1>1 DEF Req
  <2> HIDE DEF t
  <2> QED
    BY <1>1, <1>a, <2>1, NextIs
<1> HIDE DEF y
<1>5. StoreOK' /\ CountOK'
  BY <1>1, <1>2, SameStores DEF StoreOK, bounds, limits
<1>6. TypedOK(r, y) /\ HoldOK(y, row') /\ TellOK(y, setting', cached') /\ TurnOK(y)
  BY <1>1, <1>2, <1>3, <1>4, Numbers DEF RequestOK, TypedOK, HoldOK, TellOK, TurnOK, limits
<1>7. OwnOK(r, y)
  <2>1. x.gen \in Nat /\ y.gen = x.gen + 1 /\ \A h \in Gens : h \in Nat
    BY <1>1, <1>4, Numbers DEF Req
  <2>2. x.owner = r => UpTo(x.used, r, x.gen)
    BY <1>1, <1>2 DEF RequestOK, OwnOK
  <2>3. x.owner = r => UpTo(y.used, r, y.gen) /\ Below(y.used, r, y.gen)
    BY <2>1, <2>2, <1>4 DEF UpTo, Below
  <2> QED
    BY <2>3, <1>4 DEF OwnOK
<1>8. SessionOK(y, row')
  BY <1>1, <1>2, <1>4, Numbers DEF RequestOK, SessionOK, TypedOK, UpTo, Below, limits
<1>9. RequestOK(r, y, row', setting', cached')
  BY <1>6, <1>7, <1>8 DEF RequestOK
<1>10. \A u \in Requests : lock' = u <=> IF u = r THEN Holding(y) ELSE lock = u
  BY <1>1, <1>2, <1>4, ResinAssumption DEF Holding
<1>11. \A e \in y.used : e \in q[r].used \cup good \/ e[1] = Session \/ e = <<r, y.gen>>
  BY <1>1, <1>2, <1>4
<1>12. y.gen >= x.gen
  <2>1. x.gen \in Gens /\ y.gen = x.gen + 1
    BY <1>1, <1>4 DEF Req
  <2>2. x.gen \in Nat
    BY <2>1, Numbers
  <2> QED
    BY <2>1, <2>2
<1>13. q' = [q EXCEPT ![r] = y] /\ y.pc # "idle" /\ (y.pc # "done" => x.pc # "done")
  BY <1>2, <1>4 DEF y
<1> QED
  BY <1>13, <1>1, <1>2, <1>4, <1>5, <1>9, <1>10, <1>11, <1>12, OneStep DEF limits

\* If that fails the generation is kept.
LEMMA AdvanceFailStep ==
  ASSUME IInv, NEW r \in Requests, AdvanceFails(r)
  PROVE  IInv'
<1> DEFINE x == q[r]
<1>1. /\ StoreOK /\ CountOK /\ x \in Req /\ RequestOK(r, x, row, setting, cached)
      /\ (lock = r <=> Holding(x)) /\ x.owner \in {Session, r}
      /\ \A u \in Requests : EarnedOK(good, u, q[u])
  BY Known
<1>2. /\ x.pc = "advance" /\ x.owner = Session /\ lock = Nobody
      /\ q' = [q EXCEPT ![r] = NextAttempt(r, [x EXCEPT !.kept = TRUE])]
      /\ faults' \in 0..MaxFaults /\ UNCHANGED <<row, lock, limits, good, puts, served, valid>>
  BY <1>1, ResinAssumption DEF AdvanceFails, At, Becomes, Sticky, Free, Faulty, StoreOK
<1> DEFINE t == [x EXCEPT !.kept = TRUE]
<1> DEFINE y == NextAttempt(r, t)
<1>a. t \in Req /\ t.attempt = x.attempt
  <2>1. t \in Req
    BY <1>1, <1>2, Zenon DEF Req, Place
  <2> QED
    BY <1>1, <2>1 DEF Req
<1>3. y \in Req
  BY <1>1, <1>a, NextIs
<1>4. /\ y.pc \in {"deliver", "route"} /\ y.owner = x.owner /\ y.scoring = x.scoring
      /\ y.gen = x.gen /\ y.row = x.row
      /\ y.limit = x.limit /\ y.fresh = x.fresh /\ y.account = x.account
      /\ y.used = x.used /\ y.valid = x.valid /\ y.turn = x.turn
      /\ y.kept = TRUE /\ y.lost = x.lost
  <2>1. /\ t.pc = x.pc /\ t.owner = x.owner /\ t.scoring = x.scoring
        /\ t.gen = x.gen /\ t.attempt = x.attempt /\ t.row = x.row
        /\ t.limit = x.limit /\ t.fresh = x.fresh /\ t.account = x.account
        /\ t.used = x.used /\ t.valid = x.valid /\ t.turn = x.turn
        /\ t.kept = TRUE /\ t.lost = x.lost
    BY <1>1 DEF Req
  <2> HIDE DEF t
  <2> QED
    BY <1>1, <1>a, <2>1, NextIs
<1> HIDE DEF y
<1>5. StoreOK' /\ CountOK'
  BY <1>1, <1>2, SameStores DEF StoreOK, bounds, limits
<1>6. TypedOK(r, y) /\ HoldOK(y, row') /\ TellOK(y, setting', cached') /\ TurnOK(y)
  BY <1>1, <1>2, <1>3, <1>4, Numbers DEF RequestOK, TypedOK, HoldOK, TellOK, TurnOK, limits
<1>7. OwnOK(r, y)
  BY <1>1, <1>2, <1>4, Numbers DEF RequestOK, OwnOK, TypedOK, HoldOK, UpTo, Below, limits
<1>8. SessionOK(y, row')
  BY <1>1, <1>2, <1>4, Numbers DEF RequestOK, SessionOK, TypedOK, UpTo, Below, limits
<1>9. RequestOK(r, y, row', setting', cached')
  BY <1>6, <1>7, <1>8 DEF RequestOK
<1>10. \A u \in Requests : lock' = u <=> IF u = r THEN Holding(y) ELSE lock = u
  BY <1>1, <1>2, <1>4, ResinAssumption DEF Holding
<1>11. \A e \in y.used : e \in q[r].used \cup good \/ e[1] = Session \/ e = <<r, y.gen>>
  BY <1>1, <1>2, <1>4
<1>12. y.gen >= x.gen
  <2>1. x.gen \in Gens /\ y.gen = x.gen
    BY <1>1, <1>4 DEF Req
  <2>2. x.gen \in Nat
    BY <2>1, Numbers
  <2> QED
    BY <2>1, <2>2
<1>13. q' = [q EXCEPT ![r] = y] /\ y.pc # "idle" /\ (y.pc # "done" => x.pc # "done")
  BY <1>2, <1>4 DEF y
<1> QED
  BY <1>13, <1>1, <1>2, <1>4, <1>5, <1>9, <1>10, <1>11, <1>12, OneStep DEF limits

\* The row is at its next generation, if it is there.
LEMMA AdvanceRowStep ==
  ASSUME IInv, NEW r \in Requests, AdvanceRow(r)
  PROVE  IInv'
<1> DEFINE x == q[r]
<1>1. /\ StoreOK /\ CountOK /\ x \in Req /\ RequestOK(r, x, row, setting, cached)
      /\ (lock = r <=> Holding(x)) /\ x.owner \in {Session, r}
      /\ \A u \in Requests : EarnedOK(good, u, q[u])
  BY Known
<1>2. /\ x.pc = "advance" /\ x.owner = Session /\ lock = Nobody
      /\ IF row = NoRow THEN row' = row
         ELSE row.gen < MaxGen /\ row' = [gen |-> row.gen + 1, count |-> 0, old |-> FALSE]
      /\ q' = [q EXCEPT ![r] = NextAttempt(r, [x EXCEPT !.kept = FALSE])]
      /\ UNCHANGED <<lock, limits, good, bounds, served, valid>>
  BY DEF AdvanceRow, At, Becomes, Sticky, Free
<1> DEFINE t == [x EXCEPT !.kept = FALSE]
<1> DEFINE y == NextAttempt(r, t)
<1>a. t \in Req /\ t.attempt = x.attempt
  <2>1. t \in Req
    BY <1>1, <1>2, Zenon DEF Req, Place
  <2> QED
    BY <1>1, <2>1 DEF Req
<1>3. y \in Req
  BY <1>1, <1>a, NextIs
<1>4. /\ y.pc \in {"deliver", "route"} /\ y.owner = x.owner /\ y.scoring = x.scoring
      /\ y.gen = x.gen /\ y.row = x.row
      /\ y.limit = x.limit /\ y.fresh = x.fresh /\ y.account = x.account
      /\ y.used = x.used /\ y.valid = x.valid /\ y.turn = x.turn
      /\ y.kept = FALSE /\ y.lost = x.lost
  <2>1. /\ t.pc = x.pc /\ t.owner = x.owner /\ t.scoring = x.scoring
        /\ t.gen = x.gen /\ t.attempt = x.attempt /\ t.row = x.row
        /\ t.limit = x.limit /\ t.fresh = x.fresh /\ t.account = x.account
        /\ t.used = x.used /\ t.valid = x.valid /\ t.turn = x.turn
        /\ t.kept = FALSE /\ t.lost = x.lost
    BY <1>1 DEF Req
  <2> HIDE DEF t
  <2> QED
    BY <1>1, <1>a, <2>1, NextIs
<1> HIDE DEF y
<1>b. row # NoRow => /\ row \in Rows /\ row.gen \in Nat /\ row.gen + 1 \in Gens
                     /\ row' \in Rows /\ row'.gen = row.gen + 1 /\ row'.count = 0
                     /\ Onward(row, row')
  <2> SUFFICES ASSUME row # NoRow
               PROVE  /\ row \in Rows /\ row.gen \in Nat /\ row.gen + 1 \in Gens
                      /\ row' \in Rows /\ row'.gen = row.gen + 1 /\ row'.count = 0
                      /\ Onward(row, row')
    OBVIOUS
  <2>1. row \in Rows /\ row.gen \in Gens /\ row.gen \in Nat
    BY <1>1, Numbers DEF StoreOK, Rows
  <2>2. row.gen + 1 \in Gens /\ row.gen + 1 >= row.gen
    BY <1>2, <2>1, ResinAssumption DEF Gens
  <2>3. row' \in Rows /\ row'.gen = row.gen + 1 /\ row'.count = 0
    <3>1. row' = [gen |-> row.gen + 1, count |-> 0, old |-> FALSE]
      BY <1>2
    <3> QED
      BY <2>2, <3>1 DEF Rows
  <2> QED
    BY <2>1, <2>2, <2>3 DEF Onward
<1>5. StoreOK' /\ CountOK'
  <2>1. StoreOK'
    BY <1>1, <1>2, <1>b DEF StoreOK, bounds, limits
  <2>2. CASE row = NoRow
    BY <1>1, <1>2, <2>1, <2>2 DEF CountOK
  <2>3. CASE row # NoRow
    <3>1. row' # NoRow /\ \A g \in Gens : g \in Nat
      BY <1>b, <2>3, Numbers
    <3>2. /\ served' = served /\ served[row.gen + 1] = 0
          /\ \A g \in Gens : g > row.gen + 1 => served[g] = 0
      BY <1>1, <1>2, <1>b, <2>3, <3>1 DEF CountOK
    <3> QED
      BY <2>1, <1>b, <2>3, <3>1, <3>2 DEF CountOK
  <2> QED
    BY <2>1, <2>2, <2>3
<1>6. TypedOK(r, y) /\ HoldOK(y, row') /\ TellOK(y, setting', cached') /\ TurnOK(y)
  BY <1>1, <1>2, <1>3, <1>4, Numbers DEF RequestOK, TypedOK, HoldOK, TellOK, TurnOK, limits
<1>7. OwnOK(r, y)
  BY <1>1, <1>2, <1>4, Numbers DEF RequestOK, OwnOK, TypedOK, HoldOK, UpTo, Below, limits
<1>8. SessionOK(y, row')
  <2> SUFFICES ASSUME ~x.lost PROVE SessionOK(y, row')
    BY <1>4 DEF SessionOK
  <2>1. row # NoRow /\ UpTo(x.used, Session, row.gen)
    BY <1>1, <1>2 DEF RequestOK, SessionOK
  <2>2. \A h \in Gens : h \in Nat
    BY Numbers
  <2>3. UpTo(x.used, Session, row'.gen) /\ Below(x.used, Session, row'.gen)
    BY <1>b, <2>1, <2>2 DEF UpTo, Below
  <2>4. row' # NoRow
    BY <1>b, <2>1, Numbers
  <2> QED
    BY <1>4, <2>3, <2>4 DEF SessionOK
<1>9. RequestOK(r, y, row', setting', cached')
  BY <1>6, <1>7, <1>8 DEF RequestOK
<1>10. \A u \in Requests : lock' = u <=> IF u = r THEN Holding(y) ELSE lock = u
  BY <1>1, <1>2, <1>4, ResinAssumption DEF Holding
<1>11. \A e \in y.used : e \in q[r].used \cup good \/ e[1] = Session \/ e = <<r, y.gen>>
  BY <1>1, <1>2, <1>4
<1>12. y.gen >= x.gen
  <2>1. x.gen \in Gens /\ y.gen = x.gen
    BY <1>1, <1>4 DEF Req
  <2>2. x.gen \in Nat
    BY <2>1, Numbers
  <2> QED
    BY <2>1, <2>2
<1>13. q' = [q EXCEPT ![r] = y] /\ y.pc # "idle" /\ (y.pc # "done" => x.pc # "done")
  BY <1>2, <1>4 DEF y
<1>14. row' = row \/ (Onward(row, row') /\ \A u \in Requests \ {r} : lock # u)
  BY <1>2, <1>b, ResinAssumption
<1> QED
  BY <1>13, <1>1, <1>2, <1>4, <1>5, <1>9, <1>10, <1>11, <1>12, <1>14, OneStep DEF limits

\* The row is inserted, counted up or at its next generation; if it was
\* deleted meanwhile the request counts for nothing.
LEMMA WriteStep ==
  ASSUME IInv, NEW r \in Requests, WriteRow(r)
  PROVE  IInv'
<1> DEFINE x == q[r]
<1>1. /\ StoreOK /\ CountOK /\ x \in Req /\ RequestOK(r, x, row, setting, cached)
      /\ (lock = r <=> Holding(x)) /\ x.owner \in {Session, r}
      /\ \A u \in Requests : EarnedOK(good, u, q[u])
  BY Known
<1>2. /\ x.pc = "write" /\ NextRow(r).gen <= MaxGen /\ (x.row = NoRow => row = NoRow)
      /\ row' = IF x.row # NoRow /\ row = NoRow THEN NoRow ELSE NextRow(r)
      /\ served' = IF row' = NoRow THEN served ELSE [served EXCEPT ![NextRow(r).gen] = @ + 1]
      /\ lock' = Nobody
      /\ q' = [q EXCEPT ![r] = [x EXCEPT !.pc = "pick", !.fresh = <<Session, NextRow(r).gen>>,
                                          !.turn = served'[NextRow(r).gen]]]
      /\ UNCHANGED <<limits, good, bounds, valid>>
  BY DEF WriteRow, At, Becomes
<1>b. x.owner = Session /\ lock = r /\ (x.row = row \/ (x.lost /\ row = NoRow))
  BY <1>1, <1>2 DEF RequestOK, HoldOK, Holding
<1>c. \/ /\ x.row = NoRow /\ row = NoRow
         /\ NextRow(r) = [gen |-> 0, count |-> 1, old |-> FALSE]
      \/ x.row # NoRow /\ row = NoRow /\ x.lost
      \/ /\ row # NoRow /\ Spent(row.count, x.limit)
         /\ NextRow(r) = [gen |-> row.gen + 1, count |-> 1, old |-> FALSE]
      \/ /\ row # NoRow /\ ~Spent(row.count, x.limit)
         /\ NextRow(r) = [gen |-> row.gen, count |-> row.count + 1, old |-> FALSE]
  BY <1>2, <1>b DEF NextRow
<1>d. NextRow(r) \in Rows /\ NextRow(r).gen \in Gens /\ NextRow(r) # NoRow
  <2>1. ASSUME NEW w \in Rows
        PROVE  w.gen \in Nat /\ w.gen + 1 \in Nat /\ w.count \in Nat /\ w.count + 1 \in Nat
    <3>1. w.gen \in Gens /\ w.count \in Nat
      BY DEF Rows
    <3>2. w.gen \in Nat
      BY <3>1, Numbers
    <3> QED
      BY <3>1, <3>2
  <2>2. x.row \in Rows \cup {NoRow}
    BY <1>1 DEF Req
  <2>3. NextRow(r) \in [gen : Nat, count : Nat, old : BOOLEAN]
    BY <2>1, <2>2 DEF NextRow
  <2>4. NextRow(r).gen \in Gens
    BY <1>2, <2>3, ResinAssumption DEF Gens
  <2> QED
    BY <2>3, <2>4, Numbers DEF Rows
<1>e. served' \in [Gens -> Nat] /\ served'[NextRow(r).gen] \in Nat
  <2>1. served \in [Gens -> Nat]
    BY <1>1 DEF StoreOK
  <2>2. served[NextRow(r).gen] + 1 \in Nat
    BY <1>d, <2>1
  <2> QED
    BY <1>2, <1>d, <2>1, <2>2
<1>f. <<Session, NextRow(r).gen>> \in Account
  BY <1>d DEF Account
<1> DEFINE y == [x EXCEPT !.pc = "pick", !.fresh = <<Session, NextRow(r).gen>>,
                  !.turn = served'[NextRow(r).gen]]
<1>3. y \in Req
  BY <1>1, <1>2, <1>e, <1>f, Zenon DEF Req, Place
<1>4. /\ y.pc = "pick" /\ y.owner = x.owner /\ y.scoring = x.scoring
      /\ y.gen = x.gen /\ y.attempt = x.attempt /\ y.row = x.row
      /\ y.limit = x.limit /\ y.fresh = <<Session, NextRow(r).gen>> /\ y.account = x.account
      /\ y.used = x.used /\ y.valid = x.valid /\ y.turn = served'[NextRow(r).gen]
      /\ y.kept = x.kept /\ y.lost = x.lost
  BY <1>1 DEF Req
<1> HIDE DEF y
<1>g. row' \in Rows \cup {NoRow}
  BY <1>2, <1>d
<1>h. row # NoRow => row \in Rows /\ row.gen \in Nat /\ row.gen \in Gens /\ row.count \in Nat
  BY <1>1, Numbers DEF StoreOK, Rows
<1>i. \A g \in Gens : g \in Nat /\ served[g] \in Nat
  BY <1>1, Numbers DEF StoreOK
<1>j. row = NoRow => \A g \in Gens : served[g] = 0
  BY <1>1 DEF CountOK
<1>k. row # NoRow => served[row.gen] = row.count /\ \A g \in Gens : g > row.gen => served[g] = 0
  BY <1>1 DEF CountOK
<1>l. row' # NoRow => /\ row' = NextRow(r)
                      /\ served' = [served EXCEPT ![NextRow(r).gen] = served[NextRow(r).gen] + 1]
                      /\ served[NextRow(r).gen] + 1 = NextRow(r).count
                      /\ (row # NoRow => NextRow(r).gen >= row.gen)
                      /\ \A g \in Gens : g > NextRow(r).gen => served[g] = 0
  <2> SUFFICES ASSUME row' # NoRow
               PROVE  /\ served[NextRow(r).gen] + 1 = NextRow(r).count
                      /\ (row # NoRow => NextRow(r).gen >= row.gen)
                      /\ \A g \in Gens : g > NextRow(r).gen => served[g] = 0
    BY <1>2
  <2>1. CASE row = NoRow
    BY <1>2, <1>c, <1>d, <1>j, <2>1
  <2>2. CASE row # NoRow
    <3>1. CASE NextRow(r) = [gen |-> row.gen + 1, count |-> 1, old |-> FALSE]
      <4>1. served[row.gen + 1] = 0
        BY <1>d, <1>h, <1>k, <2>2, <3>1
      <4> QED
        BY <1>h, <1>i, <1>k, <2>2, <3>1, <4>1
    <3>2. CASE NextRow(r) = [gen |-> row.gen, count |-> row.count + 1, old |-> FALSE]
      BY <1>h, <1>k, <2>2, <3>2
    <3> QED
      BY <1>c, <2>2, <3>1, <3>2
  <2> QED
    BY <2>1, <2>2
<1>m. row' = NoRow => row = NoRow /\ served' = served /\ x.lost
  BY <1>2, <1>b, <1>d
<1>5. StoreOK' /\ CountOK'
  <2>1. StoreOK'
    BY <1>1, <1>2, <1>e, <1>g DEF StoreOK, bounds, limits
  <2>2. CASE row' = NoRow
    BY <1>1, <1>m, <2>1, <2>2 DEF CountOK
  <2>3. CASE row' # NoRow
    <3>1. served'[NextRow(r).gen] = NextRow(r).count
      BY <1>1, <1>d, <1>l, <2>3 DEF StoreOK
    <3>2. \A g \in Gens : g > NextRow(r).gen => served'[g] = 0
      BY <1>1, <1>d, <1>i, <1>l, <2>3 DEF StoreOK
    <3> QED
      BY <1>l, <2>1, <2>3, <3>1, <3>2 DEF CountOK
  <2> QED
    BY <2>1, <2>2, <2>3
<1>6. TypedOK(r, y) /\ HoldOK(y, row') /\ TellOK(y, setting', cached') /\ TurnOK(y)
  <2>1. TypedOK(r, y) /\ HoldOK(y, row') /\ TellOK(y, setting', cached')
    BY <1>1, <1>2, <1>3, <1>4, <1>b, <1>f, Numbers DEF RequestOK, TypedOK, HoldOK, TellOK
  <2>2. ASSUME served'[NextRow(r).gen] > 0
        PROVE  x.limit \in x.valid /\ (x.limit = 0 \/ served'[NextRow(r).gen] <= x.limit)
    <3>1. x.limit \in x.valid /\ x.valid \subseteq Limit
      BY <1>1, <1>2 DEF RequestOK, TellOK, Req
    <3>2. x.limit \in Nat
      BY <3>1, Numbers
    <3>3. CASE row' = NoRow
      BY <1>d, <1>j, <1>m, <2>2, <3>3
    <3>4. CASE row' # NoRow
      <4>1. served'[NextRow(r).gen] = NextRow(r).count
        BY <1>1, <1>d, <1>l, <3>4 DEF StoreOK
      <4>2. NextRow(r).count = 1 \/ (NextRow(r).count = row.count + 1 /\ ~Spent(row.count, x.limit) /\ row # NoRow)
        BY <1>2, <1>c, <3>4
      <4> QED
        BY <1>h, <3>1, <3>2, <4>1, <4>2 DEF Spent
    <3> QED
      BY <3>3, <3>4
  <2>3. TurnOK(y)
    BY <1>4, <2>2 DEF TurnOK
  <2> QED
    BY <2>1, <2>3
<1>7. OwnOK(r, y)
  BY <1>1, <1>2, <1>4, <1>b, Numbers DEF RequestOK, OwnOK, TypedOK, HoldOK, UpTo, Below, limits
<1>8. SessionOK(y, row')
  <2> SUFFICES ASSUME ~x.lost PROVE SessionOK(y, row')
    BY <1>4 DEF SessionOK
  <2>1. row' # NoRow /\ row' = NextRow(r) /\ NextRow(r).gen \in Nat
    BY <1>d, <1>i, <1>l, <1>m
  <2>2. UpTo(x.used, Session, NextRow(r).gen) /\ (~x.kept => Below(x.used, Session, NextRow(r).gen))
    <3>1. CASE row = NoRow
      BY <1>1, <1>2, <1>b, <3>1 DEF RequestOK, SessionOK, UpTo, Below
    <3>2. CASE row # NoRow
      <4>1. UpTo(x.used, Session, row.gen) /\ (~x.kept => Below(x.used, Session, row.gen))
        BY <1>1, <1>2, <1>b, <3>2 DEF RequestOK, SessionOK
      <4>2. NextRow(r).gen >= row.gen /\ row.gen \in Nat
        BY <1>h, <1>l, <2>1, <3>2
      <4> QED
        BY <1>i, <2>1, <4>1, <4>2 DEF UpTo, Below
    <3> QED
      BY <3>1, <3>2
  <2>3. y.fresh[2] = NextRow(r).gen /\ y.fresh \in {Session} \X (0..NextRow(r).gen)
    BY <1>4, <2>1
  <2> QED
    BY <1>4, <2>1, <2>2, <2>3 DEF SessionOK
<1>9. RequestOK(r, y, row', setting', cached')
  BY <1>6, <1>7, <1>8 DEF RequestOK
<1>10. \A u \in Requests : lock' = u <=> IF u = r THEN Holding(y) ELSE lock = u
  BY <1>1, <1>2, <1>4, <1>b, ResinAssumption DEF Holding
<1>11. \A e \in y.used : e \in q[r].used \cup good \/ e[1] = Session \/ e = <<r, y.gen>>
  BY <1>1, <1>2, <1>4
<1>12. y.gen >= x.gen
  <2>1. x.gen \in Gens /\ y.gen = x.gen
    BY <1>1, <1>4 DEF Req
  <2>2. x.gen \in Nat
    BY <2>1, Numbers
  <2> QED
    BY <2>1, <2>2
<1>13. q' = [q EXCEPT ![r] = y] /\ y.pc # "idle" /\ (y.pc # "done" => x.pc # "done")
  BY <1>2, <1>4 DEF y
<1>14. row' = row \/ (Onward(row, row') /\ \A u \in Requests \ {r} : lock # u)
  BY <1>b, <1>d, <1>l, <1>m DEF Onward
<1> QED
  BY <1>13, <1>1, <1>2, <1>4, <1>5, <1>9, <1>10, <1>11, <1>12, <1>14, OneStep DEF limits


----------------------------------------------------------------------------
(* The steps that touch several requests, or none. *)

\* A change to any of the requests which leaves them at their places, with
\* their accounts and generations, leaves only those and the stores to show.
LEMMA AllStep ==
  ASSUME IInv, StoreOK', CountOK', lock' = lock, good' \subseteq good,
         q' = [s \in Requests |-> q'[s]],
         \A s \in Requests :
           /\ RequestOK(s, q'[s], row', setting', cached') /\ q'[s].owner = q[s].owner
           /\ q'[s].used = q[s].used /\ q'[s].gen = q[s].gen
           /\ q'[s].pc = q[s].pc \/ (q[s].pc = "limit" /\ q'[s].pc = "write")
  PROVE  IInv'
<1>1. q' \in [Requests -> Req]
  BY DEF RequestOK, TypedOK
<1>2. Requesting'
  BY <1>1 DEF Requesting
<1>3. LockOK'
  BY DEF IInv, LockOK, Holding
<1>4. Earned'
  <2>1. \A A, B, s : A \subseteq B /\ EarnedOK(B, s, q[s]) /\ s \in Requests => EarnedOK(A, s, q'[s])
    BY DEF EarnedOK, UpTo
  <2> QED
    BY <2>1 DEF IInv, Earned
<1> QED
  BY <1>2, <1>3, <1>4 DEF IInv

LEMMA FadeStep ==
  ASSUME IInv, ScoreFades
  PROVE  IInv'
<1>1. good' \subseteq good /\ q' = q /\ UNCHANGED <<row, lock, limits, bounds, served, valid>>
  BY DEF ScoreFades
<1>2. StoreOK' /\ CountOK'
  BY <1>1 DEF IInv, StoreOK, CountOK, limits, bounds
<1>3. q' = [s \in Requests |-> q'[s]]
  BY <1>1 DEF IInv, Requesting
<1>4. \A s \in Requests : RequestOK(s, q'[s], row', setting', cached')
  BY <1>1 DEF IInv, Requesting, limits
<1> QED
  BY <1>1, <1>2, <1>3, <1>4, AllStep

LEMMA DropStep ==
  ASSUME IInv, DropLimit
  PROVE  IInv'
<1>1. /\ put' = FALSE /\ cached' = NoLimit /\ valid' = {setting}
      /\ UNCHANGED <<row, lock, setting, good, q, bounds, served>>
  BY DEF DropLimit
<1>2. StoreOK' /\ CountOK'
  BY <1>1 DEF IInv, StoreOK, CountOK, bounds
<1>3. q' = [s \in Requests |-> q'[s]]
  BY <1>1 DEF IInv, Requesting
<1>4. \A s \in Requests : RequestOK(s, q'[s], row', setting', cached')
  BY <1>1 DEF IInv, Requesting, RequestOK, TellOK
<1> QED
  BY <1>1, <1>2, <1>3, <1>4, AllStep

\* Nobody has a request under way.
LEMMA DayStep ==
  ASSUME IInv, DayPasses
  PROVE  IInv'
<1>1. /\ row # NoRow /\ good' = {} /\ row' = [row EXCEPT !.old = TRUE] /\ q' = q
      /\ UNCHANGED <<lock, limits, bounds, served, valid>>
      /\ \A s \in Requests : q[s].pc \in {"idle", "done"}
  BY DEF DayPasses
<1>2. row \in Rows
  BY <1>1 DEF IInv, StoreOK
<1>3. row' \in Rows /\ row'.gen = row.gen /\ row'.count = row.count /\ row.gen \in Nat
  <2>1. row' \in Rows /\ row'.gen = row.gen /\ row'.count = row.count /\ row.gen \in Gens
    BY <1>1, <1>2 DEF Rows
  <2> QED
    BY <2>1, Numbers
<1>4. StoreOK' /\ CountOK'
  <2>1. StoreOK'
    BY <1>1, <1>3 DEF IInv, StoreOK, limits, bounds
  <2>2. row' # NoRow
    BY <1>3, Numbers
  <2>3. CountOK'
    BY <1>1, <1>3, <2>2 DEF IInv, CountOK
  <2> QED
    BY <2>1, <2>3
<1>5. q' = [s \in Requests |-> q'[s]]
  BY <1>1 DEF IInv, Requesting
<1>6. \A s \in Requests : RequestOK(s, q'[s], row', setting', cached')
  <2>1. Onward(row, row') /\ row \in Rows \cup {NoRow}
    BY <1>2, <1>3 DEF Onward
  <2>2. \A s \in Requests : /\ RequestOK(s, q[s], row, setting, cached)
                            /\ q[s].pc \notin {"limit", "write"}
    BY <1>1 DEF IInv, Requesting
  <2>3. \A s \in Requests : RequestOK(s, q[s], row', setting, cached)
    BY <2>1, <2>2, RowGoesOn
  <2> QED
    BY <1>1, <2>3 DEF limits
<1> QED
  BY <1>1, <1>4, <1>5, <1>6, AllStep

\* The requests of the session know nothing of the row any more.
LEMMA JanitorStep ==
  ASSUME IInv, Janitor
  PROVE  IInv'
<1>1. /\ row' = NoRow /\ served' = [g \in Gens |-> 0]
      /\ q' = [r \in Requests |-> IF Sticky(r) THEN [q[r] EXCEPT !.lost = TRUE] ELSE q[r]]
      /\ UNCHANGED <<lock, limits, good, bounds, valid>>
  BY DEF Janitor
<1>2. StoreOK' /\ CountOK'
  BY <1>1 DEF IInv, StoreOK, CountOK, limits, bounds
<1>3. ASSUME NEW s \in Requests
      PROVE  /\ RequestOK(s, q'[s], row', setting', cached') /\ q'[s].owner = q[s].owner
             /\ q'[s].used = q[s].used /\ q'[s].gen = q[s].gen /\ q'[s].pc = q[s].pc
  <2>1. RequestOK(s, q[s], row, setting, cached) /\ setting' = setting /\ cached' = cached
    BY <1>1 DEF IInv, Requesting, limits
  <2>2. q[s] \in Req
    BY <2>1 DEF RequestOK, TypedOK
  <2>3. CASE q[s].owner = Session
    <3> DEFINE y == [q[s] EXCEPT !.lost = TRUE]
    <3>1. q'[s] = y
      BY <1>1, <2>3 DEF Sticky
    <3>2. y \in Req
      BY <2>2, Zenon DEF Req
    <3>3. /\ y.pc = q[s].pc /\ y.owner = q[s].owner /\ y.gen = q[s].gen /\ y.row = q[s].row
          /\ y.limit = q[s].limit /\ y.fresh = q[s].fresh /\ y.account = q[s].account
          /\ y.used = q[s].used /\ y.valid = q[s].valid /\ y.turn = q[s].turn /\ y.kept = q[s].kept
          /\ y.lost = TRUE
      BY <2>2 DEF Req
    <3> HIDE DEF y
    <3>4. TypedOK(s, y) /\ HoldOK(y, NoRow) /\ TellOK(y, setting, cached) /\ TurnOK(y)
      BY <2>1, <3>2, <3>3 DEF RequestOK, TypedOK, HoldOK, TellOK, TurnOK
    <3>5. OwnOK(s, y) /\ SessionOK(y, NoRow)
      BY <2>1, <3>3 DEF RequestOK, OwnOK, SessionOK
    <3> QED
      BY <1>1, <2>1, <3>1, <3>3, <3>4, <3>5 DEF RequestOK
  <2>4. CASE q[s].owner # Session
    <3>1. q'[s] = q[s]
      BY <1>1, <2>4 DEF Sticky
    <3>2. HoldOK(q[s], NoRow) /\ SessionOK(q[s], NoRow)
      BY <2>1, <2>4 DEF RequestOK, HoldOK, SessionOK
    <3> QED
      BY <1>1, <2>1, <3>1, <3>2 DEF RequestOK
  <2> QED
    BY <2>3, <2>4
<1>4. q' = [s \in Requests |-> q'[s]]
  BY <1>1
<1> QED
  BY <1>1, <1>2, <1>3, <1>4, AllStep

\* A limit comes into force: the setting becomes l, or the cached one does.
Told(x, l) == IF x.pc \in {"limit", "write"} THEN [x EXCEPT !.valid = @ \cup {l}] ELSE x

LEMMA ToldIs ==
  ASSUME NEW x \in Req, NEW l
  PROVE  /\ Told(x, l).owner = x.owner /\ Told(x, l).used = x.used /\ Told(x, l).gen = x.gen
         /\ Told(x, l).pc = x.pc /\ (x.pc \in {"limit", "write"} => l \in Told(x, l).valid)
BY DEF Told, Req

LEMMA ToldOK ==
  ASSUME NEW r, NEW x, NEW w, NEW s, NEW c, RequestOK(r, x, w, s, c)
  PROVE  \A l, t, d : l \in Limit /\ t \in {s, l} /\ d \in {c, l} =>
                      RequestOK(r, Told(x, l), w, t, d)
<1> SUFFICES ASSUME NEW l \in Limit, NEW t \in {s, l}, NEW d \in {c, l}
             PROVE  RequestOK(r, Told(x, l), w, t, d)
  OBVIOUS
<1>1. x \in Req
  BY DEF RequestOK, TypedOK
<1>2. CASE x.pc \in {"limit", "write"}
  <2> DEFINE y == [x EXCEPT !.valid = x.valid \cup {l}]
  <2>1. Told(x, l) = y
    BY <1>2 DEF Told
  <2>2. x.valid \cup {l} \in SUBSET Limit
    BY <1>1 DEF Req
  <2>3. y \in Req
    BY <1>1, <2>2, Zenon DEF Req
  <2>4. /\ y.pc = x.pc /\ y.owner = x.owner /\ y.gen = x.gen /\ y.row = x.row
        /\ y.limit = x.limit /\ y.fresh = x.fresh /\ y.account = x.account
        /\ y.used = x.used /\ y.valid = x.valid \cup {l} /\ y.turn = x.turn /\ y.kept = x.kept
        /\ y.lost = x.lost
    BY <1>1 DEF Req
  <2> HIDE DEF y
  <2>5. TypedOK(r, y) /\ HoldOK(y, w) /\ TellOK(y, t, d) /\ TurnOK(y)
    BY <1>2, <2>3, <2>4 DEF RequestOK, TypedOK, HoldOK, TellOK, TurnOK
  <2>6. OwnOK(r, y)
    BY <1>2, <2>4 DEF RequestOK, OwnOK
  <2>7. SessionOK(y, w)
    BY <1>2, <2>4 DEF RequestOK, SessionOK
  <2> QED
    BY <2>1, <2>5, <2>6, <2>7 DEF RequestOK
<1>3. CASE x.pc \notin {"limit", "write"}
  BY <1>3 DEF Told, RequestOK, TellOK
<1> QED
  BY <1>2, <1>3

LEMMA PutStep ==
  ASSUME IInv, PutLimit
  PROVE  IInv'
<1>1. PICK l \in Limits : setting' = l /\ InForce(l)
  BY DEF PutLimit
<1>2. l \in Limit
  BY DEF Limit
<1>3. /\ put' = TRUE /\ puts < MaxPuts /\ puts' = puts + 1
      /\ UNCHANGED <<row, lock, cached, good, faults, served>>
  BY DEF PutLimit
<1>4. /\ valid' = valid \cup {l}
      /\ q' = [s \in Requests |-> Told(q[s], l)]
  BY <1>1 DEF InForce, Holds, Told
<1>5. StoreOK' /\ CountOK'
  <2>1. puts' \in 0..MaxPuts
    BY <1>3, ResinAssumption DEF IInv, StoreOK
  <2> QED
    BY <1>1, <1>2, <1>3, <1>4, <2>1 DEF IInv, StoreOK, CountOK
<1>6. ASSUME NEW s \in Requests
      PROVE  /\ RequestOK(s, q'[s], row', setting', cached') /\ q'[s].owner = q[s].owner
             /\ q'[s].used = q[s].used /\ q'[s].gen = q[s].gen /\ q'[s].pc = q[s].pc
  <2>1. RequestOK(s, q[s], row, setting, cached)
    BY DEF IInv, Requesting
  <2>2. RequestOK(s, Told(q[s], l), row, l, cached)
    BY <1>2, <2>1, ToldOK
  <2>3. q[s] \in Req
    BY <2>1 DEF RequestOK, TypedOK
  <2> QED
    BY <1>1, <1>3, <1>4, <2>2, <2>3, ToldIs
<1>7. q' = [s \in Requests |-> q'[s]]
  BY <1>4
<1> QED
  BY <1>3, <1>5, <1>6, <1>7, AllStep

\* If the limit cannot be read the default is in force.
LEMMA LoadFailStep ==
  ASSUME IInv, NEW r \in Requests, LoadFails(r)
  PROVE  IInv'
<1> DEFINE x == Told(q[r], Default)
<1> DEFINE y == [x EXCEPT !.pc = "write", !.limit = Default]
<1>1. /\ q[r].pc = "limit" /\ cached' = Default /\ valid' = valid \cup {Default}
      /\ UNCHANGED <<row, lock, setting, put, good, puts, served>>
      /\ faults < MaxFaults /\ faults' = faults + 1
  BY DEF LoadFails, At, Faulty
<1>2. Default \in Limit
  BY DEF Limit
<1>3. ASSUME NEW s \in Requests
      PROVE  /\ RequestOK(s, Told(q[s], Default), row, setting, Default)
             /\ Told(q[s], Default).owner = q[s].owner /\ Told(q[s], Default).used = q[s].used
             /\ Told(q[s], Default).gen = q[s].gen /\ Told(q[s], Default).pc = q[s].pc
             /\ q[s].pc \in {"limit", "write"} => Default \in Told(q[s], Default).valid
  <2>1. RequestOK(s, q[s], row, setting, cached)
    BY DEF IInv, Requesting
  <2>2. RequestOK(s, Told(q[s], Default), row, setting, Default)
    BY <1>2, <2>1, ToldOK
  <2>3. q[s] \in Req
    BY <2>1 DEF RequestOK, TypedOK
  <2> QED
    BY <2>2, <2>3, ToldIs
<1>4. /\ RequestOK(r, x, row, setting, Default) /\ x.pc = "limit" /\ Default \in x.valid
      /\ x.owner = q[r].owner /\ x.used = q[r].used /\ x.gen = q[r].gen /\ x \in Req
  BY <1>1, <1>3 DEF RequestOK, TypedOK
<1>5. y = [q[r] EXCEPT !.pc = "write", !.limit = Default, !.valid = @ \cup {Default}]
  <2>1. q[r] \in Req
    BY DEF IInv, Requesting
  <2> QED
    BY <1>1, <2>1 DEF Told, Req
<1>6. q' = [s \in Requests |-> IF s = r THEN y ELSE Told(q[s], Default)]
  BY <1>5 DEF LoadFails, Holds, Told
<1> HIDE DEF x
<1>7. y \in Req
  BY <1>2, <1>4, Zenon DEF Req, Place
<1>8. /\ y.pc = "write" /\ y.owner = x.owner /\ y.gen = x.gen /\ y.row = x.row
      /\ y.limit = Default /\ y.fresh = x.fresh /\ y.account = x.account
      /\ y.used = x.used /\ y.valid = x.valid /\ y.turn = x.turn /\ y.kept = x.kept
      /\ y.lost = x.lost
  BY <1>4 DEF Req
<1> HIDE DEF y
<1>9. RequestOK(r, y, row, setting, Default)
  <2>1. TypedOK(r, y) /\ HoldOK(y, row) /\ TellOK(y, setting, Default) /\ TurnOK(y)
    BY <1>4, <1>7, <1>8 DEF RequestOK, TypedOK, HoldOK, TellOK, TurnOK
  <2>2. OwnOK(r, y)
    BY <1>4, <1>8 DEF RequestOK, OwnOK
  <2>3. SessionOK(y, row)
    BY <1>4, <1>8 DEF RequestOK, SessionOK
  <2> QED
    BY <2>1, <2>2, <2>3 DEF RequestOK
<1>10. ASSUME NEW s \in Requests
       PROVE  /\ RequestOK(s, q'[s], row', setting', cached') /\ q'[s].owner = q[s].owner
              /\ q'[s].used = q[s].used /\ q'[s].gen = q[s].gen
              /\ q'[s].pc = q[s].pc \/ (q[s].pc = "limit" /\ q'[s].pc = "write")
  <2>1. CASE s = r
    BY <1>1, <1>4, <1>6, <1>8, <1>9, <2>1
  <2>2. CASE s # r
    BY <1>1, <1>3, <1>6, <2>2
  <2> QED
    BY <2>1, <2>2
<1>11. StoreOK' /\ CountOK'
  <2>1. faults' \in 0..MaxFaults
    BY <1>1, ResinAssumption DEF IInv, StoreOK
  <2> QED
    BY <1>1, <1>2, <2>1 DEF IInv, StoreOK, CountOK
<1>12. q' = [s \in Requests |-> q'[s]]
  BY <1>6
<1> QED
  BY <1>1, <1>10, <1>11, <1>12, AllStep

----------------------------------------------------------------------------
(* The rest of the steps of a request, which end it. *)

LEMMA EndSteps ==
  ASSUME IInv, NEW r \in Requests,
         \/ SelectRow(r) /\ ~Takes(r)
         \/ WriteFails(r) \/ (HelperUnread(r) /\ LastAttempt(r)) \/ Finish(r)
  PROVE  IInv'
<1> DEFINE x == q[r]
<1>1. /\ StoreOK /\ CountOK /\ x \in Req /\ RequestOK(r, x, row, setting, cached)
      /\ (lock = r <=> Holding(x)) /\ x.owner \in {Session, r}
  BY Known
<1>2. /\ Ends(r) /\ UNCHANGED <<row, limits, puts, served, valid>>
      /\ faults' = faults \/ (faults < MaxFaults /\ faults' = faults + 1)
      /\ good' \subseteq good \/ (good' \subseteq good \cup {x.account} /\ x.pc \in {"sent", "deliver"})
      /\ \/ lock' = lock /\ x.pc \in {"route", "sent", "deliver"}
         \/ lock' = Nobody /\ x.pc = "write"
  <2>1. CASE SelectRow(r) /\ ~Takes(r)
    BY <2>1 DEF SelectRow, At, Faulty
  <2>2. CASE WriteFails(r)
    BY <2>2 DEF WriteFails, At, Faulty
  <2>3. CASE HelperUnread(r) /\ LastAttempt(r)
    BY <2>3 DEF HelperUnread, At, bounds
  <2>4. CASE Finish(r)
    <3>1. good' \subseteq good \cup {x.account}
      BY <2>4 DEF Finish, Observed, ObservedBad
    <3> QED
      BY <2>4, <3>1 DEF Finish, At, bounds
  <2> QED
    BY <2>1, <2>2, <2>3, <2>4
<1>3. good' \subseteq good \cup x.used /\ x.used \subseteq Account
  BY <1>1, <1>2 DEF RequestOK, TypedOK, Req
<1>4. faults' \in 0..MaxFaults
  BY <1>1, <1>2, ResinAssumption DEF StoreOK, Faulty
<1>5. (lock' = lock /\ lock # r) \/ (lock = r /\ lock' = Nobody)
  <2>1. x.pc = "write" => x.owner = Session
    BY <1>1 DEF RequestOK, HoldOK
  <2>2. CASE x.pc = "write"
    BY <1>1, <1>2, <2>1, <2>2 DEF Holding
  <2>3. CASE x.pc # "write"
    BY <1>1, <1>2, <2>3 DEF Holding
  <2> QED
    BY <2>2, <2>3
<1>6. StoreOK' /\ CountOK'
  <2>1. good' \subseteq Account /\ lock' \in Requests \cup {Nobody} /\ puts' \in 0..MaxPuts
    BY <1>1, <1>2, <1>3, <1>5 DEF StoreOK
  <2> QED
    BY <1>1, <1>2, <1>4, <2>1, SameStores
<1> QED
  BY <1>2, <1>3, <1>5, <1>6, EndStep DEF limits

LEMMA RequestStep ==
  ASSUME IInv, NEW r \in Requests, Request(r)
  PROVE  IInv'
<1>1. CASE Begin(r)
  BY <1>1, BeginStep
<1>2. CASE OwnAccount(r)
  BY <1>2, OwnStep
<1>3. CASE SelectRow(r)
  <2>1. CASE ~Takes(r)
    BY <1>3, <2>1, EndSteps
  <2>2. CASE Takes(r)
    <3>1. /\ Free /\ At(r, "route") /\ Sticky(r) /\ UNCHANGED <<row, limits, good, puts, served, valid>>
          /\ \/ /\ Becomes(r, [q[r] EXCEPT !.pc = "limit", !.row = row, !.valid = valid])
                /\ UNCHANGED faults
             \/ UNCHANGED lock
      BY <1>3 DEF SelectRow
    <3>2. lock' # lock
      BY <2>2, <3>1, ResinAssumption DEF Takes, Free
    <3> QED
      BY <2>2, <3>1, <3>2, TakeStep DEF bounds
  <2> QED
    BY <2>1, <2>2
<1>4. CASE CachedLimit(r)
  BY <1>4, CachedStep
<1>5. CASE LoadLimit(r)
  BY <1>5, LoadStep
<1>6. CASE LoadFails(r)
  BY <1>6, LoadFailStep
<1>7. CASE WriteRow(r)
  BY <1>7, WriteStep
<1>8. CASE WriteFails(r)
  BY <1>8, EndSteps
<1>9. CASE Pick(r)
  BY <1>9, PickStep
<1>10. CASE Fails(r)
  BY <1>10, FailStep
<1>11. CASE HelperRefused(r)
  BY <1>11, RefusedStep
<1>12. CASE HelperUnread(r)
  BY <1>12, EndSteps, UnreadStep
<1>13. CASE AdvanceOwn(r)
  BY <1>13, AdvanceOwnStep
<1>14. CASE AdvanceRow(r)
  BY <1>14, AdvanceRowStep
<1>15. CASE AdvanceFails(r)
  BY <1>15, AdvanceFailStep
<1>16. CASE Finish(r)
  BY <1>16, EndSteps
<1> QED
  BY <1>1, <1>2, <1>3, <1>4, <1>5, <1>6, <1>7, <1>8, <1>9, <1>10, <1>11, <1>12, <1>13, <1>14,
     <1>15, <1>16 DEF Request

----------------------------------------------------------------------------
(* The theorems. *)

LEMMA InvInit == Init => IInv
<1> SUFFICES ASSUME Init PROVE IInv
  OBVIOUS
<1>1. ASSUME NEW r \in Requests
      PROVE  /\ q[r] \in Req /\ q[r].pc = "idle" /\ q[r].owner = r /\ q[r].used = {}
             /\ q[r].turn = 0
  <2>1. q[r] = NewRequest(r)
    BY DEF Init
  <2>2. <<r, 0>> \in Account
    BY Numbers DEF Account
  <2>3. NewRequest(r) \in Req
    BY <2>2, Numbers DEF Req, Place, NewRequest
  <2> QED
    BY <2>1, <2>3 DEF NewRequest
<1>2. StoreOK
  <2>1. 0 \in 0..MaxPuts /\ 0 \in 0..MaxFaults
    BY ResinAssumption
  <2> QED
    BY <2>1, Numbers DEF Init, StoreOK, Limit
<1>3. CountOK
  BY DEF Init, CountOK
<1>4. LockOK
  BY <1>1, ResinAssumption DEF Init, LockOK, Holding
<1>5. Requesting
  <2>1. q \in [Requests -> Req]
    BY <1>1 DEF Init
  <2>2. \A r \in Requests : RequestOK(r, q[r], row, setting, cached)
    BY <1>1, Numbers DEF RequestOK, TypedOK, HoldOK, TellOK, TurnOK, OwnOK, SessionOK
  <2> QED
    BY <2>1, <2>2 DEF Requesting
<1>6. Earned
  BY <1>1 DEF Init, Earned, EarnedOK, UpTo
<1> QED
  BY <1>2, <1>3, <1>4, <1>5, <1>6 DEF IInv

LEMMA InvStep == IInv /\ [Next]_vars => IInv'
<1> SUFFICES ASSUME IInv, [Next]_vars PROVE IInv'
  OBVIOUS
<1>1. CASE \E r \in Requests : Request(r)
  BY <1>1, RequestStep
<1>2. CASE ScoreFades
  BY <1>2, FadeStep
<1>3. CASE PutLimit
  BY <1>3, PutStep
<1>4. CASE DropLimit
  BY <1>4, DropStep
<1>5. CASE DayPasses
  BY <1>5, DayStep
<1>6. CASE Janitor
  BY <1>6, JanitorStep
<1>7. CASE UNCHANGED vars
  BY <1>7 DEF vars, limits, bounds, IInv, StoreOK, CountOK, LockOK, Requesting, Earned
<1> QED
  BY <1>1, <1>2, <1>3, <1>4, <1>5, <1>6, <1>7 DEF Next

LEMMA Always == Spec => []IInv
BY InvInit, InvStep, PTL DEF Spec

\* The lock is its holder's, who has a session and is between its statements.
THEOREM ResinRoutesType == Spec => []TypeOK
<1>1. IInv => TypeOK
  <2> SUFFICES ASSUME IInv PROVE TypeOK
    OBVIOUS
  <2>1. ASSUME NEW r \in Requests
        PROVE  /\ q[r].owner \in {Session, r} /\ q[r].gen \in Gens /\ q[r].attempt < MaxAttempts
               /\ q[r].fresh \in Account /\ q[r].account \in Account /\ q[r].used \subseteq Account
               /\ lock = r <=> Sticky(r) /\ Holds(r)
    <3>1. q[r] \in Req /\ q[r].owner \in {Session, r} /\ (lock = r <=> Holding(q[r]))
      BY Known
    <3>2. q[r].attempt < MaxAttempts
      BY <3>1, ResinAssumption DEF Req
    <3> QED
      BY <3>1, <3>2 DEF Req, Holding, Sticky, Holds
  <2> QED
    BY <2>1 DEF IInv, StoreOK, TypeOK
<1> QED
  BY <1>1, Always, PTL

\* The row counts the requests of its generation, no generation serves more
\* than a limit that was in force, and the types are right.
THEOREM ResinRoutesHold == Spec => []RoutesHold
<1>1. IInv => CountsTell /\ QuotaKept
  <2> SUFFICES ASSUME IInv PROVE CountsTell /\ QuotaKept
    OBVIOUS
  <2>1. CountsTell
    <3> SUFFICES ASSUME row # NoRow, NEW g \in Gens, served[g] > 0
                 PROVE  g <= row.gen /\ (g = row.gen => row.count = served[g])
      BY DEF CountsTell
    <3>1. g \in Nat /\ row.gen \in Nat
      BY Numbers DEF IInv, StoreOK, Rows
    <3> QED
      BY <3>1 DEF IInv, CountOK
  <2>2. QuotaKept
    <3>1. \A r \in Requests : TurnOK(q[r])
      BY DEF IInv, Requesting, RequestOK
    <3> QED
      BY <3>1 DEF QuotaKept, TurnOK, At
  <2> QED
    BY <2>1, <2>2
<1> QED
  BY <1>1, Always, ResinRoutesType, PTL DEF RoutesHold

\* Only a pick sends a request out.
LEMMA OnlyPick ==
  ASSUME IInv, Next, NEW r \in Requests, At(r, "pick"), q'[r].pc = "sent"
  PROVE  Pick(r)
<1>0. q \in [Requests -> Req]
  BY DEF IInv, Requesting
<1>1. ASSUME NEW l PROVE Told(q[r], l).pc = "pick"
  BY DEF Told, At
<1>2. ASSUME NEW s \in Requests, Request(s) PROVE Pick(r)
  <2>1. CASE LoadFails(s)
    <3>1. q[s].pc = "limit" /\ s # r
      BY <2>1 DEF LoadFails, At
    <3>2. q'[r] = Told(q[r], Default)
      BY <2>1, <3>1 DEF LoadFails, Holds, Told
    <3> QED
      BY <1>1, <3>2
  <2>2. CASE Request(s) /\ ~LoadFails(s)
    <3>1. \E y : q' = [q EXCEPT ![s] = y]
      BY <2>2 DEF Request, Begin, OwnAccount, SelectRow, CachedLimit, LoadLimit, WriteRow, WriteFails,
        Pick, Fails, HelperRefused, HelperUnread, AdvanceOwn, AdvanceRow, AdvanceFails, Finish,
        Becomes, Ends
    <3>2. s = r
      BY <1>0, <3>1 DEF At
    <3> QED
      BY <2>2, <3>2 DEF Request, Begin, OwnAccount, SelectRow, CachedLimit, LoadLimit, WriteRow,
        WriteFails, Pick, Fails, HelperRefused, HelperUnread, AdvanceOwn, AdvanceRow, AdvanceFails,
        Finish, At
  <2> QED
    BY <1>2, <2>1, <2>2
<1>3. CASE ScoreFades \/ DropLimit \/ DayPasses
  BY <1>3 DEF ScoreFades, DropLimit, DayPasses, At
<1>4. CASE PutLimit
  BY <1>1, <1>4 DEF PutLimit, InForce, Holds, Told
<1>5. CASE Janitor
  BY <1>0, <1>5 DEF Janitor, At, Req
<1> QED
  BY <1>2, <1>3, <1>4, <1>5 DEF Next

\* No request goes out twice with one account.
THEOREM ResinNoAccountTwice == Spec => NoAccountTwice
<1> DEFINE New == \A r \in Requests :
                    At(r, "pick") /\ q'[r].pc = "sent" /\ ~q[r].kept /\ ~q[r].lost =>
                      q'[r].account \notin q[r].used
<1>1. IInv /\ [Next]_vars => [New]_vars
  <2> SUFFICES ASSUME IInv, Next, NEW r \in Requests, At(r, "pick"), q'[r].pc = "sent",
                      ~q[r].kept, ~q[r].lost
               PROVE  q'[r].account \notin q[r].used
    OBVIOUS
  <2>1. Pick(r)
    BY OnlyPick
  <2>2. /\ q[r] \in Req /\ RequestOK(r, q[r], row, setting, cached) /\ q[r].owner \in {Session, r}
        /\ q[r].pc = "pick"
    BY Known DEF At
  <2>3. q'[r].account = q[r].fresh \/ q'[r].account \in Eligible(r)
    <3>1. q \in [Requests -> Req]
      BY DEF IInv, Requesting
    <3> QED
      BY <2>1, <3>1 DEF Pick, Becomes, Req
  <2>4. q[r].fresh \notin q[r].used
    <3>1. \A g \in Gens : g \in Nat /\ ~(g < g)
      BY Numbers
    <3>2. q[r].fresh \in Account
      BY <2>2 DEF Req
    <3>3. CASE q[r].owner = r
      <4>1. q[r].fresh = <<r, q[r].gen>> /\ Below(q[r].used, r, q[r].gen) /\ q[r].gen \in Gens
        BY <2>2, <3>3 DEF RequestOK, OwnOK, Req
      <4> QED
        BY <3>1, <4>1 DEF Below
    <3>4. CASE q[r].owner = Session
      <4>1. /\ q[r].fresh[1] = Session /\ q[r].fresh[2] \in Gens
            /\ Below(q[r].used, Session, q[r].fresh[2])
        BY <2>2, <3>2, <3>4 DEF RequestOK, TypedOK, SessionOK, Account
      <4>2. q[r].fresh = <<Session, q[r].fresh[2]>>
        BY <3>2, <4>1 DEF Account
      <4> QED
        BY <3>1, <4>1, <4>2 DEF Below
    <3> QED
      BY <2>2, <3>3, <3>4
  <2> QED
    BY <2>3, <2>4 DEF Eligible
<1> QED
  BY <1>1, Always, PTL DEF Spec, NoAccountTwice
=============================================================================
