-------------------------- MODULE ClientKeysProofs --------------------------
(***************************************************************************)
(* What the console does to client keys takes effect, for any number of     *)
(* handlers, clients, keys and restarts. A hash that a statement has        *)
(* removed comes back by the setting only, so it is in no row after that;   *)
(* the cached rows may have it until its own handler drops them, which is   *)
(* before its removal is answered. A patch that was not overtaken still     *)
(* finds the row it has read.                                               *)
(*                                                                          *)
(* And what the limiter promises a key, for any number of calls and any     *)
(* limits: a window and the ledger of what was booked agree on everything   *)
(* that is less than a minute old, whatever order the stamps came in.       *)
(***************************************************************************)
EXTENDS ClientKeys, KeyLimiter, FiniteSetTheorems, SequenceTheorems, WellFoundedInduction, TLAPS

Place == {"idle", "drop", "patch", "delete", "drop to select", "select", "load", "rotate",
          "drop to setting", "setting", "compare", "restore", "insert"}
Task == [at : Place, id : 0..MaxKeys, row : Row \cup {NoRow}, patch : Patch \cup {[field |-> "none"]},
         hash : 0..MaxHash, old : 0..MaxHash, raced : BOOLEAN]

\* The hashes in the rows R.
HashesIn(R) == {R[i].hash : i \in {j \in Ids : R[j] # NoRow}}

\* A task has read its row, which is as it was unless it was overtaken.
RowRead(t, R) ==
  /\ t.at \in {"patch", "delete", "load", "rotate"} => t.id \in Ids
  /\ t.at \in {"patch", "rotate"} => t.row \in Row
  /\ t.at = "patch" => t.patch \in Patch /\ (~t.raced => R[t.id] = t.row)

\* What it has removed is retired (ret), and once it has dropped the cached
\* rows (c) these do not have it; the key it has made is in a row, unless that
\* was removed again (ret), was not there (v), or the setting has held it (fo).
\* A client restores a key that the setting has held.
HashOK(t, R, f, c, ret, v, fo) ==
  /\ t.hash < f
  /\ t.old \in ret \cup {0}
  /\ t.at \in {"restore", "insert"} => t.hash \in fo
  /\ t.at \in {"drop to setting", "setting"} => t.hash # 0
  /\ t.at \in {"drop", "drop to setting", "setting"} /\ t.hash # 0 =>
       t.hash \in HashesIn(R) \cup ret \cup v \cup fo
  /\ t.at = "setting" /\ c # NoCopy =>
       /\ t.old \notin c \/ t.old \in fo
       /\ t.hash \in c \cup ret \cup v \cup fo

TaskOK(t, R, f, c, ret, v, fo) == t \in Task /\ RowRead(t, R) /\ HashOK(t, R, f, c, ret, v, fo)
Tasks == /\ task \in [Actors -> Task]
         /\ \A a \in Actors : TaskOK(task[a], rows, fresh, copy, retired, void, former)

\* Of the rows and the histories.
Tables ==
  /\ TypeOK
  /\ \A i \in Ids : i >= nextId => rows[i] = NoRow
  /\ \A h \in HashesIn(rows) \cup retired \cup void \cup former : h < fresh
  /\ setting \in former
Removals ==
  /\ gone \subseteq retired
  /\ \A h \in retired : h \notin HashesIn(rows) \/ h \in former
  /\ copy # NoCopy => \A h \in gone : h \notin copy \/ h \in former
Handed ==
  \A h \in known : h \in retired \cup void \cup former
                   \/ (h \in HashesIn(rows) /\ (copy = NoCopy \/ h \in copy))

IInv == Tables /\ Removals /\ Handed /\ Tasks

----------------------------------------------------------------------------
(* Frames. *)

LEMMA Facts ==
  /\ NoRow \notin Row /\ NoCopy \notin SUBSET Hashes /\ Ids \subseteq Nat /\ Hashes \subseteq Nat
  /\ 0 \notin Hashes
BY KeysAssumption DEF Row, Names, Hashes, Ids

\* A set of natural numbers that is not empty has a least member.
LEMMA LeastNat ==
  ASSUME NEW S, S \subseteq Nat, S # {}
  PROVE  \E m \in S : \A k \in S : m <= k
<1>1. PICK m \in S : \A k \in S : ~ (<<k, m>> \in OpToRel(<, Nat))
  BY NatLessThanWellFounded, WFMin
<1>2. \A k \in S : ~(k < m)
  BY <1>1 DEF OpToRel
<1>3. \A k \in S : k \in Nat /\ m \in Nat
  OBVIOUS
<1> QED
  BY <1>2, <1>3

LEMMA StoredIs ==
  /\ Stored = HashesIn(rows)
  /\ \A R, h : h \in HashesIn(R) <=> \E i \in Ids : R[i] # NoRow /\ R[i].hash = h
BY DEF Stored, Present, There, HashesIn

\* A task that is not the one to take a step stays all right, if no row it has
\* read is written without its notice.
LEMMA TaskStays ==
  ASSUME NEW t, NEW R, NEW f, NEW c, NEW ret, NEW v, NEW fo, TaskOK(t, R, f, c, ret, v, fo),
         f \in Nat,
         NEW R2, NEW f2 \in Nat, NEW c2, NEW ret2, NEW v2, NEW fo2,
         f2 >= f, ret \subseteq ret2, v \subseteq v2, fo \subseteq fo2,
         HashesIn(R) \subseteq HashesIn(R2) \cup ret2,
         \A h \in ret : h \notin HashesIn(R) \/ h \in fo,
         t.at = "patch" /\ ~t.raced => R2[t.id] = R[t.id],
         0 \notin HashesIn(R),
         c2 = c \/ c2 = NoCopy \/ c2 = HashesIn(R)
  PROVE  TaskOK(t, R2, f2, c2, ret2, v2, fo2)
<1>1. t \in Task /\ RowRead(t, R2)
  BY DEF TaskOK, RowRead
<1>2. t.hash < f2
  <2>1. t.hash \in Nat
    BY DEF TaskOK, Task
  <2>2. t.hash < f
    BY DEF TaskOK, HashOK
  <2> QED
    BY <2>1, <2>2
<1>3. /\ t.old \in ret2 \cup {0}
      /\ t.at \in {"restore", "insert"} => t.hash \in fo2
      /\ t.at \in {"drop to setting", "setting"} => t.hash # 0
      /\ t.at \in {"drop", "drop to setting", "setting"} /\ t.hash # 0 =>
           t.hash \in HashesIn(R2) \cup ret2 \cup v2 \cup fo2
  BY DEF TaskOK, HashOK
<1>4. t.at = "setting" /\ c2 # NoCopy => /\ t.old \notin c2 \/ t.old \in fo2
                                         /\ t.hash \in c2 \cup ret2 \cup v2 \cup fo2
  <2>1. CASE c2 = c
    BY <2>1 DEF TaskOK, HashOK
  <2>2. CASE c2 = HashesIn(R)
    BY <2>2 DEF TaskOK, HashOK
  <2> QED
    BY <2>1, <2>2
<1> QED
  BY <1>1, <1>2, <1>3, <1>4 DEF TaskOK, HashOK

\* A task that is overtaken is all right.
LEMMA TaskRaced ==
  ASSUME NEW t, NEW R, NEW f, NEW c, NEW ret, NEW v, NEW fo, TaskOK(t, R, f, c, ret, v, fo)
  PROVE  TaskOK([t EXCEPT !.raced = TRUE], R, f, c, ret, v, fo)
<1> DEFINE u == [t EXCEPT !.raced = TRUE]
<1>1. u \in Task
  BY DEF TaskOK, Task
<1>2. /\ u.at = t.at /\ u.id = t.id /\ u.row = t.row /\ u.patch = t.patch /\ u.hash = t.hash
      /\ u.old = t.old /\ u.raced = TRUE
  BY DEF TaskOK, Task
<1> HIDE DEF u
<1>3. RowRead(u, R) /\ HashOK(u, R, f, c, ret, v, fo)
  BY <1>2 DEF TaskOK, RowRead, HashOK
<1> QED
  BY <1>1, <1>3 DEF TaskOK, u

\* Task a becomes y, and the patches that have read a row of S are overtaken.
LEMMA OneTask ==
  ASSUME IInv, Tables', Removals', Handed', NEW a \in Actors, NEW S, NEW y,
         TaskOK(y, rows', fresh', copy', retired', void', former'),
         task' = [Outdated(S) EXCEPT ![a] = y],
         fresh' >= fresh, retired \subseteq retired', void \subseteq void', former \subseteq former',
         HashesIn(rows) \subseteq HashesIn(rows') \cup retired',
         \A i \in Ids : rows[i] # NoRow /\ i \notin S => rows'[i] = rows[i],
         copy' = copy \/ copy' = NoCopy \/ copy' = HashesIn(rows)
  PROVE  IInv'
<1>1. fresh \in Nat /\ fresh' \in Nat
  BY DEF Tables, TypeOK, IInv
<1>2. \A h \in retired : h \notin HashesIn(rows) \/ h \in former
  BY DEF IInv, Removals
<1>3. 0 \notin HashesIn(rows)
  <2>1. \A i \in Ids : rows[i] # NoRow => rows[i].hash \in Hashes
    BY DEF IInv, Tables, TypeOK, Row
  <2> QED
    BY <2>1, Facts, StoredIs
<1>4. ASSUME NEW b \in Actors
      PROVE  TaskOK(Outdated(S)[b], rows', fresh', copy', retired', void', former')
  <2>1. TaskOK(task[b], rows, fresh, copy, retired, void, former)
    BY DEF IInv, Tasks
  <2>2. CASE At(b, "patch") /\ task[b].id \in S
    <3>1. Outdated(S)[b] = [task[b] EXCEPT !.raced = TRUE]
      BY <2>2 DEF Outdated
    <3>2. TaskOK(Outdated(S)[b], rows, fresh, copy, retired, void, former)
      BY <2>1, <3>1, TaskRaced
    <3>3. Outdated(S)[b].raced = TRUE
      BY <2>1, <3>1 DEF TaskOK, Task
    <3> QED
      BY <1>1, <1>2, <1>3, <3>2, <3>3, TaskStays
  <2>3. CASE ~(At(b, "patch") /\ task[b].id \in S)
    <3>1. Outdated(S)[b] = task[b]
      BY <2>3 DEF Outdated
    <3>2. task[b].at = "patch" /\ ~task[b].raced => rows'[task[b].id] = rows[task[b].id]
      BY <2>1, <2>3, Facts DEF At, TaskOK, RowRead
    <3> QED
      BY <1>1, <1>2, <1>3, <2>1, <3>1, <3>2, TaskStays
  <2> QED
    BY <2>2, <2>3
<1>5. ASSUME NEW b \in Actors
      PROVE  TaskOK(task'[b], rows', fresh', copy', retired', void', former')
  BY <1>4 DEF Outdated
<1>6. Tasks'
  <2>1. task' = [b \in Actors |-> task'[b]]
    BY DEF Outdated
  <2> QED
    BY <1>5, <2>1 DEF Tasks, TaskOK
<1> QED
  BY <1>6 DEF IInv

LEMMA NotOutdated ==
  ASSUME IInv
  PROVE  Outdated({}) = task
BY DEF IInv, Tasks, Outdated

\* A step that only gives task a something else to do.
LEMMA OnlyTask ==
  ASSUME IInv, NEW a \in Actors, NEW y, task' = [task EXCEPT ![a] = y],
         UNCHANGED <<table, setting, copy, fresh, stops, history>>, asked' \in 0..MaxAsked,
         y \in Task, RowRead(y, rows), HashOK(y, rows, fresh, copy, retired, void, former)
  PROVE  IInv'
<1>1. /\ rows' = rows /\ nextId' = nextId /\ setting' = setting /\ copy' = copy /\ fresh' = fresh
      /\ stops' = stops /\ known' = known /\ retired' = retired /\ gone' = gone /\ void' = void
      /\ former' = former
  BY DEF table, history
<1>2. TypeOK'
  BY <1>1 DEF IInv, Tables, TypeOK, Present, There
<1>3. Tables' /\ Removals' /\ Handed'
  BY <1>1, <1>2 DEF IInv, Tables, Removals, Handed
<1>4. fresh \in Nat
  BY DEF IInv, Tables, TypeOK
<1>5. task' = [Outdated({}) EXCEPT ![a] = y]
  BY NotOutdated
<1>6. TaskOK(y, rows', fresh', copy', retired', void', former')
  BY <1>1 DEF TaskOK
<1>7. /\ fresh' >= fresh /\ retired \subseteq retired' /\ void \subseteq void' /\ former \subseteq former'
      /\ HashesIn(rows) \subseteq HashesIn(rows') \cup retired'
      /\ \A i \in Ids : rows[i] # NoRow /\ i \notin {} => rows'[i] = rows[i]
  BY <1>1, <1>4
<1> QED
  BY <1>1, <1>3, <1>5, <1>6, <1>7, OneTask

\* A step that changes the rows keeps their hashes apart, adds only what is
\* fresh or the setting has held, and retires what it removes.
LEMMA RowsStep ==
  ASSUME IInv, TypeOK',
         \A i \in Ids : i >= nextId' => rows'[i] = NoRow,
         UNCHANGED <<setting, known, gone, former>>, copy' = copy \/ copy' = NoCopy,
         fresh' = fresh \/ fresh' = fresh + 1,
         \A h \in HashesIn(rows') : h \in HashesIn(rows) \cup former \/ (h = fresh /\ fresh' = fresh + 1),
         HashesIn(rows) \subseteq HashesIn(rows') \cup retired',
         retired \subseteq retired', retired' \subseteq retired \cup HashesIn(rows),
         \A h \in retired' : h \notin HashesIn(rows') \/ h \in former,
         void' = void \/ (void' = void \cup {fresh} /\ fresh' = fresh + 1)
  PROVE  Tables' /\ Removals' /\ Handed'
<1>1. \A h \in HashesIn(rows) \cup retired \cup void \cup former : h < fresh /\ h \in Nat
  <2>1. HashesIn(rows) \cup retired \cup void \cup former \subseteq Hashes
    <3>1. \A i \in Ids : rows[i] # NoRow => rows[i].hash \in Hashes
      BY DEF IInv, Tables, TypeOK, Row
    <3> QED
      BY <3>1, StoredIs DEF IInv, Tables, TypeOK
  <2> QED
    BY <2>1, Facts DEF IInv, Tables
<1>2. fresh \in Nat
  BY DEF IInv, Tables, TypeOK
<1>3. \A h \in HashesIn(rows') \cup retired' \cup void' \cup former' : h < fresh'
  BY <1>1, <1>2
<1>4. Tables'
  BY <1>3 DEF IInv, Tables
<1>5. Removals'
  BY DEF IInv, Removals
<1>6. Handed'
  BY DEF IInv, Handed
<1> QED
  BY <1>4, <1>5, <1>6

\* One row is put, changed or removed.
LEMMA RowPut ==
  ASSUME IInv, NEW i \in Ids, NEW r \in Row \cup {NoRow}, rows' = [rows EXCEPT ![i] = r],
         r # NoRow => /\ i < nextId'
                      /\ \A j \in Ids : j # i /\ rows[j] # NoRow => rows[j].hash # r.hash
                      /\ \/ r.hash \in HashesIn(rows) \cup former
                         \/ r.hash = fresh /\ fresh' = fresh + 1,
         retired' = IF rows[i] # NoRow /\ (r = NoRow \/ r.hash # rows[i].hash)
                    THEN retired \cup {rows[i].hash} ELSE retired,
         nextId' = nextId \/ (nextId' = nextId + 1 /\ nextId <= MaxKeys),
         fresh' = fresh \/ (fresh' = fresh + 1 /\ fresh <= MaxHash),
         void' = void \/ (void' = void \cup {fresh} /\ fresh' = fresh + 1),
         UNCHANGED <<setting, known, gone, former>>, copy' = copy \/ copy' = NoCopy,
         stops' \in 0..MaxStops, asked' \in 0..MaxAsked
  PROVE  /\ Tables' /\ Removals' /\ Handed'
         /\ HashesIn(rows) \subseteq HashesIn(rows') \cup retired'
         /\ r # NoRow => r.hash \in HashesIn(rows')
<1>1. /\ rows \in [Ids -> Row \cup {NoRow}] /\ rows' \in [Ids -> Row \cup {NoRow}]
      /\ rows'[i] = r /\ \A j \in Ids : j # i => rows'[j] = rows[j]
  BY DEF IInv, Tables, TypeOK
<1>2. nextId \in Nat /\ fresh \in Hashes \cup {MaxHash + 1} /\ Ids \subseteq Nat /\ MaxHash \in Nat
  BY KeysAssumption, Facts DEF IInv, Tables, TypeOK, Hashes
<1>3. \A j, k \in Ids : rows[j] # NoRow /\ rows[k] # NoRow /\ rows[j].hash = rows[k].hash => j = k
  BY DEF IInv, Tables, TypeOK, Present, There
<1>4. \A j, k \in Ids : rows'[j] # NoRow /\ rows'[k] # NoRow /\ rows'[j].hash = rows'[k].hash => j = k
  BY <1>1, <1>3
<1>5. retired' \subseteq retired \cup HashesIn(rows) /\ retired \subseteq retired'
  BY StoredIs
<1>6. HashesIn(rows) \subseteq Hashes
  <2>1. \A j \in Ids : rows[j] # NoRow => rows[j].hash \in Hashes
    BY <1>1 DEF Row
  <2> QED
    BY <2>1, StoredIs
<1>7. TypeOK'
  <2>1. nextId' \in 1..(MaxKeys + 1) /\ fresh' \in 1..(MaxHash + 1)
    BY KeysAssumption DEF IInv, Tables, TypeOK
  <2>2. void' \subseteq Hashes
    <3>1. CASE void' = void
      BY <3>1 DEF IInv, Tables, TypeOK
    <3>2. CASE void' = void \cup {fresh} /\ fresh' = fresh + 1
      <4>1. fresh <= MaxHash
        BY <3>2, <1>2, Facts
      <4>2. fresh \in Hashes
        BY <4>1, <1>2
      <4> QED
        BY <3>2, <4>2 DEF IInv, Tables, TypeOK
    <3> QED
      BY <3>1, <3>2
  <2>3. retired' \subseteq Hashes
    BY <1>5, <1>6 DEF IInv, Tables, TypeOK
  <2>4. setting' \in Hashes /\ copy' \in (SUBSET Hashes) \cup {NoCopy}
    <3>1. setting \in Hashes /\ copy \in (SUBSET Hashes) \cup {NoCopy}
      BY DEF IInv, Tables, TypeOK
    <3> QED
      BY <3>1
  <2>5. \A S \in {known', retired', gone', void', former'} : S \subseteq Hashes
    BY <2>2, <2>3 DEF IInv, Tables, TypeOK
  <2>6. (\A j, k \in Present : rows[j].hash = rows[k].hash => j = k)'
    BY <1>4 DEF Present, There
  <2> QED
    BY <1>1, <2>1, <2>4, <2>5, <2>6 DEF TypeOK
<1>8. \A j \in Ids : j >= nextId' => rows'[j] = NoRow
  <2>1. \A j \in Ids : j >= nextId => rows[j] = NoRow
    BY DEF IInv, Tables
  <2>2. \A j \in Ids : j >= nextId' => j >= nextId
    BY <1>2
  <2>3. r # NoRow => ~(i >= nextId')
    BY <1>2
  <2> QED
    BY <1>1, <2>1, <2>2, <2>3
<1>9. \A h \in HashesIn(rows') : h \in HashesIn(rows) \/ (r # NoRow /\ h = r.hash)
  BY <1>1 DEF HashesIn
<1>10. HashesIn(rows) \subseteq HashesIn(rows') \cup retired'
  <2> SUFFICES ASSUME NEW j \in Ids, rows[j] # NoRow
               PROVE  rows[j].hash \in HashesIn(rows') \cup retired'
    BY DEF HashesIn
  <2>1. CASE j # i
    BY <1>1, <2>1, StoredIs
  <2>2. CASE j = i
    BY <1>1, <2>2, StoredIs
  <2> QED
    BY <2>1, <2>2
<1>11. ASSUME NEW h \in retired', h \in HashesIn(rows')
       PROVE  h \in former
  <2>1. CASE h \in retired
    <3>1. h < fresh
      BY <2>1 DEF IInv, Tables
    <3>4. h \in Hashes /\ fresh \in Nat
      BY <2>1 DEF IInv, Tables, TypeOK
    <3>2. h # fresh
      BY <3>1, <3>4, Facts
    <3> QED
      BY <1>9, <1>11, <2>1, <3>2 DEF IInv, Removals
  <2>2. CASE h \notin retired
    <3>1. rows[i] # NoRow /\ (r = NoRow \/ r.hash # rows[i].hash) /\ h = rows[i].hash
      BY <1>11, <2>2
    <3>a. \A R : h \in HashesIn(R) <=> \E j \in Ids : R[j] # NoRow /\ R[j].hash = h
      BY StoredIs
    <3>b. \E j \in Ids : rows'[j] # NoRow /\ rows'[j].hash = h
      BY <1>11, <3>a
    <3>2. PICK j \in Ids : rows'[j] # NoRow /\ rows'[j].hash = h
      BY <3>b
    <3>3. j # i
      BY <1>1, <3>1, <3>2
    <3> QED
      BY <1>1, <1>3, <3>1, <3>2, <3>3
  <2> QED
    BY <2>1, <2>2
<1>12. r # NoRow => r.hash \in HashesIn(rows')
  BY <1>1, StoredIs
<1>13. \A h \in HashesIn(rows') : h \in HashesIn(rows) \cup former \/ (h = fresh /\ fresh' = fresh + 1)
  BY <1>9
<1>14. fresh' = fresh \/ fresh' = fresh + 1
  OBVIOUS
<1>15. Tables' /\ Removals' /\ Handed'
  BY <1>5, <1>7, <1>8, <1>10, <1>11, <1>13, <1>14, RowsStep
<1> QED
  BY <1>10, <1>12, <1>15

\* One row is put, changed or removed; task a becomes y.
LEMMA RowWritten ==
  ASSUME IInv, NEW a \in Actors, NEW S, NEW y \in Task, task' = [Outdated(S) EXCEPT ![a] = y],
         RowRead(y, rows'), HashOK(y, rows', fresh', copy, retired', void', former),
         NEW i \in Ids, NEW r \in Row \cup {NoRow}, rows' = [rows EXCEPT ![i] = r],
         rows[i] # NoRow => i \in S,
         Tables', Removals', Handed', HashesIn(rows) \subseteq HashesIn(rows') \cup retired',
         retired \subseteq retired', void \subseteq void',
         fresh' = fresh \/ fresh' = fresh + 1,
         UNCHANGED <<setting, copy, former>>
  PROVE  IInv'
<1>1. TaskOK(y, rows', fresh', copy', retired', void', former')
  BY DEF TaskOK
<1>2. \A j \in Ids : rows[j] # NoRow /\ j \notin S => rows'[j] = rows[j]
  BY DEF IInv, Tables, TypeOK
<1>3. fresh' >= fresh
  BY DEF IInv, Tables, TypeOK
<1> QED
  BY <1>1, <1>2, <1>3, OneTask


----------------------------------------------------------------------------
(* The steps that only read. *)

LEMMA TaskIs ==
  ASSUME IInv, NEW a \in Actors
  PROVE  /\ task[a] \in Task /\ RowRead(task[a], rows) /\ task \in [Actors -> Task]
         /\ HashOK(task[a], rows, fresh, copy, retired, void, former)
         /\ rows \in [Ids -> Row \cup {NoRow}] /\ fresh \in Nat /\ fresh > 0
BY DEF IInv, Tables, TypeOK, Tasks, TaskOK

LEMMA IdleIs ==
  Idle \in Task /\ Idle.at = "idle" /\ Idle.hash = 0 /\ Idle.old = 0
<1>1. Idle \in Task
  BY KeysAssumption DEF Idle, Task, Place
<1>2. Idle.at = "idle" /\ Idle.hash = 0 /\ Idle.old = 0
  BY DEF Idle
<1> QED
  BY <1>1, <1>2

LEMMA IdleOK ==
  ASSUME NEW R, NEW f \in Nat, f > 0, NEW c, NEW ret, NEW v, NEW fo
  PROVE  TaskOK(Idle, R, f, c, ret, v, fo)
BY IdleIs DEF TaskOK, RowRead, HashOK

LEMMA ReadStep ==
  ASSUME IInv, NEW a \in Actors, PatchRead(a) \/ DeleteCount(a) \/ Rotate(a)
  PROVE  IInv'
<1> DEFINE x == task[a]
<1>1. /\ x \in Task /\ RowRead(x, rows) /\ task \in [Actors -> Task]
      /\ HashOK(x, rows, fresh, copy, retired, void, former) /\ rows \in [Ids -> Row \cup {NoRow}]
  BY TaskIs
<1>2. /\ x.at = "idle" /\ UNCHANGED <<table, setting, copy, fresh, stops, history>>
      /\ asked < MaxAsked /\ asked' = asked + 1
  BY DEF PatchRead, DeleteCount, Rotate, Asked, At
<1>3. asked' \in 0..MaxAsked
  BY <1>2, KeysAssumption DEF IInv, Tables, TypeOK
<1>4. PICK i \in Ids, p \in Patch, place \in {"patch", "delete", "load"}, w \in Row \cup {NoRow} :
        /\ place = "patch" => w \in Row /\ w = rows[i]
        /\ \/ task' = [task EXCEPT ![a] = [x EXCEPT !.at = place, !.id = i, !.row = w, !.patch = p]]
           \/ place # "patch" /\ task' = [task EXCEPT ![a] = [x EXCEPT !.at = place, !.id = i]]
  <2>1. CASE PatchRead(a)
    <3>1. PICK i \in Present, p \in Patch :
            task' = [task EXCEPT ![a].at = "patch", ![a].id = i, ![a].row = rows[i], ![a].patch = p]
      BY <2>1 DEF PatchRead
    <3>2. i \in Ids /\ rows[i] \in Row
      BY <1>1 DEF Present, There
    <3>3. task' = [task EXCEPT ![a] = [x EXCEPT !.at = "patch", !.id = i, !.row = rows[i], !.patch = p]]
      BY <1>1, <3>1
    <3> HIDE DEF x
    <3> QED
      BY <3>2, <3>3
  <2>2. CASE DeleteCount(a)
    <3>1. PICK i \in Ids : task' = [task EXCEPT ![a].at = "delete", ![a].id = i]
      BY <2>2 DEF DeleteCount
    <3>2. [field |-> "name", value |-> "other"] \in Patch
      BY DEF Patch, Names
    <3> QED
      BY <3>1, <3>2
  <2>3. CASE Rotate(a)
    <3>1. PICK i \in Present : task' = [task EXCEPT ![a].at = "load", ![a].id = i]
      BY <2>3 DEF Rotate
    <3>2. [field |-> "name", value |-> "other"] \in Patch
      BY DEF Patch, Names
    <3> QED
      BY <3>1, <3>2 DEF Present
  <2> QED
    BY <2>1, <2>2, <2>3
<1>5. ASSUME NEW y, \/ y = [x EXCEPT !.at = place, !.id = i, !.row = w, !.patch = p]
                    \/ place # "patch" /\ y = [x EXCEPT !.at = place, !.id = i]
      PROVE  y \in Task /\ RowRead(y, rows) /\ HashOK(y, rows, fresh, copy, retired, void, former)
  <2>1. i \in 0..MaxKeys
    BY KeysAssumption DEF Ids
  <2>0. place \in Place
    BY DEF Place
  <2>2. y \in Task
    BY <1>1, <1>5, <2>0, <2>1 DEF Task
  <2>3. /\ y.at = place /\ y.id = i /\ y.hash = x.hash /\ y.old = x.old
        /\ place = "patch" => y.row = w /\ y.patch = p
    BY <1>1, <1>5 DEF Task
  <2>4. RowRead(y, rows)
    BY <1>4, <2>3 DEF RowRead
  <2>5. HashOK(y, rows, fresh, copy, retired, void, former)
    BY <1>1, <2>3 DEF HashOK
  <2> QED
    BY <2>2, <2>4, <2>5
<1> QED
  BY <1>2, <1>3, <1>4, <1>5, OnlyTask

LEMMA GoOnStep ==
  ASSUME IInv, NEW a \in Actors, SelectLegacy(a) \/ RotateLoad(a) \/ Compare(a)
  PROVE  IInv'
<1> DEFINE x == task[a]
<1>1. /\ x \in Task /\ RowRead(x, rows) /\ task \in [Actors -> Task] /\ fresh \in Nat /\ fresh > 0
      /\ HashOK(x, rows, fresh, copy, retired, void, former) /\ rows \in [Ids -> Row \cup {NoRow}]
  BY TaskIs
<1>2. /\ UNCHANGED <<table, setting, copy, fresh, stops, history>> /\ asked' \in 0..MaxAsked
  BY DEF SelectLegacy, RotateLoad, Compare, IInv, Tables, TypeOK
<1>3. CASE Ends(a)
  <2>1. task' = [task EXCEPT ![a] = Idle]
    BY <1>3 DEF Ends
  <2> QED
    BY <1>1, <1>2, <2>1, IdleOK, OnlyTask DEF TaskOK
<1>4. CASE SelectLegacy(a) /\ ~Ends(a)
  <2> DEFINE i == CHOOSE j \in Legacy : \A k \in Legacy : j <= k
  <2> DEFINE y == [x EXCEPT !.at = "load", !.id = i]
  <2>1. x.at = "select" /\ Legacy # {} /\ task' = [task EXCEPT ![a].at = "load", ![a].id = i]
    BY <1>4 DEF SelectLegacy, At
  <2>2. i \in Ids
    <3>1. Legacy \subseteq Nat /\ Legacy \subseteq Ids
      BY Facts DEF Legacy, Present
    <3>2. \E j \in Legacy : \A k \in Legacy : j <= k
      BY <2>1, <3>1, LeastNat
    <3> QED
      BY <3>1, <3>2
  <2> HIDE DEF i
  <2>3. i \in 0..MaxKeys
    BY <2>2, KeysAssumption DEF Ids
  <2>7. y \in Task
    BY <1>1, <2>3 DEF Task, Place
  <2>4. y.at = "load" /\ y.id = i /\ y.hash = x.hash /\ y.old = x.old
    BY <1>1 DEF Task
  <2>5. task' = [task EXCEPT ![a] = y]
    BY <2>1
  <2> HIDE DEF y
  <2>6. RowRead(y, rows) /\ HashOK(y, rows, fresh, copy, retired, void, former)
    BY <1>1, <2>2, <2>4 DEF RowRead, HashOK
  <2> QED
    BY <1>2, <2>7, <2>5, <2>6, OnlyTask
<1>5. CASE RotateLoad(a) /\ ~Ends(a)
  <2> DEFINE y == [x EXCEPT !.at = "rotate", !.row = rows[x.id]]
  <2>1. x.at = "load" /\ There(x.id) /\ task' = [task EXCEPT ![a].at = "rotate", ![a].row = rows[x.id]]
    BY <1>5 DEF RotateLoad, At
  <2>2. x.id \in Ids /\ rows[x.id] \in Row
    BY <1>1, <2>1 DEF RowRead, There
  <2>3. y \in Task
    BY <1>1, <2>2 DEF Task, Place
  <2>4. y.at = "rotate" /\ y.id = x.id /\ y.row = rows[x.id] /\ y.hash = x.hash /\ y.old = x.old
    BY <1>1 DEF Task
  <2>5. task' = [task EXCEPT ![a] = y]
    BY <2>1
  <2> HIDE DEF y
  <2>6. RowRead(y, rows) /\ HashOK(y, rows, fresh, copy, retired, void, former)
    BY <1>1, <2>2, <2>4 DEF RowRead, HashOK
  <2> QED
    BY <1>2, <2>3, <2>5, <2>6, OnlyTask
<1>6. CASE Compare(a) /\ ~Ends(a)
  <2> DEFINE y == [x EXCEPT !.at = "restore"]
  <2>1. x.at = "compare" /\ x.hash = setting /\ task' = [task EXCEPT ![a].at = "restore"]
    BY <1>6 DEF Compare, At, Goto
  <2>2. setting \in former
    BY DEF IInv, Tables
  <2>3. y \in Task
    BY <1>1 DEF Task, Place
  <2>4. y.at = "restore" /\ y.id = x.id /\ y.hash = x.hash /\ y.old = x.old
    BY <1>1 DEF Task
  <2>5. task' = [task EXCEPT ![a] = y]
    BY <2>1
  <2> HIDE DEF y
  <2>6. RowRead(y, rows) /\ HashOK(y, rows, fresh, copy, retired, void, former)
    BY <1>1, <2>1, <2>2, <2>4 DEF RowRead, HashOK
  <2> QED
    BY <1>2, <2>3, <2>5, <2>6, OnlyTask
<1> QED
  BY <1>3, <1>4, <1>5, <1>6

----------------------------------------------------------------------------
(* The steps that write a row. *)

\* What a task is after its last write.
LEMMA DoneOK ==
  ASSUME NEW R, NEW f \in Nat, NEW c, NEW ret, NEW v, NEW fo,
         NEW h \in 0..MaxHash, NEW o \in 0..MaxHash, NEW p \in {"drop", "drop to setting"},
         h < f, o \in ret \cup {0}, p = "drop to setting" => h # 0,
         h # 0 => h \in HashesIn(R) \cup ret \cup v \cup fo,
         NEW y, \/ y = [[Idle EXCEPT !.hash = h, !.old = o] EXCEPT !.at = p]
                \/ y = [[Idle EXCEPT !.hash = h] EXCEPT !.at = p] /\ o = 0
                \/ y = [[Idle EXCEPT !.old = o] EXCEPT !.at = p] /\ h = 0
                \/ y = [Idle EXCEPT !.at = p] /\ h = 0 /\ o = 0
  PROVE  y \in Task /\ RowRead(y, R) /\ HashOK(y, R, f, c, ret, v, fo)
<1>1. y \in Task /\ y.at = p /\ y.hash = h /\ y.old = o
  <2>1. Idle \in Task /\ Idle.hash = 0 /\ Idle.old = 0 /\ p \in Place
    BY IdleIs DEF Place
  <2>2. CASE y = [[Idle EXCEPT !.hash = h, !.old = o] EXCEPT !.at = p]
    BY ONLY <2>1, <2>2, h \in 0..MaxHash, o \in 0..MaxHash, Zenon DEF Task
  <2>3. CASE y = [[Idle EXCEPT !.hash = h] EXCEPT !.at = p] /\ o = 0
    BY ONLY <2>1, <2>3, h \in 0..MaxHash, Zenon DEF Task
  <2>4. CASE y = [[Idle EXCEPT !.old = o] EXCEPT !.at = p] /\ h = 0
    BY ONLY <2>1, <2>4, o \in 0..MaxHash, Zenon DEF Task
  <2>5. CASE y = [Idle EXCEPT !.at = p] /\ h = 0 /\ o = 0
    BY ONLY <2>1, <2>5, Zenon DEF Task
  <2> QED
    BY <2>2, <2>3, <2>4, <2>5
<1> QED
  BY <1>1, Zenon DEF RowRead, HashOK

LEMMA TablesAre ==
  ASSUME IInv
  PROVE  /\ fresh \in Nat /\ 0 < fresh /\ nextId \in Nat /\ nextId > 0 /\ Ids \subseteq Nat
         /\ fresh <= MaxHash => fresh \in Hashes /\ fresh \in 0..MaxHash
         /\ nextId <= MaxKeys => nextId \in Ids /\ rows[nextId] = NoRow
         /\ stops \in 0..MaxStops /\ asked \in 0..MaxAsked
         /\ rows \in [Ids -> Row \cup {NoRow}]
         /\ \A j, k \in Ids : rows[j] # NoRow /\ rows[k] # NoRow /\ rows[j].hash = rows[k].hash => j = k
         /\ \A j \in Ids : rows[j] # NoRow => rows[j].hash \in Hashes /\ rows[j].hash \in 0..MaxHash
         /\ \A h \in HashesIn(rows) \cup retired \cup void \cup former : h < fresh
         /\ setting \in Hashes /\ setting \in former
<1>1. /\ rows \in [Ids -> Row \cup {NoRow}] /\ nextId \in 1..(MaxKeys + 1) /\ fresh \in 1..(MaxHash + 1)
      /\ setting \in Hashes /\ stops \in 0..MaxStops /\ asked \in 0..MaxAsked /\ setting \in former
      /\ \A i \in Ids : i >= nextId => rows[i] = NoRow
      /\ \A h \in HashesIn(rows) \cup retired \cup void \cup former : h < fresh
      /\ \A j, k \in Ids : rows[j] # NoRow /\ rows[k] # NoRow /\ rows[j].hash = rows[k].hash => j = k
  BY DEF IInv, Tables, TypeOK, Present, There
<1>2. \A j \in Ids : rows[j] # NoRow => rows[j].hash \in Hashes
  BY <1>1 DEF Row
<1>3. Hashes \subseteq 0..MaxHash
  BY KeysAssumption DEF Hashes
<1>4. fresh \in Nat /\ 0 < fresh /\ (fresh <= MaxHash => fresh \in Hashes)
  BY <1>1, KeysAssumption DEF Hashes
<1>5. nextId \in Nat /\ nextId > 0 /\ (nextId <= MaxKeys => nextId \in Ids) /\ nextId >= nextId
  BY <1>1, KeysAssumption DEF Ids
<1>6. Ids \subseteq Nat
  BY Facts
<1>7. \A j \in Ids : rows[j] # NoRow => rows[j].hash \in 0..MaxHash
  BY <1>2, <1>3
<1> QED
  BY <1>1, <1>2, <1>3, <1>4, <1>5, <1>6, <1>7

LEMMA CreateStep ==
  ASSUME IInv, NEW a \in Actors, Create(a)
  PROVE  IInv'
<1> DEFINE x == task[a]
<1> DEFINE y == [x EXCEPT !.at = "drop", !.hash = fresh]
<1>1. /\ x \in Task /\ task \in [Actors -> Task] /\ HashOK(x, rows, fresh, copy, retired, void, former)
  BY TaskIs
<1>2. /\ x.at = "idle" /\ asked < MaxAsked /\ asked' = asked + 1 /\ nextId <= MaxKeys
      /\ fresh <= MaxHash /\ nextId' = nextId + 1 /\ fresh' = fresh + 1
      /\ UNCHANGED <<setting, copy, stops, known, retired, gone, void, former>>
      /\ task' = [task EXCEPT ![a] = y]
  BY <1>1 DEF Create, Asked, At, history
<1>3. PICK r \in Row : r.hash = fresh /\ rows' = [rows EXCEPT ![nextId] = r]
  <2>1. PICK name \in Names :
          rows' = [rows EXCEPT ![nextId] = [name |-> name, hash |-> fresh, enabled |-> TRUE]]
    BY DEF Create
  <2>2. [name |-> name, hash |-> fresh, enabled |-> TRUE] \in Row
    BY <1>2, TablesAre DEF Row
  <2> QED
    BY <2>1, <2>2
<1>4. asked' \in 0..MaxAsked /\ stops' \in 0..MaxStops
  BY <1>2, TablesAre, KeysAssumption
<1>5. nextId \in Ids /\ rows[nextId] = NoRow /\ nextId < nextId'
  BY <1>2, TablesAre
<1>6. \A j \in Ids : j # nextId /\ rows[j] # NoRow => rows[j].hash # fresh
  <2>1. \A j \in Ids : rows[j] # NoRow => rows[j].hash < fresh
    BY TablesAre, StoredIs
  <2> QED
    BY <2>1, TablesAre
<1>7. /\ Tables' /\ Removals' /\ Handed' /\ HashesIn(rows) \subseteq HashesIn(rows') \cup retired'
      /\ r.hash \in HashesIn(rows')
  <2>1. r # NoRow
    BY Facts
  <2> QED
    BY <1>2, <1>3, <1>4, <1>5, <1>6, <2>1, RowPut
<1>8. y \in Task /\ y.at = "drop" /\ y.hash = fresh /\ y.old = x.old
  BY <1>1, <1>2, TablesAre DEF Task, Place
<1>9. task' = [Outdated({}) EXCEPT ![a] = y]
  BY <1>2, NotOutdated
<1> HIDE DEF y
<1>10. RowRead(y, rows') /\ HashOK(y, rows', fresh', copy, retired', void', former)
  <2>1. y.hash < fresh'
    BY <1>2, <1>8, TablesAre
  <2> QED
    BY <1>1, <1>2, <1>3, <1>7, <1>8, <2>1 DEF RowRead, HashOK
<1> QED
  BY <1>2, <1>3, <1>5, <1>7, <1>8, <1>9, <1>10, RowWritten

LEMMA PatchStep ==
  ASSUME IInv, NEW a \in Actors, PatchWrite(a)
  PROVE  IInv'
<1> DEFINE x == task[a]
<1> DEFINE i == x.id
<1> DEFINE y == [Idle EXCEPT !.at = "drop"]
<1> DEFINE r == IF There(i) THEN Patched(rows[i], x.row, x.patch) ELSE NoRow
<1>1. x \in Task /\ RowRead(x, rows) /\ rows \in [Ids -> Row \cup {NoRow}]
  BY TaskIs
<1>2. /\ x.at = "patch" /\ task' = [Outdated({i}) EXCEPT ![a] = y]
      /\ UNCHANGED <<nextId, setting, copy, fresh, stops, asked, known, retired, gone, void, former>>
  BY DEF PatchWrite, At, Wrote, history
<1>3. i \in Ids /\ x.row \in Row /\ x.patch \in Patch
  BY <1>1, <1>2 DEF RowRead
<1>4. There(i) => r \in Row /\ r.hash = rows[i].hash
  <2> SUFFICES ASSUME There(i)
               PROVE  r \in Row /\ r.hash = rows[i].hash
    OBVIOUS
  <2>1. rows[i] \in Row /\ r = Patched(rows[i], x.row, x.patch)
    BY <1>1, <1>3 DEF There
  <2>2. CASE x.patch.field = "name"
    <3>1. x.patch.value \in Names
      BY <1>3, <2>2 DEF Patch
    <3>2. r = [x.row EXCEPT !.name = x.patch.value, !.enabled = x.row.enabled, !.hash = rows[i].hash]
      BY <1>3, <2>1, <2>2 DEF Patched, Row
    <3> QED
      BY <1>3, <2>1, <3>1, <3>2 DEF Row
  <2>3. CASE x.patch.field # "name"
    <3>1. x.patch.field = "enabled" /\ x.patch.value \in BOOLEAN
      BY <1>3, <2>3 DEF Patch
    <3>2. r = [x.row EXCEPT !.name = x.row.name, !.enabled = x.patch.value, !.hash = rows[i].hash]
      BY <1>3, <2>1, <3>1 DEF Patched, Row
    <3> QED
      BY <1>3, <2>1, <3>1, <3>2 DEF Row
  <2> QED
    BY <2>2, <2>3
<1>5. r \in Row \cup {NoRow} /\ (~There(i) => r = NoRow)
  BY <1>4
<1>6. rows' = [rows EXCEPT ![i] = r]
  <2>1. CASE There(i)
    BY <2>1 DEF PatchWrite
  <2>2. CASE ~There(i)
    BY <1>1, <1>3, <1>5, <2>2 DEF PatchWrite, There
  <2> QED
    BY <2>1, <2>2
<1> HIDE DEF r
<1>7. r # NoRow => /\ i < nextId
                   /\ \A j \in Ids : j # i /\ rows[j] # NoRow => rows[j].hash # r.hash
                   /\ r.hash \in HashesIn(rows)
  <2> SUFFICES ASSUME r # NoRow
               PROVE  /\ i < nextId
                      /\ \A j \in Ids : j # i /\ rows[j] # NoRow => rows[j].hash # r.hash
                      /\ r.hash \in HashesIn(rows)
    OBVIOUS
  <2>1. rows[i] # NoRow /\ r.hash = rows[i].hash
    BY <1>4, <1>5 DEF There
  <2>2. i < nextId
    <3>1. \A j \in Ids : j >= nextId => rows[j] = NoRow
      BY DEF IInv, Tables
    <3> QED
      BY <1>3, <2>1, <3>1, TablesAre
  <2> QED
    BY <1>3, <2>1, <2>2, TablesAre, StoredIs
<1>8. ~(rows[i] # NoRow /\ (r = NoRow \/ r.hash # rows[i].hash))
  BY <1>4, Facts DEF There
<1>9. stops' \in 0..MaxStops /\ asked' \in 0..MaxAsked
  BY <1>2, TablesAre
<1>10. Tables' /\ Removals' /\ Handed' /\ HashesIn(rows) \subseteq HashesIn(rows') \cup retired'
  <2> HIDE DEF i
  <2> QED
    BY <1>2, <1>3, <1>5, <1>6, <1>7, <1>8, <1>9, RowPut
<1>11. y \in Task /\ RowRead(y, rows') /\ HashOK(y, rows', fresh', copy, retired', void', former)
  <2>1. 0 \in 0..MaxHash /\ fresh' \in Nat /\ 0 < fresh'
    BY <1>2, TablesAre, KeysAssumption
  <2> QED
    BY <2>1, DoneOK
<1> HIDE DEF y
<1> QED
  BY <1>2, <1>3, <1>5, <1>6, <1>10, <1>11, RowWritten

LEMMA DeleteStep ==
  ASSUME IInv, NEW a \in Actors, DeleteRow(a)
  PROVE  IInv'
<1> DEFINE x == task[a]
<1> DEFINE i == x.id
<1>1. x \in Task /\ RowRead(x, rows) /\ rows \in [Ids -> Row \cup {NoRow}]
  BY TaskIs
<1>2. /\ x.at = "delete" /\ i \in Ids
      /\ UNCHANGED <<nextId, setting, copy, fresh, stops, asked, known, gone, void, former>>
  BY <1>1 DEF DeleteRow, At, RowRead
<1>3. CASE There(i)
  <2> DEFINE y == [[Idle EXCEPT !.old = rows[i].hash] EXCEPT !.at = "drop"]
  <2>1. /\ rows' = [rows EXCEPT ![i] = NoRow] /\ retired' = retired \cup {rows[i].hash}
        /\ task' = [Outdated({i}) EXCEPT ![a] = y]
    BY <1>3 DEF DeleteRow, Wrote
  <2>2. stops' \in 0..MaxStops /\ asked' \in 0..MaxAsked /\ rows[i] # NoRow
    BY <1>2, <1>3, TablesAre DEF There
  <2>3. Tables' /\ Removals' /\ Handed' /\ HashesIn(rows) \subseteq HashesIn(rows') \cup retired'
    <3> HIDE DEF i
    <3> QED
      BY <1>2, <2>1, <2>2, RowPut
  <2>4. y \in Task /\ RowRead(y, rows') /\ HashOK(y, rows', fresh', copy, retired', void', former)
    <3>1. /\ 0 \in 0..MaxHash /\ rows[i].hash \in 0..MaxHash /\ fresh' \in Nat /\ 0 < fresh'
          /\ rows[i].hash \in retired' \cup {0}
      BY <1>2, <2>1, <2>2, TablesAre, KeysAssumption
    <3> QED
      BY <3>1, DoneOK
  <2> HIDE DEF y
  <2> QED
    BY <1>2, <2>1, <2>3, <2>4, RowWritten
<1>4. CASE ~There(i)
  <2>1. task' = [task EXCEPT ![a] = Idle] /\ UNCHANGED <<rows, retired>>
    BY <1>4 DEF DeleteRow, Ends
  <2>2. Idle \in Task /\ RowRead(Idle, rows) /\ HashOK(Idle, rows, fresh, copy, retired, void, former)
    BY TablesAre, IdleOK DEF TaskOK
  <2>3. asked' \in 0..MaxAsked
    BY <1>2, TablesAre
  <2> QED
    BY <1>2, <2>1, <2>2, <2>3, OnlyTask DEF table, history
<1> QED
  BY <1>3, <1>4

LEMMA RotateStep ==
  ASSUME IInv, NEW a \in Actors, RotateWrite(a)
  PROVE  IInv'
<1> DEFINE x == task[a]
<1> DEFINE i == x.id
<1> DEFINE next == IF x.row.name = "Legacy" THEN "drop to setting" ELSE "drop"
<1>1. x \in Task /\ RowRead(x, rows) /\ rows \in [Ids -> Row \cup {NoRow}]
  BY TaskIs
<1>2. /\ x.at = "rotate" /\ i \in Ids /\ fresh <= MaxHash /\ fresh' = fresh + 1
      /\ UNCHANGED <<nextId, setting, copy, stops, asked, known, gone, former>>
  BY <1>1 DEF RotateWrite, At, RowRead
<1>3. /\ stops' \in 0..MaxStops /\ asked' \in 0..MaxAsked /\ fresh \in Hashes /\ fresh \in 0..MaxHash
      /\ fresh' \in Nat /\ fresh < fresh' /\ fresh # 0 /\ 0 \in 0..MaxHash
  BY <1>2, TablesAre, KeysAssumption
<1>4. next \in {"drop", "drop to setting"}
  OBVIOUS
<1>5. CASE There(i)
  <2> DEFINE r == [rows[i] EXCEPT !.hash = fresh]
  <2> DEFINE y == [[Idle EXCEPT !.hash = fresh, !.old = rows[i].hash] EXCEPT !.at = next]
  <2>1. /\ rows' = [rows EXCEPT ![i] = r] /\ retired' = retired \cup {rows[i].hash}
        /\ task' = [Outdated({i}) EXCEPT ![a] = y] /\ void' = void
    BY <1>5 DEF RotateWrite, Wrote
  <2>2. rows[i] \in Row /\ rows[i] # NoRow
    BY <1>1, <1>2, <1>5 DEF There
  <2>3. r \in Row /\ r.hash = fresh
    BY <1>3, <2>2 DEF Row
  <2> HIDE DEF r
  <2>4. \A j \in Ids : j # i /\ rows[j] # NoRow => rows[j].hash # fresh
    <3>1. \A j \in Ids : rows[j] # NoRow => rows[j].hash < fresh
      BY TablesAre, StoredIs
    <3> QED
      BY <3>1, TablesAre
  <2>5. r # NoRow /\ r.hash # rows[i].hash
    <3>1. rows[i].hash < fresh
      BY <1>2, <2>2, TablesAre, StoredIs
    <3> QED
      BY <2>3, <3>1, Facts, TablesAre
  <2>6. i < nextId'
    <3>1. \A j \in Ids : j >= nextId => rows[j] = NoRow
      BY DEF IInv, Tables
    <3> QED
      BY <1>2, <2>2, <3>1, TablesAre
  <2>7. /\ Tables' /\ Removals' /\ Handed' /\ HashesIn(rows) \subseteq HashesIn(rows') \cup retired'
        /\ r.hash \in HashesIn(rows')
    <3> HIDE DEF i
    <3> QED
      BY <1>2, <1>3, <2>1, <2>2, <2>3, <2>4, <2>5, <2>6, RowPut
  <2>8. y \in Task /\ RowRead(y, rows') /\ HashOK(y, rows', fresh', copy, retired', void', former)
    <3>1. rows[i].hash \in 0..MaxHash /\ rows[i].hash \in retired' \cup {0} /\ fresh \in HashesIn(rows')
      BY <1>2, <2>1, <2>2, <2>3, <2>7, TablesAre
    <3> HIDE DEF next, i
    <3> QED
      BY <1>3, <1>4, <3>1, DoneOK
  <2> HIDE DEF y
  <2> QED
    BY <1>2, <2>1, <2>2, <2>3, <2>7, <2>8, RowWritten
<1>6. CASE ~There(i)
  <2> DEFINE y == [[Idle EXCEPT !.hash = fresh] EXCEPT !.at = next]
  <2>1. /\ rows' = rows /\ retired' = retired /\ task' = [Outdated({}) EXCEPT ![a] = y]
        /\ void' = void \cup {fresh}
    BY <1>6 DEF RotateWrite, Wrote
  <2>2. rows' = [rows EXCEPT ![i] = NoRow] /\ rows[i] = NoRow
    BY <1>1, <1>2, <1>6, <2>1 DEF There
  <2>3. Tables' /\ Removals' /\ Handed' /\ HashesIn(rows) \subseteq HashesIn(rows') \cup retired'
    <3> HIDE DEF i
    <3> QED
      BY <1>2, <1>3, <2>1, <2>2, RowPut
  <2>4. y \in Task /\ RowRead(y, rows') /\ HashOK(y, rows', fresh', copy, retired', void', former)
    <3>1. fresh \in void'
      BY <2>1
    <3> HIDE DEF next
    <3> QED
      BY <1>3, <1>4, <3>1, DoneOK
  <2> HIDE DEF y
  <2> QED
    BY <1>2, <2>1, <2>2, <2>3, <2>4, RowWritten
<1> QED
  BY <1>5, <1>6

\* migrateLegacyClientKey puts back a hash that the setting has.
LEMMA MigratedPut ==
  ASSUME IInv, HasRoom, rows' = Migrated(rows), nextId' = IdAfter, UNCHANGED <<setting, fresh, history>>,
         copy' = copy \/ copy' = NoCopy, stops' \in 0..MaxStops, asked' \in 0..MaxAsked
  PROVE  /\ Tables' /\ Removals' /\ Handed' /\ HashesIn(rows) \subseteq HashesIn(rows') \cup retired'
         /\ \A j \in Ids : rows[j] # NoRow => rows'[j] = rows[j]
<1>1. /\ known' = known /\ retired' = retired /\ gone' = gone /\ void' = void /\ former' = former
  BY DEF history
<1>2. /\ rows \in [Ids -> Row \cup {NoRow}] /\ nextId \in Nat /\ setting \in Hashes /\ setting \in former
      /\ \A j, k \in Ids : rows[j] # NoRow /\ rows[k] # NoRow /\ rows[j].hash = rows[k].hash => j = k
  BY TablesAre
<1>3. CASE setting \in Stored
  <2>1. rows' = rows /\ nextId' = nextId
    BY <1>3 DEF Migrated, IdAfter
  <2>2. PICK i \in Ids : rows[i] # NoRow
    BY <1>3 DEF Stored, Present, There
  <2>3. rows' = [rows EXCEPT ![i] = rows[i]] /\ rows[i] \in Row \cup {NoRow}
    BY <1>2, <2>1
  <2>4. /\ i < nextId'
        /\ \A j \in Ids : j # i /\ rows[j] # NoRow => rows[j].hash # rows[i].hash
        /\ rows[i].hash \in HashesIn(rows)
    <3>1. \A j \in Ids : j >= nextId => rows[j] = NoRow
      BY DEF IInv, Tables
    <3> QED
      BY <1>2, <2>1, <2>2, <3>1, TablesAre, StoredIs
  <2>5. Tables' /\ Removals' /\ Handed' /\ HashesIn(rows) \subseteq HashesIn(rows') \cup retired'
    BY <1>1, <2>1, <2>2, <2>3, <2>4, RowPut
  <2> QED
    BY <2>1, <2>5
<1>4. CASE setting \notin Stored
  <2> DEFINE r == [name |-> "Legacy", hash |-> setting, enabled |-> TRUE]
  <2>1. rows' = [rows EXCEPT ![nextId] = r] /\ nextId' = nextId + 1 /\ nextId <= MaxKeys
    BY <1>4 DEF Migrated, IdAfter, HasRoom
  <2>2. nextId \in Ids /\ rows[nextId] = NoRow /\ nextId < nextId'
    BY <2>1, TablesAre
  <2>3. r \in Row /\ r.hash = setting
    BY <1>2 DEF Row, Names
  <2>4. r # NoRow
    BY <2>3, Facts
  <2>5. \A j \in Ids : rows[j] # NoRow => rows[j].hash # setting
    BY <1>4, StoredIs
  <2> HIDE DEF r
  <2>6. Tables' /\ Removals' /\ Handed' /\ HashesIn(rows) \subseteq HashesIn(rows') \cup retired'
    BY <1>1, <1>2, <2>1, <2>2, <2>3, <2>4, <2>5, RowPut
  <2> QED
    BY <1>2, <2>1, <2>2, <2>6
<1> QED
  BY <1>3, <1>4

LEMMA MigrateStep ==
  ASSUME IInv, NEW a \in Actors, MigrateLegacy(a)
  PROVE  IInv'
<1> DEFINE x == task[a]
<1> DEFINE y == [x EXCEPT !.at = "drop to select"]
<1>1. /\ x \in Task /\ task \in [Actors -> Task] /\ HashOK(x, rows, fresh, copy, retired, void, former)
  BY TaskIs
<1>2. /\ x.at = "idle" /\ HasRoom /\ rows' = Migrated(rows) /\ nextId' = IdAfter
      /\ asked < MaxAsked /\ asked' = asked + 1 /\ task' = [task EXCEPT ![a] = y]
      /\ UNCHANGED <<setting, copy, fresh, stops, history>>
  BY <1>1 DEF MigrateLegacy, Asked, At, Goto
<1>3. asked' \in 0..MaxAsked /\ stops' \in 0..MaxStops
  <2>1. asked \in 0..MaxAsked /\ stops \in 0..MaxStops /\ MaxAsked \in Nat
    BY TablesAre, KeysAssumption
  <2>2. asked < MaxAsked /\ asked' = asked + 1 /\ stops' = stops
    BY <1>2
  <2> QED
    BY <2>1, <2>2
<1>4. /\ Tables' /\ Removals' /\ Handed' /\ HashesIn(rows) \subseteq HashesIn(rows') \cup retired'
      /\ \A j \in Ids : rows[j] # NoRow => rows'[j] = rows[j]
  BY <1>2, <1>3, MigratedPut
<1>5. y \in Task /\ y.at = "drop to select" /\ y.hash = x.hash /\ y.old = x.old
  BY <1>1 DEF Task, Place
<1>6. task' = [Outdated({}) EXCEPT ![a] = y]
  BY <1>2, NotOutdated
<1> HIDE DEF y
<1>7. /\ fresh' = fresh /\ copy' = copy /\ retired' = retired /\ void' = void /\ former' = former
      /\ fresh' >= fresh
  BY <1>2, TablesAre DEF history
<1>8. TaskOK(y, rows', fresh', copy', retired', void', former')
  BY <1>1, <1>5, <1>7 DEF TaskOK, RowRead, HashOK
<1> QED
  BY <1>4, <1>6, <1>7, <1>8, OneTask

LEMMA RestartStep ==
  ASSUME IInv, Restart
  PROVE  IInv'
<1>1. /\ stops < MaxStops /\ stops' = stops + 1 /\ HasRoom /\ rows' = Migrated(rows) /\ nextId' = IdAfter
      /\ copy' = NoCopy /\ task' = [a \in Actors |-> Idle] /\ UNCHANGED <<setting, fresh, asked, history>>
  BY DEF Restart
<1>2. stops' \in 0..MaxStops /\ asked' \in 0..MaxAsked /\ fresh' \in Nat /\ fresh' > 0
  BY <1>1, TablesAre, KeysAssumption
<1>3. Tables' /\ Removals' /\ Handed'
  BY <1>1, <1>2, MigratedPut
<1>4. TaskOK(Idle, rows', fresh', copy', retired', void', former')
  BY <1>2, IdleOK
<1> QED
  BY <1>1, <1>3, <1>4 DEF IInv, Tasks, TaskOK

LEMMA InsertStep ==
  ASSUME IInv, NEW c \in Actors, Insert(c)
  PROVE  IInv'
<1> DEFINE x == task[c]
<1> DEFINE y == [Idle EXCEPT !.at = "drop"]
<1>1. /\ x \in Task /\ task \in [Actors -> Task] /\ HashOK(x, rows, fresh, copy, retired, void, former)
      /\ rows \in [Ids -> Row \cup {NoRow}]
  BY TaskIs
<1>2. /\ x.at = "insert" /\ nextId <= MaxKeys /\ task' = [task EXCEPT ![c] = y]
      /\ UNCHANGED <<setting, copy, fresh, stops, asked, known, retired, gone, void, former>>
  BY DEF Insert, At, history
<1>3. y \in Task /\ \A R : RowRead(y, R) /\ HashOK(y, R, fresh, copy, retired, void, former)
  <2>1. 0 \in 0..MaxHash /\ fresh \in Nat /\ 0 < fresh
    BY TablesAre, KeysAssumption
  <2>2. \A R : y \in Task /\ RowRead(y, R) /\ HashOK(y, R, fresh, copy, retired, void, former)
    BY <2>1, DoneOK
  <2> QED
    BY <2>2
<1> HIDE DEF y
<1>4. stops' \in 0..MaxStops /\ asked' \in 0..MaxAsked
  BY <1>2, TablesAre
<1>5. CASE x.hash \in Stored
  <2>1. UNCHANGED table
    BY <1>5 DEF Insert
  <2> QED
    BY <1>2, <1>3, <1>4, <2>1, OnlyTask DEF history
<1>6. CASE x.hash \notin Stored
  <2> DEFINE r == [name |-> "Legacy", hash |-> x.hash, enabled |-> TRUE]
  <2>1. rows' = [rows EXCEPT ![nextId] = r] /\ nextId' = nextId + 1
    BY <1>6 DEF Insert
  <2>2. nextId \in Ids /\ rows[nextId] = NoRow /\ nextId < nextId'
    BY <1>2, <2>1, TablesAre
  <2>3. x.hash \in former
    BY <1>1, <1>2 DEF HashOK
  <2>4. x.hash \in Hashes
    BY <2>3 DEF IInv, Tables, TypeOK
  <2>5. r \in Row /\ r.hash = x.hash
    BY <2>4 DEF Row, Names
  <2> HIDE DEF r
  <2>6. r # NoRow
    BY <2>5, Facts
  <2>7. \A j \in Ids : rows[j] # NoRow => rows[j].hash # x.hash
    BY <1>6, StoredIs
  <2>8. Tables' /\ Removals' /\ Handed' /\ HashesIn(rows) \subseteq HashesIn(rows') \cup retired'
    BY <1>2, <1>4, <2>1, <2>2, <2>3, <2>5, <2>6, <2>7, RowPut
  <2>9. task' = [Outdated({}) EXCEPT ![c] = y]
    BY <1>2, NotOutdated
  <2>10. HashOK(y, rows', fresh', copy, retired', void', former) /\ RowRead(y, rows')
    BY <1>2, <1>3
  <2> QED
    BY <1>2, <1>3, <2>1, <2>2, <2>5, <2>8, <2>9, <2>10, RowWritten
<1> QED
  BY <1>5, <1>6

LEMMA RestoreStep ==
  ASSUME IInv, NEW c \in Actors, Restore(c)
  PROVE  IInv'
<1> DEFINE x == task[c]
<1> DEFINE h == x.hash
<1>1. /\ x \in Task /\ task \in [Actors -> Task] /\ HashOK(x, rows, fresh, copy, retired, void, former)
      /\ rows \in [Ids -> Row \cup {NoRow}]
  BY TaskIs
<1>2. /\ x.at = "restore"
      /\ UNCHANGED <<nextId, setting, copy, fresh, stops, asked, known, gone, void, former>>
  BY DEF Restore, At
<1>3. stops' \in 0..MaxStops /\ asked' \in 0..MaxAsked
  BY <1>2, TablesAre
<1>4. h \in former /\ h \in Hashes
  <2>1. h \in former
    BY <1>1, <1>2 DEF HashOK
  <2> QED
    BY <2>1 DEF IInv, Tables, TypeOK
<1>5. CASE ~Fits(h, Legacy)
  <2>1. task' = [task EXCEPT ![c] = Idle] /\ rows' = rows /\ retired' = retired
    BY <1>5 DEF Restore, Ends
  <2>2. Idle \in Task /\ RowRead(Idle, rows) /\ HashOK(Idle, rows, fresh, copy, retired, void, former)
    BY TablesAre, IdleOK DEF TaskOK
  <2> QED
    BY <1>2, <1>3, <2>1, <2>2, OnlyTask DEF table, history
<1>6. CASE Fits(h, Legacy) /\ Legacy = {}
  <2> DEFINE y == [x EXCEPT !.at = "insert"]
  <2>1. task' = [task EXCEPT ![c] = y]
    BY <1>6 DEF Restore, Goto
  <2>2. rows' = rows /\ retired' = retired
    BY <1>1, <1>6 DEF Restore
  <2>3. y \in Task /\ y.at = "insert" /\ y.hash = x.hash /\ y.old = x.old
    BY <1>1 DEF Task, Place
  <2> HIDE DEF y
  <2>4. RowRead(y, rows) /\ HashOK(y, rows, fresh, copy, retired, void, former)
    BY <1>1, <1>4, <2>3 DEF RowRead, HashOK
  <2> QED
    BY <1>2, <1>3, <2>1, <2>2, <2>3, <2>4, OnlyTask DEF table, history
<1>7. CASE Fits(h, Legacy) /\ Legacy # {}
  <2>1. PICK i \in Ids : Legacy = {i} /\ rows[i] # NoRow
    <3>1. IsFiniteSet(Legacy)
      <4>1. IsFiniteSet(1..MaxKeys)
        BY KeysAssumption, FS_Interval
      <4> QED
        BY <4>1, FS_Subset DEF Legacy, Present, Ids
    <3>2. Cardinality(Legacy) = 1
      BY <1>7, <3>1, FS_CardinalityType, FS_EmptySet DEF Fits
    <3>3. PICK j : Legacy = {j}
      BY <3>1, <3>2, FS_Singleton
    <3> QED
      BY <3>3 DEF Legacy, Present, There
  <2> DEFINE r == [rows[i] EXCEPT !.hash = h, !.enabled = TRUE]
  <2> DEFINE y == [Idle EXCEPT !.at = "drop"]
  <2>2. /\ rows' = [j \in Ids |-> IF j \in Legacy THEN [rows[j] EXCEPT !.hash = h, !.enabled = TRUE]
                                  ELSE rows[j]]
        /\ retired' = retired \cup ({rows[j].hash : j \in Legacy} \ {h})
        /\ task' = [Outdated(Legacy) EXCEPT ![c] = y]
    BY <1>7 DEF Restore, Wrote
  <2>3. rows' = [rows EXCEPT ![i] = r]
    BY <1>1, <2>1, <2>2
  <2>4. retired' = IF h # rows[i].hash THEN retired \cup {rows[i].hash} ELSE retired
    BY <2>1, <2>2
  <2>5. rows[i] \in Row
    BY <1>1, <2>1
  <2>6. r \in Row /\ r.hash = h
    BY <1>4, <2>5 DEF Row
  <2> HIDE DEF r
  <2>7. r # NoRow
    BY <2>6, Facts
  <2>8. \A j \in Ids : j # i /\ rows[j] # NoRow => rows[j].hash # h
    BY <1>7, <2>1 DEF Fits, Present, There
  <2>9. i < nextId'
    <3>1. \A j \in Ids : j >= nextId => rows[j] = NoRow
      BY DEF IInv, Tables
    <3> QED
      BY <1>2, <2>1, <3>1, TablesAre
  <2>10. Tables' /\ Removals' /\ Handed' /\ HashesIn(rows) \subseteq HashesIn(rows') \cup retired'
    <3> HIDE DEF h, y
    <3> QED
      BY <1>2, <1>3, <1>4, <2>1, <2>3, <2>4, <2>6, <2>7, <2>8, <2>9, RowPut
  <2>11. y \in Task /\ RowRead(y, rows') /\ HashOK(y, rows', fresh', copy, retired', void', former)
    <3>1. 0 \in 0..MaxHash /\ fresh' \in Nat /\ 0 < fresh'
      BY <1>2, TablesAre, KeysAssumption
    <3> QED
      BY <3>1, DoneOK
  <2> HIDE DEF y
  <2>12. retired \subseteq retired'
    BY <2>4
  <2> QED
    BY <1>2, <2>1, <2>2, <2>3, <2>6, <2>10, <2>11, <2>12, RowWritten
<1> QED
  BY <1>5, <1>6, <1>7

----------------------------------------------------------------------------
(* The steps that answer, and the lookup. *)

\* A step that leaves the rows alone: the setting may take a hash (w) and the
\* copy may be dropped or read; h is handed out and the removal of o answered.
LEMMA Answered ==
  ASSUME IInv, UNCHANGED <<table, fresh, retired, void>>, NEW h \in 0..MaxHash, NEW o \in retired \cup {0},
         NEW F \in SUBSET {h}, 0 \notin F,
         known' = known \cup ({h} \ {0}), gone' = gone \cup ({o} \ {0}), former' = former \cup F,
         setting' \in former', h < fresh,
         \/ copy' = copy
         \/ copy' = NoCopy
         \/ copy' = HashesIn(rows) /\ known' = known /\ gone' = gone,
         h # 0 /\ h \notin known => h \in HashesIn(rows) \cup retired \cup void \cup former',
         copy' = copy /\ copy # NoCopy =>
           /\ o = 0 \/ o \notin copy \/ o \in former
           /\ h = 0 \/ h \in known \/ h \in copy \cup retired \cup void \cup former',
         stops' \in 0..MaxStops, asked' \in 0..MaxAsked
  PROVE  Tables' /\ Removals' /\ Handed'
<1>1. rows' = rows /\ nextId' = nextId /\ fresh' = fresh /\ retired' = retired /\ void' = void
  BY DEF table
<1>2. HashesIn(rows) \subseteq Hashes
  BY TablesAre, StoredIs
<1>3. Hashes = 0..MaxHash \ {0}
  BY KeysAssumption DEF Hashes
<1>4. /\ \A S \in {known, retired, gone, void, former} : S \subseteq Hashes
      /\ copy \in (SUBSET Hashes) \cup {NoCopy}
  BY DEF IInv, Tables, TypeOK
<1>5. TypeOK'
  <2>1. F \subseteq Hashes /\ {h} \ {0} \subseteq Hashes /\ {o} \ {0} \subseteq Hashes
    BY <1>3, <1>4
  <2>2. known' \subseteq Hashes /\ gone' \subseteq Hashes /\ former' \subseteq Hashes
    BY <1>4, <2>1
  <2>3. setting' \in Hashes /\ copy' \in (SUBSET Hashes) \cup {NoCopy}
    BY <1>2, <1>4, <2>2
  <2>4. \A S \in {known', retired', gone', void', former'} : S \subseteq Hashes
    BY <1>1, <1>4, <2>2
  <2>5. /\ rows' \in [Ids -> Row \cup {NoRow}]
        /\ nextId' \in 1..(MaxKeys + 1) /\ fresh' \in 1..(MaxHash + 1)
        /\ (\A i, j \in Present : rows[i].hash = rows[j].hash => i = j)'
    BY <1>1 DEF IInv, Tables, TypeOK, Present, There
  <2> QED
    BY <2>3, <2>4, <2>5 DEF TypeOK
<1>6. Tables'
  BY <1>1, <1>5 DEF IInv, Tables
<1>7. Removals'
  <2>1. /\ gone \subseteq retired /\ \A k \in retired : k \notin HashesIn(rows) \/ k \in former
        /\ copy # NoCopy => \A k \in gone : k \notin copy \/ k \in former
    BY DEF IInv, Removals
  <2>2. gone' \subseteq retired' /\ \A k \in retired' : k \notin HashesIn(rows') \/ k \in former'
    BY <1>1, <2>1
  <2>3. ASSUME copy' # NoCopy, NEW k \in gone'
        PROVE  k \notin copy' \/ k \in former'
    <3>1. CASE copy' = copy /\ k \in gone
      BY <2>1, <2>3, <3>1
    <3>2. CASE copy' = copy /\ k \notin gone
      BY <2>3, <3>2
    <3>3. CASE copy' = HashesIn(rows) /\ known' = known /\ gone' = gone
      BY <2>1, <2>3, <3>3
    <3> QED
      BY <2>3, <3>1, <3>2, <3>3
  <2> QED
    BY <2>2, <2>3 DEF Removals
<1>8. Handed'
  <2> SUFFICES ASSUME NEW k \in known'
               PROVE  k \in retired \cup void \cup former'
                      \/ (k \in HashesIn(rows) /\ (copy' = NoCopy \/ k \in copy'))
    BY <1>1 DEF Handed
  <2>1. CASE k \in known
    BY <2>1 DEF IInv, Handed
  <2>2. CASE k \notin known
    <3>1. k = h /\ h # 0 /\ known' # known
      BY <2>2
    <3>2. h \in HashesIn(rows) \cup retired \cup void \cup former'
      BY <2>2, <3>1
    <3>3. copy' = copy \/ copy' = NoCopy
      BY <3>1
    <3>4. copy' = NoCopy \/ h \in copy \cup retired \cup void \cup former'
      BY <2>2, <3>1, <3>3
    <3> QED
      BY <3>1, <3>2, <3>3, <3>4
  <2> QED
    BY <2>1, <2>2
<1> QED
  BY <1>6, <1>7, <1>8

\* What the answering steps leave to OneTask.
LEMMA OnlyAnswers ==
  ASSUME IInv, Tables', Removals', Handed', UNCHANGED <<table, fresh, retired, void>>,
         former \subseteq former', copy' = copy \/ copy' = NoCopy \/ copy' = HashesIn(rows),
         NEW a \in Actors, NEW y, task' = [task EXCEPT ![a] = y],
         TaskOK(y, rows, fresh, copy', retired, void, former')
  PROVE  IInv'
<1>1. rows' = rows /\ fresh' = fresh /\ retired' = retired /\ void' = void
  BY DEF table
<1>2. task' = [Outdated({}) EXCEPT ![a] = y]
  BY NotOutdated
<1>3. fresh' >= fresh
  BY <1>1, TablesAre
<1>4. TaskOK(y, rows', fresh', copy', retired', void', former')
  BY <1>1
<1> QED
  BY <1>1, <1>2, <1>3, <1>4, OneTask

LEMMA DropStep ==
  ASSUME IInv, NEW a \in Actors, Drop(a)
  PROVE  IInv'
<1> DEFINE x == task[a]
<1>1. x \in Task /\ HashOK(x, rows, fresh, copy, retired, void, former)
  BY TaskIs
<1>2. /\ x.at = "drop" /\ copy' = NoCopy /\ task' = [task EXCEPT ![a] = Idle]
      /\ known' = known \cup ({x.hash} \ {0}) /\ gone' = gone \cup ({x.old} \ {0})
      /\ UNCHANGED <<table, setting, fresh, stops, asked, retired, void, former>>
  BY DEF Drop, At, Dropped, Answers, Ends
<1>3. x.hash \in 0..MaxHash /\ x.old \in retired \cup {0} /\ x.hash < fresh
  BY <1>1 DEF Task, HashOK
<1>4. x.hash # 0 => x.hash \in HashesIn(rows) \cup retired \cup void \cup former
  BY <1>1, <1>2 DEF HashOK
<1>5. stops' \in 0..MaxStops /\ asked' \in 0..MaxAsked /\ setting' \in former /\ former' = former \cup {}
  BY <1>2, TablesAre
<1>6. Tables' /\ Removals' /\ Handed'
  <2>1. {} \in SUBSET {x.hash} /\ 0 \notin {}
    OBVIOUS
  <2>2. ~(copy' = copy /\ copy # NoCopy)
    BY <1>2
  <2> HIDE DEF x
  <2> QED
    BY <1>2, <1>3, <1>4, <1>5, <2>1, <2>2, Answered
<1>7. TaskOK(Idle, rows, fresh, copy', retired, void, former')
  BY TablesAre, IdleOK
<1> QED
  BY <1>2, <1>5, <1>6, <1>7, OnlyAnswers

LEMMA DropAndGoOnStep ==
  ASSUME IInv, NEW a \in Actors, DropAndGoOn(a)
  PROVE  IInv'
<1> DEFINE x == task[a]
<1>1. /\ x \in Task /\ task \in [Actors -> Task] /\ HashOK(x, rows, fresh, copy, retired, void, former)
  BY TaskIs
<1>2. /\ copy' = NoCopy /\ UNCHANGED <<table, setting, fresh, stops, asked, history>>
  BY DEF DropAndGoOn, Dropped
<1>3. PICK place \in {"select", "setting"} :
        /\ task' = [task EXCEPT ![a] = [x EXCEPT !.at = place]]
        /\ place = "setting" => x.at = "drop to setting"
  <2>1. CASE At(a, "drop to select") /\ Goto(a, "select")
    BY <2>1 DEF Goto
  <2>2. CASE At(a, "drop to setting") /\ Goto(a, "setting")
    BY <2>2 DEF Goto, At
  <2> QED
    BY <2>1, <2>2 DEF DropAndGoOn
<1> DEFINE y == [x EXCEPT !.at = place]
<1>4. y \in Task /\ y.at = place /\ y.hash = x.hash /\ y.old = x.old
  BY <1>1 DEF Task, Place
<1>5. task' = [task EXCEPT ![a] = y]
  BY <1>3
<1> HIDE DEF y
<1>6. TaskOK(y, rows, fresh, copy', retired, void, former')
  BY <1>1, <1>2, <1>3, <1>4 DEF TaskOK, RowRead, HashOK, history
<1>7. Tables' /\ Removals' /\ Handed'
  <2>1. /\ UNCHANGED <<table, fresh, retired, void>> /\ known' = known \cup ({0} \ {0})
        /\ gone' = gone \cup ({0} \ {0}) /\ former' = former \cup {} /\ setting' \in former'
        /\ stops' \in 0..MaxStops /\ asked' \in 0..MaxAsked
    BY <1>2, TablesAre DEF history
  <2>2. 0 \in 0..MaxHash /\ 0 \in retired \cup {0} /\ {} \in SUBSET {0} /\ 0 \notin {} /\ 0 < fresh
    BY TablesAre, KeysAssumption
  <2>3. ~(copy' = copy /\ copy # NoCopy)
    BY <1>2
  <2> QED
    BY <1>2, <2>1, <2>2, <2>3, Answered
<1>8. UNCHANGED <<table, fresh, retired, void>> /\ former \subseteq former'
  BY <1>2 DEF history
<1> QED
  BY <1>2, <1>5, <1>6, <1>7, <1>8, OnlyAnswers

LEMMA SettingStep ==
  ASSUME IInv, NEW a \in Actors, WriteSetting(a)
  PROVE  IInv'
<1> DEFINE x == task[a]
<1>1. x \in Task /\ HashOK(x, rows, fresh, copy, retired, void, former)
  BY TaskIs
<1>2. /\ x.at = "setting" /\ setting' \in {x.hash, setting} /\ former' = former \cup {setting'}
      /\ task' = [task EXCEPT ![a] = Idle]
      /\ known' = known \cup ({x.hash} \ {0}) /\ gone' = gone \cup ({x.old} \ {0})
      /\ UNCHANGED <<table, copy, fresh, stops, asked, retired, void>>
  BY DEF WriteSetting, At, Answers, Ends
<1>3. x.hash \in 0..MaxHash /\ x.old \in retired \cup {0} /\ x.hash < fresh /\ x.hash # 0
  BY <1>1, <1>2 DEF Task, HashOK
<1>4. /\ x.hash \in HashesIn(rows) \cup retired \cup void \cup former
      /\ copy # NoCopy => /\ x.old \notin copy \/ x.old \in former
                          /\ x.hash \in copy \cup retired \cup void \cup former
  BY <1>1, <1>2, <1>3 DEF HashOK
<1>5. stops' \in 0..MaxStops /\ asked' \in 0..MaxAsked /\ setting' \in former' /\ setting \in former
  BY <1>2, TablesAre
<1>6. PICK F \in SUBSET {x.hash} : former' = former \cup F
  <2>1. CASE setting' = x.hash
    BY <1>2, <2>1
  <2>2. CASE setting' = setting
    <3>1. {} \in SUBSET {x.hash} /\ former' = former \cup {}
      BY <1>2, <1>5, <2>2
    <3> QED
      BY <3>1
  <2> QED
    BY <1>2, <2>1, <2>2
<1>7. Tables' /\ Removals' /\ Handed'
  <2>1. 0 \notin F /\ UNCHANGED <<table, fresh, retired, void>> /\ former \subseteq former'
    BY <1>2, <1>3, <1>6
  <2>2. /\ x.hash # 0 /\ x.hash \notin known => x.hash \in HashesIn(rows) \cup retired \cup void \cup former'
        /\ copy' = copy /\ copy # NoCopy =>
             /\ x.old = 0 \/ x.old \notin copy \/ x.old \in former
             /\ x.hash = 0 \/ x.hash \in known \/ x.hash \in copy \cup retired \cup void \cup former'
    BY <1>4, <2>1
  <2>3. copy' = copy /\ known' = known \cup ({x.hash} \ {0}) /\ gone' = gone \cup ({x.old} \ {0})
    BY <1>2
  <2> HIDE DEF x
  <2> QED
    BY <1>3, <1>5, <1>6, <2>1, <2>2, <2>3, Answered
<1>8. TaskOK(Idle, rows, fresh, copy', retired, void, former')
  BY TablesAre, IdleOK
<1> QED
  BY <1>2, <1>6, <1>7, <1>8, OnlyAnswers

LEMMA LookupStep ==
  ASSUME IInv, NEW c \in Actors, Lookup(c)
  PROVE  IInv'
<1> DEFINE x == task[c]
<1>1. /\ x \in Task /\ task \in [Actors -> Task] /\ HashOK(x, rows, fresh, copy, retired, void, former)
  BY TaskIs
<1>2. /\ x.at = "idle" /\ copy' = IF copy = NoCopy THEN HashesIn(rows) ELSE copy
      /\ UNCHANGED <<table, setting, fresh, stops, asked, history>>
  BY StoredIs DEF Lookup, At
<1>3. PICK h \in known : \/ task' = task
                         \/ task' = [task EXCEPT ![c] = [x EXCEPT !.at = "compare", !.hash = h]]
  BY <1>1 DEF Lookup
<1>4. Tables' /\ Removals' /\ Handed'
  <2>1. /\ UNCHANGED <<table, fresh, retired, void>> /\ known' = known /\ gone' = gone /\ former' = former
        /\ stops' \in 0..MaxStops /\ asked' \in 0..MaxAsked /\ setting' \in former'
    BY <1>2, TablesAre DEF history
  <2>2. /\ known' = known \cup ({0} \ {0}) /\ gone' = gone \cup ({0} \ {0}) /\ former' = former \cup {}
        /\ copy' = copy \/ copy' = HashesIn(rows)
    BY <1>2, <2>1
  <2>3. 0 \in 0..MaxHash /\ 0 \in retired \cup {0} /\ {} \in SUBSET {0} /\ 0 \notin {} /\ 0 < fresh
    BY TablesAre, KeysAssumption
  <2> QED
    BY <2>1, <2>2, <2>3, Answered
<1>5. PICK y : task' = [task EXCEPT ![c] = y] /\ y \in Task /\ y.at \in {"idle", "compare"} /\ y.hash < fresh
               /\ y.old = x.old
  <2>1. CASE task' = task
    <3>1. task' = [task EXCEPT ![c] = x] /\ x.hash < fresh
      BY <1>1, <2>1 DEF HashOK
    <3> QED
      BY <1>1, <1>2, <3>1
  <2>2. CASE task' = [task EXCEPT ![c] = [x EXCEPT !.at = "compare", !.hash = h]]
    <3> DEFINE y == [x EXCEPT !.at = "compare", !.hash = h]
    <3>1. h \in Hashes /\ Hashes \subseteq 0..MaxHash
      BY KeysAssumption DEF IInv, Tables, TypeOK, Hashes
    <3>2. h < fresh
      <4>1. h \in retired \cup void \cup former \cup HashesIn(rows)
        BY DEF IInv, Handed
      <4> QED
        BY <4>1, TablesAre
    <3>3. y \in Task /\ y.at = "compare" /\ y.hash = h /\ y.old = x.old
      BY <1>1, <3>1 DEF Task, Place
    <3>4. task' = [task EXCEPT ![c] = y]
      BY <2>2
    <3> HIDE DEF y
    <3> QED
      BY <3>2, <3>3, <3>4
  <2> QED
    BY <1>3, <2>1, <2>2
<1>6. TaskOK(y, rows, fresh, copy', retired, void, former')
  BY <1>1, <1>2, <1>5 DEF TaskOK, RowRead, HashOK, history
<1>7. /\ UNCHANGED <<table, fresh, retired, void>> /\ former \subseteq former'
      /\ copy' = copy \/ copy' = NoCopy \/ copy' = HashesIn(rows)
  BY <1>2 DEF history
<1> QED
  BY <1>4, <1>5, <1>6, <1>7, OnlyAnswers

----------------------------------------------------------------------------
(* The invariant, and what it implies. *)

LEMMA InvInit ==
  ASSUME Init
  PROVE  IInv
<1>1. /\ rows = [i \in Ids |-> IF i > 2 THEN NoRow
                               ELSE [name |-> IF i = 1 THEN "Legacy" ELSE "other", hash |-> i, enabled |-> TRUE]]
      /\ nextId = 3 /\ setting = 1 /\ copy = NoCopy /\ fresh = 3 /\ task = [a \in Actors |-> Idle]
      /\ stops = 0 /\ asked = 0 /\ known = {1, 2} /\ retired = {} /\ gone = {} /\ void = {} /\ former = {1}
  BY DEF Init
<1>2. /\ MaxKeys \in Nat /\ MaxKeys > 1 /\ MaxHash \in Nat /\ MaxHash > 1 /\ MaxStops \in Nat /\ MaxAsked \in Nat
  BY KeysAssumption
<1>3. 1 \in Ids /\ 2 \in Ids /\ 1 \in Hashes /\ 2 \in Hashes /\ Ids \subseteq Nat
  BY <1>2, Facts DEF Ids, Hashes
<1>4. \A i \in Ids : /\ i > 2 => rows[i] = NoRow
                     /\ ~(i > 2) => i \in {1, 2} /\ rows[i] \in Row /\ rows[i].hash = i
  <2> SUFFICES ASSUME NEW i \in Ids
               PROVE  /\ i > 2 => rows[i] = NoRow
                      /\ ~(i > 2) => i \in {1, 2} /\ rows[i] \in Row /\ rows[i].hash = i
    OBVIOUS
  <2>1. CASE i > 2
    BY <1>1, <2>1
  <2>2. CASE ~(i > 2)
    <3>1. i \in {1, 2} /\ i \in Hashes
      BY <1>2, <1>3, <2>2 DEF Ids
    <3>2. rows[i] = [name |-> IF i = 1 THEN "Legacy" ELSE "other", hash |-> i, enabled |-> TRUE]
      BY <1>1, <2>2
    <3>3. (IF i = 1 THEN "Legacy" ELSE "other") \in Names
      BY DEF Names
    <3> QED
      BY <2>2, <3>1, <3>2, <3>3 DEF Row
  <2> QED
    BY <2>1, <2>2
<1>5. HashesIn(rows) = {1, 2}
  <2>1. \A h \in HashesIn(rows) : h \in {1, 2}
    BY <1>4 DEF HashesIn
  <2>2. rows[1] # NoRow /\ rows[2] # NoRow /\ rows[1].hash = 1 /\ rows[2].hash = 2
    BY <1>3, <1>4, Facts
  <2> QED
    BY <1>3, <2>1, <2>2 DEF HashesIn
<1>6. TypeOK
  <2>1. rows \in [Ids -> Row \cup {NoRow}]
    <3>1. \A i \in Ids : rows[i] \in Row \cup {NoRow}
      BY <1>4
    <3>2. rows = [i \in Ids |-> rows[i]]
      BY <1>1
    <3> QED
      BY <3>1, <3>2
  <2>2. nextId \in 1..(MaxKeys + 1) /\ fresh \in 1..(MaxHash + 1) /\ stops \in 0..MaxStops /\ asked \in 0..MaxAsked
    BY <1>1, <1>2
  <2>3. setting \in Hashes /\ copy \in (SUBSET Hashes) \cup {NoCopy}
    BY <1>1, <1>3
  <2>4. \A S \in {known, retired, gone, void, former} : S \subseteq Hashes
    BY <1>1, <1>3
  <2>5. \A i, j \in Present : rows[i].hash = rows[j].hash => i = j
    BY <1>4 DEF Present, There
  <2> QED
    BY <2>1, <2>2, <2>3, <2>4, <2>5 DEF TypeOK
<1>7. Tables
  <2>1. \A i \in Ids : i >= nextId => rows[i] = NoRow
    BY <1>1, <1>3, <1>4
  <2>2. \A h \in HashesIn(rows) \cup retired \cup void \cup former : h < fresh
    BY <1>1, <1>5
  <2> QED
    BY <1>1, <1>6, <2>1, <2>2 DEF Tables
<1>8. Removals
  BY <1>1 DEF Removals
<1>9. Handed
  BY <1>1, <1>5 DEF Handed
<1>10. Tasks
  <2>1. TaskOK(Idle, rows, fresh, copy, retired, void, former)
    BY <1>1, IdleOK
  <2> QED
    BY <1>1, <2>1, IdleIs DEF Tasks
<1> QED
  BY <1>7, <1>8, <1>9, <1>10 DEF IInv

LEMMA InvStep ==
  ASSUME IInv, [Next]_vars
  PROVE  IInv'
<1>1. ASSUME NEW a \in Handlers, Console(a)
      PROVE  IInv'
  <2>1. a \in Actors
    BY DEF Actors
  <2>2. CASE Create(a)
    BY <2>1, <2>2, CreateStep
  <2>3. CASE PatchRead(a) \/ DeleteCount(a) \/ Rotate(a)
    BY <2>1, <2>3, ReadStep
  <2>4. CASE PatchWrite(a)
    BY <2>1, <2>4, PatchStep
  <2>5. CASE DeleteRow(a)
    BY <2>1, <2>5, DeleteStep
  <2>6. CASE MigrateLegacy(a)
    BY <2>1, <2>6, MigrateStep
  <2>7. CASE SelectLegacy(a) \/ RotateLoad(a)
    BY <2>1, <2>7, GoOnStep
  <2>8. CASE RotateWrite(a)
    BY <2>1, <2>8, RotateStep
  <2>9. CASE DropAndGoOn(a)
    BY <2>1, <2>9, DropAndGoOnStep
  <2>10. CASE WriteSetting(a)
    BY <2>1, <2>10, SettingStep
  <2> QED
    BY <1>1, <2>2, <2>3, <2>4, <2>5, <2>6, <2>7, <2>8, <2>9, <2>10 DEF Console
<1>2. ASSUME NEW c \in Clients, Client(c)
      PROVE  IInv'
  <2>1. c \in Actors
    BY DEF Actors
  <2> QED
    BY <1>2, <2>1, LookupStep, GoOnStep, RestoreStep, InsertStep DEF Client
<1>3. CASE UNCHANGED vars
  BY <1>3 DEF vars, table, history, IInv, Tables, TypeOK, Present, There, Removals, Handed, Tasks
<1> QED
  BY <1>1, <1>2, <1>3, DropStep, RestartStep DEF Next

\* A key that was handed out opens the gateway until it is removed, and does
\* not once its removal has been answered (authenticateClient).
THEOREM KeysTakeEffectAlways == Spec => []KeysHold
<1>1. Init => IInv
  BY InvInit
<1>2. IInv /\ [Next]_vars => IInv'
  BY InvStep
<1>3. IInv => KeysHold
  <2> SUFFICES ASSUME IInv
               PROVE  KeysHold
    OBVIOUS
  <2>1. TypeOK
    BY DEF IInv, Tables
  <2>2. ASSUME NEW h \in known \ former
        PROVE  /\ h \in gone => ~Finds(h)
               /\ h \notin retired \cup void => Finds(h)
    BY StoredIs DEF IInv, Removals, Handed, Finds
  <2> QED
    BY <2>1, <2>2 DEF KeysHold, KeysTakeEffect
<1> QED
  BY <1>1, <1>2, <1>3, PTL DEF Spec

\* The patch that a step finishes is that of its own UPDATE: the others' steps
\* leave it where it is.
LEMMA OnlyItsUpdate ==
  ASSUME IInv, [Next]_vars, NEW a \in Handlers, At(a, "patch"), task'[a].at = "drop"
  PROVE  PatchWrite(a)
<1>1. task \in [Actors -> Task] /\ a \in Actors
  BY TaskIs DEF Actors
<1>2. \A S : Outdated(S)[a].at = "patch"
  <2>1. task[a] \in Task /\ task[a].at = "patch"
    BY <1>1 DEF At
  <2>2. \A S : Outdated(S)[a] \in {task[a], [task[a] EXCEPT !.raced = TRUE]}
    BY <1>1 DEF Outdated
  <2>3. [task[a] EXCEPT !.raced = TRUE].at = "patch"
    BY <2>1 DEF Task
  <2> QED
    BY <2>1, <2>2, <2>3
<1>3. \A b \in Actors : \A S, y : task' = [Outdated(S) EXCEPT ![b] = y] => a = b
  <2>1. \A S : Outdated(S) = [b \in Actors |-> Outdated(S)[b]]
    BY DEF Outdated
  <2> QED
    BY <1>1, <1>2, <2>1
<1>4. \A b \in Actors : \A y : task' = [task EXCEPT ![b] = y] => a = b
  BY <1>1 DEF At
<1>5. task' # task
  BY DEF At
<1>6. ASSUME NEW b \in Handlers, Console(b)
      PROVE  PatchWrite(a)
  <2>1. b \in Actors
    BY DEF Actors
  <2>2. CASE At(b, "patch")
    <3>1. PatchWrite(b)
      BY <1>6, <2>2 DEF Console, Create, PatchRead, DeleteCount, DeleteRow, MigrateLegacy, SelectLegacy, Rotate,
                        RotateLoad, RotateWrite, DropAndGoOn, WriteSetting, Asked, At
    <3>2. a = b
      BY <1>3, <2>1, <3>1 DEF PatchWrite, Wrote
    <3> QED
      BY <3>1, <3>2
  <2>3. CASE ~At(b, "patch")
    <3>1. a # b
      BY <2>3
    <3>2. ~PatchWrite(b)
      BY <2>3 DEF PatchWrite
    <3>3. ~DeleteRow(b) /\ ~RotateWrite(b)
      BY <1>3, <1>4, <2>1, <3>1 DEF DeleteRow, RotateWrite, Wrote, Ends
    <3>4. ~Create(b) /\ ~PatchRead(b) /\ ~DeleteCount(b) /\ ~MigrateLegacy(b) /\ ~Rotate(b)
      BY <1>1, <2>1, <3>1 DEF Create, PatchRead, DeleteCount, MigrateLegacy, Rotate, Goto, At
    <3>5. ~SelectLegacy(b) /\ ~RotateLoad(b) /\ ~DropAndGoOn(b) /\ ~WriteSetting(b)
      BY <1>1, <2>1, <3>1 DEF SelectLegacy, RotateLoad, DropAndGoOn, WriteSetting, Goto, Ends, At
    <3> QED
      BY <1>6, <3>2, <3>3, <3>4, <3>5 DEF Console
  <2> QED
    BY <2>2, <2>3
<1>7. ASSUME NEW c \in Clients
      PROVE  ~Client(c)
  <2>1. c \in Actors /\ a # c
    BY KeysAssumption DEF Actors
  <2>2. ~Lookup(c)
    BY <1>1, <1>5, <2>1 DEF Lookup, At
  <2>3. ~Compare(c)
    BY <1>4, <2>1 DEF Compare, Goto, Ends
  <2>4. ~Restore(c)
    BY <1>3, <1>4, <2>1 DEF Restore, Goto, Ends, Wrote
  <2>5. ~Insert(c)
    BY <1>4, <2>1 DEF Insert
  <2> QED
    BY <2>2, <2>3, <2>4, <2>5 DEF Client
<1>8. ASSUME NEW b \in Actors
      PROVE  ~Drop(b)
  <2>1. b # a => ~Drop(b)
    BY <1>4 DEF Drop, Ends
  <2>2. ~Drop(a)
    BY DEF Drop, At
  <2> QED
    BY <2>1, <2>2
<1>9. ~Restart
  BY <1>1, IdleIs DEF Restart
<1>10. ~UNCHANGED vars
  BY <1>5 DEF vars
<1> QED
  BY <1>6, <1>7, <1>8, <1>9, <1>10 DEF Next

\* A patch whose row nobody has written since it was read changes the column
\* it was asked to change and no other (patchClientKey).
THEOREM PatchesChangeWhatWasAsked == Spec => PatchesLoseOnlyRaces
<1>1. Init => IInv
  BY InvInit
<1>2. IInv /\ [Next]_vars => IInv'
  BY InvStep
<1> DEFINE Holds == \A a \in Handlers :
       At(a, "patch") /\ task'[a].at = "drop" /\ ~task[a].raced =>
         \A i \in Present :
           /\ rows'[i] # NoRow
           /\ rows'[i].name # rows[i].name => i = task[a].id /\ task[a].patch.field = "name"
           /\ rows'[i].enabled # rows[i].enabled => i = task[a].id /\ task[a].patch.field = "enabled"
<1>3. IInv /\ [Next]_vars => Holds
  <2> SUFFICES ASSUME IInv, [Next]_vars, NEW a \in Handlers, At(a, "patch"), task'[a].at = "drop",
                      ~task[a].raced, NEW j \in Present
               PROVE  /\ rows'[j] # NoRow
                      /\ rows'[j].name # rows[j].name => j = task[a].id /\ task[a].patch.field = "name"
                      /\ rows'[j].enabled # rows[j].enabled => j = task[a].id /\ task[a].patch.field = "enabled"
    OBVIOUS
  <2> DEFINE i == task[a].id
  <2>1. PatchWrite(a)
    BY OnlyItsUpdate
  <2>2. /\ RowRead(task[a], rows) /\ task[a].at = "patch" /\ rows \in [Ids -> Row \cup {NoRow}]
    BY TaskIs DEF At, Actors
  <2>3. i \in Ids /\ rows[i] = task[a].row /\ rows[i] \in Row
    BY <2>2 DEF RowRead
  <2>4. There(i)
    BY <2>3, Facts DEF There
  <2>5. rows' = [rows EXCEPT ![i] = Patched(rows[i], rows[i], task[a].patch)]
    BY <2>1, <2>3, <2>4 DEF PatchWrite
  <2>6. j \in Ids /\ rows[j] # NoRow
    BY DEF Present, There
  <2>7. CASE j # i
    BY <2>2, <2>5, <2>6, <2>7
  <2>8. CASE j = i
    <3> DEFINE r == Patched(rows[i], rows[i], task[a].patch)
    <3>1. /\ r.name # rows[i].name => task[a].patch.field = "name"
          /\ r.enabled # rows[i].enabled => task[a].patch.field = "enabled"
      BY <2>3 DEF Patched, Row
    <3>2. r # NoRow
      <4>1. task[a].patch \in Patch
        BY <2>2 DEF RowRead
      <4>2. CASE task[a].patch.field = "name"
        <5>1. task[a].patch.value \in Names
          BY <4>1, <4>2 DEF Patch
        <5>2. r = [rows[i] EXCEPT !.name = task[a].patch.value, !.enabled = rows[i].enabled, !.hash = rows[i].hash]
          BY <2>3, <4>2 DEF Patched, Row
        <5>3. r \in Row
          BY <2>3, <5>1, <5>2 DEF Row
        <5> QED
          BY <5>3, Facts
      <4>3. CASE task[a].patch.field # "name"
        <5>1. task[a].patch.field = "enabled" /\ task[a].patch.value \in BOOLEAN
          BY <4>1, <4>3 DEF Patch
        <5>2. r = [rows[i] EXCEPT !.name = rows[i].name, !.enabled = task[a].patch.value, !.hash = rows[i].hash]
          BY <2>3, <5>1 DEF Patched, Row
        <5>3. r \in Row
          BY <2>3, <5>1, <5>2 DEF Row
        <5> QED
          BY <5>3, Facts
      <4> QED
        BY <4>2, <4>3
    <3>3. rows'[i] = r
      BY <2>2, <2>3, <2>5
    <3> QED
      BY <2>8, <3>1, <3>2, <3>3
  <2> QED
    BY <2>7, <2>8
<1> QED
  BY <1>1, <1>2, <1>3, PTL DEF Spec, PatchesLoseOnlyRaces

----------------------------------------------------------------------------
(* The limiter. *)

\* Where the entries behind the head are whose stamps are in U.
Held(stamps, head, U) == {i \in (head + 1)..Len(stamps) : stamps[i] \in U}

\* A ledger with v more at a time.
Booked(g, at, v) == [g EXCEPT ![at] = @ + v]

\* What a list holds behind its head and what the ledger g has booked: never
\* more, and all of it that is of the last minute.
Agrees(stamps, f, head, g, t) ==
  \A U \in SUBSET Time :
    /\ SumOver(f, Held(stamps, head, U)) <= SumOver(g, U)
    /\ (\A u \in U : t - Window < u) => SumOver(f, Held(stamps, head, U)) = SumOver(g, U)

\* Stamps are of the past, and out of order by what a call may wait at most.
InOrder(stamps, t) ==
  \A i \in DOMAIN stamps :
    stamps[i] <= t /\ \A j \in DOMAIN stamps : i < j => stamps[i] <= stamps[j] + Skew

BookOK(stamps, f, head, g, t) ==
  /\ stamps \in Seq(Time) /\ f \in [1..Len(stamps) -> Nat] /\ head \in 0..Len(stamps)
  /\ InOrder(stamps, t)
  /\ Agrees(stamps, f, head, g, t)

\* A request counts as one.
Ones(s) == [i \in DOMAIN s |-> 1]

WindowOK(w, a, s, t) ==
  /\ BookOK(w.requests, Ones(w.requests), w.requestHead, a, t)
  /\ BookOK(Stamps(w.tokens), TokensOf(w.tokens), w.tokenHead, s, t)
  /\ w.tokenTotal = SumOver(TokensOf(w.tokens), (w.tokenHead + 1)..Len(w.tokens))

\* No window is kept for nothing.
InUse(w) == w.requestHead < Len(w.requests) \/ w.tokenHead < Len(w.tokens)

CallsOK ==
  \A c \in Calls : call[c] # NoCall => call[c].at <= now /\ now <= call[c].at + Skew

LimiterInv ==
  /\ LimiterTypeOK /\ CallsOK
  /\ \A k \in Keys : WindowOK(WindowOf(k), admitted[k], spent[k], now)
  /\ \A k \in Keys : windows[k] # NoWindow => InUse(windows[k])
  /\ AtMostRpm

----------------------------------------------------------------------------
(* Sums. *)

\* A unit is a place and a number up to what the function has there.
LEMMA UnitsAre ==
  ASSUME NEW f, NEW S
  PROVE  Units(f, S) = UNION {{x} \X (1..f[x]) : x \in S}
         /\ \A p : p \in Units(f, S) <=> \E x \in S : \E i \in 1..f[x] : p = <<x, i>>
BY DEF Units

LEMMA SumIsNat ==
  ASSUME NEW S, IsFiniteSet(S), NEW f, \A x \in S : f[x] \in Nat
  PROVE  IsFiniteSet(Units(f, S)) /\ SumOver(f, S) \in Nat
<1> DEFINE T == {{x} \X (1..f[x]) : x \in S}
           g == [x \in S |-> {x} \X (1..f[x])]
<1>1. g \in Surjection(S, T)
  BY DEF Surjection
<1>2. IsFiniteSet(T)
  BY <1>1, FS_Surjection
<1>3. \A U \in T : IsFiniteSet(U)
  <2> SUFFICES ASSUME NEW x \in S PROVE IsFiniteSet({x} \X (1..f[x]))
    OBVIOUS
  <2>1. IsFiniteSet({x})
    BY FS_Singleton
  <2>2. f[x] \in Int
    OBVIOUS
  <2>3. IsFiniteSet(1..f[x])
    BY <2>2, FS_Interval
  <2> QED
    BY <2>1, <2>3, FS_Product
<1>4. IsFiniteSet(UNION T)
  BY <1>2, <1>3, FS_UNION
<1>5. IsFiniteSet(Units(f, S))
  BY <1>4 DEF Units
<1> QED
  BY <1>5, FS_CardinalityType DEF SumOver

LEMMA SumOfNone ==
  ASSUME NEW f
  PROVE  SumOver(f, {}) = 0
<1>1. Units(f, {}) = {}
  BY DEF Units
<1> QED
  BY <1>1, FS_EmptySet DEF SumOver

LEMMA SumOfOne ==
  ASSUME NEW f, NEW x, f[x] \in Nat
  PROVE  SumOver(f, {x}) = f[x]
<1>1. Units(f, {x}) = {x} \X (1..f[x])
  BY DEF Units
<1>2. IsFiniteSet({x}) /\ Cardinality({x}) = 1
  BY FS_Singleton
<1>3. IsFiniteSet(1..f[x]) /\ Cardinality(1..f[x]) = f[x]
  BY FS_Interval
<1> DEFINE T == 1..f[x]
<1> HIDE DEF T
<1>4. Cardinality({x} \X T) = f[x]
  <2>1. Cardinality({x} \X T) = Cardinality({x}) * Cardinality(T)
    <3>1. IsFiniteSet({x}) /\ IsFiniteSet(T)
      BY <1>2, <1>3 DEF T
    <3> QED
      BY ONLY <3>1, FS_Product
  <2>2. Cardinality({x}) = 1 /\ Cardinality(T) = f[x]
    BY <1>2, <1>3 DEF T
  <2>3. \A n \in Nat : 1 * n = n
    OBVIOUS
  <2> QED
    BY <2>1, <2>2, <2>3
<1> QED
  BY <1>1, <1>4 DEF SumOver, T

LEMMA SumOfSame ==
  ASSUME NEW S, NEW f, NEW g, \A x \in S : f[x] = g[x]
  PROVE  SumOver(f, S) = SumOver(g, S)
<1>1. Units(f, S) = Units(g, S)
  BY DEF Units
<1> QED
  BY <1>1 DEF SumOver

LEMMA SumOfPart ==
  ASSUME NEW T, IsFiniteSet(T), NEW S \in SUBSET T, NEW f, \A x \in T : f[x] \in Nat
  PROVE  IsFiniteSet(S) /\ SumOver(f, S) <= SumOver(f, T)
<1>1. IsFiniteSet(S)
  BY FS_Subset
<1>2. Units(f, S) \in SUBSET Units(f, T)
  BY DEF Units
<1>3. IsFiniteSet(Units(f, T))
  BY SumIsNat
<1> QED
  BY <1>1, <1>2, <1>3, FS_Subset DEF SumOver

LEMMA SumOfBoth ==
  ASSUME NEW S, IsFiniteSet(S), NEW T, IsFiniteSet(T), S \cap T = {},
         NEW f, \A x \in S \cup T : f[x] \in Nat
  PROVE  SumOver(f, S \cup T) = SumOver(f, S) + SumOver(f, T)
<1>1. Units(f, S \cup T) = Units(f, S) \cup Units(f, T)
  BY DEF Units
<1>2. Units(f, S) \cap Units(f, T) = {}
  BY UnitsAre
<1>3. IsFiniteSet(Units(f, S)) /\ IsFiniteSet(Units(f, T))
      /\ SumOver(f, S) \in Nat /\ SumOver(f, T) \in Nat
  BY SumIsNat
<1>4. Cardinality(Units(f, S) \cap Units(f, T)) = 0
  BY <1>2, FS_EmptySet
<1>5. Cardinality(Units(f, S) \cup Units(f, T)) =
        Cardinality(Units(f, S)) + Cardinality(Units(f, T)) - Cardinality(Units(f, S) \cap Units(f, T))
  BY <1>3, FS_Union
<1>6. SumOver(f, S \cup T) = SumOver(f, S) + SumOver(f, T) - 0
  BY <1>1, <1>4, <1>5 DEF SumOver
<1> QED
  BY <1>3, <1>6

LEMMA SumAdded ==
  ASSUME NEW S, IsFiniteSet(S), NEW x, x \notin S, NEW f, \A y \in S \cup {x} : f[y] \in Nat
  PROVE  SumOver(f, S \cup {x}) = SumOver(f, S) + f[x]
<1>1. IsFiniteSet({x}) /\ S \cap {x} = {}
  BY FS_Singleton
<1>2. SumOver(f, S \cup {x}) = SumOver(f, S) + SumOver(f, {x})
  BY <1>1, SumOfBoth
<1> QED
  BY <1>2, SumOfOne

\* A ledger that books v at x.
LEMMA SumBooked ==
  ASSUME NEW f \in [Time -> Nat], NEW x \in Time, NEW v \in Nat,
         NEW g \in [Time -> Nat], g[x] = f[x] + v, \A y \in Time \ {x} : g[y] = f[y],
         NEW S \in SUBSET Time, IsFiniteSet(S)
  PROVE  SumOver(g, S) = SumOver(f, S) + (IF x \in S THEN v ELSE 0)
<1>1. g[x] = f[x] + v /\ \A y \in Time \ {x} : g[y] = f[y]
  OBVIOUS
<1>2. SumOver(f, S) \in Nat
  BY SumIsNat
<1>3. CASE x \notin S
  <2>1. \A y \in S : g[y] = f[y]
    BY <1>1, <1>3
  <2>2. SumOver(g, S) = SumOver(f, S)
    BY <2>1, SumOfSame
  <2> QED
    BY <1>2, <1>3, <2>2
<1>4. CASE x \in S
  <2> DEFINE R == S \ {x}
  <2>1. IsFiniteSet(R) /\ x \notin R /\ R \cup {x} = S /\ R \in SUBSET Time
    BY <1>4, FS_RemoveElement
  <2>2. \A y \in R : g[y] = f[y]
    BY <1>1
  <2> HIDE DEF R
  <2>3. SumOver(g, R) = SumOver(f, R)
    BY <2>2, SumOfSame
  <2>4. \A y \in R \cup {x} : f[y] \in Nat /\ g[y] \in Nat
    BY <1>1, <2>1
  <2>5. SumOver(f, R \cup {x}) = SumOver(f, R) + f[x]
    BY <2>1, <2>4, SumAdded
  <2>6. SumOver(g, R \cup {x}) = SumOver(g, R) + g[x]
    BY <2>1, <2>4, SumAdded
  <2>7. SumOver(f, R) \in Nat /\ f[x] \in Nat
    BY <2>1, <2>4, SumIsNat
  <2>8. SumOver(g, S) = SumOver(f, S) + v
    BY <1>1, <2>1, <2>3, <2>5, <2>6, <2>7
  <2> QED
    BY <1>4, <2>8
<1> QED
  BY <1>3, <1>4

LEMMA SumOfOnes ==
  ASSUME NEW S, IsFiniteSet(S), NEW f, \A x \in S : f[x] = 1
  PROVE  SumOver(f, S) = Cardinality(S)
<1> DEFINE b == [x \in S |-> <<x, 1>>]
<1>1. \A x \in S : 1 \in 1..f[x] /\ \A i \in 1..f[x] : i = 1
  OBVIOUS
<1>2. Units(f, S) = {<<x, 1>> : x \in S}
  BY <1>1, UnitsAre
<1>3. b \in Bijection(S, {<<x, 1>> : x \in S})
  BY DEF Bijection, Injection, IsInjective, Surjection
<1>4. ExistsBijection(S, Units(f, S))
  BY <1>2, <1>3 DEF ExistsBijection
<1> QED
  BY <1>4, FS_Bijection DEF SumOver

\* On S, g is what f is on T, d further on.
Shifted(g, S, f, T, d) ==
  /\ S \in SUBSET Int /\ T \in SUBSET Int /\ IsFiniteSet(S) /\ d \in Int
  /\ \A i \in S : i + d \in T /\ g[i] = f[i + d] /\ g[i] \in Nat
  /\ \A j \in T : j - d \in S

LEMMA SumShifted ==
  ASSUME NEW g, NEW S, NEW f, NEW T, NEW d, Shifted(g, S, f, T, d)
  PROVE  SumOver(g, S) = SumOver(f, T)
<1>0. /\ S \in SUBSET Int /\ T \in SUBSET Int /\ IsFiniteSet(S) /\ d \in Int
      /\ \A i \in S : i + d \in T /\ g[i] = f[i + d] /\ g[i] \in Nat
      /\ \A j \in T : j - d \in S
  BY DEF Shifted
<1> DEFINE b == [p \in Units(g, S) |-> <<p[1] + d, p[2]>>]
<1>1. \A p \in Units(g, S) : p[1] \in S /\ p[2] \in 1..g[p[1]] /\ p = <<p[1], p[2]>>
  BY UnitsAre
<1>2. ASSUME NEW p \in Units(g, S)
      PROVE  <<p[1] + d, p[2]>> \in Units(f, T)
  <2>1. p[1] \in S /\ p[1] + d \in T /\ p[2] \in 1..f[p[1] + d]
    BY <1>0, <1>1
  <2> QED
    BY <2>1, UnitsAre
<1>3. b \in [Units(g, S) -> Units(f, T)]
  BY <1>2
<1>4. \A p, q \in Units(g, S) : b[p] = b[q] => p = q
  <2> SUFFICES ASSUME NEW p \in Units(g, S), NEW q \in Units(g, S), b[p] = b[q] PROVE p = q
    OBVIOUS
  <2>1. p[1] + d = q[1] + d /\ p[2] = q[2]
    OBVIOUS
  <2>2. p[1] \in Int /\ q[1] \in Int /\ d \in Int
    BY <1>0, <1>1
  <2>a. \A x, y, z \in Int : x + z = y + z => x = y
    OBVIOUS
  <2>3. p[1] = q[1]
    BY <2>1, <2>2, <2>a
  <2> QED
    BY <1>1, <2>1, <2>3
<1>5. \A q \in Units(f, T) : \E p \in Units(g, S) : b[p] = q
  <2> SUFFICES ASSUME NEW q \in Units(f, T) PROVE \E p \in Units(g, S) : b[p] = q
    OBVIOUS
  <2>0. q \in Units(f, T) <=> \E y \in T : \E j \in 1..f[y] : q = <<y, j>>
    BY UnitsAre
  <2>1. PICK y \in T : \E j \in 1..f[y] : q = <<y, j>>
    BY <2>0
  <2>2. PICK j \in 1..f[y] : q = <<y, j>>
    BY <2>1
  <2>3. PICK i \in S : y = i + d
    <3>1. y - d \in S /\ y \in Int /\ y = (y - d) + d
      BY <1>0, <2>1
    <3> QED
      BY <3>1
  <2>4. <<i, j>> \in Units(g, S)
    BY <1>0, <2>2, <2>3, UnitsAre
  <2>5. b[<<i, j>>] = q
    BY <2>2, <2>3, <2>4
  <2> QED
    BY <2>4, <2>5
<1>6. b \in Bijection(Units(g, S), Units(f, T))
  <2> HIDE DEF b
  <2> QED
    BY <1>3, <1>4, <1>5 DEF Bijection, Injection, IsInjective, Surjection
<1> QED
  <2>1. ExistsBijection(Units(g, S), Units(f, T))
    BY <1>6 DEF ExistsBijection
  <2> SUFFICES Cardinality(Units(f, T)) = Cardinality(Units(g, S))
    BY DEF SumOver
  <2> QED
    BY <1>0, <2>1, FS_Bijection, SumIsNat

----------------------------------------------------------------------------
(* Lists and their ledgers. *)

LEMMA HeldIs ==
  ASSUME NEW stamps \in Seq(Time), NEW head \in Nat, NEW U
  PROVE  /\ Held(stamps, head, U) \in SUBSET (1..Len(stamps))
         /\ Held(stamps, head, U) \in SUBSET ((head + 1)..Len(stamps))
         /\ IsFiniteSet(Held(stamps, head, U))
<1>1. Held(stamps, head, U) \in SUBSET (1..Len(stamps))
      /\ Held(stamps, head, U) \in SUBSET ((head + 1)..Len(stamps))
  BY DEF Held
<1>2. IsFiniteSet(1..Len(stamps))
  BY FS_Interval
<1> QED
  BY <1>1, <1>2, FS_Subset

LEMMA TimesAre ==
  ASSUME NEW U \in SUBSET Time
  PROVE  IsFiniteSet(U)
<1>1. MaxNow \in Int /\ 0 \in Int
  BY LimiterAssumption
<1>2. IsFiniteSet(0..MaxNow)
  BY <1>1, FS_Interval
<1> QED
  BY <1>2, FS_Subset DEF Time

\* The head moves over expired entries only, to the first that is not.
LEMMA NewHeadIs ==
  ASSUME NEW stamps \in Seq(Time), NEW head \in 0..Len(stamps), NEW cutoff \in Int
  PROVE  LET n == NewHead(stamps, head, cutoff)
         IN  /\ n \in head..Len(stamps)
             /\ \A i \in (head + 1)..n : stamps[i] <= cutoff
             /\ n < Len(stamps) => cutoff < stamps[n + 1]
<1> DEFINE live == {i \in DOMAIN stamps : i > head /\ ~Expired(stamps[i], cutoff)}
<1>0. /\ live \subseteq Nat /\ DOMAIN stamps = 1..Len(stamps) /\ Len(stamps) \in Nat
      /\ \A i \in 1..Len(stamps) : stamps[i] \in Int
  <2>1. \A i \in 1..Len(stamps) : stamps[i] \in Time
    BY ElementOfSeq
  <2> QED
    BY <2>1 DEF Time
<1>1. \A i \in live : i \in 1..Len(stamps) /\ i > head /\ stamps[i] > cutoff
  BY <1>0 DEF Expired
<1>2. \A i \in 1..Len(stamps) : i > head /\ i \notin live => stamps[i] <= cutoff
  BY <1>0 DEF Expired
<1>3. NewHead(stamps, head, cutoff) =
        IF live = {} THEN Len(stamps) ELSE (CHOOSE i \in live : \A j \in live : i <= j) - 1
  BY DEF NewHead
<1> HIDE DEF live
<1>4. CASE live = {}
  BY <1>0, <1>2, <1>3, <1>4
<1>5. CASE live # {}
  <2>1. \E i \in live : \A j \in live : i <= j
    BY <1>0, <1>5, LeastNat
  <2> DEFINE m == CHOOSE i \in live : \A j \in live : i <= j
  <2>2. m \in live /\ \A j \in live : m <= j
    BY <2>1
  <2>3. NewHead(stamps, head, cutoff) = m - 1
    BY <1>3, <1>5
  <2> HIDE DEF m
  <2>4. m \in 1..Len(stamps) /\ m > head /\ stamps[m] > cutoff
    BY <1>1, <2>2
  <2>5. \A i \in (head + 1)..(m - 1) : stamps[i] <= cutoff
    <3> SUFFICES ASSUME NEW i \in (head + 1)..(m - 1) PROVE stamps[i] <= cutoff
      OBVIOUS
    <3>1. i \in 1..Len(stamps) /\ i > head /\ ~(m <= i)
      BY <2>4
    <3> QED
      BY <1>2, <2>2, <3>1
  <2>6. m - 1 + 1 = m /\ m - 1 \in head..Len(stamps)
    BY <2>4
  <2> QED
    BY <1>0, <2>3, <2>4, <2>5, <2>6
<1> QED
  BY <1>4, <1>5

LEMMA BookPruned ==
  ASSUME NEW stamps, NEW f, NEW head, NEW g \in [Time -> Nat], NEW t \in Int,
         BookOK(stamps, f, head, g, t),
         NEW n \in head..Len(stamps),
         \A i \in (head + 1)..n : stamps[i] <= t - Window
  PROVE  BookOK(stamps, f, n, g, t)
<1>1. stamps \in Seq(Time) /\ f \in [1..Len(stamps) -> Nat] /\ head \in 0..Len(stamps)
      /\ Agrees(stamps, f, head, g, t) /\ Window \in Nat
  BY LimiterAssumption DEF BookOK
<1>2. n \in 0..Len(stamps)
  BY <1>1
<1>3. \A i \in 1..Len(stamps) : stamps[i] \in Int
  <2>1. \A i \in 1..Len(stamps) : stamps[i] \in Time
    BY <1>1, ElementOfSeq
  <2> QED
    BY <2>1 DEF Time
<1>4. Agrees(stamps, f, n, g, t)
  <2> SUFFICES ASSUME NEW U \in SUBSET Time
               PROVE  /\ SumOver(f, Held(stamps, n, U)) <= SumOver(g, U)
                      /\ (\A u \in U : t - Window < u)
                           => SumOver(f, Held(stamps, n, U)) = SumOver(g, U)
    BY DEF Agrees
  <2>1. IsFiniteSet(Held(stamps, head, U)) /\ \A x \in Held(stamps, head, U) : f[x] \in Nat
    BY <1>1, HeldIs
  <2>2. Held(stamps, n, U) \in SUBSET Held(stamps, head, U)
    BY <1>1, <1>2 DEF Held
  <2>3. SumOver(f, Held(stamps, n, U)) <= SumOver(f, Held(stamps, head, U))
    BY <2>1, <2>2, SumOfPart
  <2>4. \A x \in Held(stamps, n, U) : f[x] \in Nat
    BY <2>1, <2>2
  <2>5. IsFiniteSet(Held(stamps, n, U))
    BY <2>1, <2>2, FS_Subset
  <2>6. IsFiniteSet(U) /\ \A u \in U : g[u] \in Nat
    BY TimesAre
  <2>7. /\ SumOver(f, Held(stamps, n, U)) \in Nat /\ SumOver(f, Held(stamps, head, U)) \in Nat
        /\ SumOver(g, U) \in Nat
    BY <2>1, <2>4, <2>5, <2>6, SumIsNat
  <2>8. ASSUME \A u \in U : t - Window < u
        PROVE  Held(stamps, n, U) = Held(stamps, head, U)
    <3>1. ASSUME NEW i \in Held(stamps, head, U)
          PROVE  i \in Held(stamps, n, U)
      <4>1. i \in (head + 1)..Len(stamps) /\ stamps[i] \in U /\ i \in 1..Len(stamps)
        BY <1>1, HeldIs DEF Held
      <4>2. stamps[i] \in Int /\ t - Window < stamps[i]
        BY <1>3, <2>8, <4>1
      <4>3. ~(stamps[i] <= t - Window)
        BY <1>1, <4>2
      <4>4. i \notin (head + 1)..n
        BY <4>3
      <4> QED
        BY <1>1, <1>2, <4>1, <4>4 DEF Held
    <3> QED
      BY <2>2, <3>1
  <2> QED
    BY <1>1, <2>3, <2>7, <2>8 DEF Agrees
<1> QED
  BY <1>1, <1>2, <1>4 DEF BookOK

LEMMA BookLater ==
  ASSUME NEW stamps, NEW f, NEW head, NEW g, NEW t \in Int, NEW t1 \in Int, t <= t1,
         BookOK(stamps, f, head, g, t)
  PROVE  BookOK(stamps, f, head, g, t1)
<1>1. InOrder(stamps, t1)
  <2>1. \A i \in DOMAIN stamps : stamps[i] \in Int
    <3>1. stamps \in Seq(Time)
      BY DEF BookOK
    <3>2. \A i \in 1..Len(stamps) : stamps[i] \in Time
      BY <3>1, ElementOfSeq
    <3> QED
      BY <3>1, <3>2 DEF Time
  <2> QED
    BY <2>1 DEF BookOK, InOrder
<1>2. Agrees(stamps, f, head, g, t1)
  <2> SUFFICES ASSUME NEW U \in SUBSET Time
               PROVE  /\ SumOver(f, Held(stamps, head, U)) <= SumOver(g, U)
                      /\ (\A u \in U : t1 - Window < u)
                           => SumOver(f, Held(stamps, head, U)) = SumOver(g, U)
    BY DEF Agrees
  <2>1. (\A u \in U : t1 - Window < u) => \A u \in U : t - Window < u
    BY LimiterAssumption DEF Time
  <2> QED
    BY <2>1 DEF BookOK, Agrees
<1> QED
  BY <1>1, <1>2 DEF BookOK

LEMMA BookAppended ==
  ASSUME NEW stamps, NEW f, NEW head, NEW g \in [Time -> Nat], NEW t \in Int,
         BookOK(stamps, f, head, g, t),
         NEW at \in Time, at <= t, t <= at + Skew, NEW v \in Nat,
         NEW f1 \in [1..(Len(stamps) + 1) -> Nat],
         \A i \in 1..Len(stamps) : f1[i] = f[i], f1[Len(stamps) + 1] = v
  PROVE  BookOK(Append(stamps, at), f1, head, Booked(g, at, v), t)
<1> DEFINE st == Append(stamps, at)
           g1 == Booked(g, at, v)
           n == Len(stamps)
<1>1. /\ stamps \in Seq(Time) /\ n \in Nat /\ f \in [1..n -> Nat] /\ head \in 0..n
      /\ InOrder(stamps, t) /\ Agrees(stamps, f, head, g, t)
  BY DEF BookOK
<1>2. /\ st \in Seq(Time) /\ Len(st) = n + 1 /\ st[n + 1] = at
      /\ \A i \in 1..n : st[i] = stamps[i]
  BY <1>1
<1>3. DOMAIN st = 1..(n + 1) /\ DOMAIN stamps = 1..n
  BY <1>1, <1>2
<1>a. at \in Int /\ Skew \in Nat
  BY LimiterAssumption DEF Time
<1>4. \A i \in 1..n : stamps[i] \in Int
  <2>1. \A i \in 1..n : stamps[i] \in Time
    BY <1>1, ElementOfSeq
  <2> QED
    BY <2>1 DEF Time
<1> HIDE DEF st, n
<1>5. InOrder(st, t)
  <2> SUFFICES ASSUME NEW i \in 1..(n + 1)
               PROVE  st[i] <= t /\ \A j \in 1..(n + 1) : i < j => st[i] <= st[j] + Skew
    BY <1>3 DEF InOrder
  <2>1. CASE i = n + 1
    BY <1>1, <1>2, <2>1
  <2>2. CASE i \in 1..n
    <3>1. stamps[i] <= t /\ \A j \in 1..n : i < j => stamps[i] <= stamps[j] + Skew
      BY <1>1, <1>3, <2>2 DEF InOrder
    <3>2. stamps[i] <= at + Skew
      BY <1>4, <1>a, <2>2, <3>1
    <3>3. ASSUME NEW j \in 1..(n + 1), i < j
          PROVE  st[i] <= st[j] + Skew
      <4>1. CASE j = n + 1
        BY <1>2, <2>2, <3>2, <4>1
      <4>2. CASE j \in 1..n
        BY <1>2, <2>2, <3>1, <3>3, <4>2
      <4> QED
        BY <1>1, <4>1, <4>2
    <3> QED
      BY <1>2, <2>2, <3>1, <3>3
  <2> QED
    BY <1>1, <2>1, <2>2
<1>6. Agrees(st, f1, head, g1, t)
  <2> SUFFICES ASSUME NEW U \in SUBSET Time
               PROVE  /\ SumOver(f1, Held(st, head, U)) <= SumOver(g1, U)
                      /\ (\A u \in U : t - Window < u)
                           => SumOver(f1, Held(st, head, U)) = SumOver(g1, U)
    BY DEF Agrees
  <2> DEFINE H == Held(stamps, head, U)
  <2>1. /\ IsFiniteSet(H) /\ H \in SUBSET (1..n) /\ n + 1 \notin H
        /\ \A x \in H : f1[x] = f[x] /\ f[x] \in Nat /\ f1[x] \in Nat
    BY <1>1, HeldIs DEF n
  <2>2. Held(st, head, U) = IF at \in U THEN H \cup {n + 1} ELSE H
    <3>1. \A i \in 1..n : i \in Held(st, head, U) <=> i \in H
      BY <1>1, <1>2 DEF Held, n
    <3>2. n + 1 \in Held(st, head, U) <=> at \in U
      BY <1>1, <1>2 DEF Held
    <3>3. \A i \in Held(st, head, U) : i \in 1..n \/ i = n + 1
      BY <1>1, <1>2 DEF Held
    <3> HIDE DEF H
    <3>4. CASE at \in U
      <4>1. Held(st, head, U) = H \cup {n + 1}
        BY <2>1, <3>1, <3>2, <3>3, <3>4
      <4> QED
        BY <3>4, <4>1
    <3>5. CASE at \notin U
      <4>1. Held(st, head, U) = H
        BY <2>1, <3>1, <3>2, <3>3, <3>5
      <4> QED
        BY <3>5, <4>1
    <3> QED
      BY <3>4, <3>5
  <2>3. IsFiniteSet(U) /\ (\A u \in U : g[u] \in Nat) /\ SumOver(g, U) \in Nat
    BY TimesAre, SumIsNat
  <2>4. SumOver(g1, U) = SumOver(g, U) + (IF at \in U THEN v ELSE 0)
    <3>1. g1 \in [Time -> Nat] /\ g1[at] = g[at] + v /\ \A y \in Time \ {at} : g1[y] = g[y]
      BY DEF Booked
    <3> HIDE DEF g1
    <3> QED
      BY <2>3, <3>1, SumBooked
  <2>5. /\ SumOver(f, H) <= SumOver(g, U)
        /\ (\A u \in U : t - Window < u) => SumOver(f, H) = SumOver(g, U)
    BY <1>1 DEF Agrees
  <2> HIDE DEF H, g1
  <2>6. SumOver(f1, H) = SumOver(f, H) /\ SumOver(f, H) \in Nat
    BY <2>1, SumOfSame, SumIsNat
  <2>7. SumOver(f1, H \cup {n + 1}) = SumOver(f1, H) + v
    <3>1. \A x \in H \cup {n + 1} : f1[x] \in Nat
      BY <2>1 DEF n
    <3> QED
      BY <2>1, <3>1, SumAdded DEF n
  <2>8. SumOver(f1, Held(st, head, U)) = SumOver(f, H) + (IF at \in U THEN v ELSE 0)
    BY <2>2, <2>6, <2>7
  <2> QED
    BY <2>3, <2>4, <2>5, <2>6, <2>8
<1>7. head \in 0..Len(st) /\ f1 \in [1..Len(st) -> Nat]
  BY <1>1, <1>2 DEF n
<1> QED
  BY <1>2, <1>5, <1>6, <1>7 DEF BookOK, st

LEMMA RestIs ==
  ASSUME NEW S, NEW s \in Seq(S), NEW head \in 0..Len(s)
  PROVE  /\ Rest(s, head) \in Seq(S) /\ Len(Rest(s, head)) = Len(s) - head
         /\ DOMAIN Rest(s, head) = 1..(Len(s) - head)
         /\ \A i \in 1..(Len(s) - head) : Rest(s, head)[i] = s[i + head]
<1>1. \A i \in (head + 1)..Len(s) : s[i] \in S
  BY ElementOfSeq
<1>2. /\ Rest(s, head) \in Seq(S)
      /\ Len(Rest(s, head)) = IF head + 1 <= Len(s) THEN Len(s) - (head + 1) + 1 ELSE 0
      /\ \A i \in 1..(Len(s) - (head + 1) + 1) : Rest(s, head)[i] = s[head + 1 + i - 1]
  BY <1>1, SubSeqProperties DEF Rest
<1>3. Len(Rest(s, head)) = Len(s) - head
  BY <1>2
<1>4. \A i \in 1..(Len(s) - head) : head + 1 + i - 1 = i + head
  OBVIOUS
<1>5. Len(s) - (head + 1) + 1 = Len(s) - head
  OBVIOUS
<1>6. DOMAIN Rest(s, head) = 1..(Len(s) - head)
  BY <1>2, <1>3, LenProperties
<1> QED
  BY <1>2, <1>3, <1>4, <1>5, <1>6

LEMMA BookCompacted ==
  ASSUME NEW stamps, NEW f, NEW head, NEW g, NEW t \in Int,
         BookOK(stamps, f, head, g, t),
         NEW f1 \in [1..(Len(stamps) - head) -> Nat],
         \A i \in 1..(Len(stamps) - head) : f1[i] = f[i + head]
  PROVE  BookOK(Rest(stamps, head), f1, 0, g, t)
<1> DEFINE st == Rest(stamps, head)
           n == Len(stamps)
<1>1. /\ stamps \in Seq(Time) /\ n \in Nat /\ f \in [1..n -> Nat] /\ head \in 0..n
      /\ InOrder(stamps, t) /\ Agrees(stamps, f, head, g, t)
  BY DEF BookOK
<1>2. /\ st \in Seq(Time) /\ Len(st) = n - head /\ DOMAIN st = 1..(n - head)
      /\ \A i \in 1..(n - head) : st[i] = stamps[i + head]
  BY <1>1, RestIs
<1>3. DOMAIN stamps = 1..n
  BY <1>1
<1> HIDE DEF st, n
<1>4. InOrder(st, t)
  <2>1. \A i \in 1..(n - head) : i + head \in 1..n
    BY <1>1
  <2> SUFFICES ASSUME NEW i \in 1..(n - head)
               PROVE  st[i] <= t /\ \A j \in 1..(n - head) : i < j => st[i] <= st[j] + Skew
    BY <1>2 DEF InOrder
  <2>2. \A j \in 1..(n - head) : i < j => i + head < j + head
    BY <1>1
  <2>3. /\ stamps[i + head] <= t
        /\ \A j \in 1..n : i + head < j => stamps[i + head] <= stamps[j] + Skew
    BY <1>1, <1>3, <2>1 DEF InOrder
  <2>4. \A j \in 1..(n - head) : i < j => stamps[i + head] <= stamps[j + head] + Skew
    BY <2>1, <2>2, <2>3
  <2> QED
    BY <1>2, <2>3, <2>4
<1>5. Agrees(st, f1, 0, g, t)
  <2>1. ASSUME NEW U
        PROVE  SumOver(f1, Held(st, 0, U)) = SumOver(f, Held(stamps, head, U))
    <3> DEFINE H == Held(st, 0, U)
    <3>1. H \in SUBSET (1..(n - head)) /\ IsFiniteSet(H)
      BY <1>2, HeldIs
    <3>2. H \in SUBSET Int /\ \A i \in H : f1[i] = f[i + head] /\ f1[i] \in Nat
      BY <3>1 DEF n
    <3>3. /\ \A i \in H : i + head \in Held(stamps, head, U)
          /\ \A j \in Held(stamps, head, U) : j - head \in H
      <4>1. ASSUME NEW i \in H
            PROVE  i + head \in Held(stamps, head, U)
        BY <1>1, <1>2, <3>1 DEF Held, n
      <4>2. ASSUME NEW j \in Held(stamps, head, U)
            PROVE  j - head \in H
        <5>1. j \in (head + 1)..n /\ stamps[j] \in U
          BY DEF Held, n
        <5>2. j - head \in 1..(n - head) /\ j = (j - head) + head
          BY <1>1, <5>1
        <5>3. st[j - head] \in U
          BY <1>2, <5>1, <5>2
        <5> QED
          BY <1>2, <5>2, <5>3 DEF Held
      <4> HIDE DEF H
      <4> QED
        BY <4>1, <4>2
    <3> HIDE DEF H
    <3>4. head \in Int /\ Held(stamps, head, U) \in SUBSET Int
      BY <1>1, HeldIs
    <3>5. SumOver(f1, H) = SumOver(f, Held(stamps, head, U))
      <4>1. Shifted(f1, H, f, Held(stamps, head, U), head)
        BY <3>1, <3>2, <3>3, <3>4 DEF Shifted
      <4> QED
        BY <4>1, SumShifted
    <3> QED
      BY <3>5 DEF H
  <2> QED
    BY <1>1, <2>1 DEF Agrees
<1>6. f1 \in [1..Len(st) -> Nat] /\ 0 \in 0..Len(st)
  BY <1>1, <1>2 DEF n
<1> QED
  BY <1>2, <1>4, <1>5, <1>6 DEF BookOK, st

\* If the head has not expired, nothing behind it is much older.
LEMMA LiveIsRecent ==
  ASSUME NEW stamps, NEW f, NEW head, NEW g, NEW t, BookOK(stamps, f, head, g, t),
         NEW cutoff \in Int, head < Len(stamps) => cutoff < stamps[head + 1],
         NEW i \in (head + 1)..Len(stamps)
  PROVE  cutoff - Skew < stamps[i] /\ stamps[i] \in Time
<1>1. stamps \in Seq(Time) /\ head \in 0..Len(stamps) /\ InOrder(stamps, t)
  BY DEF BookOK
<1>2. head + 1 \in 1..Len(stamps) /\ i \in 1..Len(stamps) /\ DOMAIN stamps = 1..Len(stamps)
  BY <1>1
<1>3. stamps[i] \in Time /\ stamps[head + 1] \in Time
  BY <1>1, <1>2, ElementOfSeq
<1>4. stamps[i] \in Int /\ stamps[head + 1] \in Int /\ Skew \in Nat
  BY <1>3, LimiterAssumption DEF Time
<1>5. cutoff < stamps[head + 1]
  BY <1>1
<1>6. CASE i = head + 1
  BY <1>3, <1>4, <1>5, <1>6
<1>7. CASE head + 1 < i
  <2>1. stamps[head + 1] <= stamps[i] + Skew
    BY <1>1, <1>2, <1>7 DEF InOrder
  <2> QED
    BY <1>3, <1>4, <1>5, <2>1
<1> QED
  BY <1>1, <1>6, <1>7

----------------------------------------------------------------------------
(* Windows. *)

LEMMA SamplesAre ==
  ASSUME NEW s \in Seq(Sample)
  PROVE  /\ Stamps(s) \in Seq(Time) /\ Len(Stamps(s)) = Len(s) /\ Len(s) \in Nat
         /\ TokensOf(s) \in [1..Len(s) -> Nat]
         /\ \A i \in 1..Len(s) : /\ s[i] \in Sample /\ Stamps(s)[i] = s[i].at
                                 /\ TokensOf(s)[i] = s[i].value
<1>1. Len(s) \in Nat /\ DOMAIN s = 1..Len(s) /\ \A i \in 1..Len(s) : s[i] \in Sample
  BY LenProperties, ElementOfSeq
<1>2. \A x \in Sample : x.at \in Time /\ x.value \in Nat
  BY LimiterAssumption DEF Sample
<1>3. Stamps(s) \in [1..Len(s) -> Time] /\ TokensOf(s) \in [1..Len(s) -> Nat]
  BY <1>1, <1>2 DEF Stamps, TokensOf
<1>4. Stamps(s) \in Seq(Time) /\ Len(Stamps(s)) = Len(s)
  BY <1>1, <1>3
<1> QED
  BY <1>1, <1>3, <1>4 DEF Stamps, TokensOf

LEMMA OnesAre ==
  ASSUME NEW s \in Seq(Time)
  PROVE  Ones(s) \in [1..Len(s) -> Nat] /\ \A i \in 1..Len(s) : Ones(s)[i] = 1
BY DEF Ones

\* The sum of a list's live entries, and of those of some stamps.
LEMMA LiveIs ==
  ASSUME NEW n \in Nat, NEW f \in [1..n -> Nat], NEW head \in 0..n
  PROVE  /\ IsFiniteSet((head + 1)..n) /\ \A i \in (head + 1)..n : f[i] \in Nat
         /\ SumOver(f, (head + 1)..n) \in Nat
<1>1. IsFiniteSet((head + 1)..n)
  BY FS_Interval
<1>2. \A i \in (head + 1)..n : f[i] \in Nat
  OBVIOUS
<1> QED
  BY <1>1, <1>2, SumIsNat

LEMMA HeldAtMost ==
  ASSUME NEW stamps, NEW f, NEW head, NEW g, NEW t, BookOK(stamps, f, head, g, t), NEW U
  PROVE  SumOver(f, Held(stamps, head, U)) <= SumOver(f, (head + 1)..Len(stamps))
<1>1. /\ stamps \in Seq(Time) /\ Len(stamps) \in Nat /\ f \in [1..Len(stamps) -> Nat]
      /\ head \in 0..Len(stamps)
  BY DEF BookOK
<1>2. Held(stamps, head, U) \in SUBSET ((head + 1)..Len(stamps))
  BY <1>1, HeldIs
<1> QED
  BY <1>1, <1>2, LiveIs, SumOfPart

LEMMA OnesLive ==
  ASSUME NEW s \in Seq(Time), NEW head \in 0..Len(s)
  PROVE  SumOver(Ones(s), (head + 1)..Len(s)) = Len(s) - head
<1>1. Len(s) \in Nat /\ head + 1 \in Int
  OBVIOUS
<1>2. /\ IsFiniteSet((head + 1)..Len(s))
      /\ Cardinality((head + 1)..Len(s)) = IF head + 1 > Len(s) THEN 0 ELSE Len(s) - (head + 1) + 1
  <2>1. \A x, y \in Int : IsFiniteSet(x..y) /\ Cardinality(x..y) = IF x > y THEN 0 ELSE y - x + 1
    BY FS_Interval
  <2>2. Len(s) \in Int
    BY <1>1
  <2> QED
    BY <1>1, <2>1, <2>2
<1>3. \A i \in (head + 1)..Len(s) : Ones(s)[i] = 1
  BY OnesAre
<1>4. SumOver(Ones(s), (head + 1)..Len(s)) = Cardinality((head + 1)..Len(s))
  BY <1>2, <1>3, SumOfOnes
<1> QED
  BY <1>1, <1>2, <1>4

\* What the ledger has of the last minute is in the list.
LEMMA RecentIsHeld ==
  ASSUME NEW stamps, NEW f, NEW head, NEW g, NEW t, BookOK(stamps, f, head, g, t),
         NEW U \in SUBSET Time, \A u \in U : t - Window < u
  PROVE  SumOver(g, U) <= SumOver(f, (head + 1)..Len(stamps))
<1>1. SumOver(f, Held(stamps, head, U)) = SumOver(g, U)
  BY DEF BookOK, Agrees
<1> QED
  BY <1>1, HeldAtMost

\* What a freshly pruned list has is in the ledger, and not much older.
LEMMA LiveIsBooked ==
  ASSUME NEW stamps, NEW f, NEW head, NEW g, NEW t, BookOK(stamps, f, head, g, t),
         NEW cutoff \in Int, head < Len(stamps) => cutoff < stamps[head + 1]
  PROVE  SumOver(f, (head + 1)..Len(stamps)) <= SumOver(g, {u \in Time : cutoff - Skew < u})
<1> DEFINE U == {u \in Time : cutoff - Skew < u}
<1>1. \A i \in (head + 1)..Len(stamps) : stamps[i] \in U
  BY LiveIsRecent
<1> HIDE DEF U
<1>2. Held(stamps, head, U) = (head + 1)..Len(stamps)
  BY <1>1 DEF Held
<1>3. SumOver(f, Held(stamps, head, U)) <= SumOver(g, U)
  BY DEF BookOK, Agrees, U
<1> QED
  BY <1>2, <1>3 DEF U

LEMMA WindowsAre ==
  ASSUME NEW w \in KeyWindow
  PROVE  /\ w.requests \in Seq(Time) /\ w.tokens \in Seq(Sample)
         /\ w.requestHead \in Nat /\ w.tokenHead \in Nat /\ w.tokenTotal \in Nat
         /\ Len(w.requests) \in Nat /\ Len(w.tokens) \in Nat
         /\ Ones(w.requests) \in [1..Len(w.requests) -> Nat]
         /\ Stamps(w.tokens) \in Seq(Time) /\ Len(Stamps(w.tokens)) = Len(w.tokens)
         /\ TokensOf(w.tokens) \in [1..Len(w.tokens) -> Nat]
<1>1. /\ w.requests \in Seq(Time) /\ w.tokens \in Seq(Sample)
      /\ w.requestHead \in Nat /\ w.tokenHead \in Nat /\ w.tokenTotal \in Nat
  BY DEF KeyWindow
<1> QED
  BY <1>1, SamplesAre, OnesAre

\* Pruning keeps the books, and leaves nothing expired at the heads.
LEMMA PrunedOK ==
  ASSUME NEW w \in KeyWindow, NEW a \in [Time -> Nat], NEW s \in [Time -> Nat],
         NEW t \in Time, NEW at \in Time, at <= t, WindowOK(w, a, s, t)
  PROVE  LET w1 == Pruned(w, at)
         IN  /\ w1 \in KeyWindow /\ WindowOK(w1, a, s, t)
             /\ w1.requestHead < Len(w1.requests)
                  => at - Window < w1.requests[w1.requestHead + 1]
             /\ w1.tokenHead < Len(w1.tokens)
                  => at - Window < Stamps(w1.tokens)[w1.tokenHead + 1]
<1> DEFINE rh == NewHead(w.requests, w.requestHead, at - Window)
           th == NewHead(Stamps(w.tokens), w.tokenHead, at - Window)
           n == Len(w.tokens)
           f == TokensOf(w.tokens)
           w1 == Pruned(w, at)
<1>1. /\ BookOK(w.requests, Ones(w.requests), w.requestHead, a, t)
      /\ BookOK(Stamps(w.tokens), f, w.tokenHead, s, t)
      /\ w.tokenTotal = SumOver(f, (w.tokenHead + 1)..n)
  BY DEF WindowOK
<1>2. at \in Int /\ t \in Int /\ Window \in Nat /\ at - Window \in Int /\ at - Window <= t - Window
  BY LimiterAssumption DEF Time
<1>3. /\ w.requests \in Seq(Time) /\ Stamps(w.tokens) \in Seq(Time) /\ Len(Stamps(w.tokens)) = n
      /\ n \in Nat /\ Len(w.requests) \in Nat /\ f \in [1..n -> Nat]
      /\ w.requestHead \in 0..Len(w.requests) /\ w.tokenHead \in 0..n
  BY <1>1, WindowsAre DEF BookOK
<1>4. /\ rh \in w.requestHead..Len(w.requests)
      /\ \A i \in (w.requestHead + 1)..rh : w.requests[i] <= at - Window
      /\ rh < Len(w.requests) => at - Window < w.requests[rh + 1]
  BY <1>2, <1>3, NewHeadIs
<1>5. /\ th \in w.tokenHead..n
      /\ \A i \in (w.tokenHead + 1)..th : Stamps(w.tokens)[i] <= at - Window
      /\ th < n => at - Window < Stamps(w.tokens)[th + 1]
  BY <1>2, <1>3, NewHeadIs
<1>6. w1 = [w EXCEPT !.lastAt = at, !.requestHead = rh, !.tokenHead = th,
                     !.tokenTotal = Diminished(w, th)]
  BY DEF Pruned
<1> HIDE DEF w1
<1>7. /\ w1.requests = w.requests /\ w1.tokens = w.tokens
      /\ w1.requestHead = rh /\ w1.tokenHead = th /\ w1.tokenTotal = Diminished(w, th)
      /\ w1.lastAt = at
  BY <1>6 DEF KeyWindow
<1> HIDE DEF rh, th, f, n
<1>8. Diminished(w, th) = SumOver(f, (th + 1)..n) /\ Diminished(w, th) \in Nat
  <2> DEFINE A == (w.tokenHead + 1)..th
             B == (th + 1)..n
  <2>1. A \cup B = (w.tokenHead + 1)..n /\ A \cap B = {}
    BY <1>3, <1>5
  <2>2. /\ IsFiniteSet((w.tokenHead + 1)..n) /\ \A i \in (w.tokenHead + 1)..n : f[i] \in Nat
    BY <1>3, LiveIs
  <2>3. A \in SUBSET ((w.tokenHead + 1)..n) /\ B \in SUBSET ((w.tokenHead + 1)..n)
    BY <2>1
  <2>4. IsFiniteSet(A) /\ IsFiniteSet(B) /\ \A i \in A \cup B : f[i] \in Nat
    BY <2>1, <2>2, <2>3, FS_Subset
  <2>5. Diminished(w, th) = w.tokenTotal - SumOver(f, A)
    BY DEF Diminished, f
  <2> HIDE DEF A, B
  <2>6. SumOver(f, A \cup B) = SumOver(f, A) + SumOver(f, B)
    BY <2>1, <2>4, SumOfBoth
  <2>7. SumOver(f, A) \in Nat /\ SumOver(f, B) \in Nat
    BY <2>4, SumIsNat
  <2>8. w.tokenTotal = SumOver(f, A) + SumOver(f, B)
    BY <1>1, <2>1, <2>6
  <2>9. Diminished(w, th) = SumOver(f, B)
    BY <2>5, <2>7, <2>8
  <2> QED
    BY <2>7, <2>9 DEF B
<1>9. rh \in Nat /\ th \in Nat
  BY <1>3, <1>4, <1>5
<1>10. w1 \in KeyWindow
  BY <1>6, <1>8, <1>9 DEF KeyWindow
<1>11. BookOK(w.requests, Ones(w.requests), rh, a, t)
  <2>1. \A i \in (w.requestHead + 1)..rh : w.requests[i] <= t - Window
    <3> SUFFICES ASSUME NEW i \in (w.requestHead + 1)..rh PROVE w.requests[i] <= t - Window
      OBVIOUS
    <3>1. i \in 1..Len(w.requests)
      BY <1>3, <1>4
    <3>2. w.requests[i] \in Int
      <4>1. w.requests[i] \in Time
        BY <1>3, <3>1, ElementOfSeq
      <4> QED
        BY <4>1 DEF Time
    <3> QED
      BY <1>2, <1>4, <3>2
  <2> QED
    BY <1>1, <1>2, <1>4, <2>1, BookPruned
<1>12. BookOK(Stamps(w.tokens), f, th, s, t)
  <2>1. \A i \in (w.tokenHead + 1)..th : Stamps(w.tokens)[i] <= t - Window
    <3> SUFFICES ASSUME NEW i \in (w.tokenHead + 1)..th PROVE Stamps(w.tokens)[i] <= t - Window
      OBVIOUS
    <3>1. i \in 1..Len(Stamps(w.tokens))
      BY <1>3, <1>5
    <3>2. Stamps(w.tokens)[i] \in Int
      <4>1. Stamps(w.tokens)[i] \in Time
        BY <1>3, <3>1, ElementOfSeq
      <4> QED
        BY <4>1 DEF Time
    <3> QED
      BY <1>2, <1>5, <3>2
  <2>2. th \in w.tokenHead..Len(Stamps(w.tokens))
    BY <1>3, <1>5
  <2> QED
    BY <1>1, <1>2, <2>1, <2>2, BookPruned
<1>13. WindowOK(w1, a, s, t)
  BY <1>7, <1>8, <1>11, <1>12 DEF WindowOK, f, n
<1> QED
  BY <1>4, <1>5, <1>7, <1>10, <1>13 DEF w1, n

\* Compaction keeps the books and the live entries.
LEMMA CompactedOK ==
  ASSUME NEW w \in KeyWindow, NEW a \in [Time -> Nat], NEW s \in [Time -> Nat],
         NEW t \in Time, WindowOK(w, a, s, t)
  PROVE  LET w1 == Compacted(w)
         IN  /\ w1 \in KeyWindow /\ WindowOK(w1, a, s, t)
             /\ Len(w1.requests) - w1.requestHead = Len(w.requests) - w.requestHead
             /\ Len(w1.tokens) - w1.tokenHead = Len(w.tokens) - w.tokenHead
             /\ w1.tokenTotal = w.tokenTotal
<1> DEFINE r == Copies(w.requests, w.requestHead)
           c == Copies(w.tokens, w.tokenHead)
           rh == w.requestHead
           th == w.tokenHead
           n == Len(w.tokens)
           m == Len(w.requests)
           f == TokensOf(w.tokens)
           w1 == Compacted(w)
           r1 == IF r THEN Rest(w.requests, rh) ELSE w.requests
           t1 == IF c THEN Rest(w.tokens, th) ELSE w.tokens
           rh1 == IF r THEN 0 ELSE rh
           th1 == IF c THEN 0 ELSE th
<1>1. /\ BookOK(w.requests, Ones(w.requests), rh, a, t)
      /\ BookOK(Stamps(w.tokens), f, th, s, t)
      /\ w.tokenTotal = SumOver(f, (th + 1)..n)
  BY DEF WindowOK
<1>2. t \in Int
  BY DEF Time
<1>3. /\ w.requests \in Seq(Time) /\ w.tokens \in Seq(Sample)
      /\ Stamps(w.tokens) \in Seq(Time) /\ Len(Stamps(w.tokens)) = n
      /\ n \in Nat /\ m \in Nat /\ f \in [1..n -> Nat]
      /\ rh \in 0..m /\ th \in 0..n
  BY <1>1, WindowsAre DEF BookOK
<1>4. w1 = [w EXCEPT !.requests = r1, !.requestHead = rh1, !.tokens = t1, !.tokenHead = th1]
  BY DEF Compacted
<1> HIDE DEF w1, n, m, rh, th
<1>5. /\ w1.requests = r1 /\ w1.requestHead = rh1 /\ w1.tokens = t1 /\ w1.tokenHead = th1
      /\ w1.tokenTotal = w.tokenTotal
  BY <1>4 DEF KeyWindow
<1>6. /\ r1 \in Seq(Time) /\ rh1 \in Nat /\ Len(r1) - rh1 = m - rh
      /\ BookOK(r1, Ones(r1), rh1, a, t)
  <2> HIDE DEF r
  <2>1. CASE ~r
    BY <1>1, <1>3, <2>1 DEF n, m, rh, th
  <2>2. CASE r
    <3> DEFINE q == Rest(w.requests, rh)
    <3>1. q \in Seq(Time) /\ Len(q) = m - rh
      <4>1. w.requests \in Seq(Time) /\ rh \in 0..Len(w.requests)
        BY <1>3 DEF m
      <4>2. q \in Seq(Time) /\ Len(q) = Len(w.requests) - rh
        BY <4>1, RestIs
      <4> QED
        BY <4>2 DEF m
    <3>2. Ones(q) \in [1..(m - rh) -> Nat] /\ \A i \in 1..(m - rh) : Ones(q)[i] = 1
      BY <3>1, OnesAre
    <3>3. \A i \in 1..(m - rh) : Ones(w.requests)[i + rh] = 1
      <4>1. \A i \in 1..(m - rh) : i + rh \in 1..m
        BY <1>3
      <4> QED
        BY <1>3, <4>1, OnesAre DEF m
    <3>4. \A i \in 1..(m - rh) : Ones(q)[i] = Ones(w.requests)[i + rh]
      BY <3>2, <3>3
    <3>5. BookOK(q, Ones(q), 0, a, t)
      BY <1>1, <1>2, <3>2, <3>4, BookCompacted DEF m
    <3> QED
      BY <1>3, <2>2, <3>1, <3>5
  <2> QED
    BY <2>1, <2>2
<1>7. /\ t1 \in Seq(Sample) /\ th1 \in Nat /\ Len(t1) - th1 = n - th
      /\ BookOK(Stamps(t1), TokensOf(t1), th1, s, t)
      /\ SumOver(TokensOf(t1), (th1 + 1)..Len(t1)) = SumOver(f, (th + 1)..n)
  <2> HIDE DEF c
  <2>1. CASE ~c
    BY <1>1, <1>3, <2>1 DEF n, m, rh, th
  <2>2. CASE c
    <3> DEFINE q == Rest(w.tokens, th)
    <3>1. /\ q \in Seq(Sample) /\ Len(q) = n - th
          /\ \A i \in 1..(n - th) : q[i] = w.tokens[i + th]
      <4>1. w.tokens \in Seq(Sample) /\ th \in 0..Len(w.tokens)
        BY <1>3 DEF n
      <4>2. /\ q \in Seq(Sample) /\ Len(q) = Len(w.tokens) - th
            /\ \A i \in 1..(Len(w.tokens) - th) : q[i] = w.tokens[i + th]
        BY <4>1, RestIs
      <4> QED
        BY <4>2 DEF n
    <3>2. /\ Stamps(q) \in Seq(Time) /\ Len(Stamps(q)) = n - th
          /\ TokensOf(q) \in [1..(n - th) -> Nat]
          /\ \A i \in 1..(n - th) : Stamps(q)[i] = q[i].at /\ TokensOf(q)[i] = q[i].value
      BY <3>1, SamplesAre
    <3>3. \A i \in 1..(n - th) : i + th \in 1..n
      BY <1>3
    <3>4. \A i \in 1..(n - th) : /\ TokensOf(q)[i] = f[i + th]
                                 /\ Stamps(q)[i] = Stamps(w.tokens)[i + th]
      <4>1. \A j \in 1..n : /\ f[j] = w.tokens[j].value
                             /\ Stamps(w.tokens)[j] = w.tokens[j].at
        BY <1>3, SamplesAre DEF n
      <4> QED
        BY <3>1, <3>2, <3>3, <4>1
    <3> HIDE DEF q, f
    <3>5. Rest(Stamps(w.tokens), th) = Stamps(q)
      <4>1. /\ Rest(Stamps(w.tokens), th) \in Seq(Time)
            /\ Len(Rest(Stamps(w.tokens), th)) = n - th
            /\ \A i \in 1..(n - th) : Rest(Stamps(w.tokens), th)[i] = Stamps(w.tokens)[i + th]
        BY <1>3, RestIs
      <4>2. \A i \in 1..(n - th) : Rest(Stamps(w.tokens), th)[i] = Stamps(q)[i]
        BY <3>4, <4>1
      <4> QED
        BY <3>2, <4>1, <4>2, SeqEqual
    <3>6. BookOK(Stamps(q), TokensOf(q), 0, s, t)
      <4>1. /\ TokensOf(q) \in [1..(Len(Stamps(w.tokens)) - th) -> Nat]
            /\ \A i \in 1..(Len(Stamps(w.tokens)) - th) : TokensOf(q)[i] = f[i + th]
        BY <1>3, <3>2, <3>4
      <4>2. BookOK(Rest(Stamps(w.tokens), th), TokensOf(q), 0, s, t)
        BY <1>1, <1>2, <4>1, BookCompacted
      <4> QED
        BY <3>5, <4>2
    <3>7. SumOver(TokensOf(q), 1..(n - th)) = SumOver(f, (th + 1)..n)
      <4>1. IsFiniteSet(1..(n - th)) /\ 1..(n - th) \in SUBSET Int /\ (th + 1)..n \in SUBSET Int
        BY <1>3, FS_Interval
      <4>2. /\ \A i \in 1..(n - th) : i + th \in (th + 1)..n
            /\ \A j \in (th + 1)..n : j - th \in 1..(n - th)
            /\ th \in Int
        BY <1>3
      <4>3. Shifted(TokensOf(q), 1..(n - th), f, (th + 1)..n, th)
        BY <3>2, <3>4, <4>1, <4>2 DEF Shifted
      <4> QED
        BY <4>3, SumShifted
    <3>8. t1 = q /\ th1 = 0 /\ 0 + 1 = 1 /\ n - th - 0 = n - th
      BY <1>3, <2>2 DEF q
    <3>9. Len(q) - 0 = n - th /\ 1..Len(q) = 1..(n - th)
      BY <3>1, <3>8
    <3> QED
      BY <3>1, <3>6, <3>7, <3>8, <3>9
  <2> QED
    BY <2>1, <2>2
<1> HIDE DEF r1, t1, rh1, th1
<1>8. w1 \in KeyWindow
  BY <1>4, <1>6, <1>7 DEF KeyWindow
<1>9. WindowOK(w1, a, s, t)
  BY <1>1, <1>5, <1>6, <1>7 DEF WindowOK
<1> QED
  BY <1>5, <1>6, <1>7, <1>8, <1>9 DEF w1, n, m, rh, th

WithRequest(w, at) == [w EXCEPT !.requests = Append(@, at)]

\* A request, and an answer, are booked in the window and in the ledger.
LEMMA RequestOK ==
  ASSUME NEW w \in KeyWindow, NEW a \in [Time -> Nat], NEW s \in [Time -> Nat],
         NEW t \in Time, WindowOK(w, a, s, t), NEW at \in Time, at <= t, t <= at + Skew
  PROVE  LET w1 == WithRequest(w, at)
         IN  /\ w1 \in KeyWindow /\ WindowOK(w1, Booked(a, at, 1), s, t)
             /\ Len(w1.requests) - w1.requestHead = Len(w.requests) - w.requestHead + 1
             /\ w1.tokenTotal = w.tokenTotal
<1> DEFINE w1 == WithRequest(w, at)
           q == Append(w.requests, at)
           m == Len(w.requests)
<1>1. /\ BookOK(w.requests, Ones(w.requests), w.requestHead, a, t)
      /\ BookOK(Stamps(w.tokens), TokensOf(w.tokens), w.tokenHead, s, t)
      /\ w.tokenTotal = SumOver(TokensOf(w.tokens), (w.tokenHead + 1)..Len(w.tokens))
      /\ t \in Int
  BY DEF WindowOK, Time
<1>2. w.requests \in Seq(Time) /\ m \in Nat /\ w.requestHead \in 0..m
  BY <1>1, WindowsAre DEF BookOK
<1>3. q \in Seq(Time) /\ Len(q) = m + 1
  BY <1>2, AppendProperties
<1>4. /\ w1.requests = q /\ w1.requestHead = w.requestHead /\ w1.tokens = w.tokens
      /\ w1.tokenHead = w.tokenHead /\ w1.tokenTotal = w.tokenTotal /\ w1 \in KeyWindow
  BY <1>3 DEF KeyWindow, WithRequest
<1>5. /\ Ones(q) \in [1..(m + 1) -> Nat] /\ \A i \in 1..(m + 1) : Ones(q)[i] = 1
      /\ \A i \in 1..m : Ones(w.requests)[i] = 1
  BY <1>2, <1>3, OnesAre
<1>6. (\A i \in 1..m : Ones(q)[i] = Ones(w.requests)[i]) /\ Ones(q)[m + 1] = 1
  <2>1. m \in Nat
    BY <1>2
  <2> HIDE DEF q, m
  <2>2. m + 1 \in 1..(m + 1) /\ \A i \in 1..m : i \in 1..(m + 1)
    BY ONLY <2>1
  <2> QED
    BY ONLY <1>5, <2>2
<1> HIDE DEF w1
<1>7. BookOK(q, Ones(q), w.requestHead, Booked(a, at, 1), t)
  <2> HIDE DEF q
  <2>1. BookOK(Append(w.requests, at), Ones(q), w.requestHead, Booked(a, at, 1), t)
    BY <1>1, <1>5, <1>6, BookAppended
  <2> QED
    BY <2>1 DEF q
<1> HIDE DEF q, m
<1>8. WindowOK(w1, Booked(a, at, 1), s, t)
  BY <1>1, <1>4, <1>7 DEF WindowOK
<1>9. Len(w1.requests) - w1.requestHead = Len(w.requests) - w.requestHead + 1
  <2>1. m \in Int /\ w.requestHead \in Int
    BY <1>2
  <2>2. Len(q) = m + 1
    BY <1>3
  <2>3. \A k, h \in Int : (k + 1) - h = k - h + 1
    BY ONLY SMT
  <2>4. (m + 1) - w.requestHead = m - w.requestHead + 1
    BY ONLY <2>1, <2>3, Zenon
  <2>5. Len(w1.requests) - w1.requestHead = Len(q) - w.requestHead
    BY ONLY <1>4, Zenon
  <2>6. Len(q) - w.requestHead = (m + 1) - w.requestHead
    BY ONLY <2>2, Zenon
  <2> QED
    BY ONLY <2>4, <2>5, <2>6, Zenon DEF m
<1> QED
  BY ONLY <1>4, <1>8, <1>9, Zenon DEF w1

LEMMA TokensOK ==
  ASSUME NEW w \in KeyWindow, NEW a \in [Time -> Nat], NEW s \in [Time -> Nat],
         NEW t \in Time, WindowOK(w, a, s, t), NEW at \in Time, at <= t, t <= at + Skew,
         NEW v \in Values
  PROVE  LET w1 == [w EXCEPT !.tokens = Append(@, [at |-> at, value |-> v]),
                             !.tokenTotal = @ + v,
                             !.lastAt = at]
         IN  /\ w1 \in KeyWindow /\ WindowOK(w1, a, Booked(s, at, v), t)
             /\ w1.tokenHead < Len(w1.tokens)
<1> DEFINE e == [at |-> at, value |-> v]
           q == Append(w.tokens, e)
           n == Len(w.tokens)
           f == TokensOf(w.tokens)
           w1 == [w EXCEPT !.tokens = q, !.tokenTotal = @ + v, !.lastAt = at]
<1>1. /\ BookOK(w.requests, Ones(w.requests), w.requestHead, a, t)
      /\ BookOK(Stamps(w.tokens), f, w.tokenHead, s, t)
      /\ w.tokenTotal = SumOver(f, (w.tokenHead + 1)..n)
      /\ t \in Int /\ v \in Nat /\ e \in Sample
  BY LimiterAssumption DEF WindowOK, Time, Sample
<1>2. /\ w.tokens \in Seq(Sample) /\ n \in Nat /\ w.tokenHead \in 0..n /\ w.tokenTotal \in Nat
      /\ Stamps(w.tokens) \in Seq(Time) /\ Len(Stamps(w.tokens)) = n /\ f \in [1..n -> Nat]
      /\ \A i \in 1..n : w.tokens[i] \in Sample /\ Stamps(w.tokens)[i] = w.tokens[i].at
                         /\ f[i] = w.tokens[i].value
  BY <1>1, WindowsAre, SamplesAre DEF BookOK
<1>3. /\ q \in Seq(Sample) /\ Len(q) = n + 1 /\ q[n + 1] = e
      /\ \A i \in 1..n : q[i] = w.tokens[i]
  <2> HIDE DEF e
  <2> QED
    BY <1>1, <1>2, AppendProperties
<1>4. /\ Stamps(q) \in Seq(Time) /\ Len(Stamps(q)) = n + 1 /\ TokensOf(q) \in [1..(n + 1) -> Nat]
      /\ \A i \in 1..(n + 1) : Stamps(q)[i] = q[i].at /\ TokensOf(q)[i] = q[i].value
  BY <1>3, SamplesAre
<1>5. /\ w1.requests = w.requests /\ w1.requestHead = w.requestHead /\ w1.tokens = q
      /\ w1.tokenHead = w.tokenHead /\ w1.tokenTotal = w.tokenTotal + v /\ w1 \in KeyWindow
  <2> HIDE DEF q
  <2>1. w.tokenTotal + v \in Nat
    BY <1>1, <1>2
  <2> QED
    BY <1>3, <2>1 DEF KeyWindow
<1> HIDE DEF w1, q, f, n
<1>a. e.at = at /\ e.value = v
  OBVIOUS
<1> HIDE DEF e
<1>b. \A i \in 1..n : i \in 1..(n + 1)
  BY <1>2
<1>c. n + 1 \in 1..(n + 1) /\ \A i \in 1..(n + 1) : i \in 1..n \/ i = n + 1
  BY <1>2
<1>6. (\A i \in 1..n : TokensOf(q)[i] = f[i]) /\ TokensOf(q)[n + 1] = v
  <2>1. ASSUME NEW i \in 1..n PROVE TokensOf(q)[i] = f[i]
    <3>1. TokensOf(q)[i] = q[i].value /\ q[i] = w.tokens[i]
      BY <1>3, <1>4, <1>b
    <3> QED
      BY <1>2, <3>1
  <2>2. TokensOf(q)[n + 1] = v
    BY <1>3, <1>4, <1>a, <1>c
  <2> QED
    BY <2>1, <2>2
<1>7. Stamps(q) = Append(Stamps(w.tokens), at)
  <2> DEFINE p == Append(Stamps(w.tokens), at)
  <2>1. /\ p \in Seq(Time) /\ Len(p) = n + 1 /\ p[n + 1] = at
        /\ \A i \in 1..n : p[i] = Stamps(w.tokens)[i]
    BY <1>2, AppendProperties DEF n
  <2> HIDE DEF p
  <2>2. \A i \in 1..(n + 1) : p[i] = Stamps(q)[i]
    <3>1. Stamps(q)[n + 1] = at
      BY <1>3, <1>4, <1>a, <1>c
    <3>2. \A i \in 1..n : Stamps(q)[i] = Stamps(w.tokens)[i]
      BY <1>2, <1>3, <1>4, <1>b
    <3> QED
      BY <1>c, <2>1, <3>1, <3>2
  <2>3. Len(p) = Len(Stamps(q)) /\ \A i \in 1..Len(p) : p[i] = Stamps(q)[i]
    BY <1>4, <2>1, <2>2
  <2>4. p = Stamps(q)
    BY <1>4, <2>1, <2>3, SeqEqual
  <2> QED
    BY <2>4 DEF p
<1>8. BookOK(Stamps(q), TokensOf(q), w.tokenHead, Booked(s, at, v), t)
  <2>1. TokensOf(q) \in [1..(Len(Stamps(w.tokens)) + 1) -> Nat]
    BY <1>2, <1>4
  <2>2. /\ \A i \in 1..Len(Stamps(w.tokens)) : TokensOf(q)[i] = f[i]
        /\ TokensOf(q)[Len(Stamps(w.tokens)) + 1] = v
    BY <1>2, <1>6
  <2>3. BookOK(Append(Stamps(w.tokens), at), TokensOf(q), w.tokenHead, Booked(s, at, v), t)
    BY <1>1, <2>1, <2>2, BookAppended
  <2> QED
    BY <1>7, <2>3
<1>9. w.tokenTotal + v = SumOver(TokensOf(q), (w.tokenHead + 1)..Len(q))
  <2> DEFINE A == (w.tokenHead + 1)..n
  <2>0. IsFiniteSet(A) /\ \A i \in A : f[i] \in Nat
    BY <1>2, LiveIs
  <2>1. IsFiniteSet(A) /\ (\A i \in A : f[i] \in Nat) /\ n + 1 \notin A /\ A \in SUBSET (1..n)
    BY <1>2, <2>0
  <2>2. (w.tokenHead + 1)..Len(q) = A \cup {n + 1}
    BY <1>2, <1>3
  <2>3. \A i \in A : TokensOf(q)[i] = f[i]
    BY <1>6, <2>1
  <2>4. \A i \in A \cup {n + 1} : TokensOf(q)[i] \in Nat
    BY <1>1, <1>6, <2>1, <2>3
  <2> HIDE DEF A
  <2>5. SumOver(TokensOf(q), A \cup {n + 1}) = SumOver(TokensOf(q), A) + TokensOf(q)[n + 1]
    BY <2>1, <2>4, SumAdded
  <2>6. SumOver(TokensOf(q), A) = SumOver(f, A)
    BY <2>3, SumOfSame
  <2> QED
    BY <1>1, <1>6, <2>2, <2>5, <2>6 DEF A
<1>10. WindowOK(w1, a, Booked(s, at, v), t)
  BY <1>1, <1>5, <1>8, <1>9 DEF WindowOK
<1>11. w.tokenHead < n + 1
  BY <1>2
<1> QED
  BY <1>3, <1>5, <1>10, <1>11 DEF w1, q, e

LEMMA WindowLater ==
  ASSUME NEW w, NEW a, NEW s, NEW t \in Int, NEW t1 \in Int, t <= t1, WindowOK(w, a, s, t)
  PROVE  WindowOK(w, a, s, t1)
BY BookLater DEF WindowOK

\* A window before its first booking.
LEMMA NewWindowOK ==
  ASSUME NEW a \in [Time -> Nat], NEW s \in [Time -> Nat], NEW t \in Time,
         \A u \in Time : a[u] = 0 /\ s[u] = 0
  PROVE  NewWindow \in KeyWindow /\ WindowOK(NewWindow, a, s, t)
<1>1. /\ NewWindow.requests = <<>> /\ NewWindow.tokens = <<>>
      /\ NewWindow.requestHead = 0 /\ NewWindow.tokenHead = 0 /\ NewWindow.tokenTotal = 0
  BY DEF NewWindow
<1>2. <<>> \in Seq(Time) /\ <<>> \in Seq(Sample) /\ Len(<<>>) = 0 /\ 0 \in Time
  BY LimiterAssumption DEF Time
<1>3. NewWindow \in KeyWindow
  BY <1>2 DEF NewWindow, KeyWindow
<1>4. /\ Stamps(<<>>) \in Seq(Time) /\ Len(Stamps(<<>>)) = 0
      /\ TokensOf(<<>>) \in [1..0 -> Nat] /\ Ones(<<>>) \in [1..0 -> Nat]
  BY <1>2, SamplesAre, OnesAre
<1>5. ASSUME NEW U \in SUBSET Time, NEW g \in [Time -> Nat], \A u \in Time : g[u] = 0
      PROVE  SumOver(g, U) = 0
  <2>1. Units(g, U) = {}
    BY <1>5, UnitsAre
  <2> QED
    BY <2>1, FS_EmptySet DEF SumOver
<1>6. ASSUME NEW stamps \in Seq(Time), Len(stamps) = 0, NEW f \in [1..0 -> Nat],
             NEW g \in [Time -> Nat], \A u \in Time : g[u] = 0
      PROVE  BookOK(stamps, f, 0, g, t)
  <2>1. \A U : Held(stamps, 0, U) = {}
    BY <1>6 DEF Held
  <2>2. Agrees(stamps, f, 0, g, t)
    <3> SUFFICES ASSUME NEW U \in SUBSET Time
                 PROVE  /\ SumOver(f, Held(stamps, 0, U)) <= SumOver(g, U)
                        /\ (\A u \in U : t - Window < u)
                             => SumOver(f, Held(stamps, 0, U)) = SumOver(g, U)
      BY DEF Agrees
    <3>1. SumOver(f, Held(stamps, 0, U)) = 0
      BY <2>1, SumOfNone
    <3>2. SumOver(g, U) = 0
      BY <1>5, <1>6
    <3> QED
      BY <3>1, <3>2
  <2>3. DOMAIN stamps = {}
    BY <1>6
  <2> QED
    BY <1>6, <2>2, <2>3 DEF BookOK, InOrder
<1>7. SumOver(TokensOf(<<>>), 1..0) = 0
  <2>1. 1..0 = {}
    OBVIOUS
  <2> QED
    BY <2>1, SumOfNone
<1>8. WindowOK(NewWindow, a, s, t)
  BY <1>1, <1>2, <1>4, <1>6, <1>7 DEF WindowOK
<1> QED
  BY <1>3, <1>8

----------------------------------------------------------------------------
(* The steps of the limiter. *)

\* What the invariant says of the windows.
WindowsOK ==
  /\ windows \in [Keys -> KeyWindow \cup {NoWindow}]
  /\ admitted \in [Keys -> [Time -> Nat]]
  /\ spent \in [Keys -> [Time -> Nat]]
  /\ \A k \in Keys : windows[k] # NoWindow =>
       /\ windows[k].requestHead <= Len(windows[k].requests)
       /\ windows[k].tokenHead <= Len(windows[k].tokens)
  /\ \A k \in Keys : WindowOK(WindowOf(k), admitted[k], spent[k], now)
  /\ \A k \in Keys : windows[k] # NoWindow => InUse(windows[k])

LEMMA InvParts ==
  LimiterInv <=>
    /\ WindowsOK /\ CallsOK /\ AtMostRpm
    /\ now \in Time /\ lastCleanup \in Time
    /\ call \in [Calls -> Call \cup {NoCall}] /\ open \in [Keys -> Nat]
BY DEF LimiterInv, LimiterTypeOK, WindowsOK

LEMMA InvPartsNext ==
  LimiterInv' <=>
    /\ WindowsOK' /\ CallsOK' /\ AtMostRpm'
    /\ now' \in Time /\ lastCleanup' \in Time
    /\ call' \in [Calls -> Call \cup {NoCall}] /\ open' \in [Keys -> Nat]
BY DEF LimiterInv, LimiterTypeOK, WindowsOK

LEMMA HeadsAre ==
  ASSUME NEW w, NEW a, NEW s, NEW t, WindowOK(w, a, s, t), w \in KeyWindow
  PROVE  w.requestHead <= Len(w.requests) /\ w.tokenHead <= Len(w.tokens)
<1>1. /\ BookOK(w.requests, Ones(w.requests), w.requestHead, a, t)
      /\ BookOK(Stamps(w.tokens), TokensOf(w.tokens), w.tokenHead, s, t)
      /\ Len(w.requests) \in Nat /\ Len(w.tokens) \in Nat /\ Len(Stamps(w.tokens)) = Len(w.tokens)
  BY WindowsAre DEF WindowOK
<1> QED
  BY <1>1 DEF BookOK

LEMMA NewWindowType == NewWindow \in KeyWindow
<1>1. <<>> \in Seq(Time) /\ <<>> \in Seq(Sample) /\ 0 \in Time
  BY LimiterAssumption DEF Time
<1> QED
  BY <1>1 DEF NewWindow, KeyWindow

LEMMA WindowIs ==
  ASSUME WindowsOK, NEW k \in Keys
  PROVE  /\ WindowOf(k) \in KeyWindow /\ WindowOK(WindowOf(k), admitted[k], spent[k], now)
         /\ admitted[k] \in [Time -> Nat] /\ spent[k] \in [Time -> Nat]
BY NewWindowType DEF WindowsOK, WindowOf

LEMMA CallIs ==
  ASSUME call \in [Calls -> Call \cup {NoCall}], CallsOK, now \in Time,
         NEW c \in Calls, Asks(c) \/ Books(c)
  PROVE  /\ call[c].key \in Keys /\ call[c].at \in Time
         /\ call[c].at <= now /\ now <= call[c].at + Skew
         /\ Books(c) => call[c].value \in Values
<1>1. call[c] # NoCall /\ call[c].kind \in {"allow", "record"} /\ (Books(c) => call[c].kind = "record")
  BY DEF Asks, Books
<1>2. call[c] \in Call
  BY <1>1
<1>3. call[c].key \in Keys /\ call[c].at \in Time /\ (call[c].kind = "record" => call[c].value \in Values)
  BY <1>2 DEF Call
<1> QED
  BY <1>1, <1>3 DEF CallsOK

\* A call that returns.
LEMMA DoneIs ==
  ASSUME call \in [Calls -> Call \cup {NoCall}], CallsOK, NEW c \in Calls, Done(c), now' = now
  PROVE  call' \in [Calls -> Call \cup {NoCall}] /\ CallsOK'
<1>1. call' = [call EXCEPT ![c] = NoCall]
  BY DEF Done
<1>2. call' \in [Calls -> Call \cup {NoCall}]
  BY <1>1
<1>3. \A d \in Calls : call'[d] = call[d] \/ call'[d] = NoCall
  BY <1>1
<1> QED
  BY <1>2, <1>3 DEF CallsOK

\* A call changes the window of its key, and books for no other.
LEMMA OneWindow ==
  ASSUME WindowsOK, now' = now, NEW k \in Keys, NEW w \in KeyWindow,
         windows' = [windows EXCEPT ![k] = w], InUse(w),
         NEW a \in [Time -> Nat], admitted' = [admitted EXCEPT ![k] = a],
         NEW s \in [Time -> Nat], spent' = [spent EXCEPT ![k] = s],
         WindowOK(w, a, s, now)
  PROVE  WindowsOK'
<1>1. /\ windows \in [Keys -> KeyWindow \cup {NoWindow}]
      /\ admitted \in [Keys -> [Time -> Nat]] /\ spent \in [Keys -> [Time -> Nat]]
      /\ w # NoWindow
  BY NoWindowAssumption DEF WindowsOK
<1>2. windows'[k] = w /\ admitted'[k] = a /\ spent'[k] = s
  BY <1>1
<1>3. \A j \in Keys \ {k} : /\ windows'[j] = windows[j]
                            /\ admitted'[j] = admitted[j] /\ spent'[j] = spent[j]
  BY <1>1
<1>4. /\ windows' \in [Keys -> KeyWindow \cup {NoWindow}]
      /\ admitted' \in [Keys -> [Time -> Nat]] /\ spent' \in [Keys -> [Time -> Nat]]
  BY <1>1
<1>5. w.requestHead <= Len(w.requests) /\ w.tokenHead <= Len(w.tokens)
  BY HeadsAre
<1>6. \A j \in Keys : windows'[j] # NoWindow =>
        /\ windows'[j].requestHead <= Len(windows'[j].requests)
        /\ windows'[j].tokenHead <= Len(windows'[j].tokens)
        /\ InUse(windows'[j])
  BY <1>2, <1>3, <1>5 DEF WindowsOK
<1>7. ASSUME NEW j \in Keys
      PROVE  WindowOK(WindowOf(j), admitted[j], spent[j], now)'
  <2>1. CASE j = k
    <3>1. WindowOf(j)' = w
      BY <1>1, <1>2, <2>1 DEF WindowOf
    <3> QED
      BY <1>2, <2>1, <3>1
  <2>2. CASE j # k
    <3>1. WindowOf(j)' = WindowOf(j)
      BY <1>3, <2>2 DEF WindowOf
    <3>2. WindowOK(WindowOf(j), admitted[j], spent[j], now)
      BY DEF WindowsOK
    <3> QED
      BY <1>3, <2>2, <3>1, <3>2
  <2> QED
    BY <2>1, <2>2
<1> QED
  BY <1>4, <1>6, <1>7 DEF WindowsOK

\* No window is ever idle and empty, so a sweep finds nothing.
LEMMA SweptIsNone ==
  ASSUME NEW ws \in [Keys -> KeyWindow \cup {NoWindow}], NEW at,
         \A k \in Keys : ws[k] # NoWindow => InUse(ws[k])
  PROVE  Swept(ws, at) = {}
<1>1. ASSUME NEW k \in Keys, ws[k] # NoWindow
      PROVE  ~(ws[k].requestHead >= Len(ws[k].requests) /\ ws[k].tokenHead >= Len(ws[k].tokens))
  <2>1. ws[k] \in KeyWindow /\ InUse(ws[k])
    BY <1>1
  <2>2. /\ ws[k].requestHead \in Nat /\ ws[k].tokenHead \in Nat
        /\ Len(ws[k].requests) \in Nat /\ Len(ws[k].tokens) \in Nat
    BY <2>1, WindowsAre
  <2> QED
    BY <2>1, <2>2 DEF InUse
<1> QED
  BY <1>1 DEF Swept

\* An admission: what the window of the key is afterwards.
Admission(k, at, w) ==
  /\ k \in Keys /\ at \in Time /\ w \in KeyWindow
  /\ at <= now /\ now <= at + Skew
  /\ windows' = [windows EXCEPT ![k] = w]
  /\ admitted' = [admitted EXCEPT ![k] = Booked(admitted[k], at, 1)]
  /\ WindowOK(w, Booked(admitted[k], at, 1), spent[k], now)
  /\ InUse(w)
  /\ Rpm[k] > 0 => Len(w.requests) - w.requestHead <= Rpm[k]
  /\ Tpm[k] > 0 => w.tokenTotal < Tpm[k]

LEMMA AdmitIs ==
  ASSUME LimiterInv, NEW c \in Calls, Admit(c)
  PROVE  /\ \E k, at, w : Admission(k, at, w)
         /\ UNCHANGED <<now, spent>> /\ Done(c)
         /\ lastCleanup' \in Time /\ open' \in [Keys -> Nat]
<1> DEFINE k == call[c].key
           at == call[c].at
           w0 == WindowOf(k)
           w1 == Pruned(w0, at)
           w2 == WithRequest(w1, at)
           w == Compacted(w2)
           a == Booked(admitted[k], at, 1)
           ws == [windows EXCEPT ![k] = w]
           sweep == /\ Cardinality({j \in Keys : ws[j] # NoWindow}) > MaxWindows
                    /\ at - lastCleanup >= IdleAfter
<1>0. /\ WindowsOK /\ CallsOK /\ now \in Time /\ lastCleanup \in Time
      /\ call \in [Calls -> Call \cup {NoCall}] /\ open \in [Keys -> Nat]
  BY InvParts
<1>1. /\ Asks(c) /\ ~AtRpm(k, w1) /\ ~AtTpm(k, w1)
      /\ windows' = IF sweep THEN [j \in Keys |-> IF j \in Swept(ws, at) THEN NoWindow ELSE ws[j]]
                    ELSE ws
      /\ lastCleanup' = IF sweep THEN at ELSE lastCleanup
      /\ open' = [open EXCEPT ![k] = @ + 1]
      /\ admitted' = [admitted EXCEPT ![k][at] = @ + 1]
      /\ Done(c) /\ now' = now /\ spent' = spent
  BY DEF Admit, WithRequest
<1>2. k \in Keys /\ at \in Time /\ at <= now /\ now <= at + Skew
  BY <1>0, <1>1, CallIs
<1> HIDE DEF k, at, sweep
<1>3. /\ w0 \in KeyWindow /\ WindowOK(w0, admitted[k], spent[k], now)
      /\ admitted[k] \in [Time -> Nat] /\ spent[k] \in [Time -> Nat]
  BY <1>0, <1>2, WindowIs
<1> HIDE DEF w0
<1>4. w1 \in KeyWindow /\ WindowOK(w1, admitted[k], spent[k], now)
  BY <1>0, <1>2, <1>3, PrunedOK
<1> HIDE DEF w1
<1>5. /\ w2 \in KeyWindow /\ WindowOK(w2, a, spent[k], now)
      /\ Len(w2.requests) - w2.requestHead = Len(w1.requests) - w1.requestHead + 1
      /\ w2.tokenTotal = w1.tokenTotal
  <2>1. now \in Time
    BY <1>0
  <2> DEFINE ad == admitted[k]
             sp == spent[k]
  <2>2. /\ w1 \in KeyWindow /\ ad \in [Time -> Nat] /\ sp \in [Time -> Nat]
        /\ now \in Time /\ WindowOK(w1, ad, sp, now)
        /\ at \in Time /\ at <= now /\ now <= at + Skew
    BY <1>2, <1>3, <1>4, <2>1
  <2> HIDE DEF w2, a, ad, sp
  <2>3. LET z == WithRequest(w1, at)
        IN  /\ z \in KeyWindow /\ WindowOK(z, Booked(ad, at, 1), sp, now)
            /\ Len(z.requests) - z.requestHead = Len(w1.requests) - w1.requestHead + 1
            /\ z.tokenTotal = w1.tokenTotal
    BY ONLY <2>2, RequestOK
  <2> QED
    BY ONLY <2>3, Zenon DEF w2, a, ad, sp
<1>6. a \in [Time -> Nat]
  BY <1>2, <1>3 DEF Booked
<1> HIDE DEF w2, a
<1>7. /\ w \in KeyWindow /\ WindowOK(w, a, spent[k], now)
      /\ Len(w.requests) - w.requestHead = Len(w2.requests) - w2.requestHead
      /\ w.tokenTotal = w2.tokenTotal
  BY <1>0, <1>3, <1>5, <1>6, CompactedOK
<1> HIDE DEF w
<1>8. /\ Len(w.requests) \in Nat /\ w.requestHead \in Nat
      /\ Len(w1.requests) \in Nat /\ w1.requestHead \in Nat
      /\ Rpm[k] \in Nat /\ Tpm[k] \in Nat /\ w1.tokenTotal \in Nat
      /\ w1.requestHead <= Len(w1.requests)
  BY <1>2, <1>4, <1>7, WindowsAre, HeadsAre, LimiterAssumption
<1>9. Len(w.requests) - w.requestHead = Len(w1.requests) - w1.requestHead + 1
  BY <1>5, <1>7
<1>10. InUse(w)
  BY <1>8, <1>9 DEF InUse
<1>11. Rpm[k] > 0 => Len(w.requests) - w.requestHead <= Rpm[k]
  <2>1. Rpm[k] > 0 => ~(Len(w1.requests) - w1.requestHead >= Rpm[k])
    BY <1>1 DEF AtRpm
  <2> QED
    BY <1>8, <1>9, <2>1
<1>12. Tpm[k] > 0 => w.tokenTotal < Tpm[k]
  <2>1. Tpm[k] > 0 => ~(w1.tokenTotal >= Tpm[k])
    BY <1>1 DEF AtTpm
  <2> QED
    BY <1>5, <1>7, <1>8, <2>1
<1>13. windows' = ws
  <2>1. windows \in [Keys -> KeyWindow \cup {NoWindow}] /\ \A j \in Keys : windows[j] # NoWindow => InUse(windows[j])
    BY <1>0 DEF WindowsOK
  <2>2. /\ ws \in [Keys -> KeyWindow \cup {NoWindow}]
        /\ \A j \in Keys : ws[j] # NoWindow => InUse(ws[j])
    BY <1>2, <1>7, <1>10, <2>1
  <2> HIDE DEF ws
  <2>3. Swept(ws, at) = {}
    BY <2>2, SweptIsNone
  <2>4. [j \in Keys |-> IF j \in Swept(ws, at) THEN NoWindow ELSE ws[j]] = ws
    BY <2>2, <2>3
  <2> QED
    BY <1>1, <2>4
<1>14. admitted' = [admitted EXCEPT ![k] = a]
  <2>1. admitted \in [Keys -> [Time -> Nat]]
    BY <1>0 DEF WindowsOK
  <2> QED
    BY <1>1, <1>2, <2>1 DEF a, Booked
<1>15. Admission(k, at, w)
  BY <1>2, <1>7, <1>10, <1>11, <1>12, <1>13, <1>14 DEF Admission, a, ws
<1>16. lastCleanup' \in Time
  BY <1>0, <1>1, <1>2
<1>17. open' \in [Keys -> Nat]
  BY <1>0, <1>1, <1>2
<1> QED
  BY <1>1, <1>15, <1>16, <1>17

\* What the ledger has of the last minute is at most what the window holds.
LEMMA LedgerWithin ==
  ASSUME NEW w \in KeyWindow, NEW a, NEW s, NEW t, WindowOK(w, a, s, t),
         NEW U \in SUBSET Time, \A u \in U : t - Window < u
  PROVE  /\ SumOver(a, U) <= Len(w.requests) - w.requestHead
         /\ SumOver(s, U) <= w.tokenTotal
<1>1. /\ BookOK(w.requests, Ones(w.requests), w.requestHead, a, t)
      /\ BookOK(Stamps(w.tokens), TokensOf(w.tokens), w.tokenHead, s, t)
      /\ w.tokenTotal = SumOver(TokensOf(w.tokens), (w.tokenHead + 1)..Len(w.tokens))
      /\ Len(Stamps(w.tokens)) = Len(w.tokens)
  BY WindowsAre DEF WindowOK
<1>2. SumOver(a, U) <= SumOver(Ones(w.requests), (w.requestHead + 1)..Len(w.requests))
  BY <1>1, RecentIsHeld
<1>3. w.requests \in Seq(Time) /\ w.requestHead \in 0..Len(w.requests)
  BY <1>1 DEF BookOK
<1>4. SumOver(Ones(w.requests), (w.requestHead + 1)..Len(w.requests)) = Len(w.requests) - w.requestHead
  BY <1>3, OnesLive
<1>5. SumOver(s, U) <= SumOver(TokensOf(w.tokens), (w.tokenHead + 1)..Len(Stamps(w.tokens)))
  BY <1>1, RecentIsHeld
<1> QED
  BY <1>1, <1>2, <1>4, <1>5

LEMMA AdmitKeepsRpm ==
  ASSUME LimiterInv, NEW k, NEW at, NEW w, Admission(k, at, w)
  PROVE  AtMostRpm'
<1> DEFINE a == Booked(admitted[k], at, 1)
<1>1. /\ k \in Keys /\ at \in Time /\ w \in KeyWindow /\ at <= now /\ now <= at + Skew
      /\ admitted' = [admitted EXCEPT ![k] = a] /\ WindowOK(w, a, spent[k], now)
      /\ Rpm[k] > 0 => Len(w.requests) - w.requestHead <= Rpm[k]
  BY DEF Admission
<1>2. /\ admitted \in [Keys -> [Time -> Nat]] /\ now \in Time
  BY DEF LimiterInv, LimiterTypeOK
<1>3. /\ admitted'[k] = a /\ \A j \in Keys \ {k} : admitted'[j] = admitted[j]
      /\ a \in [Time -> Nat] /\ a[at] = admitted[k][at] + 1
      /\ \A u \in Time \ {at} : a[u] = admitted[k][u]
  BY <1>1, <1>2 DEF Booked
<1> HIDE DEF a
<1> SUFFICES ASSUME NEW j \in Keys, NEW t \in Time, Rpm[j] # 0
             PROVE  SumOver(admitted'[j], {u \in Time : t - (Window - Skew) < u /\ u <= t}) <= Rpm[j]
  BY DEF AtMostRpm
<1> DEFINE U == {u \in Time : t - (Window - Skew) < u /\ u <= t}
<1>4. SumOver(admitted[j], U) <= Rpm[j]
  BY DEF LimiterInv, AtMostRpm
<1>5. /\ now \in Int /\ at \in Int /\ t \in Int /\ Window \in Int /\ Skew \in Int
      /\ Rpm[j] \in Nat /\ U \in SUBSET Time
  BY <1>1, <1>2, LimiterAssumption DEF Time
<1>6. CASE j # k
  BY <1>3, <1>4, <1>6
<1>7. CASE j = k /\ at \notin U
  <2>1. \A u \in U : a[u] = admitted[k][u]
    BY <1>3, <1>5, <1>7
  <2> HIDE DEF U
  <2>2. SumOver(a, U) = SumOver(admitted[k], U)
    BY <2>1, SumOfSame
  <2> QED
    BY <1>3, <1>4, <1>7, <2>2 DEF U
<1>8. CASE j = k /\ at \in U
  <2>1. at <= t
    BY <1>8
  <2>2. \A u \in U : u \in Int /\ t - (Window - Skew) < u
    BY DEF Time
  <2>3. \A u \in U : now - Window < u
    BY <1>1, <1>5, <2>1, <2>2
  <2> HIDE DEF U
  <2>4. SumOver(a, U) <= Len(w.requests) - w.requestHead
    BY <1>1, <1>5, <2>3, LedgerWithin
  <2>5. Len(w.requests) - w.requestHead <= Rpm[k]
    BY <1>1, <1>5, <1>8
  <2>6. Len(w.requests) \in Nat /\ w.requestHead \in Nat /\ SumOver(a, U) \in Nat
    <3>1. IsFiniteSet(U)
      BY <1>5, TimesAre
    <3>2. \A u \in U : a[u] \in Nat
      BY <1>3, <1>5
    <3> QED
      BY <1>1, <3>1, <3>2, SumIsNat, WindowsAre
  <2>7. SumOver(a, U) <= Rpm[k]
    BY <1>5, <1>8, <2>4, <2>5, <2>6
  <2> QED
    BY <1>3, <1>8, <2>7 DEF U
<1> QED
  BY <1>6, <1>7, <1>8

LEMMA AdmitOK ==
  ASSUME LimiterInv, NEW c \in Calls, Admit(c)
  PROVE  LimiterInv'
<1>1. /\ WindowsOK /\ CallsOK /\ now \in Time
      /\ call \in [Calls -> Call \cup {NoCall}]
  BY InvParts
<1>2. /\ now' = now /\ spent' = spent /\ Done(c)
      /\ lastCleanup' \in Time /\ open' \in [Keys -> Nat]
  BY AdmitIs
<1>3. PICK k, at, w : Admission(k, at, w)
  BY AdmitIs
<1>4. AtMostRpm'
  BY <1>3, AdmitKeepsRpm
<1>5. WindowsOK'
  <2> DEFINE a == Booked(admitted[k], at, 1)
  <2>1. /\ k \in Keys /\ at \in Time /\ w \in KeyWindow /\ InUse(w)
        /\ windows' = [windows EXCEPT ![k] = w] /\ admitted' = [admitted EXCEPT ![k] = a]
        /\ WindowOK(w, a, spent[k], now)
    BY <1>3 DEF Admission
  <2>2. a \in [Time -> Nat] /\ spent[k] \in [Time -> Nat] /\ spent' = [spent EXCEPT ![k] = spent[k]]
    BY <1>1, <1>2, <2>1 DEF WindowsOK, Booked
  <2> HIDE DEF a
  <2> QED
    BY <1>1, <1>2, <2>1, <2>2, OneWindow
<1>6. call' \in [Calls -> Call \cup {NoCall}] /\ CallsOK'
  BY <1>1, <1>2, DoneIs
<1> QED
  BY <1>1, <1>2, <1>4, <1>5, <1>6, InvPartsNext

\* A refusal leaves entries behind a head: those that reach the limit.
LEMMA RefuseIs ==
  ASSUME LimiterInv, NEW c \in Calls, Refuse(c)
  PROVE  /\ call[c].key \in Keys /\ call[c].at \in Time
         /\ LET w == Pruned(WindowOf(call[c].key), call[c].at)
            IN  /\ AtRpm(call[c].key, w) \/ AtTpm(call[c].key, w)
                /\ windows' = [windows EXCEPT ![call[c].key] = w]
                /\ w \in KeyWindow
                /\ WindowOK(w, admitted[call[c].key], spent[call[c].key], now)
                /\ w.requestHead < Len(w.requests)
                     => call[c].at - Window < w.requests[w.requestHead + 1]
                /\ w.tokenHead < Len(w.tokens)
                     => call[c].at - Window < Stamps(w.tokens)[w.tokenHead + 1]
         /\ Done(c) /\ UNCHANGED <<now, lastCleanup, open, admitted, spent>>
<1> DEFINE k == call[c].key
           at == call[c].at
           w0 == WindowOf(k)
           w == Pruned(w0, at)
<1>0. /\ WindowsOK /\ CallsOK /\ now \in Time /\ call \in [Calls -> Call \cup {NoCall}]
  BY InvParts
<1>1. /\ Asks(c) /\ (AtRpm(k, w) \/ AtTpm(k, w)) /\ windows' = [windows EXCEPT ![k] = w]
      /\ Done(c) /\ UNCHANGED <<now, lastCleanup, open, admitted, spent>>
  BY DEF Refuse
<1>2. k \in Keys /\ at \in Time /\ at <= now /\ now <= at + Skew
  BY <1>0, <1>1, CallIs
<1> HIDE DEF k, at
<1>3. /\ w0 \in KeyWindow /\ WindowOK(w0, admitted[k], spent[k], now)
      /\ admitted[k] \in [Time -> Nat] /\ spent[k] \in [Time -> Nat]
  BY <1>0, <1>2, WindowIs
<1> HIDE DEF w0
<1>4. /\ w \in KeyWindow /\ WindowOK(w, admitted[k], spent[k], now)
      /\ w.requestHead < Len(w.requests) => at - Window < w.requests[w.requestHead + 1]
      /\ w.tokenHead < Len(w.tokens) => at - Window < Stamps(w.tokens)[w.tokenHead + 1]
  BY <1>0, <1>2, <1>3, PrunedOK
<1> HIDE DEF w
<1> QED
  BY <1>1, <1>2, <1>4 DEF k, at, w0, w

LEMMA RefuseOK ==
  ASSUME LimiterInv, NEW c \in Calls, Refuse(c)
  PROVE  LimiterInv'
<1> DEFINE k == call[c].key
           w == Pruned(WindowOf(k), call[c].at)
<1>0. /\ WindowsOK /\ CallsOK /\ AtMostRpm /\ now \in Time /\ lastCleanup \in Time
      /\ call \in [Calls -> Call \cup {NoCall}] /\ open \in [Keys -> Nat]
  BY InvParts
<1>1. /\ k \in Keys /\ w \in KeyWindow /\ (AtRpm(k, w) \/ AtTpm(k, w))
      /\ windows' = [windows EXCEPT ![k] = w]
      /\ WindowOK(w, admitted[k], spent[k], now)
      /\ Done(c) /\ now' = now /\ lastCleanup' = lastCleanup /\ open' = open
      /\ admitted' = admitted /\ spent' = spent
  BY RefuseIs
<1> HIDE DEF k, w
<1>2. InUse(w)
  <2>1. /\ Len(w.requests) \in Nat /\ w.requestHead \in Nat /\ w.tokenTotal \in Nat
        /\ Len(w.tokens) \in Nat /\ w.tokenHead \in Nat
        /\ Rpm[k] \in Nat /\ Tpm[k] \in Nat
        /\ w.requestHead <= Len(w.requests) /\ w.tokenHead <= Len(w.tokens)
    BY <1>1, WindowsAre, HeadsAre, LimiterAssumption
  <2>2. CASE AtRpm(k, w)
    BY <2>1, <2>2 DEF AtRpm, InUse
  <2>3. CASE AtTpm(k, w)
    <3>1. w.tokenTotal > 0
      BY <2>1, <2>3 DEF AtTpm
    <3>2. w.tokenTotal = SumOver(TokensOf(w.tokens), (w.tokenHead + 1)..Len(w.tokens))
      BY <1>1 DEF WindowOK
    <3>3. ASSUME w.tokenHead >= Len(w.tokens)
          PROVE  FALSE
      <4>1. (w.tokenHead + 1)..Len(w.tokens) = {}
        BY <2>1, <3>3
      <4>2. w.tokenTotal = 0
        BY <3>2, <4>1, SumOfNone
      <4> QED
        BY <3>1, <4>2
    <3> QED
      BY <2>1, <3>3 DEF InUse
  <2> QED
    BY <1>1, <2>2, <2>3
<1>3. WindowsOK'
  <2>1. /\ admitted[k] \in [Time -> Nat] /\ spent[k] \in [Time -> Nat]
        /\ admitted' = [admitted EXCEPT ![k] = admitted[k]] /\ spent' = [spent EXCEPT ![k] = spent[k]]
    BY <1>0, <1>1 DEF WindowsOK
  <2> QED
    BY <1>0, <1>1, <1>2, <2>1, OneWindow
<1>4. call' \in [Calls -> Call \cup {NoCall}] /\ CallsOK'
  BY <1>0, <1>1, DoneIs
<1>5. AtMostRpm'
  BY <1>0, <1>1 DEF AtMostRpm
<1> QED
  BY <1>0, <1>1, <1>3, <1>4, <1>5, InvPartsNext

LEMMA RecordOK ==
  ASSUME LimiterInv, NEW c \in Calls, RecordTokens(c)
  PROVE  LimiterInv'
<1> DEFINE k == call[c].key
           at == call[c].at
           v == call[c].value
           w0 == WindowOf(k)
           w == [w0 EXCEPT !.tokens = Append(@, [at |-> at, value |-> v]),
                           !.tokenTotal = @ + v,
                           !.lastAt = at]
           s == Booked(spent[k], at, v)
<1>0. /\ WindowsOK /\ CallsOK /\ AtMostRpm /\ now \in Time /\ lastCleanup \in Time
      /\ call \in [Calls -> Call \cup {NoCall}] /\ open \in [Keys -> Nat]
  BY InvParts
<1>1. /\ Books(c) /\ windows' = [windows EXCEPT ![k] = w]
      /\ spent' = [spent EXCEPT ![k][at] = @ + v]
      /\ Done(c) /\ now' = now /\ lastCleanup' = lastCleanup /\ open' = open
      /\ admitted' = admitted
  BY DEF RecordTokens
<1>2. k \in Keys /\ at \in Time /\ at <= now /\ now <= at + Skew /\ v \in Values
  BY <1>0, <1>1, CallIs
<1> HIDE DEF k, at, v
<1>3. /\ w0 \in KeyWindow /\ WindowOK(w0, admitted[k], spent[k], now)
      /\ admitted[k] \in [Time -> Nat] /\ spent[k] \in [Time -> Nat]
  BY <1>0, <1>2, WindowIs
<1> HIDE DEF w0
<1>4. w \in KeyWindow /\ WindowOK(w, admitted[k], s, now) /\ w.tokenHead < Len(w.tokens)
  BY <1>0, <1>2, <1>3, TokensOK
<1>5. s \in [Time -> Nat] /\ spent' = [spent EXCEPT ![k] = s]
  <2>1. spent \in [Keys -> [Time -> Nat]] /\ v \in Nat
    BY <1>0, <1>2, LimiterAssumption DEF WindowsOK
  <2> QED
    BY <1>1, <1>2, <1>3, <2>1 DEF Booked
<1>6. admitted' = [admitted EXCEPT ![k] = admitted[k]]
  BY <1>0, <1>1, <1>2 DEF WindowsOK
<1> HIDE DEF w, s
<1>7. WindowsOK'
  BY <1>0, <1>1, <1>2, <1>3, <1>4, <1>5, <1>6, OneWindow DEF InUse
<1>8. call' \in [Calls -> Call \cup {NoCall}] /\ CallsOK'
  BY <1>0, <1>1, DoneIs
<1>9. AtMostRpm'
  BY <1>0, <1>1 DEF AtMostRpm
<1> QED
  BY <1>0, <1>1, <1>7, <1>8, <1>9, InvPartsNext

LEMMA SameWindows ==
  ASSUME WindowsOK, AtMostRpm, UNCHANGED <<now, windows, admitted, spent>>
  PROVE  WindowsOK' /\ AtMostRpm'
BY DEF WindowsOK, AtMostRpm, WindowOf

LEMMA AskOrBookOK ==
  ASSUME LimiterInv, NEW c \in Calls, Ask(c) \/ Book(c)
  PROVE  LimiterInv'
<1>0. /\ WindowsOK /\ CallsOK /\ AtMostRpm /\ now \in Time /\ lastCleanup \in Time
      /\ call \in [Calls -> Call \cup {NoCall}] /\ open \in [Keys -> Nat]
  BY InvParts
<1>1. /\ now' = now /\ windows' = windows /\ lastCleanup' = lastCleanup
      /\ admitted' = admitted /\ spent' = spent
  BY DEF Ask, Book
<1>2. open' \in [Keys -> Nat]
  <2>1. CASE Ask(c)
    BY <1>0, <2>1 DEF Ask
  <2>2. CASE Book(c)
    <3>1. PICK k \in Keys : open[k] > 0 /\ open' = [open EXCEPT ![k] = @ - 1]
      BY <2>2 DEF Book
    <3>2. open[k] \in Nat /\ open[k] - 1 \in Nat
      BY <1>0, <3>1
    <3> QED
      BY <1>0, <3>1, <3>2
  <2> QED
    BY <2>1, <2>2
<1>3. \E r \in Call : r.at = now /\ call' = [call EXCEPT ![c] = r]
  <2>1. CASE Ask(c)
    <3>1. PICK k \in Keys : call' = [call EXCEPT ![c] = [kind |-> "allow", key |-> k, at |-> now]]
      BY <2>1 DEF Ask
    <3>2. [kind |-> "allow", key |-> k, at |-> now] \in Call
      BY <1>0 DEF Call
    <3> QED
      BY <3>1, <3>2
  <2>2. CASE Book(c)
    <3>1. PICK k \in Keys, v \in Values :
            call' = [call EXCEPT ![c] = [kind |-> "record", key |-> k, at |-> now, value |-> v]]
      BY <2>2 DEF Book
    <3>2. [kind |-> "record", key |-> k, at |-> now, value |-> v] \in Call
      BY <1>0 DEF Call
    <3> QED
      BY <3>1, <3>2
  <2> QED
    BY <2>1, <2>2
<1>4. PICK r \in Call : r.at = now /\ call' = [call EXCEPT ![c] = r]
  BY <1>3
<1>5. call' \in [Calls -> Call \cup {NoCall}] /\ call'[c] = r /\ \A d \in Calls \ {c} : call'[d] = call[d]
  BY <1>0, <1>4
<1>6. now <= now + Skew /\ now <= now
  BY <1>0, LimiterAssumption DEF Time
<1>7. CallsOK'
  BY <1>0, <1>1, <1>4, <1>5, <1>6 DEF CallsOK
<1>8. WindowsOK' /\ AtMostRpm'
  BY <1>0, <1>1, SameWindows
<1> QED
  BY <1>0, <1>1, <1>2, <1>5, <1>7, <1>8, InvPartsNext

LEMMA TickOK ==
  ASSUME LimiterInv, Tick
  PROVE  LimiterInv'
<1>0. /\ WindowsOK /\ CallsOK /\ AtMostRpm /\ now \in Time /\ lastCleanup \in Time
      /\ call \in [Calls -> Call \cup {NoCall}] /\ open \in [Keys -> Nat]
  BY InvParts
<1>1. /\ now < MaxNow /\ now' = now + 1
      /\ \A c \in Calls : call[c] # NoCall => now - call[c].at < Skew
      /\ windows' = windows /\ lastCleanup' = lastCleanup /\ call' = call /\ open' = open
      /\ admitted' = admitted /\ spent' = spent
  BY DEF Tick
<1>2. now \in Int /\ now' \in Int /\ now <= now' /\ now' \in Time /\ Skew \in Nat
  BY <1>0, <1>1, LimiterAssumption DEF Time
<1>3. CallsOK'
  <2> SUFFICES ASSUME NEW c \in Calls, call[c] # NoCall
               PROVE  call[c].at <= now' /\ now' <= call[c].at + Skew
    BY <1>1 DEF CallsOK
  <2>1. call[c] \in Call
    BY <1>0
  <2>2. call[c].at \in Int
    BY <2>1 DEF Call, Time
  <2>3. call[c].at <= now /\ now - call[c].at < Skew
    BY <1>0, <1>1 DEF CallsOK
  <2> QED
    BY <1>1, <1>2, <2>2, <2>3
<1>4. WindowsOK'
  <2>1. ASSUME NEW k \in Keys
        PROVE  WindowOK(WindowOf(k), admitted[k], spent[k], now')
    <3>1. WindowOK(WindowOf(k), admitted[k], spent[k], now)
      BY <1>0 DEF WindowsOK
    <3> QED
      BY <1>2, <3>1, WindowLater
  <2>2. \A k \in Keys : WindowOf(k)' = WindowOf(k)
    BY <1>1 DEF WindowOf
  <2> QED
    BY <1>0, <1>1, <2>1, <2>2 DEF WindowsOK
<1>5. AtMostRpm'
  BY <1>0, <1>1 DEF AtMostRpm
<1> QED
  BY <1>0, <1>1, <1>2, <1>3, <1>4, <1>5, InvPartsNext

LEMMA LimiterStarts == LimiterInit => LimiterInv
<1> SUFFICES ASSUME LimiterInit PROVE LimiterInv
  OBVIOUS
<1>1. /\ now = 0 /\ windows = [k \in Keys |-> NoWindow] /\ lastCleanup = 0
      /\ call = [c \in Calls |-> NoCall] /\ open = [k \in Keys |-> 0]
      /\ admitted = [k \in Keys |-> [t \in Time |-> 0]]
      /\ spent = [k \in Keys |-> [t \in Time |-> 0]]
  BY DEF LimiterInit
<1>2. now \in Time /\ lastCleanup \in Time
  BY <1>1, LimiterAssumption DEF Time
<1>3. call \in [Calls -> Call \cup {NoCall}] /\ open \in [Keys -> Nat] /\ CallsOK
  BY <1>1 DEF CallsOK
<1>4. /\ windows \in [Keys -> KeyWindow \cup {NoWindow}] /\ \A k \in Keys : windows[k] = NoWindow
      /\ admitted \in [Keys -> [Time -> Nat]] /\ spent \in [Keys -> [Time -> Nat]]
      /\ \A k \in Keys : \A u \in Time : admitted[k][u] = 0 /\ spent[k][u] = 0
  BY <1>1
<1>5. \A k \in Keys : WindowOK(WindowOf(k), admitted[k], spent[k], now)
  <2> SUFFICES ASSUME NEW k \in Keys PROVE WindowOK(WindowOf(k), admitted[k], spent[k], now)
    OBVIOUS
  <2>1. /\ WindowOf(k) = NewWindow /\ admitted[k] \in [Time -> Nat] /\ spent[k] \in [Time -> Nat]
        /\ \A u \in Time : admitted[k][u] = 0 /\ spent[k][u] = 0
    BY <1>4 DEF WindowOf
  <2> QED
    BY <1>2, <2>1, NewWindowOK
<1>6. WindowsOK
  BY <1>4, <1>5 DEF WindowsOK
<1>7. AtMostRpm
  <2> SUFFICES ASSUME NEW k \in Keys, NEW t \in Time, Rpm[k] # 0
               PROVE  SumOver(admitted[k], {u \in Time : t - (Window - Skew) < u /\ u <= t}) <= Rpm[k]
    BY DEF AtMostRpm
  <2> DEFINE U == {u \in Time : t - (Window - Skew) < u /\ u <= t}
  <2>1. \A u \in U : admitted[k][u] = 0
    BY <1>4
  <2> HIDE DEF U
  <2>2. Units(admitted[k], U) = {}
    BY <2>1, UnitsAre
  <2>3. SumOver(admitted[k], U) = 0 /\ Rpm[k] \in Nat
    BY <2>2, FS_EmptySet, LimiterAssumption DEF SumOver
  <2> QED
    BY <2>3 DEF U
<1> QED
  BY <1>2, <1>3, <1>6, <1>7, InvParts

LEMMA LimiterSteps ==
  ASSUME LimiterInv, [LimiterNext]_limiter
  PROVE  LimiterInv'
<1>1. CASE UNCHANGED limiter
  <2>1. /\ now' = now /\ windows' = windows /\ lastCleanup' = lastCleanup /\ call' = call
        /\ open' = open /\ admitted' = admitted /\ spent' = spent
    BY <1>1 DEF limiter
  <2>2. WindowsOK' /\ AtMostRpm'
    BY <2>1, InvParts, SameWindows
  <2> QED
    BY <2>1, <2>2, InvParts, InvPartsNext DEF CallsOK
<1>2. ASSUME NEW c \in Calls, Ask(c) \/ Book(c)
      PROVE  LimiterInv'
  BY <1>2, AskOrBookOK
<1>3. ASSUME NEW c \in Calls, Admit(c)
      PROVE  LimiterInv'
  BY <1>3, AdmitOK
<1>4. ASSUME NEW c \in Calls, Refuse(c)
      PROVE  LimiterInv'
  BY <1>4, RefuseOK
<1>5. ASSUME NEW c \in Calls, RecordTokens(c)
      PROVE  LimiterInv'
  BY <1>5, RecordOK
<1>6. CASE Tick
  BY <1>6, TickOK
<1> QED
  BY <1>1, <1>2, <1>3, <1>4, <1>5, <1>6 DEF LimiterNext

THEOREM LimiterInvariant == LimiterSpec => []LimiterInv
<1>1. LimiterInv /\ [LimiterNext]_limiter => LimiterInv'
  BY LimiterSteps
<1> QED
  BY <1>1, LimiterStarts, PTL DEF LimiterSpec

\* Nothing goes wrong with the types, and no head passes its list.
THEOREM LimiterTypes == LimiterSpec => []LimiterTypeOK
<1>1. LimiterInv => LimiterTypeOK
  BY DEF LimiterInv
<1> QED
  BY <1>1, LimiterInvariant, PTL

\* tokenTotal is the sum of the samples that are left.
THEOREM LimiterTotals == LimiterSpec => []TotalIsSum
<1>1. LimiterInv => TotalIsSum
  BY DEF LimiterInv, TotalIsSum, WindowOf, WindowOK
<1> QED
  BY <1>1, LimiterInvariant, PTL

\* No minute, less what calls wait, sees more requests than the limit.
THEOREM LimiterHoldsRpm == LimiterSpec => []AtMostRpm
<1>1. LimiterInv => AtMostRpm
  BY DEF LimiterInv
<1> QED
  BY <1>1, LimiterInvariant, PTL

\* A request is admitted only while tokens are left.
THEOREM LimiterHoldsTpm == LimiterSpec => AdmitsBelowTpm
<1> DEFINE A == \A k \in Keys, t \in Time :
                  Tpm[k] # 0 /\ admitted'[k][t] # admitted[k][t] =>
                    SumOver(spent[k], {u \in Time : t - (Window - Skew) < u}) < Tpm[k]
<1>1. ASSUME LimiterInv, [LimiterNext]_limiter
      PROVE  A \/ UNCHANGED limiter
  <2>1. CASE admitted' = admitted
    BY <2>1
  <2>2. ASSUME NEW c \in Calls, Admit(c)
        PROVE  A
    <3>1. PICK k, at, w : Admission(k, at, w)
      BY <1>1, <2>2, AdmitIs
    <3>2. /\ k \in Keys /\ at \in Time /\ w \in KeyWindow /\ at <= now /\ now <= at + Skew
          /\ admitted' = [admitted EXCEPT ![k] = Booked(admitted[k], at, 1)]
          /\ WindowOK(w, Booked(admitted[k], at, 1), spent[k], now)
          /\ Tpm[k] > 0 => w.tokenTotal < Tpm[k]
      BY <3>1 DEF Admission
    <3>3. /\ admitted \in [Keys -> [Time -> Nat]] /\ spent \in [Keys -> [Time -> Nat]]
          /\ now \in Time
      BY <1>1 DEF LimiterInv, LimiterTypeOK
    <3>4. ASSUME NEW j \in Keys, NEW t \in Time, Tpm[j] # 0, admitted'[j][t] # admitted[j][t]
          PROVE  SumOver(spent[j], {u \in Time : t - (Window - Skew) < u}) < Tpm[j]
      <4> DEFINE U == {u \in Time : t - (Window - Skew) < u}
      <4>1. j = k /\ t = at
        BY <3>2, <3>3, <3>4 DEF Booked
      <4>2. /\ now \in Int /\ at \in Int /\ Window \in Int /\ Skew \in Int
            /\ Tpm[j] \in Nat /\ U \in SUBSET Time
        BY <3>2, <3>3, LimiterAssumption DEF Time
      <4>3. \A u \in U : u \in Int /\ at - (Window - Skew) < u
        BY <4>1 DEF Time
      <4>4. \A u \in U : now - Window < u
        BY <3>2, <4>2, <4>3
      <4> HIDE DEF U
      <4>5. SumOver(spent[k], U) <= w.tokenTotal
        BY <3>2, <4>2, <4>4, LedgerWithin
      <4>6. w.tokenTotal < Tpm[k] /\ w.tokenTotal \in Nat
        BY <3>2, <3>4, <4>1, <4>2, WindowsAre
      <4>7. SumOver(spent[k], U) \in Nat
        <5>1. IsFiniteSet(U) /\ \A u \in U : spent[k][u] \in Nat
          BY <3>2, <3>3, <4>2, TimesAre
        <5> QED
          BY <5>1, SumIsNat
      <4>8. SumOver(spent[k], U) < Tpm[k]
        BY <4>1, <4>2, <4>5, <4>6, <4>7
      <4> QED
        BY <4>1, <4>8 DEF U
    <3> QED
      BY <3>4
  <2>3. ASSUME NEW c \in Calls, Ask(c) \/ Book(c) \/ Refuse(c) \/ RecordTokens(c)
        PROVE  admitted' = admitted
    BY <2>3 DEF Ask, Book, Refuse, RecordTokens
  <2>4. Tick => admitted' = admitted
    BY DEF Tick
  <2> HIDE DEF A
  <2> QED
    BY <1>1, <2>1, <2>2, <2>3, <2>4 DEF LimiterNext
<1>2. LimiterInv /\ [LimiterNext]_limiter => [A]_limiter
  BY <1>1
<1> QED
  BY <1>2, LimiterInvariant, PTL DEF LimiterSpec, AdmitsBelowTpm

\* A request is refused only when its key has used up a limit.
THEOREM LimiterNotTooStrict == LimiterSpec => RefusesAtLimit
<1> DEFINE R(c) == Asks(c) /\ call'[c] = NoCall /\ admitted' = admitted =>
                     LET k == call[c].key
                         last == {u \in Time : call[c].at - Window - Skew < u}
                     IN  \/ Rpm[k] # 0 /\ SumOver(admitted[k], last) >= Rpm[k]
                         \/ Tpm[k] # 0 /\ SumOver(spent[k], last) >= Tpm[k]
<1>1. ASSUME LimiterInv, NEW c \in Calls, Refuse(c)
      PROVE  R(c)
  <2> DEFINE k == call[c].key
             at == call[c].at
             w == Pruned(WindowOf(k), at)
             last == {u \in Time : at - Window - Skew < u}
  <2>1. /\ k \in Keys /\ at \in Time /\ w \in KeyWindow
        /\ (AtRpm(k, w) \/ AtTpm(k, w))
        /\ WindowOK(w, admitted[k], spent[k], now)
        /\ w.requestHead < Len(w.requests) => at - Window < w.requests[w.requestHead + 1]
        /\ w.tokenHead < Len(w.tokens) => at - Window < Stamps(w.tokens)[w.tokenHead + 1]
    BY <1>1, RefuseIs
  <2> HIDE DEF k, at, w
  <2>2. at - Window \in Int
    BY <2>1, LimiterAssumption DEF Time
  <2>3. /\ BookOK(w.requests, Ones(w.requests), w.requestHead, admitted[k], now)
        /\ BookOK(Stamps(w.tokens), TokensOf(w.tokens), w.tokenHead, spent[k], now)
        /\ w.tokenTotal = SumOver(TokensOf(w.tokens), (w.tokenHead + 1)..Len(w.tokens))
    BY <2>1 DEF WindowOK
  <2>4. /\ w.requests \in Seq(Time) /\ w.requestHead \in 0..Len(w.requests)
        /\ Len(w.requests) \in Nat /\ w.tokenTotal \in Nat
        /\ Len(Stamps(w.tokens)) = Len(w.tokens)
    BY <2>1, <2>3, WindowsAre DEF BookOK
  <2>5. SumOver(Ones(w.requests), (w.requestHead + 1)..Len(w.requests)) <= SumOver(admitted[k], last)
    BY <2>1, <2>2, <2>3, LiveIsBooked
  <2>6. SumOver(Ones(w.requests), (w.requestHead + 1)..Len(w.requests)) = Len(w.requests) - w.requestHead
    BY <2>4, OnesLive
  <2>7. w.tokenTotal <= SumOver(spent[k], last)
    <3>1. w.tokenHead < Len(Stamps(w.tokens)) => at - Window < Stamps(w.tokens)[w.tokenHead + 1]
      BY <2>1, <2>4
    <3>2. SumOver(TokensOf(w.tokens), (w.tokenHead + 1)..Len(Stamps(w.tokens))) <= SumOver(spent[k], last)
      BY <2>2, <2>3, <3>1, LiveIsBooked
    <3> QED
      BY <2>3, <2>4, <3>2
  <2>8. /\ SumOver(admitted[k], last) \in Nat /\ SumOver(spent[k], last) \in Nat
        /\ Rpm[k] \in Nat /\ Tpm[k] \in Nat
    <3>1. IsFiniteSet(last)
      BY TimesAre
    <3>2. admitted[k] \in [Time -> Nat] /\ spent[k] \in [Time -> Nat]
      BY <1>1, <2>1 DEF LimiterInv, LimiterTypeOK
    <3>3. \A u \in last : admitted[k][u] \in Nat /\ spent[k][u] \in Nat
      BY <3>2
    <3> QED
      BY <2>1, <3>1, <3>3, SumIsNat, LimiterAssumption
  <2> HIDE DEF last
  <2>9. AtRpm(k, w) => Rpm[k] # 0 /\ SumOver(admitted[k], last) >= Rpm[k]
    BY <2>4, <2>5, <2>6, <2>8 DEF AtRpm
  <2>10. AtTpm(k, w) => Tpm[k] # 0 /\ SumOver(spent[k], last) >= Tpm[k]
    BY <2>4, <2>7, <2>8 DEF AtTpm
  <2> QED
    BY <2>1, <2>9, <2>10 DEF k, at, last
<1>2. ASSUME LimiterInv, NEW c \in Calls, Admit(c)
      PROVE  admitted' # admitted
  <2>1. PICK k, at, w : Admission(k, at, w)
    BY <1>2, AdmitIs
  <2>2. /\ k \in Keys /\ at \in Time
        /\ admitted' = [admitted EXCEPT ![k] = Booked(admitted[k], at, 1)]
    BY <2>1 DEF Admission
  <2>3. admitted \in [Keys -> [Time -> Nat]]
    BY <1>2 DEF LimiterInv, LimiterTypeOK
  <2>4. admitted'[k][at] = admitted[k][at] + 1 /\ admitted[k][at] \in Nat
    BY <2>2, <2>3 DEF Booked
  <2> QED
    BY <2>4
<1>3. ASSUME LimiterInv, [LimiterNext]_limiter, NEW c \in Calls
      PROVE  R(c)
  <2> SUFFICES ASSUME Asks(c), call'[c] = NoCall, admitted' = admitted
               PROVE  R(c)
    OBVIOUS
  <2>1. call[c] # NoCall /\ call[c].kind = "allow"
    BY DEF Asks
  <2>2. call'[c] # call[c] /\ call \in [Calls -> Call \cup {NoCall}]
    BY <1>3, <2>1 DEF LimiterInv, LimiterTypeOK
  <2>3. ~UNCHANGED limiter /\ ~Tick
    BY <2>2 DEF limiter, Tick
  <2>4. ASSUME NEW d \in Calls, Ask(d) \/ Book(d)
        PROVE  FALSE
    <3>1. call[d] = NoCall /\ \E r : call' = [call EXCEPT ![d] = r]
      BY <2>4 DEF Ask, Book
    <3>2. d # c
      BY <2>1, <3>1
    <3> QED
      BY <2>2, <3>1, <3>2
  <2>5. ASSUME NEW d \in Calls, RecordTokens(d)
        PROVE  FALSE
    <3>1. Books(d) /\ call' = [call EXCEPT ![d] = NoCall]
      BY <2>5 DEF RecordTokens, Done
    <3>2. d # c
      BY <2>1, <3>1 DEF Books
    <3> QED
      BY <2>2, <3>1, <3>2
  <2>6. ASSUME NEW d \in Calls, Refuse(d)
        PROVE  d = c
    <3>1. call' = [call EXCEPT ![d] = NoCall]
      BY <2>6 DEF Refuse, Done
    <3> QED
      BY <2>2, <3>1
  <2>7. ASSUME NEW d \in Calls, Admit(d)
        PROVE  FALSE
    BY <1>3, <2>7, <1>2
  <2>8. Refuse(c)
    BY <1>3, <2>3, <2>4, <2>5, <2>6, <2>7 DEF LimiterNext
  <2> QED
    BY <1>1, <1>3, <2>8
<1>4. LimiterInv /\ [LimiterNext]_limiter => [\A c \in Calls : R(c)]_limiter
  BY <1>3
<1> QED
  BY <1>4, LimiterInvariant, PTL DEF LimiterSpec, RefusesAtLimit

\* Windows stay: a sweep looks for one that is idle and empty, and none that is
\* kept is ever empty, for nothing prunes the window of a key that is idle.
THEOREM LimiterSweepsNothing ==
  LimiterSpec => [][\A k \in Keys : windows[k] # NoWindow => windows'[k] # NoWindow]_limiter
<1> DEFINE K == \A k \in Keys : windows[k] # NoWindow => windows'[k] # NoWindow
<1>1. ASSUME LimiterInv, NEW k, NEW w \in KeyWindow, windows' = [windows EXCEPT ![k] = w]
      PROVE  K
  <2>1. windows \in [Keys -> KeyWindow \cup {NoWindow}] /\ w # NoWindow
    BY <1>1, NoWindowAssumption DEF LimiterInv, LimiterTypeOK
  <2> QED
    BY <1>1, <2>1
<1>2. ASSUME LimiterInv, NEW c \in Calls, Admit(c)
      PROVE  K
  <2>1. PICK k, at, w : Admission(k, at, w)
    BY <1>2, AdmitIs
  <2>2. w \in KeyWindow /\ windows' = [windows EXCEPT ![k] = w]
    BY <2>1 DEF Admission
  <2> HIDE DEF K
  <2> QED
    BY <1>1, <1>2, <2>2
<1>3. ASSUME LimiterInv, NEW c \in Calls, Refuse(c)
      PROVE  K
  <2> DEFINE w == Pruned(WindowOf(call[c].key), call[c].at)
  <2>1. w \in KeyWindow /\ windows' = [windows EXCEPT ![call[c].key] = w]
    BY <1>3, RefuseIs
  <2> HIDE DEF K, w
  <2> QED
    BY <1>1, <1>3, <2>1
<1>4. ASSUME LimiterInv, NEW c \in Calls, RecordTokens(c)
      PROVE  K
  <2> DEFINE k == call[c].key
             w == [WindowOf(k) EXCEPT !.tokens = Append(@, [at |-> call[c].at, value |-> call[c].value]),
                                      !.tokenTotal = @ + call[c].value,
                                      !.lastAt = call[c].at]
  <2>1. Books(c) /\ windows' = [windows EXCEPT ![k] = w]
    BY <1>4 DEF RecordTokens
  <2>2. /\ k \in Keys /\ WindowsOK /\ now \in Time /\ call[c].at \in Time
        /\ call[c].at <= now /\ now <= call[c].at + Skew /\ call[c].value \in Values
    BY <1>4, <2>1, InvParts, CallIs
  <2>3. /\ WindowOf(k) \in KeyWindow /\ WindowOK(WindowOf(k), admitted[k], spent[k], now)
        /\ admitted[k] \in [Time -> Nat] /\ spent[k] \in [Time -> Nat]
    BY <2>2, WindowIs
  <2>4. w \in KeyWindow
    BY <2>2, <2>3, TokensOK
  <2> HIDE DEF K, w
  <2> QED
    BY <1>1, <1>4, <2>1, <2>4
<1>5. ASSUME windows' = windows PROVE K
  BY <1>5
<1>6. ASSUME NEW c \in Calls, Ask(c) \/ Book(c)
      PROVE  windows' = windows
  BY <1>6 DEF Ask, Book
<1>7. Tick => windows' = windows
  BY DEF Tick
<1>8. LimiterInv /\ [LimiterNext]_limiter => [K]_limiter
  <2> HIDE DEF K
  <2> QED
    BY <1>2, <1>3, <1>4, <1>5, <1>6, <1>7 DEF LimiterNext
<1> QED
  BY <1>8, LimiterInvariant, PTL DEF LimiterSpec
=============================================================================
