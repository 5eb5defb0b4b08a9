----------------------------- MODULE ClientKeys -----------------------------
(***************************************************************************)
(* The keys of the gateway's clients. Table client_keys holds a hash for    *)
(* each; setting client_key holds the hash of the one key older versions    *)
(* had, which lives on as the row named Legacy. The console creates,        *)
(* patches, deletes and rotates keys; a request whose key is in no row is   *)
(* compared with the setting, and the row is brought back if it is that.    *)
(*                                                                          *)
(* A step is one statement, or the dropping of the cached rows. A hash is a *)
(* number; a new key has the next one. Expiry and the limits of a key are   *)
(* patched like enabled and left out.                                       *)
(***************************************************************************)
EXTENDS Integers, FiniteSets

CONSTANTS
  Handlers,  \* requests of the console under way
  Clients,   \* requests of clients under way
  MaxKeys,   \* bound on the rows ever inserted
  MaxHash,   \* bound on the keys ever made
  MaxStops,  \* bound on restarts
  MaxAsked,  \* bound on the console's requests
  NoRow, NoCopy

ASSUME KeysAssumption ==
  /\ MaxKeys \in Nat /\ MaxKeys > 1 /\ MaxHash \in Nat /\ MaxHash > 1
  /\ MaxStops \in Nat /\ MaxAsked \in Nat
  /\ NoRow \notin [name : {"Legacy", "other"}, hash : 1..MaxHash, enabled : BOOLEAN]
  /\ \A S \in SUBSET (1..MaxHash) : NoCopy # S
  /\ Handlers \cap Clients = {}

Ids == 1..MaxKeys
Hashes == 1..MaxHash
Names == {"Legacy", "other"}
Row == [name : Names, hash : Hashes, enabled : BOOLEAN]
Patch == [field : {"name"}, value : Names] \cup [field : {"enabled"}, value : BOOLEAN]
Actors == Handlers \cup Clients

VARIABLES
  rows,     \* table client_keys
  nextId,
  setting,  \* setting client_key
  copy,     \* runtimeCaches.keys.byHash: the hashes it has, or NoCopy
  fresh,    \* the next key to be made
  task,     \* what each handler and each client's request is about to do
  stops,
  asked,    \* the console's requests so far
  known,    \* history: keys handed out
  retired,  \* history: hashes that a statement has removed
  gone,     \* history: those whose removal has been answered
  void,     \* history: keys made for a row that was deleted meanwhile
  former    \* history: hashes the setting has held

table == <<rows, nextId>>
history == <<known, retired, gone, void, former>>
vars == <<table, setting, copy, fresh, task, stops, asked, history>>

\* Locals of a handler: the row it is about and what it has read of it, the
\* patch it was asked for, the key it has made and the hash it has removed.
Idle == [at |-> "idle", id |-> 0, row |-> NoRow, patch |-> [field |-> "none"],
         hash |-> 0, old |-> 0, raced |-> FALSE]

There(i) == rows[i] # NoRow
Present == {i \in Ids : There(i)}
Stored == {rows[i].hash : i \in Present}
Legacy == {i \in Present : rows[i].name = "Legacy"}

\* After ensureClientKey and migrateLegacyClientKey, with one more key.
Init ==
  /\ rows = [i \in Ids |->
       IF i > 2 THEN NoRow
       ELSE [name |-> IF i = 1 THEN "Legacy" ELSE "other", hash |-> i, enabled |-> TRUE]]
  /\ nextId = 3
  /\ setting = 1
  /\ copy = NoCopy
  /\ fresh = 3
  /\ task = [a \in Actors |-> Idle]
  /\ stops = 0
  /\ asked = 0
  /\ known = {1, 2}
  /\ retired = {} /\ gone = {} /\ void = {} /\ former = {1}

At(a, place) == task[a].at = place
Goto(a, place) == task' = [task EXCEPT ![a].at = place]
Ends(a) == task' = [task EXCEPT ![a] = Idle]

\* The patches that have read a row of S, and with it a state that is past.
Outdated(S) == [a \in Actors |-> IF At(a, "patch") /\ task[a].id \in S
                                 THEN [task[a] EXCEPT !.raced = TRUE] ELSE task[a]]

\* A statement has changed the rows of S; its handler goes on to place.
Wrote(a, S, t, place) == task' = [Outdated(S) EXCEPT ![a] = [t EXCEPT !.at = place]]

\* A request of the console comes to handler a.
Asked(a) == At(a, "idle") /\ asked < MaxAsked /\ asked' = asked + 1

----------------------------------------------------------------------------
(* createClientKey. *)

Create(a) ==
  /\ Asked(a) /\ nextId <= MaxKeys /\ fresh <= MaxHash
  /\ \E name \in Names :
       rows' = [rows EXCEPT ![nextId] = [name |-> name, hash |-> fresh, enabled |-> TRUE]]
  /\ nextId' = nextId + 1
  /\ fresh' = fresh + 1
  /\ task' = [task EXCEPT ![a].at = "drop", ![a].hash = fresh]
  /\ UNCHANGED <<setting, copy, stops, history>>

----------------------------------------------------------------------------
(* patchClientKey. *)

\* loadClientKey; without a row the answer is 404.
PatchRead(a) ==
  /\ Asked(a)
  /\ \E i \in Present, p \in Patch :
       task' = [task EXCEPT ![a].at = "patch", ![a].id = i, ![a].row = rows[i], ![a].patch = p]
  /\ UNCHANGED <<table, setting, copy, fresh, stops, history>>

\* The UPDATE sets every column to what was read or asked for, but the hash.
\* The mutated forms set that, too, or take enabled for given when it is not.
AllColumns(row, read, p) ==
  [read EXCEPT !.name = IF p.field = "name" THEN p.value ELSE @,
               !.enabled = IF p.field = "enabled" THEN p.value ELSE @]
AbsentIsFalse(row, read, p) ==
  [read EXCEPT !.name = IF p.field = "name" THEN p.value ELSE @,
               !.enabled = p.field = "enabled" /\ p.value, !.hash = row.hash]
Patched(row, read, p) ==
  [read EXCEPT !.name = IF p.field = "name" THEN p.value ELSE @,
               !.enabled = IF p.field = "enabled" THEN p.value ELSE @,
               !.hash = row.hash]

PatchWrite(a) ==
  /\ At(a, "patch")
  /\ LET i == task[a].id
     IN  /\ rows' = IF There(i) THEN [rows EXCEPT ![i] = Patched(@, task[a].row, task[a].patch)]
                    ELSE rows
         /\ Wrote(a, {i}, Idle, "drop")
  /\ UNCHANGED <<nextId, setting, copy, fresh, stops, asked, history>>

----------------------------------------------------------------------------
(* deleteClientKey. *)

\* count <= 1 is answered 400.
DeleteCount(a) ==
  /\ Asked(a) /\ Cardinality(Present) > 1
  /\ \E i \in Ids : task' = [task EXCEPT ![a].at = "delete", ![a].id = i]
  /\ UNCHANGED <<table, setting, copy, fresh, stops, history>>

\* 404 if the row is not there.
DeleteRow(a) ==
  /\ At(a, "delete")
  /\ LET i == task[a].id
     IN  IF There(i)
         THEN /\ rows' = [rows EXCEPT ![i] = NoRow]
              /\ retired' = retired \cup {rows[i].hash}
              /\ Wrote(a, {i}, [Idle EXCEPT !.old = rows[i].hash], "drop")
         ELSE Ends(a) /\ UNCHANGED <<rows, retired>>
  /\ UNCHANGED <<nextId, setting, copy, fresh, stops, asked, known, gone, void, former>>

----------------------------------------------------------------------------
(* rotateNamedClientKey, and rotateClientKey, which rotates the Legacy row. *)

\* INSERT ... ON CONFLICT(key_hash) DO NOTHING
Migrated(R) == IF setting \in Stored THEN R
               ELSE [R EXCEPT ![nextId] = [name |-> "Legacy", hash |-> setting, enabled |-> TRUE]]
IdAfter == IF setting \in Stored THEN nextId ELSE nextId + 1
HasRoom == setting \in Stored \/ nextId <= MaxKeys

MigrateLegacy(a) ==
  /\ Asked(a) /\ HasRoom
  /\ rows' = Migrated(rows) /\ nextId' = IdAfter
  /\ Goto(a, "drop to select")
  /\ UNCHANGED <<setting, copy, fresh, stops, history>>

\* SELECT id ... WHERE name='Legacy' ORDER BY id LIMIT 1; 500 without one.
SelectLegacy(a) ==
  /\ At(a, "select")
  /\ IF Legacy = {} THEN Ends(a)
     ELSE task' = [task EXCEPT ![a].at = "load",
                               ![a].id = CHOOSE i \in Legacy : \A j \in Legacy : i <= j]
  /\ UNCHANGED <<table, setting, copy, fresh, stops, asked, history>>

Rotate(a) ==
  /\ Asked(a)
  /\ \E i \in Present : task' = [task EXCEPT ![a].at = "load", ![a].id = i]
  /\ UNCHANGED <<table, setting, copy, fresh, stops, history>>

\* loadClientKey, for the name; 404 if the row is not there.
RotateLoad(a) ==
  /\ At(a, "load")
  /\ LET i == task[a].id
     IN  IF There(i) THEN task' = [task EXCEPT ![a].at = "rotate", ![a].row = rows[i]]
         ELSE Ends(a)
  /\ UNCHANGED <<table, setting, copy, fresh, stops, asked, history>>

\* Nobody looks whether the UPDATE has found the row.
RotateWrite(a) ==
  /\ At(a, "rotate") /\ fresh <= MaxHash
  /\ LET i == task[a].id
         next == IF task[a].row.name = "Legacy" THEN "drop to setting" ELSE "drop"
     IN  IF There(i)
         THEN /\ rows' = [rows EXCEPT ![i].hash = fresh]
              /\ retired' = retired \cup {rows[i].hash}
              /\ Wrote(a, {i}, [Idle EXCEPT !.hash = fresh, !.old = rows[i].hash], next)
              /\ UNCHANGED void
         ELSE /\ void' = void \cup {fresh}
              /\ Wrote(a, {}, [Idle EXCEPT !.hash = fresh], next)
              /\ UNCHANGED <<rows, retired>>
  /\ fresh' = fresh + 1
  /\ UNCHANGED <<nextId, setting, copy, stops, asked, known, gone, former>>

----------------------------------------------------------------------------
(* After a write. *)

Answers(a) ==
  /\ known' = known \cup ({task[a].hash} \ {0})
  /\ gone' = gone \cup ({task[a].old} \ {0})

\* invalidateClientKeyCache, then the answer. The mutated form answers only.
Kept == copy
Dropped == NoCopy

Drop(a) ==
  /\ At(a, "drop")
  /\ copy' = Dropped
  /\ Answers(a) /\ Ends(a)
  /\ UNCHANGED <<table, setting, fresh, stops, asked, retired, void, former>>

DropAndGoOn(a) ==
  /\ copy' = Dropped
  /\ \/ At(a, "drop to select") /\ Goto(a, "select")
     \/ At(a, "drop to setting") /\ Goto(a, "setting")
  /\ UNCHANGED <<table, setting, fresh, stops, asked, history>>

\* The setting follows a Legacy row, unless the statement fails: its error is
\* ignored.
WriteSetting(a) ==
  /\ At(a, "setting")
  /\ setting' \in {task[a].hash, setting}
  /\ former' = former \cup {setting'}
  /\ Answers(a) /\ Ends(a)
  /\ UNCHANGED <<table, copy, fresh, stops, asked, retired, void>>

----------------------------------------------------------------------------
(* authenticateClient. *)

\* The cached rows, read if there are none. A key that is among them is
\* accepted, or refused for what its row says.
Lookup(c) ==
  /\ At(c, "idle")
  /\ copy' = IF copy = NoCopy THEN Stored ELSE copy
  /\ \E h \in known :
       IF h \in copy' THEN UNCHANGED task
       ELSE task' = [task EXCEPT ![c].at = "compare", ![c].hash = h]
  /\ UNCHANGED <<table, setting, fresh, stops, asked, history>>

\* It is no row's: is it the setting's?
Compare(c) ==
  /\ At(c, "compare")
  /\ IF task[c].hash = setting THEN Goto(c, "restore") ELSE Ends(c)
  /\ UNCHANGED <<table, setting, copy, fresh, stops, asked, history>>

\* key_hash is unique: an UPDATE fails if another row has the hash, or if two
\* rows would get it.
Fits(h, S) == Cardinality(S) <= 1 /\ \A i \in Present \ S : rows[i].hash # h

\* UPDATE ... SET key_hash=?,enabled=1 WHERE name='Legacy'. If that fails there
\* is no result to ask, and the request ends.
Restore(c) ==
  /\ At(c, "restore")
  /\ LET h == task[c].hash
     IN  IF ~Fits(h, Legacy)
         THEN Ends(c) /\ UNCHANGED <<rows, retired>>
         ELSE /\ rows' = [i \in Ids |-> IF i \in Legacy THEN [rows[i] EXCEPT !.hash = h, !.enabled = TRUE]
                                        ELSE rows[i]]
              /\ retired' = retired \cup ({rows[i].hash : i \in Legacy} \ {h})
              /\ IF Legacy = {} THEN Goto(c, "insert") ELSE Wrote(c, Legacy, Idle, "drop")
  /\ UNCHANGED <<nextId, setting, copy, fresh, stops, asked, known, gone, void, former>>

\* There was no such row. If the INSERT fails, nobody notices.
Insert(c) ==
  /\ At(c, "insert") /\ nextId <= MaxKeys
  /\ IF task[c].hash \in Stored THEN UNCHANGED table
     ELSE /\ rows' = [rows EXCEPT ![nextId] =
                        [name |-> "Legacy", hash |-> task[c].hash, enabled |-> TRUE]]
          /\ nextId' = nextId + 1
  /\ task' = [task EXCEPT ![c] = [Idle EXCEPT !.at = "drop"]]
  /\ UNCHANGED <<setting, copy, fresh, stops, asked, history>>

----------------------------------------------------------------------------
\* The process stops and starts again; migrateLegacyClientKey runs.
Restart ==
  /\ stops < MaxStops /\ HasRoom
  /\ stops' = stops + 1
  /\ rows' = Migrated(rows) /\ nextId' = IdAfter
  /\ copy' = NoCopy
  /\ task' = [a \in Actors |-> Idle]
  /\ UNCHANGED <<setting, fresh, asked, history>>

Console(a) ==
  \/ Create(a) \/ PatchRead(a) \/ PatchWrite(a) \/ DeleteCount(a) \/ DeleteRow(a)
  \/ MigrateLegacy(a) \/ SelectLegacy(a) \/ Rotate(a) \/ RotateLoad(a) \/ RotateWrite(a)
  \/ DropAndGoOn(a) \/ WriteSetting(a)

Client(c) == Lookup(c) \/ Compare(c) \/ Restore(c) \/ Insert(c)

Next ==
  \/ \E a \in Handlers : Console(a)
  \/ \E c \in Clients : Client(c)
  \/ \E a \in Actors : Drop(a)
  \/ Restart

Spec == Init /\ [][Next]_vars

----------------------------------------------------------------------------
(* Properties. *)

TypeOK ==
  /\ rows \in [Ids -> Row \cup {NoRow}]
  /\ nextId \in 1..(MaxKeys + 1) /\ fresh \in 1..(MaxHash + 1)
  /\ setting \in Hashes /\ copy \in (SUBSET Hashes) \cup {NoCopy}
  /\ stops \in 0..MaxStops /\ asked \in 0..MaxAsked
  /\ \A S \in {known, retired, gone, void, former} : S \subseteq Hashes
  /\ \A i, j \in Present : rows[i].hash = rows[j].hash => i = j

\* What authenticateClient finds without asking the setting.
Finds(h) == IF copy = NoCopy THEN h \in Stored ELSE h \in copy

\* A key that was handed out is found until a statement removes it, and is not
\* found any more once that has been answered: neither a patch that was read
\* before, nor rows cached meanwhile, nor a restart bring it back. (Keys the
\* setting has held come back by it; a key made for a deleted row is none.)
KeysTakeEffect ==
  \A h \in known \ former :
    /\ h \in gone => ~Finds(h)
    /\ h \notin retired \cup void => Finds(h)

KeysHold == TypeOK /\ KeysTakeEffect

\* A patch changes a column it was not asked to change only if another write
\* of that row has come between its read and its UPDATE.
PatchesLoseOnlyRaces ==
  [][\A a \in Handlers :
       At(a, "patch") /\ task'[a].at = "drop" /\ ~task[a].raced =>
         \A i \in Present :
           /\ rows'[i] # NoRow
           /\ rows'[i].name # rows[i].name => i = task[a].id /\ task[a].patch.field = "name"
           /\ rows'[i].enabled # rows[i].enabled => i = task[a].id /\ task[a].patch.field = "enabled"]_vars

\* "at least one client key must remain"
LastKeyRemains == Present # {}
=============================================================================
