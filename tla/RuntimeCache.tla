---------------------------- MODULE RuntimeCache ----------------------------
(***************************************************************************)
(* The read-through caches of runtime_cache.go (upstream, proxy engine,     *)
(* client keys, models and aliases, routing limit): an RWMutex, a loaded    *)
(* flag and a copy of what the database holds. A reader checks the flag     *)
(* under the read lock; without a copy it takes the write lock, checks      *)
(* again, and reads the database part by part (one statement each, in no    *)
(* transaction) before it publishes the copy and unlocks. A part whose      *)
(* SELECT fails aborts the load, but for the optional ones (the custom      *)
(* headers of the upstream, the routing limit): the load goes on with their *)
(* default, and the copy it publishes stays in force like any other. A      *)
(* writer commits some of the parts atomically and then drops the copy      *)
(* under the write lock, before it answers. refreshModels alone can answer  *)
(* with an error after its commit without dropping the copy.                *)
(*                                                                          *)
(* What sits under the read lock only reads, so taking it, looking and      *)
(* releasing it is one step, enabled while nobody holds the write lock.     *)
(***************************************************************************)
EXTENDS Integers, Sequences

CONSTANTS
  NParts,      \* statements a load consists of (2 for models, 1 for keys, ...)
  Optional,    \* the parts whose failing SELECT is taken for an unset row
  Readers,     \* requests that read the configuration
  Writers,     \* console handlers that change it
  Refreshers,  \* the writers that run refreshModels
  MaxVersion,  \* bound on the writes of one part
  NoRead, Free

ASSUME CacheAssumption ==
  /\ NParts \in Nat \ {0} /\ MaxVersion \in Nat
  /\ Optional \subseteq 1..NParts
  /\ Refreshers \subseteq Writers /\ Readers \cap Writers = {}
  /\ NoRead \notin [1..NParts -> 0..MaxVersion]
  /\ Free \notin Readers

Parts == 1..NParts
Version == 0..MaxVersion
Value == [Parts -> Version]
\* The row of a part that nobody has set holds its default: version 0.
Zero == [p \in Parts |-> 0]

VARIABLES
  db,      \* the version of each part the database holds
  mu,      \* the reader that holds the write lock while it loads, or Free
  loaded,  \* the flag
  cache,   \* the copy
  buf,     \* the parts the loading reader has read so far, in order
  unread,     \* history: the parts of buf whose SELECT failed
  defaulted,  \* history: the parts of the copy that are defaults because of that
  pc,
  wrote,   \* history: what each writer has committed and not answered yet
  acked,   \* history: the newest version of each part whose writer was answered
  need,    \* history: what was acknowledged when each reader began
  got,     \* history: the latest answer
  shown,   \* history: the newest version of each part that was read and answered
  failed,  \* history: whether the latest read ended in an error
  lost     \* history: parts written by a refresh that dropped no copy

vars == <<db, mu, loaded, cache, buf, unread, defaulted, pc, wrote, acked, need,
          got, shown, failed, lost>>

Init ==
  /\ db = Zero /\ cache = Zero /\ buf = <<>>
  /\ unread = {} /\ defaulted = {}
  /\ mu = Free
  /\ loaded = FALSE
  /\ pc = [t \in Readers \cup Writers |-> "idle"]
  /\ wrote = [w \in Writers |-> Zero]
  /\ acked = Zero /\ got = Zero /\ shown = Zero
  /\ failed = FALSE
  /\ need = [r \in Readers |-> NoRead]
  /\ lost = {}

Goto(t, label) == pc' = [pc EXCEPT ![t] = label]

\* The reader gets v, whose parts in D are defaults that nobody has read.
Answer(r, v, D) ==
  /\ got' = v
  /\ shown' = [p \in Parts |-> IF p \in D THEN shown[p] ELSE v[p]]
  /\ failed' = FALSE
  /\ need' = [need EXCEPT ![r] = NoRead]
  /\ Goto(r, "idle")

----------------------------------------------------------------------------
(* Readers. *)

Begin(r) ==
  /\ pc[r] = "idle"
  /\ need' = [need EXCEPT ![r] = acked]
  /\ Goto(r, "check")
  /\ UNCHANGED <<db, mu, loaded, cache, buf, unread, defaulted, wrote, acked, got, shown,
                 failed, lost>>

\* Under the read lock: the copy is there.
Hit(r) ==
  /\ pc[r] = "check" /\ mu = Free /\ loaded
  /\ Answer(r, cache, defaulted)
  /\ UNCHANGED <<db, mu, loaded, cache, buf, unread, defaulted, wrote, acked, lost>>

MissCopy(r) ==
  /\ pc[r] = "check" /\ mu = Free /\ ~loaded
  /\ Goto(r, "lock")
  /\ UNCHANGED <<db, mu, loaded, cache, buf, unread, defaulted, wrote, acked, need, got, shown,
                 failed, lost>>

\* Under the write lock: another reader has loaded meanwhile.
LockHit(r) ==
  /\ pc[r] = "lock" /\ mu = Free /\ loaded
  /\ Answer(r, cache, defaulted)
  /\ UNCHANGED <<db, mu, loaded, cache, buf, unread, defaulted, wrote, acked, lost>>

LockLoad(r) ==
  /\ pc[r] = "lock" /\ mu = Free /\ ~loaded
  /\ mu' = r
  /\ buf' = <<>> /\ unread' = {}
  /\ Goto(r, "load")
  /\ UNCHANGED <<db, loaded, cache, defaulted, wrote, acked, need, got, shown, failed, lost>>

LoadPart(r) ==
  /\ pc[r] = "load" /\ Len(buf) < NParts
  /\ buf' = Append(buf, db[Len(buf) + 1])
  /\ UNCHANGED <<db, mu, loaded, cache, unread, defaulted, pc, wrote, acked, need, got, shown,
                 failed, lost>>

\* The SELECT of an optional part fails, or what it finds is of no use: the load
\* goes on with the default, as if nobody had set the part.
SkipPart(r) ==
  /\ pc[r] = "load" /\ Len(buf) + 1 \in Optional
  /\ buf' = Append(buf, Zero[Len(buf) + 1])
  /\ unread' = unread \cup {Len(buf) + 1}
  /\ UNCHANGED <<db, mu, loaded, cache, defaulted, pc, wrote, acked, need, got, shown, failed, lost>>

\* The copy is published before the deferred Unlock.
Publish(r) ==
  /\ pc[r] = "load" /\ Len(buf) = NParts
  /\ cache' = buf /\ defaulted' = unread
  /\ loaded' = TRUE
  /\ mu' = Free
  /\ buf' = <<>> /\ unread' = {}
  /\ Answer(r, buf, unread)
  /\ UNCHANGED <<db, wrote, acked, lost>>

\* A statement or a Scan fails whose error is not ignored, or a decrypt of any
\* part, an optional one included: nothing is published, the reader gets the
\* error, and the deferred Unlock runs. The mutated form has none.
ForgetUnlock == mu
MuAfterError == Free

LoadError(r) ==
  /\ pc[r] = "load" /\ Len(buf) < NParts
  /\ mu' = MuAfterError
  /\ buf' = <<>> /\ unread' = {}
  /\ need' = [need EXCEPT ![r] = NoRead]
  /\ failed' = TRUE
  /\ Goto(r, "idle")
  /\ UNCHANGED <<db, loaded, cache, defaulted, wrote, acked, got, shown, lost>>

----------------------------------------------------------------------------
(* Writers. *)

\* One statement or one transaction replaces the parts of S.
Commit(w) ==
  /\ pc[w] = "idle"
  /\ \E S \in SUBSET Parts :
       /\ S # {} /\ \A p \in S : db[p] < MaxVersion
       /\ db' = [p \in Parts |-> IF p \in S THEN db[p] + 1 ELSE db[p]]
       /\ wrote' = [wrote EXCEPT ![w] = [p \in Parts |-> IF p \in S THEN db[p] + 1 ELSE 0]]
  /\ Goto(w, "invalidate")
  /\ UNCHANGED <<mu, loaded, cache, buf, unread, defaulted, acked, need, got, shown, failed, lost>>

\* invalidate...Cache takes the write lock, so it waits for a load in progress.
\* The mutated form clears the flag without waiting.
NoLock == TRUE
LockFree == mu = Free

Invalidate(w) ==
  /\ pc[w] = "invalidate" /\ LockFree
  /\ loaded' = FALSE
  /\ cache' = Zero /\ defaulted' = {}
  /\ acked' = [p \in Parts |-> IF wrote[w][p] > acked[p] THEN wrote[w][p] ELSE acked[p]]
  /\ wrote' = [wrote EXCEPT ![w] = Zero]
  /\ lost' = {}
  /\ Goto(w, "idle")
  /\ UNCHANGED <<db, mu, buf, unread, need, got, shown, failed>>

\* refreshModels has replaced the models and cannot save last_model_refresh_at:
\* it answers 500 and the copy stays.
Abandon(w) ==
  /\ w \in Refreshers /\ pc[w] = "invalidate"
  /\ lost' = lost \cup {p \in Parts : wrote[w][p] # 0}
  /\ wrote' = [wrote EXCEPT ![w] = Zero]
  /\ Goto(w, "idle")
  /\ UNCHANGED <<db, mu, loaded, cache, buf, unread, defaulted, acked, need, got, shown, failed>>

----------------------------------------------------------------------------
ReaderStep(r) ==
  \/ Hit(r) \/ MissCopy(r) \/ LockHit(r) \/ LockLoad(r)
  \/ LoadPart(r) \/ SkipPart(r) \/ Publish(r) \/ LoadError(r)

Next ==
  \/ \E r \in Readers : Begin(r) \/ ReaderStep(r)
  \/ \E w \in Writers : Commit(w) \/ Invalidate(w) \/ Abandon(w)

Spec == Init /\ [][Next]_vars

\* A request runs until it is answered; sync.RWMutex admits a waiting writer
\* before new readers and waiting readers after a writer, so a reader that
\* waits for the lock again and again gets it.
FairSpec == Spec /\ \A r \in Readers : /\ WF_vars(ReaderStep(r))
                                       /\ SF_vars(Hit(r) \/ MissCopy(r))
                                       /\ SF_vars(LockHit(r) \/ LockLoad(r))

----------------------------------------------------------------------------
(* Properties. *)

\* Types; the lock is held exactly while a reader loads.
TypeOK ==
  /\ db \in Value /\ cache \in Value /\ acked \in Value /\ got \in Value /\ shown \in Value
  /\ mu \in Readers \cup {Free}
  /\ loaded \in BOOLEAN /\ failed \in BOOLEAN
  /\ buf \in Seq(Version) /\ Len(buf) <= NParts
  /\ unread \subseteq Optional /\ defaulted \subseteq Optional
  /\ pc \in [Readers \cup Writers -> {"idle", "check", "lock", "load", "invalidate"}]
  /\ wrote \in [Writers -> Value]
  /\ need \in [Readers -> Value \cup {NoRead}]
  /\ lost \subseteq Parts
  /\ \A r \in Readers : pc[r] = "load" <=> mu = r

\* Once every writer has been answered, the copy is what the database holds, in
\* every part, but for what a refresh has written and answered with an error,
\* and for the defaults of optional parts that the load could not read. In
\* particular no mix of two writes outlives the later one's answer.
CoherentAtRest ==
  loaded /\ (\A w \in Writers : pc[w] # "invalidate") =>
    \A p \in Parts : \/ cache[p] = db[p]
                     \/ p \in lost
                     \/ p \in defaulted /\ cache[p] = 0

\* The cache is the register its readers may take it for: no answer is older
\* than what was acknowledged before the read began, or than an earlier answer,
\* and between two acknowledged writes all answers agree. Only an optional part
\* whose SELECT failed is answered by its default instead.
Register == INSTANCE ConfigRegister WITH stored <- db, settled <- loaded
ImplementsRegister == Register!Spec

\* Every read is answered, also when loads fail and writers keep dropping the
\* copy.
ReadsAnswered == \A r \in Readers : pc[r] = "check" ~> pc[r] = "idle"
=============================================================================
