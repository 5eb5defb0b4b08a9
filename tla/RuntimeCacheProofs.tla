------------------------- MODULE RuntimeCacheProofs -------------------------
(***************************************************************************)
(* The read-through caches, for any number of parts, readers and writers:   *)
(* types, coherence at rest, and the refinement of ConfigRegister.          *)
(* CoherentAtRest is not inductive: it says nothing while a writer has yet  *)
(* to drop the copy or a reader still loads. The invariant says what is     *)
(* true of a copy, and of the part of one that is loaded so far, then.      *)
(*                                                                          *)
(* After them the cached view of models and aliases, by ModelCatalog.       *)
(***************************************************************************)
EXTENDS RuntimeCache, ModelCatalog, TLAPS

Below(u, v) == \A p \in Parts : u[p] <= v[p]

\* Part p of v is what the database holds, or somebody is known to have changed
\* it since: a refresh that dropped no copy, or a writer that is yet to do so.
Fresh(v, p) ==
  \/ v[p] = db[p]
  \/ p \in lost
  \/ \E w \in Writers : pc[w] = "invalidate" /\ v[p] < wrote[w][p]

\* Part p of v, of which the parts of D are defaults that stand for what could
\* not be read, may be answered.
Sound(v, D, p) ==
  IF p \in D THEN v[p] = 0
  ELSE acked[p] <= v[p] /\ shown[p] <= v[p] /\ v[p] <= db[p] /\ Fresh(v, p)

\* Nothing is acknowledged, shown or remembered that the database has not.
BoundsOK ==
  /\ Below(acked, db) /\ Below(shown, db)
  /\ \A w \in Writers : Below(wrote[w], db)

\* A reader that is under way knows what it may not fall behind.
NeedOK ==
  \A r \in Readers :
    IF pc[r] = "idle" THEN need[r] = NoRead
    ELSE need[r] \in Value /\ Below(need[r], acked)

\* A copy that is in force: somebody has been answered with it.
CopyOK ==
  loaded => mu = Free /\ got = cache /\ \A p \in Parts : Sound(cache, defaulted, p)

\* The parts of the next one that have been read: no writer is acknowledged
\* meanwhile, as it would need the lock.
BufOK ==
  mu # Free => unread \subseteq 1..Len(buf) /\ \A p \in 1..Len(buf) : Sound(buf, unread, p)

IInv == TypeOK /\ BoundsOK /\ NeedOK /\ CopyOK /\ BufOK

----------------------------------------------------------------------------
\* The types in parts, each of which few steps disturb.
DataOK ==
  /\ db \in Value /\ cache \in Value /\ acked \in Value /\ got \in Value /\ shown \in Value
  /\ unread \subseteq Optional /\ defaulted \subseteq Optional
  /\ wrote \in [Writers -> Value]
  /\ loaded \in BOOLEAN /\ failed \in BOOLEAN /\ lost \subseteq Parts
BufferOK == buf \in Seq(Version) /\ Len(buf) <= NParts
ControlOK ==
  /\ mu \in Readers \cup {Free}
  /\ pc \in [Readers \cup Writers -> {"idle", "check", "lock", "load", "invalidate"}]
  /\ need \in [Readers -> Value \cup {NoRead}]
  /\ \A r \in Readers : pc[r] = "load" <=> mu = r

\* They are the types.
LEMMA TypeParts == TypeOK <=> DataOK /\ BufferOK /\ ControlOK
  BY DEF TypeOK, DataOK, BufferOK, ControlOK

\* The empty buffer.
LEMMA EmptyBuffer == <<>> \in Seq(Version) /\ Len(<<>>) = 0
  OBVIOUS

\* A complete buffer is a copy.
LEMMA BufferIsValue ==
  ASSUME BufferOK, Len(buf) = NParts
  PROVE  buf \in Value
<1>0. buf \in Seq(Version)
  BY DEF BufferOK
<1>1. buf \in [1..Len(buf) -> Version]
  BY <1>0
<1> QED
  BY <1>1 DEF BufferOK, Value, Parts

\* Values are versions, and Zero is one.
LEMMA ValueFacts ==
  /\ Zero \in Value
  /\ NoRead \notin Value
  /\ \A v \in Value, p \in Parts : v[p] \in Version /\ v[p] \in Nat
  /\ Parts \subseteq Nat /\ NParts \in Nat
  BY CacheAssumption DEF Zero, Value, Version, Parts

\* What has been shown stays a value with every answer.
LEMMA ShownIsValue ==
  ASSUME DataOK, NEW r \in Readers, NEW v \in Value, NEW D, Answer(r, v, D)
  PROVE  got' \in Value /\ shown' \in Value /\ failed' \in BOOLEAN
<1>1. \A p \in Parts : shown[p] \in Version /\ v[p] \in Version
  BY ValueFacts DEF DataOK
<1> QED
  BY <1>1 DEF Answer, Value

\* The types hold at the start.
LEMMA TypeInit == Init => TypeOK
<1> SUFFICES ASSUME Init PROVE TypeOK
  OBVIOUS
<1>1. DataOK
  BY ValueFacts DEF Init, DataOK
<1>2. BufferOK
  BY ValueFacts, EmptyBuffer DEF Init, BufferOK
<1>3. ControlOK
  BY CacheAssumption DEF Init, ControlOK
<1> QED
  BY <1>1, <1>2, <1>3, TypeParts

\* Every step keeps the types.
LEMMA TypeStep == TypeOK /\ [Next]_vars => TypeOK'
<1> SUFFICES ASSUME DataOK, BufferOK, ControlOK, [Next]_vars PROVE (DataOK /\ BufferOK /\ ControlOK)'
  BY TypeParts DEF TypeOK, DataOK, BufferOK, ControlOK
<1> USE CacheAssumption DEF Goto
<1>1. ASSUME NEW r \in Readers, Begin(r) PROVE (DataOK /\ BufferOK /\ ControlOK)'
  <2>1. DataOK'
    BY <1>1 DEF DataOK, Begin
  <2>2. BufferOK'
    BY <1>1 DEF BufferOK, Begin
  <2>3. ControlOK'
    BY <1>1 DEF ControlOK, DataOK, Begin
  <2> QED
    BY <2>1, <2>2, <2>3
<1>2. ASSUME NEW r \in Readers, Hit(r) PROVE (DataOK /\ BufferOK /\ ControlOK)'
  <2>1. DataOK'
    BY <1>2, ShownIsValue DEF DataOK, Hit
  <2>2. BufferOK'
    BY <1>2 DEF BufferOK, Hit, Answer
  <2>3. ControlOK'
    BY <1>2 DEF ControlOK, DataOK, Hit, Answer
  <2> QED
    BY <2>1, <2>2, <2>3
<1>3. ASSUME NEW r \in Readers, MissCopy(r) PROVE (DataOK /\ BufferOK /\ ControlOK)'
  <2>1. DataOK'
    BY <1>3 DEF DataOK, MissCopy
  <2>2. BufferOK'
    BY <1>3 DEF BufferOK, MissCopy
  <2>3. ControlOK'
    BY <1>3 DEF ControlOK, DataOK, MissCopy
  <2> QED
    BY <2>1, <2>2, <2>3
<1>4. ASSUME NEW r \in Readers, LockHit(r) PROVE (DataOK /\ BufferOK /\ ControlOK)'
  <2>1. DataOK'
    BY <1>4, ShownIsValue DEF DataOK, LockHit
  <2>2. BufferOK'
    BY <1>4 DEF BufferOK, LockHit, Answer
  <2>3. ControlOK'
    BY <1>4 DEF ControlOK, DataOK, LockHit, Answer
  <2> QED
    BY <2>1, <2>2, <2>3
<1>5. ASSUME NEW r \in Readers, LockLoad(r) PROVE (DataOK /\ BufferOK /\ ControlOK)'
  <2>1. DataOK'
    BY <1>5 DEF DataOK, LockLoad
  <2>2. BufferOK'
    BY <1>5, EmptyBuffer, ValueFacts DEF BufferOK, LockLoad
  <2>3. ControlOK'
    BY <1>5 DEF ControlOK, DataOK, LockLoad
  <2> QED
    BY <2>1, <2>2, <2>3
<1>6. ASSUME NEW r \in Readers, LoadPart(r) PROVE (DataOK /\ BufferOK /\ ControlOK)'
  <2>1. db[Len(buf) + 1] \in Version
    BY <1>6, ValueFacts DEF LoadPart, BufferOK, DataOK, Parts
  <2>2. DataOK'
    BY <1>6 DEF DataOK, LoadPart
  <2>3. BufferOK'
    BY <1>6, <2>1, ValueFacts DEF BufferOK, LoadPart
  <2>4. ControlOK'
    BY <1>6 DEF ControlOK, LoadPart
  <2> QED
    BY <2>1, <2>2, <2>3, <2>4
<1>7. ASSUME NEW r \in Readers, Publish(r) PROVE (DataOK /\ BufferOK /\ ControlOK)'
  <2>1. buf \in Value
    BY <1>7, BufferIsValue DEF Publish
  <2>2. DataOK'
    BY <1>7, <2>1, ShownIsValue DEF DataOK, Publish
  <2>3. BufferOK'
    BY <1>7, <2>1, EmptyBuffer, ValueFacts DEF BufferOK, Publish, Answer
  <2>4. ControlOK'
    BY <1>7, <2>1 DEF ControlOK, DataOK, Publish, Answer
  <2> QED
    BY <2>1, <2>2, <2>3, <2>4
<1>8. ASSUME NEW r \in Readers, LoadError(r) PROVE (DataOK /\ BufferOK /\ ControlOK)'
  <2>1. DataOK'
    BY <1>8 DEF DataOK, LoadError, MuAfterError
  <2>2. BufferOK'
    BY <1>8, EmptyBuffer, ValueFacts DEF BufferOK, LoadError, MuAfterError
  <2>3. ControlOK'
    BY <1>8 DEF ControlOK, DataOK, LoadError, MuAfterError
  <2> QED
    BY <2>1, <2>2, <2>3
<1>9. ASSUME NEW w \in Writers, Commit(w) PROVE (DataOK /\ BufferOK /\ ControlOK)'
  <2>1. db' \in Value /\ wrote' \in [Writers -> Value]
    <3>1. PICK S \in SUBSET Parts :
            /\ \A p \in S : db[p] < MaxVersion
            /\ db' = [p \in Parts |-> IF p \in S THEN db[p] + 1 ELSE db[p]]
            /\ wrote' = [wrote EXCEPT ![w] = [p \in Parts |-> IF p \in S THEN db[p] + 1 ELSE 0]]
      BY <1>9 DEF Commit
    <3>2. db \in [Parts -> Version] /\ wrote \in [Writers -> Value]
      BY <1>9 DEF DataOK, Value
    <3>3. 0 \in Version /\ \A v \in Version : v < MaxVersion => v + 1 \in Version
      BY CacheAssumption DEF Version
    <3>4. db' \in Value
      BY <3>1, <3>2, <3>3 DEF Value
    <3>5. [p \in Parts |-> IF p \in S THEN db[p] + 1 ELSE 0] \in Value
      BY <3>1, <3>2, <3>3 DEF Value
    <3> QED
      BY <3>1, <3>2, <3>4, <3>5
  <2>2. DataOK'
    BY <1>9, <2>1 DEF DataOK, Commit
  <2>3. BufferOK'
    BY <1>9, <2>1 DEF BufferOK, Commit
  <2>4. ControlOK'
    BY <1>9, <2>1 DEF ControlOK, DataOK, Commit
  <2> QED
    BY <2>1, <2>2, <2>3, <2>4
<1>10. ASSUME NEW w \in Writers, Invalidate(w) PROVE (DataOK /\ BufferOK /\ ControlOK)'
  <2>1. acked' \in Value /\ wrote' \in [Writers -> Value]
    BY <1>10, ValueFacts DEF DataOK, Invalidate, Value
  <2>2. DataOK'
    BY <1>10, <2>1, ValueFacts DEF DataOK, Invalidate, LockFree
  <2>3. BufferOK'
    BY <1>10, <2>1 DEF BufferOK, Invalidate, LockFree
  <2>4. ControlOK'
    BY <1>10, <2>1 DEF ControlOK, DataOK, Invalidate, LockFree
  <2> QED
    BY <2>1, <2>2, <2>3, <2>4
<1>11. ASSUME NEW w \in Writers, Abandon(w) PROVE (DataOK /\ BufferOK /\ ControlOK)'
  <2>1. DataOK'
    BY <1>11, ValueFacts DEF DataOK, Abandon
  <2>2. BufferOK'
    BY <1>11 DEF BufferOK, Abandon
  <2>3. ControlOK'
    BY <1>11 DEF ControlOK, DataOK, Abandon
  <2> QED
    BY <2>1, <2>2, <2>3
<1>12. ASSUME NEW r \in Readers, SkipPart(r) PROVE (DataOK /\ BufferOK /\ ControlOK)'
  <2>1. Len(buf) + 1 \in Parts /\ Zero[Len(buf) + 1] \in Version
    BY <1>12, ValueFacts DEF SkipPart, Parts
  <2>2. DataOK'
    BY <1>12 DEF DataOK, SkipPart
  <2>3. BufferOK'
    BY <1>12, <2>1, ValueFacts DEF BufferOK, SkipPart, Parts
  <2>4. ControlOK'
    BY <1>12 DEF ControlOK, SkipPart
  <2> QED
    BY <2>2, <2>3, <2>4
<1>13. CASE UNCHANGED vars
  BY <1>13 DEF DataOK, BufferOK, ControlOK, vars
<1> QED
  BY <1>1, <1>2, <1>3, <1>4, <1>5, <1>6, <1>7, <1>8, <1>9, <1>10, <1>11, <1>12, <1>13
     DEF Next, ReaderStep
\* The rest of the invariant holds at the start.
LEMMA InvInit == Init => IInv
<1> SUFFICES ASSUME Init PROVE IInv
  OBVIOUS
<1>1. BoundsOK /\ NeedOK /\ CopyOK /\ BufOK
  BY ValueFacts, CacheAssumption DEF Init, BoundsOK, NeedOK, CopyOK, BufOK, Below, Zero
<1> QED
  BY <1>1, TypeInit DEF IInv

\* What the steps of a reader leave alone.
ReaderFrame == UNCHANGED <<db, wrote, acked, lost>> /\ \A w \in Writers : pc'[w] = pc[w]

\* Every step keeps the rest of the invariant.
LEMMA InvStep == IInv /\ [Next]_vars => (BoundsOK /\ NeedOK /\ CopyOK /\ BufOK)'
<1> SUFFICES ASSUME IInv, TypeOK', [Next]_vars PROVE (BoundsOK /\ NeedOK /\ CopyOK /\ BufOK)'
  BY TypeStep DEF IInv
<1> DataOK /\ BufferOK /\ ControlOK /\ DataOK' /\ BufferOK' /\ ControlOK'
  BY DEF IInv, TypeOK, DataOK, BufferOK, ControlOK
<1> BoundsOK /\ NeedOK /\ CopyOK /\ BufOK
  BY DEF IInv
<1> USE CacheAssumption, ValueFacts
<1>a. ASSUME NEW r \in Readers, NEW v \in Value, NEW D, Answer(r, v, D), UNCHANGED db,
             \A p \in Parts : Sound(v, D, p)
      PROVE  Below(shown', db') /\ \A p \in Parts \ D : shown'[p] = v[p]
  <2>1. \A p \in Parts : shown'[p] = IF p \in D THEN shown[p] ELSE v[p]
    BY <1>a DEF Answer
  <2>2. \A p \in Parts : shown[p] <= db[p] /\ (p \in D \/ v[p] <= db[p])
    BY <1>a DEF BoundsOK, Below, Sound
  <2> QED
    BY <1>a, <2>1, <2>2 DEF Below
<1>1. ASSUME NEW r \in Readers, Begin(r) PROVE (BoundsOK /\ NeedOK /\ CopyOK /\ BufOK)'
  <2>1. BoundsOK'
    BY <1>1 DEF BoundsOK, Begin
  <2>2. NeedOK'
    BY <1>1 DEF NeedOK, Below, DataOK, ControlOK, Begin, Goto
  <2>3. CopyOK'
    BY <1>1 DEF CopyOK, Sound, Fresh, Begin, Goto
  <2>4. BufOK'
    BY <1>1 DEF BufOK, Sound, Fresh, Begin, Goto
  <2> QED
    BY <2>1, <2>2, <2>3, <2>4
<1>2. ASSUME NEW r \in Readers, Hit(r) PROVE (BoundsOK /\ NeedOK /\ CopyOK /\ BufOK)'
  <2>1. /\ loaded /\ mu = Free /\ Answer(r, cache, defaulted) /\ ReaderFrame
        /\ UNCHANGED <<mu, loaded, cache, defaulted>>
    BY <1>2 DEF Hit, Answer, Goto, ReaderFrame, ControlOK
  <2>2. \A p \in Parts : Sound(cache, defaulted, p) /\ cache[p] \in Nat
    BY <2>1 DEF CopyOK, DataOK
  <2>3. Below(shown', db') /\ \A p \in Parts \ defaulted : shown'[p] = cache[p]
    BY <2>1, <2>2, <1>a DEF ReaderFrame, DataOK
  <2>4. ASSUME NEW p \in Parts PROVE Sound(cache, defaulted, p)'
    <3>1. CASE p \in defaulted
      BY <2>1, <2>2, <3>1 DEF Sound
    <3>2. CASE p \notin defaulted
      <4>1. acked[p] <= cache[p] /\ cache[p] <= db[p] /\ Fresh(cache, p)
        BY <2>2, <3>2 DEF Sound
      <4>2. Fresh(cache, p)'
        BY <2>1, <4>1 DEF Fresh, ReaderFrame
      <4>3. shown'[p] = cache[p] /\ cache[p] <= cache[p]
        BY <2>2, <2>3, <3>2
      <4> QED
        BY <2>1, <3>2, <4>1, <4>2, <4>3 DEF Sound, ReaderFrame
    <3> QED
      BY <3>1, <3>2
  <2>5. BoundsOK'
    BY <2>1, <2>3 DEF BoundsOK, ReaderFrame
  <2>6. NeedOK'
    BY <1>2 DEF NeedOK, ControlOK, Hit, Answer, Goto
  <2>7. CopyOK'
    BY <2>1, <2>4 DEF CopyOK, Answer
  <2>8. BufOK'
    BY <2>1 DEF BufOK
  <2> QED
    BY <2>5, <2>6, <2>7, <2>8
<1>3. ASSUME NEW r \in Readers, MissCopy(r) PROVE (BoundsOK /\ NeedOK /\ CopyOK /\ BufOK)'
  <2>1. BoundsOK'
    BY <1>3 DEF BoundsOK, MissCopy
  <2>2. NeedOK'
    BY <1>3 DEF NeedOK, MissCopy, Goto
  <2>3. CopyOK'
    BY <1>3 DEF CopyOK, MissCopy
  <2>4. BufOK'
    BY <1>3 DEF BufOK, MissCopy
  <2> QED
    BY <2>1, <2>2, <2>3, <2>4
<1>4. ASSUME NEW r \in Readers, LockHit(r) PROVE (BoundsOK /\ NeedOK /\ CopyOK /\ BufOK)'
  <2>1. /\ loaded /\ mu = Free /\ Answer(r, cache, defaulted) /\ ReaderFrame
        /\ UNCHANGED <<mu, loaded, cache, defaulted>>
    BY <1>4 DEF LockHit, Answer, Goto, ReaderFrame, ControlOK
  <2>2. \A p \in Parts : Sound(cache, defaulted, p) /\ cache[p] \in Nat
    BY <2>1 DEF CopyOK, DataOK
  <2>3. Below(shown', db') /\ \A p \in Parts \ defaulted : shown'[p] = cache[p]
    BY <2>1, <2>2, <1>a DEF ReaderFrame, DataOK
  <2>4. ASSUME NEW p \in Parts PROVE Sound(cache, defaulted, p)'
    <3>1. CASE p \in defaulted
      BY <2>1, <2>2, <3>1 DEF Sound
    <3>2. CASE p \notin defaulted
      <4>1. acked[p] <= cache[p] /\ cache[p] <= db[p] /\ Fresh(cache, p)
        BY <2>2, <3>2 DEF Sound
      <4>2. Fresh(cache, p)'
        BY <2>1, <4>1 DEF Fresh, ReaderFrame
      <4>3. shown'[p] = cache[p] /\ cache[p] <= cache[p]
        BY <2>2, <2>3, <3>2
      <4> QED
        BY <2>1, <3>2, <4>1, <4>2, <4>3 DEF Sound, ReaderFrame
    <3> QED
      BY <3>1, <3>2
  <2>5. BoundsOK'
    BY <2>1, <2>3 DEF BoundsOK, ReaderFrame
  <2>6. NeedOK'
    BY <1>4 DEF NeedOK, ControlOK, LockHit, Answer, Goto
  <2>7. CopyOK'
    BY <2>1, <2>4 DEF CopyOK, Answer
  <2>8. BufOK'
    BY <2>1 DEF BufOK
  <2> QED
    BY <2>5, <2>6, <2>7, <2>8
<1>5. ASSUME NEW r \in Readers, LockLoad(r) PROVE (BoundsOK /\ NeedOK /\ CopyOK /\ BufOK)'
  <2>1. BoundsOK'
    BY <1>5 DEF BoundsOK, LockLoad
  <2>2. NeedOK'
    BY <1>5 DEF NeedOK, LockLoad, Goto
  <2>3. CopyOK'
    BY <1>5 DEF CopyOK, LockLoad
  <2>4. BufOK'
    BY <1>5 DEF BufOK, LockLoad
  <2> QED
    BY <2>1, <2>2, <2>3, <2>4
<1>6. ASSUME NEW r \in Readers, LoadPart(r) PROVE (BoundsOK /\ NeedOK /\ CopyOK /\ BufOK)'
  <2>1. ReaderFrame /\ mu # Free /\ UNCHANGED <<mu, shown, unread>>
    BY <1>6 DEF ReaderFrame, ControlOK, LoadPart
  <2>2. unread \subseteq 1..Len(buf) /\ \A p \in 1..Len(buf) : Sound(buf, unread, p)
    BY <2>1 DEF BufOK
  <2>3. Len(buf') = Len(buf) + 1 /\ Len(buf) \in Nat /\ Len(buf) + 1 \in Parts
    BY <1>6 DEF LoadPart, BufferOK, Parts
  <2>4. ASSUME NEW p \in 1..Len(buf') PROVE Sound(buf, unread, p)'
    <3>1. CASE p \in 1..Len(buf)
      <4>1. buf'[p] = buf[p]
        BY <1>6, <3>1 DEF LoadPart, BufferOK
      <4> QED
        BY <2>1, <2>2, <3>1, <4>1 DEF Sound, Fresh, ReaderFrame
    <3>2. CASE p \notin 1..Len(buf)
      <4>1. p \in Parts /\ p \notin unread /\ buf'[p] = db[p]
        BY <1>6, <2>2, <2>3, <3>2 DEF LoadPart, BufferOK
      <4>2. acked[p] <= db[p] /\ shown[p] <= db[p] /\ db[p] \in Nat
        BY <4>1 DEF BoundsOK, Below, DataOK
      <4> QED
        BY <2>1, <4>1, <4>2 DEF Sound, Fresh, ReaderFrame
    <3> QED
      BY <3>1, <3>2
  <2>5. BoundsOK'
    BY <1>6 DEF BoundsOK, LoadPart
  <2>6. NeedOK'
    BY <1>6 DEF NeedOK, LoadPart
  <2>7. CopyOK'
    BY <1>6, <2>1 DEF CopyOK, LoadPart
  <2>8. BufOK'
    BY <2>1, <2>2, <2>3, <2>4 DEF BufOK
  <2> QED
    BY <2>5, <2>6, <2>7, <2>8
<1>7. ASSUME NEW r \in Readers, Publish(r) PROVE (BoundsOK /\ NeedOK /\ CopyOK /\ BufOK)'
  <2>1. ReaderFrame
    BY <1>7 DEF ReaderFrame, ControlOK, Publish, Answer, Goto
  <2>2. buf \in Value /\ mu = r
    BY <1>7, BufferIsValue DEF Publish, ControlOK
  <2>3. \A p \in Parts : p \in 1..Len(buf)
    BY <1>7 DEF Publish, Parts
  <2>4. got' = buf /\ cache' = buf /\ defaulted' = unread /\ mu' = Free
    BY <1>7 DEF Publish, Answer
  <2>5. \A p \in Parts : Sound(buf, unread, p) /\ buf[p] \in Nat
    BY <2>2, <2>3 DEF BufOK
  <2>6. Below(shown', db') /\ \A p \in Parts \ unread : shown'[p] = buf[p]
    BY <1>7, <2>1, <2>2, <2>5, <1>a DEF Publish, ReaderFrame
  <2>7. \A p \in Parts : Sound(cache, defaulted, p)'
    BY <2>1, <2>4, <2>5, <2>6 DEF Sound, Fresh, ReaderFrame
  <2>8. BoundsOK'
    BY <2>1, <2>6 DEF BoundsOK, ReaderFrame
  <2>9. NeedOK'
    BY <1>7 DEF NeedOK, ControlOK, Publish, Answer, Goto
  <2>10. CopyOK'
    BY <2>4, <2>7 DEF CopyOK
  <2>11. BufOK'
    BY <2>4 DEF BufOK
  <2> QED
    BY <2>8, <2>9, <2>10, <2>11
<1>8. ASSUME NEW r \in Readers, LoadError(r) PROVE (BoundsOK /\ NeedOK /\ CopyOK /\ BufOK)'
  <2>1. BoundsOK'
    BY <1>8 DEF BoundsOK, LoadError
  <2>2. NeedOK'
    BY <1>8 DEF NeedOK, ControlOK, LoadError, Goto
  <2>3. CopyOK'
    BY <1>8 DEF CopyOK, ControlOK, LoadError
  <2>4. BufOK'
    BY <1>8 DEF BufOK, LoadError
  <2> QED
    BY <2>1, <2>2, <2>3, <2>4
<1>9. ASSUME NEW w \in Writers, Commit(w) PROVE (BoundsOK /\ NeedOK /\ CopyOK /\ BufOK)'
  <2>1. \A x \in Writers : x # w => wrote'[x] = wrote[x] /\ pc'[x] = pc[x]
    BY <1>9 DEF Commit, Goto
  <2>2. PICK S \in SUBSET Parts :
          /\ db' = [p \in Parts |-> IF p \in S THEN db[p] + 1 ELSE db[p]]
          /\ wrote' = [wrote EXCEPT ![w] = [p \in Parts |-> IF p \in S THEN db[p] + 1 ELSE 0]]
    BY <1>9 DEF Commit
  <2>3. wrote'[w] = [p \in Parts |-> IF p \in S THEN db[p] + 1 ELSE 0]
    BY <1>9, <2>2 DEF DataOK
  <2>4. \A p \in Parts : db[p] \in Nat /\ (p \in S => db[p] < db[p] + 1)
    BY <1>9 DEF DataOK
  <2>5. ASSUME NEW p \in Parts PROVE db'[p] = db[p] \/ (wrote'[w][p] = db'[p] /\ db[p] < db'[p])
    <3>1. CASE p \in S
      <4>1. db'[p] = db[p] + 1
        BY <2>2, <3>1
      <4>2. wrote'[w][p] = db[p] + 1
        BY <2>3, <3>1
      <4> QED
        BY <2>4, <3>1, <4>1, <4>2
    <3>2. CASE p \notin S
      <4>1. db' = [q \in Parts |-> IF q \in S THEN db[q] + 1 ELSE db[q]]
        BY <2>2
      <4>2. db'[p] = IF p \in S THEN db[p] + 1 ELSE db[p]
        BY <4>1
      <4> QED
        BY <3>2, <4>2
    <3> QED
      BY <3>1, <3>2
  <2>6. pc'[w] = "invalidate"
    BY <1>9 DEF Commit, Goto, ControlOK
  <2>7. \A p \in 1..Len(buf) : p \in Parts /\ buf[p] \in Nat
    BY <1>9 DEF BufferOK, Parts, Version
  <2>a. \A p \in Parts : db[p] \in Nat /\ db'[p] \in Nat /\ db[p] <= db'[p]
    BY <2>4, <2>5 DEF DataOK
  <2>b. UNCHANGED <<acked, shown, cache, defaulted, buf, unread, loaded, mu, got, lost>>
    BY <1>9 DEF Commit
  <2>8. ASSUME NEW p \in Parts, Sound(cache, defaulted, p) PROVE Sound(cache, defaulted, p)'
    <3>1. CASE p \in defaulted
      BY <2>b, <2>8, <3>1 DEF Sound
    <3>2. CASE p \notin defaulted
      <4>1. cache[p] \in Nat /\ cache[p] <= db[p] /\ Fresh(cache, p)
        BY <2>8, <3>2 DEF Sound, DataOK
      <4>2. Fresh(cache, p)'
        <5>1. CASE cache[p] = db[p]
          BY <1>9, <2>5, <2>6, <2>a, <2>b, <4>1, <5>1 DEF Fresh
        <5>2. CASE p \in lost
          BY <2>b, <5>2 DEF Fresh
        <5>3. ASSUME NEW x \in Writers, pc[x] = "invalidate", cache[p] < wrote[x][p] PROVE Fresh(cache, p)'
          <6>1. x # w
            BY <1>9, <5>3 DEF Commit
          <6> QED
            BY <2>1, <2>b, <5>3, <6>1 DEF Fresh
        <5> QED
          BY <4>1, <5>1, <5>2, <5>3 DEF Fresh
      <4> QED
        BY <2>8, <2>a, <2>b, <3>2, <4>1, <4>2 DEF Sound
    <3> QED
      BY <3>1, <3>2
  <2>9. ASSUME NEW p \in 1..Len(buf), Sound(buf, unread, p) PROVE Sound(buf, unread, p)'
    <3>1. CASE p \in unread
      BY <2>b, <2>9, <3>1 DEF Sound
    <3>2. CASE p \notin unread
      <4>1. p \in Parts /\ buf[p] \in Nat /\ buf[p] <= db[p] /\ Fresh(buf, p)
        BY <2>7, <2>9, <3>2 DEF Sound
      <4>2. Fresh(buf, p)'
        <5>1. CASE buf[p] = db[p]
          BY <1>9, <2>5, <2>6, <2>a, <2>b, <4>1, <5>1 DEF Fresh
        <5>2. CASE p \in lost
          BY <2>b, <5>2 DEF Fresh
        <5>3. ASSUME NEW x \in Writers, pc[x] = "invalidate", buf[p] < wrote[x][p] PROVE Fresh(buf, p)'
          <6>1. x # w
            BY <1>9, <5>3 DEF Commit
          <6> QED
            BY <2>1, <2>b, <5>3, <6>1 DEF Fresh
        <5> QED
          BY <4>1, <5>1, <5>2, <5>3 DEF Fresh
      <4> QED
        BY <2>9, <2>a, <2>b, <3>2, <4>1, <4>2 DEF Sound
    <3> QED
      BY <3>1, <3>2
  <2>10. BoundsOK'
    BY <1>9, <2>1 DEF BoundsOK, Below, DataOK, Commit
  <2>11. NeedOK'
    BY <1>9 DEF NeedOK, Commit, Goto
  <2>12. CopyOK'
    BY <2>8, <2>b DEF CopyOK
  <2>13. BufOK'
    BY <2>9, <2>b DEF BufOK
  <2> QED
    BY <2>10, <2>11, <2>12, <2>13
<1>10. ASSUME NEW w \in Writers, Invalidate(w) PROVE (BoundsOK /\ NeedOK /\ CopyOK /\ BufOK)'
  <2>1. \A p \in Parts : acked[p] <= acked'[p] /\ acked'[p] <= db[p]
    BY <1>10 DEF Invalidate, DataOK, BoundsOK, Below
  <2>2. \A r \in Readers : pc'[r] = pc[r]
    BY <1>10 DEF Invalidate, Goto, ControlOK
  <2>3. \A x \in Writers : wrote'[x] = wrote[x] \/ wrote'[x] = Zero
    BY <1>10 DEF Invalidate, DataOK
  <2>4. \A p \in Parts : Zero[p] = 0
    BY <1>10 DEF Zero
  <2>5. UNCHANGED <<db, shown>>
    BY <1>10 DEF Invalidate
  <2>6. BoundsOK'
    BY <2>1, <2>3, <2>4, <2>5 DEF BoundsOK, Below, DataOK
  <2>7. NeedOK'
    BY <1>10, <2>2 DEF NeedOK, Below, DataOK, ControlOK, Invalidate
  <2>8. CopyOK'
    BY <1>10 DEF CopyOK, Invalidate
  <2>9. BufOK'
    BY <1>10 DEF BufOK, Invalidate, LockFree
  <2> QED
    BY <2>6, <2>7, <2>8, <2>9
<1>11. ASSUME NEW w \in Writers, Abandon(w) PROVE (BoundsOK /\ NeedOK /\ CopyOK /\ BufOK)'
  <2>1. \A x \in Writers : x # w => wrote'[x] = wrote[x] /\ pc'[x] = pc[x]
    BY <1>11 DEF Abandon, Goto
  <2>2. \A p \in Parts : p \in lost' \/ wrote[w][p] = 0
    BY <1>11 DEF Abandon
  <2>3. \A p \in 1..Len(buf) : p \in Parts /\ buf[p] \in Nat
    BY <1>11 DEF BufferOK, Parts, Version
  <2>4. lost \subseteq lost' /\ wrote'[w] = Zero
    BY <1>11 DEF Abandon, DataOK
  <2>5. \A p \in Parts : Zero[p] = 0
    BY <1>11 DEF Zero
  <2>6. UNCHANGED <<db, acked, got, shown, cache, defaulted, buf, unread, loaded, mu>>
    BY <1>11 DEF Abandon
  <2>7. \A p \in Parts : Fresh(cache, p) => Fresh(cache, p)'
    BY <1>11, <2>1, <2>2, <2>4, <2>6 DEF Fresh, DataOK
  <2>8. \A x \in Writers : wrote'[x] = wrote[x] \/ wrote'[x] = Zero
    BY <1>11, <2>1, <2>4
  <2>9. \A p \in 1..Len(buf) : Fresh(buf, p) => Fresh(buf, p)'
    BY <2>1, <2>2, <2>3, <2>4, <2>6 DEF Fresh
  <2>10. BoundsOK'
    BY <2>5, <2>6, <2>8 DEF BoundsOK, Below, DataOK
  <2>11. NeedOK'
    BY <1>11 DEF NeedOK, Abandon, Goto
  <2>12. CopyOK'
    BY <2>6, <2>7 DEF CopyOK, Sound
  <2>13. BufOK'
    BY <2>6, <2>9 DEF BufOK, Sound
  <2> QED
    BY <2>10, <2>11, <2>12, <2>13
<1>12. ASSUME NEW r \in Readers, SkipPart(r) PROVE (BoundsOK /\ NeedOK /\ CopyOK /\ BufOK)'
  <2>1. ReaderFrame /\ mu # Free /\ UNCHANGED <<mu, shown>>
    BY <1>12 DEF ReaderFrame, ControlOK, SkipPart
  <2>2. unread \subseteq 1..Len(buf) /\ \A p \in 1..Len(buf) : Sound(buf, unread, p)
    BY <2>1 DEF BufOK
  <2>3. Len(buf') = Len(buf) + 1 /\ Len(buf) \in Nat /\ Len(buf) + 1 \in Parts
    BY <1>12 DEF SkipPart, BufferOK, Parts
  <2>4. ASSUME NEW p \in 1..Len(buf') PROVE Sound(buf, unread, p)'
    <3>1. CASE p \in 1..Len(buf)
      <4>1. buf'[p] = buf[p]
        BY <1>12, <3>1 DEF SkipPart, BufferOK
      <4>2. p \in unread' <=> p \in unread
        BY <1>12, <2>3, <3>1 DEF SkipPart
      <4> QED
        BY <2>1, <2>2, <2>3, <3>1, <4>1, <4>2 DEF Sound, Fresh, ReaderFrame
    <3>2. CASE p \notin 1..Len(buf)
      <4>1. p \in unread' /\ p \in Parts /\ buf'[p] = Zero[p]
        BY <1>12, <2>3, <3>2 DEF SkipPart, BufferOK
      <4>2. Zero[p] = 0
        BY <4>1 DEF Zero
      <4> QED
        BY <4>1, <4>2 DEF Sound
    <3> QED
      BY <3>1, <3>2
  <2>5. BoundsOK'
    BY <1>12 DEF BoundsOK, SkipPart
  <2>6. NeedOK'
    BY <1>12 DEF NeedOK, SkipPart
  <2>7. CopyOK'
    BY <1>12, <2>1 DEF CopyOK, SkipPart
  <2>8. BufOK'
    <3>1. unread' \subseteq 1..Len(buf')
      <4>1. 1..Len(buf) \subseteq 1..Len(buf') /\ Len(buf) + 1 \in 1..Len(buf')
        BY <2>3
      <4>2. unread' = unread \cup {Len(buf) + 1}
        BY <1>12 DEF SkipPart
      <4> QED
        BY <2>2, <4>1, <4>2
    <3> QED
      BY <2>4, <3>1 DEF BufOK
  <2> QED
    BY <2>5, <2>6, <2>7, <2>8
<1>13. CASE UNCHANGED vars
  BY <1>13 DEF BoundsOK, NeedOK, CopyOK, BufOK, Sound, Fresh, vars
<1> QED
  BY <1>1, <1>2, <1>3, <1>4, <1>5, <1>6, <1>7, <1>8, <1>9, <1>10, <1>11, <1>12, <1>13
     DEF Next, ReaderStep

\* The invariant holds in every reachable state.
LEMMA Invariance == Spec => []IInv
<1>1. IInv /\ [Next]_vars => IInv'
  BY TypeStep, InvStep DEF IInv
<1> QED
  BY <1>1, InvInit, PTL DEF Spec

----------------------------------------------------------------------------
\* Every variable keeps its type, and the lock is held exactly while a reader
\* loads: no error leaves it behind.
THEOREM CacheTypes == Spec => []TypeOK
<1>1. IInv => TypeOK
  BY DEF IInv
<1> QED
  BY <1>1, Invariance, PTL

\* When no writer is between its commit and its answer, a copy in force is what
\* the database holds, but for what a failed refresh wrote, and for the defaults
\* of optional parts whose SELECT failed.
THEOREM CacheCoherent == Spec => []CoherentAtRest
<1>1. IInv => CoherentAtRest
  BY DEF IInv, CopyOK, CoherentAtRest, Sound, Fresh
<1> QED
  BY <1>1, Invariance, PTL

\* The register's values and order are the cache's.
LEMMA RegisterTerms ==
  /\ Register!Parts = Parts /\ Register!Value = Value
  /\ \A u, v : Register!NotOlder(v, u) <=> Below(u, v)
  BY DEF Register!Parts, Register!Value, Register!Version, Register!NotOlder, Parts, Value, Version, Below

\* Every step of the cache is a step of the register or leaves it alone: commits
\* write, invalidations acknowledge, hits and publications answer.
LEMMA RegisterStep == IInv /\ IInv' /\ [Next]_vars => [Register!Next]_Register!vars
<1> SUFFICES ASSUME IInv, IInv', [Next]_vars PROVE [Register!Next]_Register!vars
  OBVIOUS
<1> DataOK /\ ControlOK /\ BufferOK /\ DataOK' /\ BoundsOK /\ NeedOK /\ CopyOK /\ BufOK /\ BoundsOK' /\ CopyOK'
  BY TypeParts DEF IInv, TypeOK, DataOK
<1> USE CacheAssumption, ValueFacts
<1>a. ASSUME NEW r \in Readers, pc[r] # "idle", NEW v \in Value, NEW D \in SUBSET Optional,
             Answer(r, v, D), UNCHANGED <<db, acked>>, \A p \in Parts : Sound(v, D, p),
             defaulted' = D, loaded', loaded => v = got /\ D = defaulted
      PROVE  Register!Answer(r)
  <2>1. need[r] \in Value /\ Below(need[r], acked)
    BY <1>a DEF NeedOK
  <2>2. need[r] # NoRead
    BY <2>1
  <2>3. \A p \in D : v[p] = 0
    BY <1>a DEF Sound, Parts
  <2>4. \A p \in Parts \ D : need[r][p] <= v[p] /\ shown[p] <= v[p] /\ v[p] <= db[p]
    <3>1. \A p \in Parts : need[r][p] <= acked[p] /\ need[r][p] \in Nat /\ acked[p] \in Nat /\ v[p] \in Nat
      BY <1>a, <2>1 DEF Below, DataOK
    <3>2. \A p \in Parts \ D : acked[p] <= v[p] /\ shown[p] <= v[p] /\ v[p] <= db[p]
      BY <1>a DEF Sound
    <3> QED
      BY <3>1, <3>2
  <2>5. /\ got' = v /\ failed' = FALSE
        /\ shown' = [p \in Parts |-> IF p \in D THEN shown[p] ELSE v[p]]
        /\ need' = [need EXCEPT ![r] = NoRead]
    BY <1>a DEF Answer
  <2> QED
    BY <1>a, <2>2, <2>3, <2>4, <2>5, RegisterTerms DEF Register!Answer
<1>1. ASSUME NEW r \in Readers, Begin(r) PROVE Register!Begin(r)
  BY <1>1 DEF Begin, Register!Begin, NeedOK
<1>2. ASSUME NEW r \in Readers, Hit(r) \/ LockHit(r) PROVE Register!Answer(r)
  <2>1. /\ pc[r] # "idle" /\ Answer(r, cache, defaulted) /\ UNCHANGED <<db, acked, defaulted>>
        /\ loaded /\ loaded' /\ got = cache /\ \A p \in Parts : Sound(cache, defaulted, p)
    BY <1>2 DEF Hit, LockHit, CopyOK
  <2> QED
    BY <2>1, <1>a DEF DataOK
<1>3. ASSUME NEW r \in Readers, Publish(r) PROVE Register!Answer(r)
  <2>1. buf \in Value /\ mu # Free /\ \A p \in Parts : p \in 1..Len(buf)
    BY <1>3, BufferIsValue DEF Publish, ControlOK, Parts
  <2>2. /\ pc[r] # "idle" /\ Answer(r, buf, unread) /\ UNCHANGED <<db, acked>>
        /\ defaulted' = unread /\ loaded' /\ ~loaded
    BY <1>3, <2>1 DEF Publish, CopyOK
  <2>3. \A p \in Parts : Sound(buf, unread, p)
    BY <2>1 DEF BufOK
  <2> QED
    BY <2>1, <2>2, <2>3, <1>a DEF DataOK
<1>4. ASSUME NEW r \in Readers, LoadError(r) PROVE Register!Fail(r)
  BY <1>4 DEF LoadError, Register!Fail, NeedOK
<1>5. ASSUME NEW w \in Writers, Commit(w) PROVE Register!Write
  <2>1. \A p \in Parts : db[p] \in Nat
    BY DEF DataOK
  <2>2. Below(db, db') /\ UNCHANGED <<acked, need, got, shown, defaulted, loaded, failed>>
    BY <1>5, <2>1 DEF Commit, Below
  <2> QED
    BY <2>2, RegisterTerms DEF Register!Write, DataOK
<1>6. ASSUME NEW w \in Writers, Invalidate(w) PROVE Register!Acknowledge
  <2>1. /\ Below(acked, acked') /\ UNCHANGED <<db, need, got, shown, failed>>
        /\ defaulted' = {} /\ loaded' = FALSE
    BY <1>6 DEF Invalidate, Below, DataOK
  <2>2. Below(acked', db)
    BY <2>1 DEF BoundsOK, Below
  <2> QED
    BY <2>1, <2>2, RegisterTerms DEF Register!Acknowledge, DataOK
<1>7. ASSUME NEW r \in Readers, MissCopy(r) \/ LockLoad(r) \/ LoadPart(r) \/ SkipPart(r)
      PROVE  UNCHANGED Register!vars
  BY <1>7 DEF MissCopy, LockLoad, LoadPart, SkipPart, Register!vars
<1>8. ASSUME NEW w \in Writers, Abandon(w) PROVE UNCHANGED Register!vars
  BY <1>8 DEF Abandon, Register!vars
<1>9. CASE UNCHANGED vars
  BY <1>9 DEF vars, Register!vars
<1> QED
  BY <1>1, <1>2, <1>3, <1>4, <1>5, <1>6, <1>7, <1>8, <1>9 DEF Next, ReaderStep, Register!Next

\* Whatever the number of parts, readers and writers, the cache implements the
\* register: no answer is older than what was acknowledged before it was asked,
\* and answers change only after an acknowledged write; only optional parts may
\* be answered by their default instead.
THEOREM CacheIsRegister == Spec => ImplementsRegister
<1>1. Init => Register!Init
  BY DEF Init, Register!Init, Register!Parts, Parts, Zero
<1> QED
  BY <1>1, RegisterStep, Invariance, PTL DEF Spec, ImplementsRegister, Register!Spec

----------------------------------------------------------------------------
(* The cached view of models and aliases. ViewAgrees says nothing while a     *)
(* change is not answered or a view is loaded by half; the invariant says     *)
(* what is true of the half, and where else a model that was switched off     *)
(* must be off.                                                               *)

\* What a handler's locals are, by where it is.
Places == {"idle", "classify", "metadata", "policy", "check name", "check target", "save", "drop"}
Task == [at : Places, seen : SUBSET Names, offered : SUBSET Names, todo : SUBSET Names,
         found : SUBSET Names, model : Names \cup {NoRow}, on : BOOLEAN, id : 0..MaxAliases,
         alias : AliasNames \cup {NoRow}, target : Names \cup {NoRow}]
\* A view, the half of one that is loaded first, and a request of a client: it
\* has no model on that it may not be served by.
Switch == {"none", "off", "on"}
HalfView == [models : [Names -> Switch]]
FullView == [models : [Names -> Switch], aliases : [AliasNames -> Names \cup {NoRow}]]
Client == [at : {"idle", "aliases", "decide"}, view : HalfView \cup FullView \cup {NoView},
           off : SUBSET Names]

TaskOK(t) ==
  /\ t \in Task
  /\ t.at = "policy" => t.model \in Names
  /\ t.at \in {"check name", "check target", "save"} => t.alias \in AliasNames /\ t.target \in Names

ClientOK(t) ==
  /\ t \in Client
  /\ t.at = "aliases" => t.view \in HalfView
  /\ t.at = "decide" => t.view \in FullView
  /\ t.at # "idle" => \A m \in t.off : t.view.models[m] # "on"

\* The locals of all, and the types that CatalogTypeOK leaves out.
LocalsOK ==
  /\ task \in [Handlers -> Task] /\ \A h \in Handlers : TaskOK(task[h])
  /\ client \in [Clients -> Client] /\ \A c \in Clients : ClientOK(client[c])
  /\ view \in FullView \cup {NoView} /\ missed \in BOOLEAN /\ listed \in BOOLEAN

\* A change is committed and not answered.
Pending == \E h \in Handlers : task[h].at \in {"metadata", "drop"}

\* The half that is loaded agrees like a view does.
LoadAgrees ==
  \A c \in Clients :
    client[c].at = "aliases" /\ ~missed /\ ~Pending => client[c].view.models = Offered

\* What is promised to be off is off in the tables, in the view, in the half of
\* one that is loaded, and nobody is about to switch it on.
ViewOff == view # NoView => \A m \in off : view.models[m] # "on"
LoadOff ==
  \A c \in Clients : client[c].at = "aliases" => \A m \in off : client[c].view.models[m] # "on"
OffStands ==
  /\ off \subseteq disabled
  /\ \A h \in Handlers : task[h].on => task[h].model \notin off
  /\ ViewOff /\ LoadOff

CatalogInv ==
  CatalogTypeOK /\ LocalsOK /\ ViewAgrees /\ LoadAgrees /\ FreeModelsKept /\ OffStands

\* A handler's step changes its own locals.
LEMMA OneCatalogTask ==
  ASSUME task \in [Handlers -> Task], \A g \in Handlers : TaskOK(task[g]),
         NEW h \in Handlers, NEW y, TaskOK(y), Becomes(h, y)
  PROVE  /\ task' \in [Handlers -> Task]
         /\ \A g \in Handlers : TaskOK(task'[g])
         /\ \A g \in Handlers : task'[g] = IF g = h THEN y ELSE task[g]
<1>1. y \in Task
  BY DEF TaskOK
<1>2. \A g \in Handlers : task'[g] = IF g = h THEN y ELSE task[g]
  BY DEF Becomes
<1> QED
  BY <1>1, <1>2 DEF Becomes

\* A handler goes on and touches nothing that others see.
LEMMA OnlyLocals ==
  ASSUME CatalogInv, NEW h \in Handlers, NEW y, TaskOK(y), Becomes(h, y),
         y.on => y.model \notin off,
         y.at \notin {"metadata", "drop"}, task[h].at \notin {"metadata", "drop"},
         asked' \in 0..MaxAsked,
         UNCHANGED <<tables, extra, view, loader, client, history>>
  PROVE  CatalogInv'
<1> USE DEF tables, history
<1>1. /\ task' \in [Handlers -> Task]
      /\ \A g \in Handlers : TaskOK(task'[g])
      /\ \A g \in Handlers : task'[g] = IF g = h THEN y ELSE task[g]
  BY OneCatalogTask DEF CatalogInv, LocalsOK
<1>2. Offered' = Offered /\ Targets' = Targets
  BY DEF Offered, Targets, IsFree
<1>3. Pending' = Pending
  BY <1>1 DEF Pending
<1>4. CatalogTypeOK'
  BY DEF CatalogInv, CatalogTypeOK
<1>5. LocalsOK'
  BY <1>1 DEF CatalogInv, LocalsOK
<1>6. ViewAgrees'
  BY <1>1, <1>2 DEF CatalogInv, ViewAgrees
<1>7. LoadAgrees'
  BY <1>2, <1>3 DEF CatalogInv, LoadAgrees
<1>8. FreeModelsKept'
  BY DEF CatalogInv, FreeModelsKept, IsFree
<1>9. OffStands'
  <2>1. \A g \in Handlers : task'[g].on => task'[g].model \notin off
    BY <1>1 DEF CatalogInv, OffStands
  <2> QED
    BY <2>1 DEF CatalogInv, OffStands, ViewOff, LoadOff
<1> QED
  BY <1>4, <1>5, <1>6, <1>7, <1>8, <1>9 DEF CatalogInv

\* A statement changes a table, and its handler has still to drop the view.
LEMMA OneStatement ==
  ASSUME CatalogInv, NEW h \in Handlers, NEW y, TaskOK(y), Becomes(h, y),
         y.on = task[h].on, y.model = task[h].model, y.at \in {"metadata", "drop"},
         models' \in [Names -> Listing], disabled' \subseteq Names, off \subseteq disabled',
         aliases' \in [AliasNames -> AliasRow \cup {NoRow}], lastId' \in 0..MaxAliases,
         asked' \in 0..MaxAsked, listed' \in BOOLEAN, FreeModelsKept',
         UNCHANGED <<extra, view, loader, client, off, missed>>
  PROVE  CatalogInv'
<1>1. /\ task' \in [Handlers -> Task]
      /\ \A g \in Handlers : TaskOK(task'[g])
      /\ \A g \in Handlers : task'[g] = IF g = h THEN y ELSE task[g]
  BY OneCatalogTask DEF CatalogInv, LocalsOK
<1>2. task'[h].at \in {"metadata", "drop"}
  BY <1>1
<1>4. CatalogTypeOK'
  BY DEF CatalogInv, CatalogTypeOK
<1>5. LocalsOK'
  BY <1>1 DEF CatalogInv, LocalsOK
<1>6. ViewAgrees'
  BY <1>2 DEF ViewAgrees
<1>7. LoadAgrees'
  BY <1>2 DEF LoadAgrees, Pending
<1>9. OffStands'
  <2>1. \A g \in Handlers : task'[g].on => task'[g].model \notin off
    BY <1>1 DEF CatalogInv, OffStands
  <2> QED
    BY <2>1 DEF CatalogInv, OffStands, ViewOff, LoadOff
<1> QED
  BY <1>4, <1>5, <1>6, <1>7, <1>9 DEF CatalogInv

LEMMA IdleTask ==
  /\ TaskOK(Idle) /\ ~Idle.on /\ Idle.at = "idle" /\ Idle.model = NoRow
BY CatalogAssumption DEF Idle, Task, TaskOK, Places

LEMMA InitCatalog == CatalogInit => CatalogInv
<1> SUFFICES ASSUME CatalogInit PROVE CatalogInv
  OBVIOUS
<1> USE DEF CatalogInit
<1>1. Idle \in Task /\ TaskOK(Idle) /\ ~Idle.on /\ Idle.at = "idle"
  BY IdleTask DEF TaskOK
<1>2. Waiting \in Client /\ ClientOK(Waiting) /\ Waiting.at = "idle"
  BY DEF Waiting, Client, ClientOK
<1>3. CatalogTypeOK
  BY <1>2, CatalogAssumption DEF CatalogTypeOK, Listing
<1>4. LocalsOK
  BY <1>1, <1>2 DEF LocalsOK
<1>5. ViewAgrees /\ LoadAgrees /\ FreeModelsKept
  BY <1>2 DEF ViewAgrees, LoadAgrees, FreeModelsKept
<1>6. OffStands
  BY DEF OffStands, ViewOff, LoadOff
<1> QED
  BY <1>3, <1>4, <1>5, <1>6 DEF CatalogInv

LEMMA FetchCatalog ==
  ASSUME CatalogInv, NEW h \in Handlers, Fetch(h)
  PROVE  CatalogInv'
<1>1. PICK seen \in SUBSET Names : \E offered \in SUBSET seen :
        Becomes(h, [Idle EXCEPT !.at = "classify", !.seen = seen, !.offered = offered, !.todo = seen])
  BY DEF Fetch
<1>2. PICK offered \in SUBSET seen :
        Becomes(h, [Idle EXCEPT !.at = "classify", !.seen = seen, !.offered = offered, !.todo = seen])
  BY <1>1
<1> DEFINE y == [Idle EXCEPT !.at = "classify", !.seen = seen, !.offered = offered, !.todo = seen]
<1>a. offered \in SUBSET Names
  OBVIOUS
<1>b. y \in Task /\ ~y.on /\ y.at = "classify"
  BY <1>a, IdleTask DEF TaskOK, Task, Places
<1>3. TaskOK(y) /\ ~y.on /\ y.at = "classify"
  BY <1>b DEF TaskOK
<1>4. task[h].at = "idle" /\ asked' \in 0..MaxAsked
  BY CatalogAssumption DEF Fetch, Asked, At, CatalogInv, CatalogTypeOK
<1>5. Becomes(h, y)
  BY <1>2
<1> HIDE DEF y
<1> QED
  BY <1>3, <1>4, <1>5, OnlyLocals DEF Fetch

LEMMA ClassifyCatalog ==
  ASSUME CatalogInv, NEW h \in Handlers, Classify(h)
  PROVE  CatalogInv'
<1>1. PICK m \in task[h].todo :
       Becomes(h, [task[h] EXCEPT !.todo = @ \ {m},
                                  !.found = IF ClassifyFree(h, m) THEN @ \cup {m} ELSE @])
  BY DEF Classify
<1> DEFINE y == [task[h] EXCEPT !.todo = @ \ {m},
                                  !.found = IF ClassifyFree(h, m) THEN @ \cup {m} ELSE @]
<1>2. TaskOK(task[h]) /\ task[h].at = "classify" /\ (task[h].on => task[h].model \notin off)
      /\ asked \in 0..MaxAsked
  BY DEF CatalogInv, LocalsOK, OffStands, Classify, At, CatalogTypeOK
<1>3. TaskOK(y) /\ y.at = "classify" /\ y.on = task[h].on /\ y.model = task[h].model
  BY <1>2 DEF TaskOK, Task
<1>5. Becomes(h, y)
  BY <1>1
<1> HIDE DEF y
<1> QED
  BY <1>2, <1>3, <1>5, OnlyLocals DEF Classify

LEMMA CommitCatalog ==
  ASSUME CatalogInv, NEW h \in Handlers, ReplaceModels(h)
  PROVE  CatalogInv'
<1> DEFINE y == [task[h] EXCEPT !.at = "metadata"]
<1>1. TaskOK(task[h]) /\ task[h].found # {}
  BY DEF CatalogInv, LocalsOK, ReplaceModels, NothingFree
<1>2. TaskOK(y) /\ y.at = "metadata" /\ y.on = task[h].on /\ y.model = task[h].model
  BY <1>1 DEF TaskOK, Task, Places
<1>3. Becomes(h, y)
  BY DEF ReplaceModels, Goes
<1>4. PICK m \in Names : m \in task[h].found
  BY <1>1 DEF TaskOK, Task
<1>5. models' \in [Names -> Listing] /\ models'[m] = "free"
  BY <1>4 DEF ReplaceModels, Listing
<1>6. FreeModelsKept'
  BY <1>5 DEF FreeModelsKept, IsFree
<1>7. disabled' = disabled /\ off \subseteq disabled /\ disabled \subseteq Names
  BY DEF CatalogInv, OffStands, CatalogTypeOK, ReplaceModels, Policies
<1>8. /\ aliases' \in [AliasNames -> AliasRow \cup {NoRow}] /\ lastId' \in 0..MaxAliases
      /\ asked' \in 0..MaxAsked /\ listed' = TRUE
      /\ UNCHANGED <<extra, view, loader, client, off, missed>>
  BY DEF CatalogInv, CatalogTypeOK, ReplaceModels
<1> HIDE DEF y
<1> QED
  BY <1>2, <1>3, <1>5, <1>6, <1>7, <1>8, OneStatement

LEMMA RollBackCatalog ==
  ASSUME CatalogInv, NEW h \in Handlers, RollBack(h)
  PROVE  CatalogInv'
<1>1. task[h].at = "classify" /\ asked' \in 0..MaxAsked /\ Becomes(h, Idle)
  BY DEF RollBack, CatalogInv, CatalogTypeOK, At, Ends
<1> QED
  BY <1>1, IdleTask, OnlyLocals DEF RollBack

\* A refresh that cannot save its metadata leaves a view that may be old.
LEMMA MetadataCatalog ==
  ASSUME CatalogInv, NEW h \in Handlers, Metadata(h)
  PROVE  CatalogInv'
<1> USE DEF tables
<1>1. TaskOK(task[h]) /\ task[h].at = "metadata" /\ (task[h].on => task[h].model \notin off)
  BY DEF CatalogInv, LocalsOK, Metadata, At, OffStands
<1> DEFINE z == [task[h] EXCEPT !.at = "drop"]
<1>2. TaskOK(z) /\ z.at = "drop" /\ z.on = task[h].on /\ z.model = task[h].model
  BY <1>1 DEF TaskOK, Task, Places
<1>a. UNCHANGED <<tables, extra, view, loader, client, asked, off, listed>>
  BY DEF Metadata
<1>b. \/ Becomes(h, z) /\ missed' = missed
      \/ Becomes(h, Idle) /\ missed' = (missed \/ view # NoView \/ loader # Nobody)
  BY DEF Metadata, Goes, Ends
<1> HIDE DEF z
<1>3. CASE Becomes(h, z) /\ missed' = missed
  BY <1>2, <1>3, <1>a, OneStatement DEF CatalogInv, CatalogTypeOK, LocalsOK, OffStands,
     FreeModelsKept, IsFree
<1>4. CASE Becomes(h, Idle) /\ missed' = (missed \/ view # NoView \/ loader # Nobody)
  <2>1. /\ task' \in [Handlers -> Task]
        /\ \A g \in Handlers : TaskOK(task'[g])
        /\ \A g \in Handlers : task'[g] = IF g = h THEN Idle ELSE task[g]
    BY <1>4, OneCatalogTask, IdleTask DEF CatalogInv, LocalsOK
  <2>2. CatalogTypeOK'
    BY <1>a DEF CatalogInv, CatalogTypeOK
  <2>3. LocalsOK'
    BY <2>1, <1>4, <1>a DEF CatalogInv, LocalsOK
  <2>4. ViewAgrees'
    BY <1>4, <1>a DEF ViewAgrees
  <2>5. LoadAgrees'
    <3>1. \A c \in Clients : client[c].at = "aliases" => loader # Nobody
      BY CatalogAssumption DEF CatalogInv, CatalogTypeOK
    <3> QED
      BY <3>1, <1>4, <1>a DEF LoadAgrees
  <2>6. FreeModelsKept'
    BY <1>a DEF CatalogInv, FreeModelsKept, IsFree
  <2>7. OffStands'
    <3>1. \A g \in Handlers : task'[g].on => task'[g].model \notin off
      BY <2>1, IdleTask DEF CatalogInv, OffStands
    <3> QED
      BY <3>1, <1>a DEF CatalogInv, OffStands, ViewOff, LoadOff
  <2> QED
    BY <2>2, <2>3, <2>4, <2>5, <2>6, <2>7 DEF CatalogInv
<1> QED
  BY <1>b, <1>3, <1>4

LEMMA PutExtraCatalog ==
  ASSUME CatalogInv, PutExtra
  PROVE  CatalogInv'
<1> USE DEF PutExtra, tables, history
<1>1. CatalogTypeOK'
  BY CatalogAssumption DEF CatalogInv, CatalogTypeOK
<1>2. Offered' = Offered /\ Targets' = Targets /\ Pending' = Pending
  BY DEF Offered, Targets, IsFree, Pending
<1>3. LocalsOK'
  BY DEF CatalogInv, LocalsOK
<1>4. ViewAgrees' /\ LoadAgrees'
  BY <1>2 DEF CatalogInv, ViewAgrees, LoadAgrees
<1>5. FreeModelsKept'
  BY DEF CatalogInv, FreeModelsKept, IsFree
<1>6. OffStands'
  BY DEF CatalogInv, OffStands, ViewOff, LoadOff
<1> QED
  BY <1>1, <1>3, <1>4, <1>5, <1>6 DEF CatalogInv

\* Whoever asks for a model to be on ends what was promised about it.
LEMMA PolicyReadCatalog ==
  ASSUME CatalogInv, NEW h \in Handlers, PolicyRead(h)
  PROVE  CatalogInv'
<1>1. PICK m \in Names, on \in BOOLEAN :
        /\ Becomes(h, [Idle EXCEPT !.at = "policy", !.model = m, !.on = on])
        /\ IF on THEN /\ off' = off \ {m}
                      /\ client' = [c \in Clients |-> [client[c] EXCEPT !.off = @ \ {m}]]
           ELSE UNCHANGED <<off, client>>
  BY DEF PolicyRead
<1> DEFINE y == [Idle EXCEPT !.at = "policy", !.model = m, !.on = on]
<1>2. TaskOK(y) /\ y.at = "policy" /\ y.on = on /\ y.model = m
  BY IdleTask DEF TaskOK, Task, Places
<1>3. Becomes(h, y)
  BY <1>1
<1>4. task[h].at = "idle" /\ asked' \in 0..MaxAsked
      /\ UNCHANGED <<models, disabled, aliases, lastId, extra, view, loader, missed, listed>>
  BY CatalogAssumption DEF PolicyRead, Asked, At, CatalogInv, CatalogTypeOK, tables
<1> HIDE DEF y
<1>5. /\ task' \in [Handlers -> Task]
      /\ \A g \in Handlers : TaskOK(task'[g])
      /\ \A g \in Handlers : task'[g] = IF g = h THEN y ELSE task[g]
  BY <1>2, <1>3, OneCatalogTask DEF CatalogInv, LocalsOK
<1>6. off' \subseteq off /\ (on => m \notin off')
  BY <1>1
<1>7. /\ client' \in [Clients -> Client] 
      /\ \A c \in Clients : ClientOK(client'[c])
      /\ \A c \in Clients : client'[c].at = client[c].at /\ client'[c].view = client[c].view
  <2>1. client \in [Clients -> Client] /\ \A c \in Clients : ClientOK(client[c])
    BY DEF CatalogInv, LocalsOK
  <2>2. CASE ~on
    BY <2>1, <2>2, <1>1
  <2>3. CASE on
    <3> DEFINE z(c) == [client[c] EXCEPT !.off = @ \ {m}]
    <3>1. \A c \in Clients : z(c) \in Client /\ z(c).at = client[c].at /\ z(c).view = client[c].view
                             /\ z(c).off = client[c].off \ {m}
      BY <2>1 DEF Client
    <3>2. client' = [c \in Clients |-> z(c)]
      BY <2>3, <1>1
    <3> HIDE DEF z
    <3>3. \A c \in Clients : ClientOK(z(c))
      BY <2>1, <3>1 DEF ClientOK
    <3> QED
      BY <3>1, <3>2, <3>3
  <2> QED
    BY <2>2, <2>3
<1>8. Offered' = Offered /\ Targets' = Targets
  BY <1>4 DEF Offered, Targets, IsFree
<1>9. Pending' = Pending
  BY <1>2, <1>4, <1>5 DEF Pending
<1>10. CatalogTypeOK'
  BY <1>4, <1>6, <1>7 DEF CatalogInv, CatalogTypeOK
<1>11. LocalsOK'
  BY <1>4, <1>5, <1>7 DEF CatalogInv, LocalsOK
<1>12. ViewAgrees'
  BY <1>4, <1>8, <1>2, <1>5 DEF CatalogInv, ViewAgrees
<1>13. LoadAgrees'
  BY <1>4, <1>7, <1>8, <1>9 DEF CatalogInv, LoadAgrees
<1>14. FreeModelsKept'
  BY <1>4 DEF CatalogInv, FreeModelsKept, IsFree
<1>15. OffStands'
  <2>1. \A g \in Handlers : task'[g].on => task'[g].model \notin off'
    BY <1>2, <1>5, <1>6 DEF CatalogInv, OffStands
  <2>2. off' \subseteq disabled' /\ ViewOff' /\ LoadOff'
    BY <1>4, <1>6, <1>7 DEF CatalogInv, OffStands, ViewOff, LoadOff
  <2> QED
    BY <2>1, <2>2 DEF OffStands
<1> QED
  BY <1>10, <1>11, <1>12, <1>13, <1>14, <1>15 DEF CatalogInv

LEMMA PolicyWriteCatalog ==
  ASSUME CatalogInv, NEW h \in Handlers, PolicyWrite(h)
  PROVE  CatalogInv'
<1> DEFINE y == [task[h] EXCEPT !.at = "drop"]
<1>1. TaskOK(task[h]) /\ task[h].model \in Names /\ (task[h].on => task[h].model \notin off)
  BY DEF CatalogInv, LocalsOK, PolicyWrite, At, TaskOK, OffStands
<1>2. TaskOK(y) /\ y.at = "drop" /\ y.on = task[h].on /\ y.model = task[h].model
  BY <1>1 DEF TaskOK, Task, Places
<1>3. Becomes(h, y)
  BY DEF PolicyWrite, Goes
<1>4. disabled' \subseteq Names /\ off \subseteq disabled'
  BY <1>1 DEF CatalogInv, CatalogTypeOK, OffStands, PolicyWrite
<1>5. /\ models' = models /\ models \in [Names -> Listing] /\ listed' = listed
      /\ aliases' \in [AliasNames -> AliasRow \cup {NoRow}] /\ lastId' \in 0..MaxAliases
      /\ asked' \in 0..MaxAsked /\ listed' \in BOOLEAN
      /\ UNCHANGED <<extra, view, loader, client, off, missed>>
  BY DEF CatalogInv, CatalogTypeOK, LocalsOK, PolicyWrite, history
<1>6. FreeModelsKept'
  BY <1>5 DEF CatalogInv, FreeModelsKept, IsFree
<1> HIDE DEF y
<1> QED
  BY <1>2, <1>3, <1>4, <1>5, <1>6, OneStatement

LEMMA CreateAliasCatalog ==
  ASSUME CatalogInv, NEW h \in Handlers, CreateAlias(h)
  PROVE  CatalogInv'
<1>1. PICK n \in AliasNames, t \in Names :
        Becomes(h, [Idle EXCEPT !.at = "check name", !.alias = n, !.target = t, !.on = TRUE])
  BY DEF CreateAlias
<1> DEFINE y == [Idle EXCEPT !.at = "check name", !.alias = n, !.target = t, !.on = TRUE]
<1>2. TaskOK(y) /\ y.at = "check name" /\ y.model = NoRow
  BY IdleTask DEF TaskOK, Task, Places
<1>3. NoRow \notin off /\ task[h].at = "idle" /\ asked' \in 0..MaxAsked
  BY CatalogAssumption DEF CreateAlias, Asked, At, CatalogInv, CatalogTypeOK
<1>4. Becomes(h, y)
  BY <1>1
<1> HIDE DEF y
<1> QED
  BY <1>2, <1>3, <1>4, OnlyLocals DEF CreateAlias

LEMMA PatchAliasCatalog ==
  ASSUME CatalogInv, NEW h \in Handlers, PatchAlias(h)
  PROVE  CatalogInv'
<1>1. PICK n \in AliasNames, t \in Names, on \in BOOLEAN :
        /\ aliases[n] # NoRow
        /\ Becomes(h, [Idle EXCEPT !.at = "check name", !.id = aliases[n].id,
                                   !.alias = n, !.target = t, !.on = on])
  BY DEF PatchAlias
<1> DEFINE y == [Idle EXCEPT !.at = "check name", !.id = aliases[n].id,
                             !.alias = n, !.target = t, !.on = on]
<1>a. aliases[n].id \in 0..MaxAliases
  BY <1>1, CatalogAssumption DEF CatalogInv, CatalogTypeOK, AliasRow
<1>2. TaskOK(y) /\ y.at = "check name" /\ y.model = NoRow
  BY <1>a, IdleTask DEF TaskOK, Task, Places
<1>3. NoRow \notin off /\ task[h].at = "idle" /\ asked' \in 0..MaxAsked
  BY CatalogAssumption DEF PatchAlias, Asked, At, CatalogInv, CatalogTypeOK
<1>4. Becomes(h, y)
  BY <1>1
<1> HIDE DEF y
<1> QED
  BY <1>2, <1>3, <1>4, OnlyLocals DEF PatchAlias

LEMMA CheckCatalog ==
  ASSUME CatalogInv, NEW h \in Handlers, CheckName(h) \/ CheckTarget(h)
  PROVE  CatalogInv'
<1>1. TaskOK(task[h]) /\ task[h].at \in {"check name", "check target"}
      /\ (task[h].on => task[h].model \notin off) /\ asked' \in 0..MaxAsked
      /\ UNCHANGED <<tables, extra, view, loader, client, history>>
  BY DEF CatalogInv, LocalsOK, OffStands, CatalogTypeOK, CheckName, CheckTarget, At
<1> DEFINE y(place) == [task[h] EXCEPT !.at = place]
<1>2. \A place \in {"check target", "save"} :
        TaskOK(y(place)) /\ y(place).at = place /\ y(place).on = task[h].on
        /\ y(place).model = task[h].model
  BY <1>1 DEF TaskOK, Task, Places
<1>3. Becomes(h, Idle) \/ \E place \in {"check target", "save"} : Becomes(h, y(place))
  BY DEF CheckName, CheckTarget, Ends, Goes
<1> HIDE DEF y
<1>4. CASE Becomes(h, Idle)
  BY <1>1, <1>4, IdleTask, OnlyLocals
<1>5. ASSUME NEW place \in {"check target", "save"}, Becomes(h, y(place))
      PROVE  CatalogInv'
  BY <1>1, <1>2, <1>5, OnlyLocals
<1> QED
  BY <1>3, <1>4, <1>5

LEMMA InsertAliasCatalog ==
  ASSUME CatalogInv, NEW h \in Handlers, InsertAlias(h)
  PROVE  CatalogInv'
<1> DEFINE y == [task[h] EXCEPT !.at = "drop"]
<1>1. TaskOK(task[h]) /\ task[h].at = "save" /\ (task[h].on => task[h].model \notin off)
      /\ task[h].alias \in AliasNames /\ task[h].target \in Names
  BY DEF CatalogInv, LocalsOK, OffStands, InsertAlias, At, TaskOK
<1>2. TaskOK(y) /\ y.at = "drop" /\ y.on = task[h].on /\ y.model = task[h].model
  BY <1>1 DEF TaskOK, Task, Places
<1>3. CASE aliases[task[h].alias] # NoRow
  <2>1. /\ Becomes(h, Idle) /\ asked' \in 0..MaxAsked
        /\ UNCHANGED <<tables, extra, view, loader, client, history>>
    BY <1>3 DEF InsertAlias, Ends, CatalogInv, CatalogTypeOK, tables
  <2> QED
    BY <1>1, <2>1, IdleTask, OnlyLocals
<1>4. CASE aliases[task[h].alias] = NoRow
  <2>1. Becomes(h, y)
    BY <1>4 DEF InsertAlias, Goes
  <2>2. lastId' = lastId + 1 /\ lastId' \in 1..MaxAliases
    BY <1>4, CatalogAssumption DEF InsertAlias, CatalogInv, CatalogTypeOK
  <2>3. aliases' = [aliases EXCEPT ![task[h].alias] =
                      [id |-> lastId', target |-> task[h].target, enabled |-> TRUE]]
    BY <1>4 DEF InsertAlias
  <2>4. aliases' \in [AliasNames -> AliasRow \cup {NoRow}]
    <3>1. [id |-> lastId', target |-> task[h].target, enabled |-> TRUE] \in AliasRow
      BY <2>2, <1>1 DEF AliasRow
    <3> QED
      BY <2>3, <3>1, <1>1 DEF CatalogInv, CatalogTypeOK
  <2>5. /\ models' \in [Names -> Listing] /\ disabled' \subseteq Names /\ off \subseteq disabled'
        /\ models' = models /\ listed' = listed
        /\ asked' \in 0..MaxAsked /\ listed' \in BOOLEAN
        /\ UNCHANGED <<extra, view, loader, client, off, missed>>
    BY DEF CatalogInv, CatalogTypeOK, LocalsOK, OffStands, InsertAlias, history
  <2>6. FreeModelsKept'
    BY <2>5 DEF CatalogInv, FreeModelsKept, IsFree
  <2>7. lastId' \in 0..MaxAliases
    BY <2>2
  <2> HIDE DEF y
  <2> QED
    BY <1>2, <2>1, <2>4, <2>5, <2>6, <2>7, OneStatement
<1> QED
  BY <1>3, <1>4

LEMMA UpdateAliasCatalog ==
  ASSUME CatalogInv, NEW h \in Handlers, UpdateAlias(h)
  PROVE  CatalogInv'
<1> DEFINE y == [task[h] EXCEPT !.at = "drop"]
<1>1. TaskOK(task[h]) /\ task[h].at = "save" /\ (task[h].on => task[h].model \notin off)
      /\ task[h].alias \in AliasNames /\ task[h].target \in Names /\ task[h].on \in BOOLEAN
  BY DEF CatalogInv, LocalsOK, OffStands, UpdateAlias, At, TaskOK, Task
<1>2. TaskOK(y) /\ y.at = "drop" /\ y.on = task[h].on /\ y.model = task[h].model
  BY <1>1 DEF TaskOK, Task, Places
<1>3. Becomes(h, y)
  BY DEF UpdateAlias, Goes
<1>4. aliases' \in [AliasNames -> AliasRow \cup {NoRow}]
  <2>1. \A n \in AliasNames : aliases[n] # NoRow =>
          [aliases[n] EXCEPT !.target = task[h].target, !.enabled = task[h].on] \in AliasRow
    BY <1>1 DEF CatalogInv, CatalogTypeOK, AliasRow
  <2> QED
    BY <2>1 DEF UpdateAlias, CatalogInv, CatalogTypeOK
<1>5. /\ models' \in [Names -> Listing] /\ disabled' \subseteq Names /\ off \subseteq disabled'
      /\ models' = models /\ listed' = listed /\ lastId' \in 0..MaxAliases
      /\ asked' \in 0..MaxAsked /\ listed' \in BOOLEAN
      /\ UNCHANGED <<extra, view, loader, client, off, missed>>
  BY DEF CatalogInv, CatalogTypeOK, LocalsOK, OffStands, UpdateAlias, history
<1>6. FreeModelsKept'
  BY <1>5 DEF CatalogInv, FreeModelsKept, IsFree
<1> HIDE DEF y
<1> QED
  BY <1>2, <1>3, <1>4, <1>5, <1>6, OneStatement

LEMMA DeleteAliasCatalog ==
  ASSUME CatalogInv, NEW h \in Handlers, DeleteAlias(h)
  PROVE  CatalogInv'
<1> DEFINE y == [task[h] EXCEPT !.at = "drop"]
<1>1. TaskOK(task[h])
  BY DEF CatalogInv, LocalsOK
<1>2. TaskOK(y) /\ y.at = "drop" /\ y.on = task[h].on /\ y.model = task[h].model
  BY <1>1 DEF TaskOK, Task, Places
<1>3. Becomes(h, y)
  BY DEF DeleteAlias, Goes
<1>4. aliases' \in [AliasNames -> AliasRow \cup {NoRow}]
  BY DEF DeleteAlias, CatalogInv, CatalogTypeOK
<1>5. /\ models' \in [Names -> Listing] /\ disabled' \subseteq Names /\ off \subseteq disabled'
      /\ models' = models /\ listed' = listed /\ lastId' \in 0..MaxAliases
      /\ listed' \in BOOLEAN
      /\ UNCHANGED <<extra, view, loader, client, off, missed>>
  BY DEF CatalogInv, CatalogTypeOK, LocalsOK, OffStands, DeleteAlias, history
<1>6. FreeModelsKept'
  BY <1>5 DEF CatalogInv, FreeModelsKept, IsFree
<1>7. asked' \in 0..MaxAsked
  BY CatalogAssumption DEF DeleteAlias, Asked, CatalogInv, CatalogTypeOK
<1> HIDE DEF y
<1> QED
  BY <1>2, <1>3, <1>4, <1>5, <1>6, <1>7, OneStatement

\* The view is gone and nobody loads one: nothing can contradict what the
\* handler is about to promise, and nobody is about to switch the model on.
LEMMA DropCatalog ==
  ASSUME CatalogInv, NEW h \in Handlers, Drop(h)
  PROVE  CatalogInv'
<1>1. /\ view' = NoView /\ missed' = FALSE /\ loader = Nobody /\ Becomes(h, Idle)
      /\ UNCHANGED <<tables, extra, loader, client, asked, listed>>
      /\ off' = off \cup {d \in disabled \cap {task[h].model} :
                           ~task[h].on /\ \A g \in Handlers : task[g].model = d => ~task[g].on}
  BY DEF Drop, Ends
<1>2. off' \subseteq disabled /\ \A g \in Handlers : task[g].on => task[g].model \notin off'
  BY <1>1 DEF CatalogInv, OffStands
<1>3. /\ task' \in [Handlers -> Task]
      /\ \A g \in Handlers : TaskOK(task'[g])
      /\ \A g \in Handlers : task'[g] = IF g = h THEN Idle ELSE task[g]
  BY <1>1, OneCatalogTask, IdleTask DEF CatalogInv, LocalsOK
<1>4. \A c \in Clients : client[c].at # "aliases"
  BY <1>1, CatalogAssumption DEF CatalogInv, CatalogTypeOK
<1>5. UNCHANGED <<models, disabled, aliases, lastId>>
  BY <1>1 DEF tables
<1>6. CatalogTypeOK'
  BY <1>1, <1>2, <1>5 DEF CatalogInv, CatalogTypeOK
<1>7. LocalsOK'
  BY <1>1, <1>3 DEF CatalogInv, LocalsOK
<1>8. ViewAgrees' /\ LoadAgrees'
  BY <1>1, <1>4 DEF ViewAgrees, LoadAgrees
<1>9. FreeModelsKept'
  BY <1>1, <1>5 DEF CatalogInv, FreeModelsKept, IsFree
<1>10. OffStands'
  BY <1>1, <1>2, <1>3, <1>4, <1>5, IdleTask DEF OffStands, ViewOff, LoadOff
<1> QED
  BY <1>6, <1>7, <1>8, <1>9, <1>10 DEF CatalogInv

\* And a client's its own.
LEMMA OneClient ==
  ASSUME client \in [Clients -> Client], \A b \in Clients : ClientOK(client[b]),
         NEW c \in Clients, NEW y, ClientOK(y), Becoming(c, y)
  PROVE  /\ client' \in [Clients -> Client]
         /\ \A b \in Clients : ClientOK(client'[b])
         /\ \A b \in Clients : client'[b] = IF b = c THEN y ELSE client[b]
<1>1. y \in Client
  BY DEF ClientOK
<1>2. \A b \in Clients : client'[b] = IF b = c THEN y ELSE client[b]
  BY DEF Becoming
<1> QED
  BY <1>1, <1>2 DEF Becoming

LEMMA ClientCatalog ==
  ASSUME CatalogInv, NEW c \in Clients, Resolve(c)
  PROVE  CatalogInv'
<1>0. /\ client \in [Clients -> Client] /\ (\A b \in Clients : ClientOK(client[b]))
      /\ UNCHANGED <<models, disabled, aliases, lastId, extra, task, asked, off, missed, listed>>
  BY DEF CatalogInv, LocalsOK, Resolve, UseView, LoadModels, LoadAliases, Decide, tables,
     history
<1>1. /\ Offered' = Offered /\ Targets' = Targets /\ Pending' = Pending
      /\ Offered \in [Names -> Switch] /\ Targets \in [AliasNames -> Names \cup {NoRow}]
      /\ \A m \in off : Offered[m] # "on"
  <2>1. Offered' = Offered /\ Targets' = Targets /\ Pending' = Pending
    BY <1>0 DEF Offered, Targets, IsFree, Pending
  <2>2. Offered \in [Names -> Switch] /\ \A m \in off : Offered[m] # "on"
    BY DEF Offered, Switch, CatalogInv, OffStands, CatalogTypeOK
  <2>3. Targets \in [AliasNames -> Names \cup {NoRow}]
    BY DEF Targets, CatalogInv, CatalogTypeOK, AliasRow
  <2> QED
    BY <2>1, <2>2, <2>3
<1>2. FreeModelsKept'
  BY <1>0 DEF CatalogInv, FreeModelsKept, IsFree
<1>3. UseView(c) \/ Decide(c) =>
        /\ view' = view /\ loader' = loader /\ client[c].at # "aliases"
        /\ \E y : ClientOK(y) /\ y.at # "aliases" /\ Becoming(c, y)
  <2>1. ASSUME UseView(c)
        PROVE  ClientOK([at |-> "decide", view |-> view, off |-> off])
    BY <2>1 DEF UseView, ClientOK, Client, CatalogInv, CatalogTypeOK, LocalsOK, OffStands,
       ViewOff
  <2>2. ClientOK(Waiting)
    BY DEF Waiting, Client, ClientOK
  <2>3. ASSUME UseView(c)
        PROVE  Becoming(c, [at |-> "decide", view |-> view, off |-> off]) 
               /\ view' = view /\ loader' = loader /\ client[c].at = "idle"
    BY <2>3 DEF UseView
  <2>4. ASSUME Decide(c)
        PROVE  Becoming(c, Waiting) /\ view' = view /\ loader' = loader /\ client[c].at = "decide"
    BY <2>4 DEF Decide
  <2>5. Waiting.at = "idle"
    BY DEF Waiting
  <2> QED
    BY <2>1, <2>2, <2>3, <2>4, <2>5
<1>4. CASE UseView(c) \/ Decide(c)
  <2>1. PICK y : ClientOK(y) /\ y.at # "aliases" /\ Becoming(c, y)
    BY <1>3, <1>4
  <2>2. /\ client' \in [Clients -> Client]
        /\ \A b \in Clients : ClientOK(client'[b])
        /\ \A b \in Clients : client'[b] = IF b = c THEN y ELSE client[b]
    BY <1>0, <2>1, OneClient
  <2>3. view' = view /\ loader' = loader /\ client[c].at # "aliases"
    BY <1>3, <1>4
  <2>4. \A b \in Clients : client'[b].at = "aliases" <=> client[b].at = "aliases"
    BY <2>1, <2>2, <2>3
  <2>5. \A b \in Clients : client'[b].at = "aliases" => client'[b] = client[b]
    BY <2>1, <2>2
  <2>6. CatalogTypeOK'
    BY <1>0, <2>3, <2>4 DEF CatalogInv, CatalogTypeOK
  <2>7. LocalsOK'
    BY <1>0, <2>2, <2>3 DEF CatalogInv, LocalsOK
  <2>8. ViewAgrees'
    BY <1>0, <1>1, <2>3 DEF CatalogInv, ViewAgrees
  <2>9. LoadAgrees'
    BY <1>0, <1>1, <2>4, <2>5 DEF CatalogInv, LoadAgrees
  <2>10. OffStands'
    BY <1>0, <2>3, <2>4, <2>5 DEF CatalogInv, OffStands, ViewOff, LoadOff
  <2> QED
    BY <1>2, <2>6, <2>7, <2>8, <2>9, <2>10 DEF CatalogInv
<1>5. CASE LoadModels(c)
  <2> DEFINE y == [at |-> "aliases", view |-> [models |-> Offered], off |-> off]
  <2>1. ClientOK(y) /\ y.at = "aliases" /\ y.view.models = Offered
    BY <1>1 DEF ClientOK, Client, HalfView, FullView, CatalogInv, CatalogTypeOK
  <2>2. Becoming(c, y) /\ loader = Nobody /\ loader' = c /\ view = NoView /\ view' = view
    BY <1>5 DEF LoadModels
  <2> HIDE DEF y
  <2>3. /\ client' \in [Clients -> Client]
        /\ \A b \in Clients : ClientOK(client'[b])
        /\ \A b \in Clients : client'[b] = IF b = c THEN y ELSE client[b]
    BY <1>0, <2>1, <2>2, OneClient
  <2>4. \A b \in Clients : client[b].at # "aliases"
    BY <2>2, CatalogAssumption DEF CatalogInv, CatalogTypeOK
  <2>5. \A b \in Clients : client'[b].at = "aliases" <=> b = c
    BY <2>1, <2>3, <2>4
  <2>6. CatalogTypeOK'
    BY <1>0, <2>2, <2>5 DEF CatalogInv, CatalogTypeOK
  <2>7. LocalsOK'
    BY <1>0, <2>2, <2>3 DEF CatalogInv, LocalsOK
  <2>8. ViewAgrees'
    BY <2>2 DEF ViewAgrees
  <2>9. LoadAgrees'
    BY <1>1, <2>1, <2>3, <2>5 DEF LoadAgrees
  <2>10. OffStands'
    BY <1>0, <1>1, <2>1, <2>2, <2>3, <2>5 DEF CatalogInv, OffStands, ViewOff, LoadOff
  <2> QED
    BY <1>2, <2>6, <2>7, <2>8, <2>9, <2>10 DEF CatalogInv
<1>6. CASE LoadAliases(c)
  <2>1. /\ client[c].at = "aliases" /\ loader' = Nobody
        /\ view' = [models |-> client[c].view.models, aliases |-> Targets]
        /\ Becoming(c, [client[c] EXCEPT !.at = "decide", !.view = view'])
    BY <1>6 DEF LoadAliases
  <2>2. client[c] \in Client /\ client[c].view \in HalfView
        /\ (\A m \in client[c].off : client[c].view.models[m] # "on")
        /\ (\A m \in off : client[c].view.models[m] # "on")
    BY <1>0, <2>1 DEF ClientOK, CatalogInv, OffStands, LoadOff
  <2>3. view' \in FullView /\ view'.models = client[c].view.models /\ view'.aliases = Targets
    BY <1>1, <2>1, <2>2 DEF HalfView, FullView
  <2> DEFINE y == [client[c] EXCEPT !.at = "decide", !.view = view']
  <2>4. y \in Client /\ y.at = "decide" /\ y.view = view' /\ y.off = client[c].off
    BY <2>2, <2>3 DEF Client
  <2> HIDE DEF y
  <2>5. ClientOK(y)
    BY <2>2, <2>3, <2>4 DEF ClientOK
  <2>6. Becoming(c, y)
    BY <2>1 DEF y
  <2>7. /\ client' \in [Clients -> Client]
        /\ \A b \in Clients : ClientOK(client'[b])
        /\ \A b \in Clients : client'[b] = IF b = c THEN y ELSE client[b]
    BY <1>0, <2>5, <2>6, OneClient
  <2>8. \A b \in Clients : client'[b].at # "aliases"
    BY <2>1, <2>4, <2>7 DEF CatalogInv, CatalogTypeOK
  <2>9. CatalogTypeOK'
    BY <1>0, <2>1, <2>8, CatalogAssumption DEF CatalogInv, CatalogTypeOK
  <2>10. LocalsOK'
    BY <1>0, <2>3, <2>7 DEF CatalogInv, LocalsOK
  <2>11. ViewAgrees'
    <3>1. ~missed /\ ~Pending => client[c].view.models = Offered
      BY <2>1 DEF CatalogInv, LoadAgrees
    <3>2. (\A h \in Handlers : task'[h].at \notin {"metadata", "drop"}) => ~Pending
      BY <1>0 DEF Pending
    <3> QED
      BY <1>0, <1>1, <2>1, <3>1, <3>2 DEF ViewAgrees
  <2>12. LoadAgrees' /\ OffStands'
    BY <1>0, <2>2, <2>3, <2>8 DEF CatalogInv, LoadAgrees, OffStands, ViewOff, LoadOff
  <2> QED
    BY <1>2, <2>9, <2>10, <2>11, <2>12 DEF CatalogInv
<1> QED
  BY <1>4, <1>5, <1>6 DEF Resolve

LEMMA StepCatalog == CatalogInv /\ [CatalogNext]_catalog => CatalogInv'
<1> SUFFICES ASSUME CatalogInv, [CatalogNext]_catalog PROVE CatalogInv'
  OBVIOUS
<1>1. ASSUME NEW h \in Handlers, Handle(h)
      PROVE  CatalogInv'
  BY <1>1, FetchCatalog, ClassifyCatalog, CommitCatalog, RollBackCatalog, MetadataCatalog,
     PolicyReadCatalog, PolicyWriteCatalog, CreateAliasCatalog, PatchAliasCatalog, CheckCatalog,
     InsertAliasCatalog, UpdateAliasCatalog, DeleteAliasCatalog, DropCatalog DEF Handle
<1>2. CASE UNCHANGED catalog
  BY <1>2 DEF catalog, tables, history, CatalogInv, CatalogTypeOK, LocalsOK, ViewAgrees,
     LoadAgrees, FreeModelsKept,
     OffStands, ViewOff, LoadOff, Pending, Offered, Targets, IsFree
<1> QED
  BY <1>1, <1>2, PutExtraCatalog, ClientCatalog DEF CatalogNext

LEMMA CatalogInvariance == CatalogSpec => []CatalogInv
BY InitCatalog, StepCatalog, PTL DEF CatalogSpec

\* At rest the cached view is what the three tables say, though it is read in
\* two statements, and a refresh never leaves the gateway without a free model:
\* for any number of models, aliases, handlers and clients.
THEOREM CatalogIsSafe == CatalogSpec => []CatalogHolds
<1>1. CatalogInv => CatalogHolds
  BY DEF CatalogInv, CatalogHolds
<1> QED
  BY <1>1, CatalogInvariance, PTL

\* A request that comes after a model was switched off is never served by it,
\* by its name or by an alias, until somebody switches it on.
THEOREM CatalogKeepsOff == CatalogSpec => []DisabledStaysOff
<1>1. CatalogInv => DisabledStaysOff
  <2> SUFFICES ASSUME CatalogInv, NEW c \in Clients, NEW name \in Names, client[c].at = "decide"
               PROVE  Resolved(client[c].view, name) \notin client[c].off
    BY DEF DisabledStaysOff
  <2>1. client[c] \in Client /\ ClientOK(client[c])
    BY DEF CatalogInv, LocalsOK
  <2>2. client[c].view \in FullView /\ client[c].off \subseteq Names
        /\ \A m \in client[c].off : client[c].view.models[m] # "on"
    BY <2>1 DEF ClientOK, Client
  <2> QED
    BY <2>2, CatalogAssumption DEF Resolved
<1> QED
  BY <1>1, CatalogInvariance, PTL
=============================================================================
