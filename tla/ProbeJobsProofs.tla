-------------------------- MODULE ProbeJobsProofs --------------------------
(***************************************************************************)
(* The safety of probe jobs, for any jobs, proxies, readers, slots, lost    *)
(* transactions and restarts. What holds of a job relates its row, its      *)
(* results and its goroutines, and no step touches two of the jobs but the  *)
(* janitor's and the restart; so the invariant is one of each job, and of   *)
(* what each reader has read of one.                                       *)
(***************************************************************************)
EXTENDS ProbeJobs, FiniteSetTheorems, TLAPS

Busy == {"waits", "probes", "probed"}

\* The row b of a job with results S, creator at c and proxies L.
RowOK(b, S, c, L) ==
  /\ L # {} /\ S \subseteq L
  /\ b.completed = Cardinality(S) /\ b.total = Cardinality(L)
  /\ b.status = "completed" <=> S = L
  /\ b.status = "running" => c \in {"saved", "launched"}
  /\ b.status = "interrupted" => c = "dead"

\* Its goroutines w; a goroutine that is busy has no result yet, and one that
\* is done has, or it is among the lost l.
WorkOK(b, S, L, w, l) ==
  \A p \in Proxies :
    /\ w[p] # "none" <=> p \in L
    /\ w[p] \in Busy => p \notin S
    /\ b # NoJob /\ w[p] = "done" => p \in S \cup l

JobOK(b, S, c, L, w, l) ==
  /\ c \in {"new", "loaded"} => b = NoJob
  /\ c \in {"new", "loaded", "saved"} => S = {}
  /\ c \in {"loaded", "saved", "launched"} => L # {}
  /\ IF c = "launched" THEN WorkOK(b, S, L, w, l) ELSE w = NoWorkers
  /\ b # NoJob => RowOK(b, S, c, L)

\* What a reader has read of the jobs b and their results S, with their creators
\* at c; its job may be gone by now, but no other has its id.
Report ==
  [at : {"asked"}, job : Jobs] \cup [at : {"read"}, job : Jobs, row : Job]
  \cup [at : {"answered"}, job : Jobs, row : Job, results : SUBSET Proxies]

ReportOK(x, c, b, S) ==
  /\ x \in Report
  /\ x.at \in {"read", "answered"} => c[x.job] \notin {"new", "loaded"}
  /\ x.at = "read" /\ b[x.job] # NoJob => x.row.completed <= Cardinality(S[x.job])
  /\ x.at = "answered" /\ b[x.job] # NoJob => x.row.completed <= Cardinality(x.results)

JobsOK == \A j \in Jobs : JobOK(jobs[j], results[j], pc[j], list[j], worker[j], lost[j])
ReportsOK == \A r \in Readers : report[r] = NoReport \/ ReportOK(report[r], pc, jobs, results)

ReadOK == report \in [Readers -> Report \cup {NoReport}] /\ ReportsOK

IInv == TypeOK /\ JobsOK /\ ReadOK

----------------------------------------------------------------------------
(* Operators. *)

LEMMA Finite ==
  ASSUME NEW S \in SUBSET Proxies
  PROVE  IsFiniteSet(S) /\ Cardinality(S) \in Nat
BY FS_Subset, FS_CardinalityType, JobsAssumption

\* More results are counted as more, and as many as there can be are all.
LEMMA Fewer ==
  ASSUME NEW T \in SUBSET Proxies, NEW S \in SUBSET T
  PROVE  Cardinality(S) <= Cardinality(T) /\ (Cardinality(S) = Cardinality(T) => S = T)
BY FS_Subset, Finite

LEMMA NoJobIsNone == NoJob \notin Job
BY JobsAssumption DEF Job

\* A row as it is inserted.
LEMMA NewRow ==
  ASSUME NEW j \in Jobs, list[j] \in SUBSET Proxies, list[j] # {}
  PROVE  NewJob(j) \in Job /\ RowOK(NewJob(j), {}, "saved", list[j])
<1>1. Cardinality(list[j]) \in Nat /\ Cardinality({}) = 0
  BY Finite, FS_EmptySet
<1> QED
  BY <1>1 DEF NewJob, Job, RowOK

\* The count and the status follow one more result.
LEMMA OneMore ==
  ASSUME NEW b \in Job, NEW L \in SUBSET Proxies, NEW S, NEW p \in L \ S,
         RowOK(b, S, "launched", L)
  PROVE  Counted(b) \in Job /\ RowOK(Counted(b), S \cup {p}, "launched", L)
<1>1. S \in SUBSET Proxies /\ S \in SUBSET L /\ S \cup {p} \in SUBSET L
  BY DEF RowOK
<1>2. Cardinality(S \cup {p}) = Cardinality(S) + 1 /\ Cardinality(S) \in Nat
  BY <1>1, Finite, FS_AddElement
<1>3. Cardinality(S \cup {p}) <= Cardinality(L) /\ Cardinality(L) \in Nat
      /\ (Cardinality(S \cup {p}) = Cardinality(L) => S \cup {p} = L)
  BY <1>1, Fewer, Finite
<1>4. b.status = "running" /\ b.completed = Cardinality(S) /\ b.total = Cardinality(L)
  BY DEF RowOK, Job
<1>5. b # NoJob
  BY NoJobIsNone
<1>6. IsLast(b) <=> S \cup {p} = L
  BY <1>2, <1>3, <1>4 DEF IsLast
<1> DEFINE e == IF IsLast(b) THEN "completed" ELSE "running"
<1>7. Counted(b) = [b EXCEPT !.completed = b.completed + 1, !.status = e]
  BY <1>4, <1>5 DEF Counted
<1>8. b.completed + 1 \in Nat /\ e \in {"completed", "running"}
  BY <1>2, <1>4
<1>9. Counted(b) \in Job
  BY <1>7, <1>8, Zenon DEF Job
<1>10. /\ Counted(b).completed = b.completed + 1 /\ Counted(b).total = b.total
       /\ Counted(b).status = e
  BY <1>7 DEF Job
<1> QED
  BY <1>1, <1>2, <1>4, <1>6, <1>9, <1>10 DEF RowOK

----------------------------------------------------------------------------
(* Jobs. *)

\* A step that changes nothing of any job but j keeps the others as they are.
LEMMA OthersKept ==
  ASSUME JobsOK, NEW j \in Jobs,
         JobOK(jobs'[j], results'[j], pc'[j], list'[j], worker'[j], lost'[j]),
         \A k \in Jobs \ {j} :
           <<jobs'[k], results'[k], pc'[k], list'[k], worker'[k], lost'[k]>>
           = <<jobs[k], results[k], pc[k], list[k], worker[k], lost[k]>>
  PROVE  JobsOK'
BY DEF JobsOK

\* The creator has loaded its proxies.
LEMMA SelectStep ==
  ASSUME TypeOK, JobsOK, NEW j \in Jobs, Request(j) \/ Schedule(j)
  PROVE  TypeOK' /\ JobsOK'
<1>1. PICK L \in SUBSET Proxies : L # {} /\ list' = [list EXCEPT ![j] = L]
  <2>1. CASE Request(j)
    <3>1. PICK ids \in SUBSET Proxies : list' = [list EXCEPT ![j] = Selected(ids)]
      BY <2>1 DEF Request
    <3>2. Selected(ids) \in SUBSET Proxies /\ Selected(ids) # {}
      BY JobsAssumption DEF Selected
    <3> QED
      BY <3>1, <3>2
  <2>2. CASE Schedule(j)
    BY <2>2, JobsAssumption DEF Schedule, Selected
  <2> QED
    BY <2>1, <2>2
<1>2. /\ pc[j] = "new" /\ pc' = [pc EXCEPT ![j] = "loaded"]
      /\ UNCHANGED <<table, enabled, worker, report, janitor, restarts, lost>>
  BY DEF Request, Schedule
<1>3. TypeOK'
  BY <1>1, <1>2 DEF TypeOK, table
<1>4. JobOK(jobs[j], results[j], "new", list[j], worker[j], lost[j])
  BY <1>2 DEF JobsOK
<1>5. JobOK(jobs[j], results[j], "loaded", L, worker[j], lost[j])
  BY <1>1, <1>4 DEF JobOK
<1>6. JobsOK'
  BY <1>1, <1>2, <1>5, OthersKept DEF TypeOK, table
<1> QED
  BY <1>3, <1>6

\* The row is inserted.
LEMMA AddStep ==
  ASSUME TypeOK, JobsOK, NEW j \in Jobs, Add(j)
  PROVE  TypeOK' /\ JobsOK'
<1>1. /\ pc[j] = "loaded" /\ pc' = [pc EXCEPT ![j] = "saved"]
      /\ jobs' = [jobs EXCEPT ![j] = NewJob(j)]
      /\ UNCHANGED <<results, enabled, list, worker, report, janitor, restarts, lost>>
  BY DEF Add
<1>2. JobOK(jobs[j], results[j], "loaded", list[j], worker[j], lost[j])
  BY <1>1 DEF JobsOK
<1>3. list[j] \in SUBSET Proxies /\ list[j] # {} /\ results[j] = {} /\ worker[j] = NoWorkers
  BY <1>2 DEF JobOK, TypeOK
<1>4. NewJob(j) \in Job /\ RowOK(NewJob(j), {}, "saved", list[j])
  BY <1>3, NewRow
<1>5. TypeOK'
  BY <1>1, <1>4 DEF TypeOK
<1>6. JobOK(NewJob(j), results[j], "saved", list[j], worker[j], lost[j])
  BY <1>3, <1>4, NoJobIsNone DEF JobOK
<1>7. JobsOK'
  BY <1>1, <1>6, OthersKept DEF TypeOK
<1> QED
  BY <1>5, <1>7

\* A goroutine waits for each proxy, none has a result.
LEMMA LaunchStep ==
  ASSUME TypeOK, JobsOK, NEW j \in Jobs, Launch(j)
  PROVE  TypeOK' /\ JobsOK'
<1> DEFINE w == [p \in Proxies |-> IF p \in list[j] THEN "waits" ELSE "none"]
<1>1. /\ pc[j] = "saved" /\ pc' = [pc EXCEPT ![j] = "launched"]
      /\ worker' = [worker EXCEPT ![j] = w]
      /\ UNCHANGED <<table, enabled, list, report, janitor, restarts, lost>>
  BY DEF Launch
<1>2. JobOK(jobs[j], results[j], "saved", list[j], worker[j], lost[j])
  BY <1>1 DEF JobsOK
<1>3. TypeOK'
  BY <1>1 DEF TypeOK, table
<1>4. WorkOK(jobs[j], results[j], list[j], w, lost[j])
  BY <1>2 DEF JobOK, WorkOK
<1>5. jobs[j] # NoJob => RowOK(jobs[j], results[j], "launched", list[j])
  BY <1>2 DEF JobOK, RowOK
<1> HIDE DEF w
<1>6. JobOK(jobs[j], results[j], "launched", list[j], w, lost[j])
  BY <1>2, <1>4, <1>5 DEF JobOK
<1>7. JobsOK'
  BY <1>1, <1>6, OthersKept DEF TypeOK, table
<1> QED
  BY <1>3, <1>7

\* The goroutines of a job that has any are known.
LEMMA Working ==
  ASSUME TypeOK, JobsOK, NEW j \in Jobs, NEW p \in Proxies, worker[j][p] # "none"
  PROVE  pc[j] = "launched" /\ WorkOK(jobs[j], results[j], list[j], worker[j], lost[j])
BY DEF JobsOK, JobOK, NoWorkers

\* A goroutine gets a slot, or has probed.
LEMMA ProbeStep ==
  ASSUME TypeOK, JobsOK, NEW j \in Jobs, NEW p \in Proxies, Acquire(j, p) \/ Probe(j, p)
  PROVE  TypeOK' /\ JobsOK'
<1>1. PICK to \in {"probes", "probed"} :
        /\ worker[j][p] \in {"waits", "probes"} /\ Move(j, p, to)
        /\ UNCHANGED <<table, enabled, pc, list, report, janitor, restarts, lost>>
  BY DEF Acquire, Probe
<1> DEFINE w == [worker[j] EXCEPT ![p] = to]
<1>2. worker' = [worker EXCEPT ![j] = w]
  BY <1>1 DEF Move
<1>3. w \in [Proxies -> {"none", "waits", "probes", "probed", "done"}]
      /\ w[p] = to /\ \A k \in Proxies \ {p} : w[k] = worker[j][k]
  BY DEF TypeOK
<1>4. pc[j] = "launched" /\ WorkOK(jobs[j], results[j], list[j], worker[j], lost[j])
  BY <1>1, Working
<1> HIDE DEF w
<1>5. TypeOK'
  BY <1>1, <1>2, <1>3 DEF TypeOK, table
<1>6. WorkOK(jobs[j], results[j], list[j], w, lost[j])
  BY <1>1, <1>3, <1>4 DEF WorkOK, Busy
<1>7. JobOK(jobs[j], results[j], pc[j], list[j], worker[j], lost[j])
  BY DEF JobsOK
<1>8. JobOK(jobs[j], results[j], pc[j], list[j], w, lost[j])
  BY <1>4, <1>6, <1>7 DEF JobOK
<1>9. JobsOK'
  BY <1>1, <1>2, <1>8, OthersKept DEF TypeOK, table
<1> QED
  BY <1>5, <1>9

\* A result and its count, in one transaction.
LEMMA AppendStep ==
  ASSUME TypeOK, JobsOK, NEW j \in Jobs, NEW p \in Proxies, Append(j, p)
  PROVE  TypeOK' /\ JobsOK'
<1> DEFINE w == [worker[j] EXCEPT ![p] = "done"]
           S == results[j] \cup {p}
           b == Counted(jobs[j])
<1>1. /\ worker[j][p] = "probed"
      /\ results' = [results EXCEPT ![j] = S] /\ jobs' = [jobs EXCEPT ![j] = b]
      /\ worker' = [worker EXCEPT ![j] = w]
      /\ UNCHANGED <<enabled, pc, list, report, janitor, restarts, lost>>
  BY DEF Append, Move
<1>2. w \in [Proxies -> {"none", "waits", "probes", "probed", "done"}]
      /\ w[p] = "done" /\ \A k \in Proxies \ {p} : w[k] = worker[j][k]
  BY DEF TypeOK
<1>3. pc[j] = "launched" /\ WorkOK(jobs[j], results[j], list[j], worker[j], lost[j])
  BY <1>1, Working
<1>4. p \in list[j] \ results[j]
  BY <1>1, <1>3 DEF WorkOK, Busy
<1>5. JobOK(jobs[j], results[j], "launched", list[j], worker[j], lost[j])
  BY <1>3 DEF JobsOK
<1>6. IF jobs[j] = NoJob THEN b = NoJob ELSE b \in Job /\ RowOK(b, S, "launched", list[j])
  <2>1. CASE jobs[j] = NoJob
    BY <2>1 DEF Counted
  <2>2. CASE jobs[j] # NoJob
    <3>1. jobs[j] \in Job /\ list[j] \in SUBSET Proxies /\ RowOK(jobs[j], results[j], "launched", list[j])
      BY <1>5, <2>2 DEF JobOK, TypeOK
    <3> QED
      BY <1>4, <2>2, <3>1, OneMore, NoJobIsNone
  <2> QED
    BY <2>1, <2>2
<1> HIDE DEF w, b
<1>7. b \in Job \cup {NoJob} /\ S \in SUBSET Proxies
  BY <1>6 DEF TypeOK
<1>8. TypeOK'
  BY <1>1, <1>2, <1>7 DEF TypeOK
<1>9. WorkOK(b, S, list[j], w, lost[j])
  BY <1>2, <1>3, <1>4, <1>6 DEF WorkOK, Busy
<1>10. JobOK(b, S, "launched", list[j], w, lost[j])
  BY <1>5, <1>6, <1>9 DEF JobOK
<1>11. JobsOK'
  <2>1. /\ jobs'[j] = b /\ results'[j] = S /\ worker'[j] = w
        /\ pc'[j] = "launched" /\ list'[j] = list[j] /\ lost'[j] = lost[j]
    BY <1>1, <1>3 DEF TypeOK
  <2>2. JobOK(jobs'[j], results'[j], pc'[j], list'[j], worker'[j], lost'[j])
    BY <1>10, <2>1, Zenon
  <2>3. ASSUME NEW k \in Jobs \ {j}
        PROVE  jobs'[k] = jobs[k] /\ results'[k] = results[k] /\ worker'[k] = worker[k]
    BY <1>1 DEF TypeOK
  <2>4. UNCHANGED <<pc, list, lost>>
    BY <1>1
  <2> QED
    BY <2>2, <2>3, <2>4, OthersKept
<1> QED
  BY <1>8, <1>11

\* A transaction fails: nothing but the goroutine changes.
LEMMA FailStep ==
  ASSUME TypeOK, JobsOK, NEW j \in Jobs, NEW p \in Proxies, AppendFails(j, p)
  PROVE  TypeOK' /\ JobsOK'
<1> DEFINE w == [worker[j] EXCEPT ![p] = "done"]
           l == lost[j] \cup {p}
<1>1. /\ worker[j][p] = "probed"
      /\ results' = [results EXCEPT ![j] = results[j]] /\ lost' = [lost EXCEPT ![j] = l]
      /\ worker' = [worker EXCEPT ![j] = w]
      /\ UNCHANGED <<jobs, enabled, pc, list, report, janitor, restarts>>
  BY DEF AppendFails, Move, RolledBack
<1>2. w \in [Proxies -> {"none", "waits", "probes", "probed", "done"}]
      /\ w[p] = "done" /\ \A k \in Proxies \ {p} : w[k] = worker[j][k]
  BY DEF TypeOK
<1>3. pc[j] = "launched" /\ WorkOK(jobs[j], results[j], list[j], worker[j], lost[j])
  BY <1>1, Working
<1>4. JobOK(jobs[j], results[j], "launched", list[j], worker[j], lost[j])
  BY <1>3 DEF JobsOK
<1> HIDE DEF w
<1>5. TypeOK'
  BY <1>1, <1>2 DEF TypeOK
<1>6. WorkOK(jobs[j], results[j], list[j], w, l)
  BY <1>1, <1>2, <1>3 DEF WorkOK, Busy
<1>7. JobOK(jobs[j], results[j], "launched", list[j], w, l)
  BY <1>4, <1>6 DEF JobOK
<1>8. JobsOK'
  <2>1. /\ jobs'[j] = jobs[j] /\ results'[j] = results[j] /\ worker'[j] = w
        /\ pc'[j] = "launched" /\ list'[j] = list[j] /\ lost'[j] = l
    BY <1>1, <1>3 DEF TypeOK
  <2>2. JobOK(jobs'[j], results'[j], pc'[j], list'[j], worker'[j], lost'[j])
    BY <1>7, <2>1, Zenon
  <2>3. ASSUME NEW k \in Jobs \ {j}
        PROVE  results'[k] = results[k] /\ worker'[k] = worker[k] /\ lost'[k] = lost[k]
    BY <1>1 DEF TypeOK
  <2>4. UNCHANGED <<jobs, pc, list>>
    BY <1>1
  <2> QED
    BY <2>2, <2>3, <2>4, OthersKept
<1> QED
  BY <1>5, <1>8

\* Expiry is not seen but by the janitor.
LEMMA ExpireStep ==
  ASSUME TypeOK, JobsOK, NEW j \in Jobs, Expire(j)
  PROVE  TypeOK' /\ JobsOK'
<1> DEFINE b == [jobs[j] EXCEPT !.expired = TRUE]
<1>1. /\ jobs[j] # NoJob /\ jobs' = [jobs EXCEPT ![j] = b]
      /\ UNCHANGED <<results, enabled, pc, list, worker, report, janitor, restarts, lost>>
  BY DEF Expire
<1>2. jobs[j] \in Job
  BY <1>1 DEF TypeOK
<1>3. b \in Job /\ b.status = jobs[j].status /\ b.total = jobs[j].total
      /\ b.completed = jobs[j].completed
  BY <1>2 DEF Job
<1>4. JobOK(jobs[j], results[j], pc[j], list[j], worker[j], lost[j])
  BY DEF JobsOK
<1> HIDE DEF b
<1>5. TypeOK'
  BY <1>1, <1>3 DEF TypeOK
<1>6. RowOK(b, results[j], pc[j], list[j])
  BY <1>1, <1>3, <1>4 DEF JobOK, RowOK
<1>7. WorkOK(jobs[j], results[j], list[j], worker[j], lost[j])
      => WorkOK(b, results[j], list[j], worker[j], lost[j])
  BY <1>1 DEF WorkOK
<1>8. JobOK(b, results[j], pc[j], list[j], worker[j], lost[j])
  BY <1>1, <1>4, <1>6, <1>7 DEF JobOK
<1>9. JobsOK'
  BY <1>1, <1>8, OthersKept DEF TypeOK
<1> QED
  BY <1>5, <1>9

\* The janitor and the reports delete expired rows; the janitor, results without a row.
LEMMA DeleteStep ==
  ASSUME TypeOK, JobsOK, DeleteExpired,
         UNCHANGED <<results, enabled, pc, list, worker, lost, restarts>>,
         janitor' \in {"jobs", "results"}
  PROVE  TypeOK' /\ JobsOK'
<1>1. \A j \in Jobs : jobs'[j] = jobs[j] \/ jobs'[j] = NoJob
  BY DEF DeleteExpired
<1>2. TypeOK'
  BY DEF TypeOK, DeleteExpired
<1>3. ASSUME NEW j \in Jobs PROVE JobOK(jobs'[j], results[j], pc[j], list[j], worker[j], lost[j])
  <2>1. JobOK(jobs[j], results[j], pc[j], list[j], worker[j], lost[j])
    BY DEF JobsOK
  <2>2. JobOK(NoJob, results[j], pc[j], list[j], worker[j], lost[j])
    BY <2>1 DEF JobOK, WorkOK
  <2> QED
    BY <1>1, <2>1, <2>2
<1> QED
  BY <1>2, <1>3 DEF JobsOK

LEMMA CleanStep == TypeOK /\ JobsOK /\ JanitorResults => TypeOK' /\ JobsOK'
<1> SUFFICES ASSUME TypeOK, JobsOK, JanitorResults PROVE TypeOK' /\ JobsOK'
  OBVIOUS
<1>1. /\ results' = [j \in Jobs |-> IF Orphaned(j) THEN {} ELSE results[j]]
      /\ janitor' = "jobs"
      /\ UNCHANGED <<jobs, enabled, pc, list, worker, report, restarts, lost>>
  BY DEF JanitorResults
<1>2. TypeOK'
  BY <1>1 DEF TypeOK
<1>3. ASSUME NEW j \in Jobs PROVE JobOK(jobs[j], results'[j], pc[j], list[j], worker[j], lost[j])
  <2>1. JobOK(jobs[j], results[j], pc[j], list[j], worker[j], lost[j])
    BY DEF JobsOK
  <2>2. CASE jobs[j] = NoJob
    BY <1>1, <2>1, <2>2 DEF JobOK, WorkOK, Orphaned
  <2>3. CASE jobs[j] # NoJob
    BY <1>1, <2>1, <2>3 DEF Orphaned
  <2> QED
    BY <2>2, <2>3
<1> QED
  BY <1>1, <1>2, <1>3 DEF JobsOK

\* No job runs after a restart.
LEMMA RestartStep == TypeOK /\ JobsOK /\ Restart => TypeOK' /\ JobsOK'
<1> SUFFICES ASSUME TypeOK, JobsOK, Restart PROVE TypeOK' /\ JobsOK'
  OBVIOUS
<1>1. /\ restarts < MaxRestarts /\ restarts' = restarts + 1
      /\ jobs' = [j \in Jobs |-> Interrupted(jobs[j])]
      /\ pc' = [j \in Jobs |-> IF pc[j] = "new" THEN "new" ELSE "dead"]
      /\ worker' = [j \in Jobs |-> NoWorkers]
      /\ janitor' = "jobs"
      /\ UNCHANGED <<results, enabled, list, lost>>
  BY DEF Restart
<1>2. ASSUME NEW b \in Job
      PROVE  /\ Interrupted(b) \in Job
             /\ Interrupted(b).completed = b.completed /\ Interrupted(b).total = b.total
             /\ Interrupted(b).status = IF b.status = "running" THEN "interrupted" ELSE b.status
  BY NoJobIsNone DEF Interrupted, Job
<1>3. Interrupted(NoJob) = NoJob
  BY DEF Interrupted
<1>4. TypeOK'
  <2>1. jobs' \in [Jobs -> Job \cup {NoJob}]
    BY <1>1, <1>2, <1>3 DEF TypeOK
  <2>2. restarts' \in 0..MaxRestarts
    BY <1>1, JobsAssumption DEF TypeOK
  <2>3. worker' \in [Jobs -> [Proxies -> {"none", "waits", "probes", "probed", "done"}]]
    BY <1>1 DEF NoWorkers
  <2> QED
    BY <1>1, <2>1, <2>2, <2>3 DEF TypeOK
<1>5. ASSUME NEW j \in Jobs
      PROVE  JobOK(jobs'[j], results[j], pc'[j], list[j], worker'[j], lost[j])
  <2>1. JobOK(jobs[j], results[j], pc[j], list[j], worker[j], lost[j])
    BY DEF JobsOK
  <2>2. /\ jobs'[j] = Interrupted(jobs[j]) /\ worker'[j] = NoWorkers
        /\ pc'[j] = IF pc[j] = "new" THEN "new" ELSE "dead"
    BY <1>1
  <2>3. CASE jobs[j] = NoJob
    BY <2>1, <2>2, <2>3, <1>3 DEF JobOK
  <2>4. CASE jobs[j] # NoJob
    <3>1. jobs[j] \in Job /\ pc[j] # "new" /\ RowOK(jobs[j], results[j], pc[j], list[j])
      BY <2>1, <2>4 DEF JobOK, TypeOK
    <3>2. RowOK(jobs'[j], results[j], "dead", list[j])
      BY <1>2, <2>2, <3>1 DEF RowOK, Job
    <3> QED
      BY <2>1, <2>2, <3>1, <3>2 DEF JobOK
  <2> QED
    BY <2>3, <2>4
<1> QED
  BY <1>1, <1>4, <1>5 DEF JobsOK

----------------------------------------------------------------------------
(* Reports. *)

\* What a step may not take from a reader: a job does not come back, nor does a
\* job that is there lose results.
Unread ==
  /\ \A j \in Jobs : pc[j] \notin {"new", "loaded"} => pc'[j] \notin {"new", "loaded"}
  /\ \A j \in Jobs : jobs'[j] # NoJob /\ pc[j] \notin {"new", "loaded"} =>
                       jobs[j] # NoJob /\ results[j] \subseteq results'[j]

LEMMA ReportKept ==
  ASSUME TypeOK, TypeOK', Unread, NEW x, ReportOK(x, pc, jobs, results)
  PROVE  ReportOK(x, pc', jobs', results')
<1>1. x \in Report /\ x.job \in Jobs /\ (x.at = "read" => x.row \in Job)
  BY DEF ReportOK, Report
<1>2. CASE x.at = "asked"
  BY <1>1, <1>2 DEF ReportOK
<1>3. CASE x.at = "answered"
  BY <1>1, <1>3 DEF ReportOK, Unread
<1>4. CASE x.at = "read"
  <2>1. pc'[x.job] \notin {"new", "loaded"}
    BY <1>1, <1>4 DEF ReportOK, Unread
  <2>2. ASSUME jobs'[x.job] # NoJob PROVE x.row.completed <= Cardinality(results'[x.job])
    <3>1. x.row.completed <= Cardinality(results[x.job])
      BY <1>1, <1>4, <2>2 DEF ReportOK, Unread
    <3>2. results'[x.job] \in SUBSET Proxies /\ results[x.job] \in SUBSET results'[x.job]
      BY <1>1, <1>4, <2>2 DEF ReportOK, TypeOK, Unread
    <3>3. Cardinality(results[x.job]) <= Cardinality(results'[x.job])
      BY <3>2, Fewer
    <3>4. /\ Cardinality(results[x.job]) \in Nat /\ Cardinality(results'[x.job]) \in Nat
          /\ x.row.completed \in Nat
      BY <3>2, <1>1, <1>4, Finite DEF Job
    <3> QED
      BY <3>1, <3>3, <3>4
  <2> QED
    BY <1>1, <1>4, <2>1, <2>2 DEF ReportOK
<1> QED
  BY <1>1, <1>2, <1>3, <1>4 DEF Report

LEMMA UnreadKept ==
  ASSUME TypeOK, TypeOK', Unread, ReadOK, report' = report
  PROVE  ReadOK'
<1>1. ASSUME NEW r \in Readers, report[r] # NoReport PROVE ReportOK(report[r], pc', jobs', results')
  BY <1>1, ReportKept DEF ReadOK, ReportsOK
<1> QED
  BY <1>1 DEF ReadOK, ReportsOK

\* A reader's own step, with x for its report.
LEMMA ReaderKept ==
  ASSUME TypeOK, TypeOK', Unread, ReadOK, NEW r \in Readers, NEW x,
         x = NoReport \/ ReportOK(x, pc', jobs', results'),
         report' = [report EXCEPT ![r] = x]
  PROVE  ReadOK'
<1>1. ASSUME NEW k \in Readers, report[k] # NoReport PROVE ReportOK(report[k], pc', jobs', results')
  BY <1>1, ReportKept DEF ReadOK, ReportsOK
<1>2. x \in Report \cup {NoReport}
  BY DEF ReportOK
<1>3. ASSUME NEW k \in Readers
      PROVE  report'[k] = NoReport \/ ReportOK(report'[k], pc', jobs', results')
  BY <1>1 DEF ReadOK
<1> QED
  BY <1>2, <1>3 DEF ReadOK, ReportsOK

\* Reading: the job first and its results after that.
LEMMA ReadStep ==
  ASSUME TypeOK, JobsOK, ReadOK, NEW r \in Readers, Read(r)
  PROVE  TypeOK' /\ JobsOK' /\ ReadOK'
<1>1. CASE Ask(r)
  <2>1. TypeOK' /\ JobsOK'
    BY <1>1, DeleteStep DEF Ask, TypeOK
  <2>2. Unread
    BY <1>1 DEF Ask, DeleteExpired, Unread
  <2>3. PICK j \in Jobs : report' = [report EXCEPT ![r] = [at |-> "asked", job |-> j]]
    BY <1>1 DEF Ask
  <2>4. ReportOK([at |-> "asked", job |-> j], pc', jobs', results')
    BY DEF ReportOK, Report
  <2> QED
    BY <2>1, <2>2, <2>3, <2>4, ReaderKept
<1>2. ASSUME UNCHANGED <<table, enabled, pc, list, worker, janitor, restarts, lost>>
      PROVE  TypeOK' /\ JobsOK' /\ Unread
  BY <1>2 DEF TypeOK, JobsOK, Unread, table
<1>3. CASE ReadJob(r)
  <2> DEFINE j == report[r].job
             y == [at |-> "read", job |-> j, row |-> jobs[j]]
             x == IF jobs[j] = NoJob THEN NoReport ELSE y
  <2>1. /\ report[r] # NoReport /\ report[r].at = "asked" /\ report' = [report EXCEPT ![r] = x]
        /\ UNCHANGED <<table, enabled, pc, list, worker, janitor, restarts, lost>>
    BY <1>3 DEF ReadJob, At
  <2>2. j \in Jobs
    BY <2>1 DEF ReadOK, ReportsOK, ReportOK, Report
  <2>3. ASSUME jobs[j] # NoJob PROVE ReportOK(y, pc', jobs', results')
    <3>1. jobs[j] \in Job /\ pc[j] \notin {"new", "loaded"} /\ jobs[j].completed = Cardinality(results[j])
          /\ jobs[j].completed \in Nat
      BY <2>2, <2>3 DEF TypeOK, JobsOK, JobOK, RowOK, Job
    <3>2. y \in Report
      BY <2>2, <3>1 DEF Report
    <3>3. y.at = "read" /\ y.job = j /\ y.row = jobs[j]
      OBVIOUS
    <3> HIDE DEF y, j
    <3> QED
      BY <2>1, <3>1, <3>2, <3>3 DEF ReportOK, table
  <2> HIDE DEF y
  <2> QED
    BY <1>2, <2>1, <2>3, ReaderKept
<1>4. CASE ReadResults(r)
  <2> DEFINE o == report[r]
             x == [at |-> "answered", job |-> o.job, row |-> o.row, results |-> results[o.job]]
  <2>1. /\ o # NoReport /\ o.at = "read" /\ report' = [report EXCEPT ![r] = x]
        /\ UNCHANGED <<table, enabled, pc, list, worker, janitor, restarts, lost>>
    BY <1>4 DEF ReadResults, At, ReadOK
  <2>2. ReportOK(o, pc, jobs, results) /\ o.job \in Jobs /\ o.row \in Job
    BY <2>1 DEF ReadOK, ReportsOK, ReportOK, Report
  <2>3. x \in Report
    BY <2>2 DEF Report, TypeOK
  <2>4. ReportOK(x, pc', jobs', results')
    BY <2>1, <2>2, <2>3 DEF ReportOK, table
  <2> HIDE DEF x
  <2> QED
    BY <1>2, <2>1, <2>4, ReaderKept
<1>5. CASE Answered(r)
  <2>1. /\ report' = [report EXCEPT ![r] = NoReport]
        /\ UNCHANGED <<table, enabled, pc, list, worker, janitor, restarts, lost>>
    BY <1>5 DEF Answered
  <2> QED
    BY <1>2, <2>1, ReaderKept
<1> QED
  BY <1>1, <1>3, <1>4, <1>5 DEF Read

----------------------------------------------------------------------------
(* The invariant. *)

LEMMA InvInit == Init => IInv
<1> SUFFICES ASSUME Init PROVE IInv
  OBVIOUS
<1>1. TypeOK
  BY JobsAssumption DEF Init, TypeOK, NoWorkers
<1>2. JobsOK
  BY DEF Init, JobsOK, JobOK
<1>3. ReadOK
  BY DEF Init, ReadOK, ReportsOK
<1> QED
  BY <1>1, <1>2, <1>3 DEF IInv

LEMMA InvStep == IInv /\ [Next]_vars => IInv'
<1> SUFFICES ASSUME TypeOK, JobsOK, ReadOK, [Next]_vars PROVE TypeOK' /\ JobsOK' /\ ReadOK'
  BY DEF IInv
<1>1. ASSUME NEW j \in Jobs, Request(j) \/ Schedule(j) PROVE TypeOK' /\ JobsOK' /\ ReadOK'
  <2>1. TypeOK' /\ JobsOK'
    BY <1>1, SelectStep
  <2>2. Unread /\ report' = report
    BY <1>1 DEF Request, Schedule, Unread, TypeOK, table
  <2> QED
    BY <2>1, <2>2, UnreadKept
<1>2. ASSUME NEW j \in Jobs, Add(j) PROVE TypeOK' /\ JobsOK' /\ ReadOK'
  <2>1. TypeOK' /\ JobsOK'
    BY <1>2, AddStep
  <2>2. Unread /\ report' = report
    BY <1>2 DEF Add, Unread, TypeOK
  <2> QED
    BY <2>1, <2>2, UnreadKept
<1>3. ASSUME NEW j \in Jobs, Launch(j) PROVE TypeOK' /\ JobsOK' /\ ReadOK'
  <2>1. TypeOK' /\ JobsOK'
    BY <1>3, LaunchStep
  <2>2. Unread /\ report' = report
    BY <1>3 DEF Launch, Unread, TypeOK, table
  <2> QED
    BY <2>1, <2>2, UnreadKept
<1>4. ASSUME NEW j \in Jobs, NEW p \in Proxies, Acquire(j, p) \/ Probe(j, p)
      PROVE  TypeOK' /\ JobsOK' /\ ReadOK'
  <2>1. TypeOK' /\ JobsOK'
    BY <1>4, ProbeStep
  <2>2. Unread /\ report' = report
    BY <1>4 DEF Acquire, Probe, Unread, table
  <2> QED
    BY <2>1, <2>2, UnreadKept
<1>5. ASSUME NEW j \in Jobs, NEW p \in Proxies, Append(j, p) PROVE TypeOK' /\ JobsOK' /\ ReadOK'
  <2>1. TypeOK' /\ JobsOK'
    BY <1>5, AppendStep
  <2>2. Unread /\ report' = report
    BY <1>5 DEF Append, Unread, TypeOK, Counted
  <2> QED
    BY <2>1, <2>2, UnreadKept
<1>6. ASSUME NEW j \in Jobs, NEW p \in Proxies, AppendFails(j, p)
      PROVE  TypeOK' /\ JobsOK' /\ ReadOK'
  <2>1. TypeOK' /\ JobsOK'
    BY <1>6, FailStep
  <2>2. Unread /\ report' = report
    BY <1>6 DEF AppendFails, Unread, TypeOK, RolledBack
  <2> QED
    BY <2>1, <2>2, UnreadKept
<1>7. ASSUME NEW j \in Jobs, Expire(j) PROVE TypeOK' /\ JobsOK' /\ ReadOK'
  <2>1. TypeOK' /\ JobsOK'
    BY <1>7, ExpireStep
  <2>2. Unread /\ report' = report
    BY <1>7 DEF Expire, Unread, TypeOK
  <2> QED
    BY <2>1, <2>2, UnreadKept
<1>8. ASSUME NEW r \in Readers, Read(r) PROVE TypeOK' /\ JobsOK' /\ ReadOK'
  BY <1>8, ReadStep
<1>9. CASE JanitorJobs
  <2>1. TypeOK' /\ JobsOK'
    BY <1>9, DeleteStep DEF JanitorJobs
  <2>2. Unread /\ report' = report
    BY <1>9 DEF JanitorJobs, DeleteExpired, Unread
  <2> QED
    BY <2>1, <2>2, UnreadKept
<1>10. CASE JanitorResults
  <2>1. TypeOK' /\ JobsOK'
    BY <1>10, CleanStep
  <2>2. Unread /\ report' = report
    BY <1>10 DEF JanitorResults, Orphaned, Unread
  <2> QED
    BY <2>1, <2>2, UnreadKept
<1>11. CASE Restart
  <2>1. TypeOK' /\ JobsOK'
    BY <1>11, RestartStep
  <2> QED
    BY <1>11, <2>1 DEF Restart, ReadOK, ReportsOK
<1>12. CASE PutProbeSettings \/ UNCHANGED vars
  BY <1>12 DEF PutProbeSettings, vars, table, TypeOK, JobsOK, ReadOK, ReportsOK
<1> QED
  BY <1>1, <1>2, <1>3, <1>4, <1>5, <1>6, <1>7, <1>8, <1>9, <1>10, <1>11, <1>12
  DEF Next, Create, Work, Janitor

LEMMA Invariance == Spec => []IInv
BY InvInit, InvStep, PTL DEF Spec

----------------------------------------------------------------------------
(* The theorems. *)

\* A job counts exactly the results that are stored for it and has completed
\* when they are all; one that says it is running is, unless a transaction of
\* its own was lost. Whatever fails, and whenever the process stops.
THEOREM JobsKeepAgreeing == Spec => []JobsAgree
<1>1. IInv => JobsAgree
  <2> SUFFICES ASSUME TypeOK, JobsOK PROVE CountsResults /\ RunningIsAttended
    BY DEF IInv, JobsAgree
  <2>1. CountsResults
    BY DEF JobsOK, JobOK, RowOK, CountsResults
  <2>2. ASSUME NEW j \in Jobs, jobs[j] # NoJob, jobs[j].status = "running", pc[j] # "saved", lost[j] = {}
        PROVE  \E p \in Proxies : worker[j][p] \in {"waits", "probes", "probed"}
    <3>1. JobOK(jobs[j], results[j], pc[j], list[j], worker[j], lost[j])
      BY DEF JobsOK
    <3>2. RowOK(jobs[j], results[j], pc[j], list[j])
      BY <2>2, <3>1 DEF JobOK
    <3>3. pc[j] = "launched" /\ results[j] \subseteq list[j] /\ results[j] # list[j]
      BY <2>2, <3>2 DEF RowOK
    <3>4. PICK p \in list[j] : p \notin results[j]
      BY <3>3
    <3>5. p \in Proxies /\ WorkOK(jobs[j], results[j], list[j], worker[j], lost[j])
      BY <3>1, <3>3, <3>4 DEF JobOK, TypeOK
    <3>6. worker[j][p] \notin {"none", "done"}
      BY <2>2, <3>4, <3>5 DEF WorkOK
    <3> QED
      BY <3>5, <3>6 DEF TypeOK
  <2> QED
    BY <2>1, <2>2 DEF RunningIsAttended
<1> QED
  BY <1>1, Invariance, PTL

\* A report holds at least the results its job counts, although the job and its
\* results are read in two statements.
THEOREM ReportsAreWhole == Spec => []ReportsWhole
<1>1. IInv => ReportsWhole
  <2> SUFFICES ASSUME ReadOK, NEW r \in Readers, At(r, "answered"), jobs[report[r].job] # NoJob
               PROVE  Cardinality(report[r].results) >= report[r].row.completed
    BY DEF IInv, ReportsWhole
  <2>1. report[r] \in Report /\ report[r].at = "answered" /\ ReportOK(report[r], pc, jobs, results)
    BY DEF ReadOK, ReportsOK, ReportOK, At
  <2>2. report[r].results \in SUBSET Proxies /\ report[r].row.completed \in Nat
    BY <2>1 DEF Report, Job
  <2>3. report[r].row.completed <= Cardinality(report[r].results)
    BY <2>1 DEF ReportOK
  <2> QED
    BY <2>2, <2>3, Finite
<1> QED
  BY <1>1, Invariance, PTL
=============================================================================
