----------------------------- MODULE ProbeJobs -----------------------------
(***************************************************************************)
(* Probe jobs: the console, or the janitor on its schedule, has a list of   *)
(* proxies probed. A row of proxy_probe_jobs counts the results, which are  *)
(* rows of proxy_probe_results; one goroutine per proxy probes it and adds  *)
(* its result in a transaction. Jobs are kept for a day and survive a       *)
(* restart, their goroutines do not.                                        *)
(*                                                                          *)
(* A step is one statement or one transaction. What a probe finds is for    *)
(* ProxyPool; here it only ends. SQLite enforces no foreign keys on the     *)
(* connections this program opens: deleting a job leaves its results.       *)
(***************************************************************************)
EXTENDS Integers, FiniteSets

CONSTANTS
  Jobs,         \* job ids; each is used once
  Proxies,      \* table proxies
  Readers,      \* requests for the report of a job
  Slots,        \* probes of a job that run at once, 10 in the code
  MaxRestarts,  \* bound on restarts
  MaxLost,      \* bound on the results a job loses to failed transactions
  NoJob, NoReport

ASSUME JobsAssumption ==
  /\ IsFiniteSet(Proxies) /\ Proxies # {}
  /\ Slots \in Nat \ {0} /\ MaxRestarts \in Nat /\ MaxLost \in Nat
  /\ NoJob \notin [status : {"running", "completed", "interrupted"},
                   total : Nat, completed : Nat, expired : BOOLEAN]

Job == [status : {"running", "completed", "interrupted"},
        total : Nat, completed : Nat, expired : BOOLEAN]

VARIABLES
  jobs,      \* table proxy_probe_jobs; expired once expires_at has passed
  results,   \* table proxy_probe_results: the proxies each job has a row for
  enabled,   \* setting proxy_probes_enabled
  pc,        \* how far each job's creator is
  list,      \* the proxies it has loaded
  worker,    \* the goroutines of each job
  report,    \* what each reader has read so far
  janitor,   \* the statement the janitor runs next
  restarts,
  lost       \* history: the results lost to failed transactions

table == <<jobs, results>>
vars == <<jobs, results, enabled, pc, list, worker, report, janitor, restarts, lost>>

NoWorkers == [p \in Proxies |-> "none"]

Init ==
  /\ jobs = [j \in Jobs |-> NoJob]
  /\ results = [j \in Jobs |-> {}]
  /\ enabled \in BOOLEAN
  /\ pc = [j \in Jobs |-> "new"]
  /\ list = [j \in Jobs |-> {}]
  /\ worker = [j \in Jobs |-> NoWorkers]
  /\ report = [r \in Readers |-> NoReport]
  /\ janitor = "jobs"
  /\ restarts = 0
  /\ lost = [j \in Jobs |-> {}]

----------------------------------------------------------------------------
(* Creation. *)

\* proxiesForProbe: no ids stand for every proxy.
Selected(ids) == IF ids = {} THEN Proxies ELSE Proxies \cap ids

\* createProxyProbeJob has validated the request and loaded the proxies it
\* names; with none left it answers 400.
Request(j) ==
  /\ pc[j] = "new"
  /\ \E ids \in SUBSET Proxies : list' = [list EXCEPT ![j] = Selected(ids)]
  /\ pc' = [pc EXCEPT ![j] = "loaded"]
  /\ UNCHANGED <<table, enabled, worker, report, janitor, restarts, lost>>

\* proxyProbeJanitor, when its timer fires: every proxy, if probes are enabled.
Schedule(j) ==
  /\ pc[j] = "new" /\ enabled
  /\ list' = [list EXCEPT ![j] = Selected({})]
  /\ pc' = [pc EXCEPT ![j] = "loaded"]
  /\ UNCHANGED <<table, enabled, worker, report, janitor, restarts, lost>>

NewJob(j) == [status |-> "running", total |-> Cardinality(list[j]),
              completed |-> 0, expired |-> FALSE]

\* probeJobs.add. (If it fails, the job is never heard of again.)
Add(j) ==
  /\ pc[j] = "loaded"
  /\ jobs' = [jobs EXCEPT ![j] = NewJob(j)]
  /\ pc' = [pc EXCEPT ![j] = "saved"]
  /\ UNCHANGED <<results, enabled, list, worker, report, janitor, restarts, lost>>

\* go a.runProbeJob: one goroutine for each proxy.
Launch(j) ==
  /\ pc[j] = "saved"
  /\ worker' = [worker EXCEPT ![j] = [p \in Proxies |-> IF p \in list[j] THEN "waits" ELSE "none"]]
  /\ pc' = [pc EXCEPT ![j] = "launched"]
  /\ UNCHANGED <<table, enabled, list, report, janitor, restarts, lost>>

----------------------------------------------------------------------------
(* The goroutines of a job. *)

Move(j, p, to) == worker' = [worker EXCEPT ![j][p] = to]

\* sem <- struct{}{}
Acquire(j, p) ==
  /\ worker[j][p] = "waits"
  /\ Cardinality({q \in Proxies : worker[j][q] \in {"probes", "probed"}}) < Slots
  /\ Move(j, p, "probes")
  /\ UNCHANGED <<table, enabled, pc, list, report, janitor, restarts, lost>>

\* probeProxy returns, at the latest when its contexts time out.
Probe(j, p) ==
  /\ worker[j][p] = "probes"
  /\ Move(j, p, "probed")
  /\ UNCHANGED <<table, enabled, pc, list, report, janitor, restarts, lost>>

\* completed+1 >= total; the mutated form compares the old count.
ComparesOld(row) == row.completed >= row.total
IsLast(row) == row.completed + 1 >= row.total

\* UPDATE ... SET completed=completed+1,status=CASE ... WHERE id=? AND
\* status='running'. It changes nothing if the row is gone or has ended.
Counted(row) ==
  IF row = NoJob THEN row
  ELSE IF row.status # "running" THEN row
  ELSE [row EXCEPT !.completed = @ + 1,
                   !.status = IF IsLast(row) THEN "completed" ELSE @]

\* appendResult commits: the result and the count.
Append(j, p) ==
  /\ worker[j][p] = "probed"
  /\ results' = [results EXCEPT ![j] = @ \cup {p}]
  /\ jobs' = [jobs EXCEPT ![j] = Counted(@)]
  /\ Move(j, p, "done")
  /\ UNCHANGED <<enabled, pc, list, report, janitor, restarts, lost>>

\* What a transaction leaves that fails after its INSERT; the mutated form
\* does not roll back.
NoRollback(S, p) == S \cup {p}
RolledBack(S, p) == S

\* Begin, a statement or Commit fails: the error is dropped, and the result
\* with it.
AppendFails(j, p) ==
  /\ worker[j][p] = "probed" /\ Cardinality(lost[j]) < MaxLost
  /\ results' = [results EXCEPT ![j] = RolledBack(@, p)]
  /\ lost' = [lost EXCEPT ![j] = @ \cup {p}]
  /\ Move(j, p, "done")
  /\ UNCHANGED <<jobs, enabled, pc, list, report, janitor, restarts>>

----------------------------------------------------------------------------
(* Reports: probeJobStore.snapshot. *)

Kept(j) == IF jobs[j] = NoJob THEN TRUE ELSE ~jobs[j].expired
DeleteExpired == jobs' = [j \in Jobs |-> IF Kept(j) THEN jobs[j] ELSE NoJob]

At(r, place) == IF report[r] = NoReport THEN FALSE ELSE report[r].at = place

\* DELETE FROM proxy_probe_jobs WHERE expires_at<=?
Ask(r) ==
  /\ report[r] = NoReport
  /\ \E j \in Jobs : report' = [report EXCEPT ![r] = [at |-> "asked", job |-> j]]
  /\ DeleteExpired
  /\ UNCHANGED <<results, enabled, pc, list, worker, janitor, restarts, lost>>

\* The job first: 404 if the row is not there.
ReadJob(r) ==
  /\ At(r, "asked")
  /\ LET j == report[r].job
     IN  report' = [report EXCEPT ![r] =
                      IF jobs[j] = NoJob THEN NoReport
                      ELSE [at |-> "read", job |-> j, row |-> jobs[j]]]
  /\ UNCHANGED <<table, enabled, pc, list, worker, janitor, restarts, lost>>

\* Its results in a second statement.
ReadResults(r) ==
  /\ At(r, "read")
  /\ report' = [report EXCEPT ![r] =
                  [at |-> "answered", job |-> @.job, row |-> @.row,
                   results |-> results[@.job]]]
  /\ UNCHANGED <<table, enabled, pc, list, worker, janitor, restarts, lost>>

Answered(r) ==
  /\ At(r, "answered")
  /\ report' = [report EXCEPT ![r] = NoReport]
  /\ UNCHANGED <<table, enabled, pc, list, worker, janitor, restarts, lost>>

----------------------------------------------------------------------------
(* Expiry, settings, restart. *)

\* A day has passed. Nothing keeps a job from expiring while it runs.
Expire(j) ==
  /\ jobs[j] # NoJob /\ Kept(j)
  /\ jobs' = [jobs EXCEPT ![j].expired = TRUE]
  /\ UNCHANGED <<results, enabled, pc, list, worker, report, janitor, restarts, lost>>

\* expiredProxyJanitor, every minute.
JanitorJobs ==
  /\ janitor = "jobs"
  /\ DeleteExpired
  /\ janitor' = "results"
  /\ UNCHANGED <<results, enabled, pc, list, worker, report, restarts, lost>>

\* DELETE ... WHERE job_id NOT IN (SELECT id FROM proxy_probe_jobs). The
\* mutated form goes by expires_at as well.
ExpiredToo(j) == jobs[j] = NoJob \/ ~Kept(j)
Orphaned(j) == jobs[j] = NoJob

JanitorResults ==
  /\ janitor = "results"
  /\ results' = [j \in Jobs |-> IF Orphaned(j) THEN {} ELSE results[j]]
  /\ janitor' = "jobs"
  /\ UNCHANGED <<jobs, enabled, pc, list, worker, report, restarts, lost>>

PutProbeSettings ==
  /\ enabled' = ~enabled
  /\ UNCHANGED <<table, pc, list, worker, report, janitor, restarts, lost>>

\* migrate: UPDATE ... SET status='interrupted' WHERE status='running'. The
\* mutated form leaves the rows alone.
AsTheyWere(row) == row
Interrupted(row) ==
  IF row = NoJob THEN row
  ELSE IF row.status = "running" THEN [row EXCEPT !.status = "interrupted"] ELSE row

\* The process stops, anywhere, and starts again.
Restart ==
  /\ restarts < MaxRestarts
  /\ restarts' = restarts + 1
  /\ jobs' = [j \in Jobs |-> Interrupted(jobs[j])]
  /\ pc' = [j \in Jobs |-> IF pc[j] = "new" THEN "new" ELSE "dead"]
  /\ worker' = [j \in Jobs |-> NoWorkers]
  /\ report' = [r \in Readers |-> NoReport]
  /\ janitor' = "jobs"
  /\ UNCHANGED <<results, enabled, list, lost>>

----------------------------------------------------------------------------
Create(j) == Add(j) \/ Launch(j)
Work(j, p) == Acquire(j, p) \/ Probe(j, p) \/ Append(j, p) \/ AppendFails(j, p)
Janitor == JanitorJobs \/ JanitorResults
Read(r) == Ask(r) \/ ReadJob(r) \/ ReadResults(r) \/ Answered(r)

Next ==
  \/ \E j \in Jobs : Request(j) \/ Schedule(j) \/ Create(j) \/ Expire(j)
  \/ \E j \in Jobs, p \in Proxies : Work(j, p)
  \/ \E r \in Readers : Read(r)
  \/ Janitor \/ PutProbeSettings \/ Restart

Spec == Init /\ [][Next]_vars

\* Goroutines run on; a probe has a timeout; the janitor has a ticker. Nothing
\* says that a job expires, that one is asked for, or that the process stops.
FairSpec ==
  /\ Spec
  /\ \A j \in Jobs : WF_vars(Create(j))
  /\ \A j \in Jobs, p \in Proxies : WF_vars(Work(j, p))
  /\ WF_vars(Janitor)

----------------------------------------------------------------------------
(* Properties. *)

TypeOK ==
  /\ jobs \in [Jobs -> Job \cup {NoJob}]
  /\ results \in [Jobs -> SUBSET Proxies]
  /\ enabled \in BOOLEAN
  /\ pc \in [Jobs -> {"new", "loaded", "saved", "launched", "dead"}]
  /\ list \in [Jobs -> SUBSET Proxies]
  /\ worker \in [Jobs -> [Proxies -> {"none", "waits", "probes", "probed", "done"}]]
  /\ janitor \in {"jobs", "results"}
  /\ restarts \in 0..MaxRestarts
  /\ lost \in [Jobs -> SUBSET Proxies]

\* A job that is there counts exactly the results that are stored for it, and
\* has completed when those are all: whatever transactions fail, and whenever
\* the process stops.
CountsResults ==
  \A j \in Jobs : jobs[j] # NoJob =>
    /\ jobs[j].completed = Cardinality(results[j])
    /\ results[j] \subseteq list[j]
    /\ jobs[j].total = Cardinality(list[j])
    /\ jobs[j].status = "completed" <=> results[j] = list[j]

\* A job that says it is running is: it is about to be started or one of its
\* goroutines has its result yet to add, unless a transaction lost one. After
\* a restart none is.
RunningIsAttended ==
  \A j \in Jobs : jobs[j] # NoJob =>
    (jobs[j].status = "running" =>
       \/ pc[j] = "saved" \/ lost[j] # {}
       \/ \E p \in Proxies : worker[j][p] \in {"waits", "probes", "probed"})

\* The tables agree with each other and with the goroutines.
JobsAgree == TypeOK /\ CountsResults /\ RunningIsAttended

\* A report holds at least the results its job counts, so one that says
\* completed has all of them, however many goroutines append while it is read.
\* (A job that is deleted meanwhile may lose results to the janitor.)
ReportsWhole ==
  \A r \in Readers : At(r, "answered") /\ jobs[report[r].job] # NoJob =>
    Cardinality(report[r].results) >= report[r].row.completed

\* A running job ends, unless a transaction failed; and no result outlives its
\* job for ever, although goroutines go on adding to a job that has expired.
RunningEnds(j) ==
  (IF jobs[j] = NoJob THEN FALSE ELSE jobs[j].status = "running")
  ~> (IF jobs[j] = NoJob THEN TRUE ELSE jobs[j].status # "running" \/ lost[j] # {})
OrphansGo(j) == (Orphaned(j) /\ results[j] # {}) ~> results[j] = {}
JobsSettle == \A j \in Jobs : RunningEnds(j) /\ OrphansGo(j)
=============================================================================
