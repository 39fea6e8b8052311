--------------------------- MODULE ScanController ---------------------------
(***************************************************************************)
(* The scan controller of the operator: the handlers of ClusterScan, Job   *)
(* and Pod events, the API server objects they read and write, the         *)
(* informer caches through which they see them, and currentScanName, the   *)
(* process variable that is meant to let one scan run at a time.           *)
(*                                                                         *)
(* A handler pass is split wherever another handler, the cluster or a      *)
(* crash can come between two of its effects: at each call to the API      *)
(* server that changes something, and at the mutex.                        *)
(***************************************************************************)
EXTENDS Integers, FiniteSets, ScanConditions

CONSTANTS
    Scans,        \* names of ClusterScans
    Planned,      \* the ones with a Spec.ScheduledScanConfig
    Scheduled,    \* the planned ones with a CronSchedule in it
    AlertScans,   \* the planned ones with a ScanAlertRule in it
    AlertEnabled, \* ImageConfig.AlertEnabled: alert rules are created
    CustomScans,  \* the ones whose benchmark has its ConfigMap elsewhere
    StrictScans,  \* the ones with ScoreWarning = fail
    Verdicts,     \* values the runner may put in its completion annotation
    Outcomes,     \* summaries a runner's output may have
    Faults,       \* what may go wrong, see AllFaults
    Threads,      \* workers of each controller (--threads)
    Retention,    \* reports a scheduled scan keeps
    MaxReports,   \* bound on the reports counted for one scan
    MaxMishaps,   \* bound on the faults that happen, rejections aside
    None          \* the empty currentScanName, the free mutex

(* crash: the operator process restarts.  restart: it does so, but not in  *)
(* the middle of a handler.  delete: users delete scans.  reuse: they give *)
(* the name of a deleted scan to a new one.  edit: users edit scans.       *)
(* api: a call to the API server fails.  apply: some of the objects of a   *)
(* scan are not created.  expire: the Job goes away under the operator     *)
(* (ttlSecondsAfterFinished, eviction).  reject: the profile of a scan     *)
(* does not validate, or cannot be read.  lag: a watch, or a handler, may  *)
(* be slower than a whole scan run.  resync: the informers deliver again   *)
(* what has not changed, every few hours and whenever a watch is renewed.  *)
AllFaults == {"crash", "restart", "delete", "reuse", "edit", "api", "apply",
              "expire", "reject", "lag", "resync"}

ASSUME ScansAssumption ==
    /\ Planned \subseteq Scans
    /\ Scheduled \subseteq Planned
    /\ AlertScans \subseteq Planned
    /\ AlertEnabled \in BOOLEAN
    /\ None \notin Scans

ASSUME BehaviourAssumption ==
    /\ Verdicts \subseteq {"true", "error"}
    /\ Outcomes \subseteq Summaries \ {"none"}
    /\ Faults \subseteq AllFaults

ASSUME BoundsAssumption ==
    /\ Threads \in Nat \ {0}
    /\ Retention \in Nat \ {0}
    /\ MaxReports \in Nat \ {0}
    /\ MaxMishaps \in Nat

VARIABLES
    (* The API server. *)
    alive,      \* the ClusterScans that exist
    scan,       \* their status
    jobs,       \* the scans whose runner Job exists
    orphans,    \* the Jobs whose owner is a deleted ClusterScan
    pod,        \* the runner Pod: absent, running, or its annotation
    cms,        \* ConfigMaps of a scan in the operator's namespace
    rules,      \* the PrometheusRules that exist
    reports,    \* ClusterScanReports of each scan
    (* The informer caches of the operator. *)
    seen, scanCache, jobCache, podCache, cmCache,
    fresh,      \* holders of a copy of the scan at its current resourceVersion
    (* The operator's memory. *)
    current,    \* currentScanName
    mu,         \* holder of the mutex
    timer,      \* scans with an EnqueueAfter pending
    scanQ, jobQ, podQ,
    spc, sobj,  \* the worker on a ClusterScan key: where it is, its copy
    jpc, jobj,  \* the worker on a Job key
    (* History, read by no action. *)
    launches,   \* Jobs created since the run was asked for
    counted,    \* times numScansComplete was incremented since the last retirement
    mishaps     \* faults so far

apiVars   == <<alive, scan, jobs, orphans, pod, cms, rules, reports>>
cacheVars == <<seen, scanCache, jobCache, podCache, cmCache>>
memVars   == <<current, mu, timer>>
queueVars == <<scanQ, jobQ, podQ>>
scanWork  == <<spc, sobj>>
jobWork   == <<jpc, jobj>>
histVars  == <<launches, counted>>

vars == <<apiVars, cacheVars, fresh, memVars, queueVars, scanWork, jobWork,
          histVars, mishaps>>

-----------------------------------------------------------------------------
Holders   == {"cache", "scanner", "jobber"}
PodStates == {"none", "running"} \cup Verdicts
ScanSteps == {"idle", "gate", "lock", "claim", "apply", "status", "sched", "metrics"}
JobSteps  == {"idle", "complete", "cleanup", "finish", "release"}

TypeOK ==
    /\ alive \subseteq Scans
    /\ scan \in [Scans -> Status]
    /\ jobs \subseteq Scans
    /\ orphans \subseteq Scans
    /\ pod \in [Scans -> PodStates]
    /\ cms \in [Scans -> SUBSET {"output", "copy"}]
    /\ rules \subseteq Scans
    /\ reports \in [Scans -> 0..MaxReports]
    /\ seen \subseteq Scans
    /\ scanCache \in [Scans -> Status]
    /\ jobCache \subseteq Scans
    /\ podCache \in [Scans -> PodStates]
    /\ cmCache \in [Scans -> SUBSET {"output", "copy"}]
    /\ fresh \in [Scans -> SUBSET Holders]
    /\ current \in Scans \cup {None}
    /\ mu \in Scans \cup {None}
    /\ timer \subseteq Scans
    /\ scanQ \subseteq Scans
    /\ jobQ \subseteq Scans
    /\ podQ \subseteq Scans
    /\ spc \in [Scans -> ScanSteps]
    /\ sobj \in [Scans -> Status]
    /\ jpc \in [Scans -> JobSteps]
    /\ jobj \in [Scans -> Status]
    /\ launches \in [Scans -> 0..2]
    /\ counted \in [Scans -> 0..2]
    /\ mishaps \in 0..MaxMishaps

Init ==
    /\ alive = {} /\ scan = [s \in Scans |-> Blank]
    /\ jobs = {} /\ orphans = {}
    /\ pod = [s \in Scans |-> "none"] /\ cms = [s \in Scans |-> {}]
    /\ rules = {} /\ reports = [s \in Scans |-> 0]
    /\ seen = {} /\ scanCache = [s \in Scans |-> Blank]
    /\ jobCache = {} /\ podCache = [s \in Scans |-> "none"]
    /\ cmCache = [s \in Scans |-> {}] /\ fresh = [s \in Scans |-> {}]
    /\ current = None /\ mu = None /\ timer = {}
    /\ scanQ = {} /\ jobQ = {} /\ podQ = {}
    /\ spc = [s \in Scans |-> "idle"] /\ sobj = [s \in Scans |-> Blank]
    /\ jpc = [s \in Scans |-> "idle"] /\ jobj = [s \in Scans |-> Blank]
    /\ launches = [s \in Scans |-> 0] /\ counted = [s \in Scans |-> 0]
    /\ mishaps = 0

-----------------------------------------------------------------------------
(* Helpers of the steps.                                                   *)

Strict(s) == s \in StrictScans
Cron(s) == s \in Scheduled
HasConfig(s) == s \in Planned
Configured(s) == s \in AlertScans

Capped(n, bound) == IF n < bound THEN n + 1 ELSE bound

(* A write to the API server gives the scan a new resourceVersion: only    *)
(* the copies in keep are still at it.                                     *)
Store(s, st, keep) == /\ scan' = [scan EXCEPT ![s] = st]
                      /\ fresh' = [fresh EXCEPT ![s] = keep]

(* UpdateStatus of a copy goes through at the current resourceVersion only. *)
Accepted(s, holder) == s \in alive /\ holder \in fresh[s]

Mishap(fault) == /\ fault \in Faults /\ mishaps < MaxMishaps
                 /\ mishaps' = mishaps + 1

(* isRunnerPodPresent: the Job and Pod caches, not the API server.         *)
RunnerSeen == jobCache # {} \/ \E t \in Scans : podCache[t] # "none"

(* The worker on key s takes its copy to step. Idle workers hold no copy.  *)
ScanTo(s, step, copy) ==
    /\ spc' = [spc EXCEPT ![s] = step]
    /\ sobj' = [sobj EXCEPT ![s] = IF step = "idle" THEN Blank ELSE copy]

JobTo(s, step, copy) ==
    /\ jpc' = [jpc EXCEPT ![s] = step]
    /\ jobj' = [jobj EXCEPT ![s] = IF step = "idle" THEN Blank ELSE copy]

Released(s, holder, step) ==
    fresh' = [fresh EXCEPT ![s] = IF step = "idle" THEN @ \ {holder} ELSE @]

(* The same in a step that writes no scan.                                 *)
ScanAt(s, step, copy) == ScanTo(s, step, copy) /\ Released(s, "scanner", step)
JobAt(s, step, copy)  == JobTo(s, step, copy) /\ Released(s, "jobber", step)

(* The scheduled-scan and metrics handlers get the object after the scan   *)
(* handler, whether or not it returned an error.                           *)
AfterScan(copy) == IF WakesSchedule(copy) THEN "sched"
                   ELSE IF WakesMetrics(copy) THEN "metrics" ELSE "idle"
AfterSched(copy) == IF WakesMetrics(copy) THEN "metrics" ELSE "idle"

(* A pass that ends in an error: lasso puts the key back. The copy has     *)
(* lost its conditions by then, so the later handlers ignore it.           *)
Retry(s) == /\ ScanAt(s, "idle", Blank)
            /\ scanQ' = scanQ \cup {s}

ScanThread == Cardinality({t \in Scans : spc[t] # "idle"}) < Threads
JobThread  == Cardinality({t \in Scans : jpc[t] # "idle"}) < Threads

-----------------------------------------------------------------------------
(* The scan handler (handleClusterScans), then the scheduled-scan and the  *)
(* metrics handler, on one key.                                            *)

(* The worker pops a key and reads the scan from the cache. An absent scan *)
(* and one that needs nothing end the pass at once; the first pass over an *)
(* eligible scan sets Pending and enqueues the key again.                  *)
ScanStart(s) ==
    /\ s \in scanQ
    /\ spc[s] = "idle"
    /\ ScanThread
    /\ LET o     == scanCache[s]
           first == Eligible(o) /\ ~o.pending
           step  == IF s \notin seen THEN "idle"
                    ELSE IF first THEN "status"
                    ELSE IF Eligible(o) THEN "gate"
                    ELSE AfterScan(o)
       IN /\ ScanTo(s, step, IF first THEN Pended(o, Strict(s)) ELSE o)
          /\ fresh' = [fresh EXCEPT ![s] =
                           (@ \ {"scanner"}) \cup
                           (IF step # "idle" /\ "cache" \in @ THEN {"scanner"} ELSE {})]
          /\ scanQ' = IF s \in seen /\ first THEN scanQ ELSE scanQ \ {s}
    /\ UNCHANGED <<apiVars, cacheVars, memVars, jobQ, podQ, jobWork, histVars, mishaps>>

(* A scan that cannot run gets the Failed condition and no retry. The      *)
(* status may come out as it was, update times included: then the API      *)
(* server is not called.                                                   *)
Reject(s, o) ==
    LET new == Rejected(o, Strict(s))
    IN \/ ScanAt(s, "status", new)
       \/ new = o /\ ScanAt(s, "idle", Blank)

(* Runner checks, profile and schedule, before the mutex.                  *)
ScanGate(s) ==
    /\ spc[s] = "gate"
    /\ \/ /\ RunnerSeen
          /\ Retry(s)
       \/ /\ ~RunnerSeen
          /\ ScanAt(s, "lock", sobj[s])
          /\ UNCHANGED scanQ
       \/ /\ "reject" \in Faults /\ ~RunnerSeen
          /\ Reject(s, sobj[s])
          /\ UNCHANGED scanQ
    /\ UNCHANGED <<apiVars, cacheVars, memVars, jobQ, podQ, jobWork, histVars, mishaps>>

(* currentScanName names a scan that isScanPresent finds on the API server.  *)
NeverBlocked == FALSE
Blocked == current \in alive

(* Under the mutex: wait while the current scan exists, forget one that    *)
(* was deleted; then copy the benchmark's ConfigMap if it lives in another *)
(* namespace. The copy is a Create: one left by an earlier pass refuses it.*)
Copied(s) == IF s \in CustomScans THEN cms[s] \cup {"copy"} ELSE cms[s]

ScanLock(s) ==
    /\ spc[s] = "lock"
    /\ mu = None
    /\ \/ /\ Blocked
          /\ Retry(s)
          /\ UNCHANGED <<current, mu, cms, mishaps>>
       \/ /\ ~Blocked
          /\ current' = None
          /\ \/ /\ s \in CustomScans => "copy" \notin cms[s]
                /\ ScanAt(s, "claim", sobj[s])
                /\ mu' = s
                /\ cms' = [cms EXCEPT ![s] = Copied(s)]
                /\ UNCHANGED <<scanQ, mishaps>>
             \/ /\ s \in CustomScans
                /\ \/ "copy" \in cms[s] /\ UNCHANGED mishaps
                   \/ Mishap("api")
                /\ Reject(s, sobj[s])
                /\ UNCHANGED <<mu, cms, scanQ>>
    /\ UNCHANGED <<alive, scan, jobs, orphans, pod, rules, reports, cacheVars,
                   timer, jobQ, podQ, jobWork, histVars>>

(* Recheck, alert rule, the new status, and currentScanName; the deferred  *)
(* unlock. A PrometheusRule that is there already cannot be created again, *)
(* and a Create may fail: the error is logged, the rule's name not recorded. *)
RuleMissing(s) == /\ AlertEnabled /\ s \in AlertScans
                  /\ ~sobj[s].rule /\ s \notin rules

ScanClaim(s) ==
    /\ spc[s] = "claim"
    /\ mu' = None
    /\ \/ /\ RunnerSeen
          /\ Retry(s)
          /\ UNCHANGED <<current, rules, mishaps>>
       \/ /\ ~RunnerSeen
          /\ \E created \in BOOLEAN :
                /\ \/ created = RuleMissing(s) /\ UNCHANGED mishaps
                   \/ ~created /\ RuleMissing(s) /\ Mishap("api")
                /\ rules' = IF created THEN rules \cup {s} ELSE rules
                /\ ScanAt(s, "apply", Launched(sobj[s], sobj[s].rule \/ created, Strict(s)))
          /\ current' = s
          /\ UNCHANGED scanQ
    /\ UNCHANGED <<alive, scan, jobs, orphans, pod, cms, reports, cacheVars,
                   timer, jobQ, podQ, jobWork, histVars>>

(* The generated handler applies the Job and its ConfigMaps. A Job applied *)
(* for a scan deleted meanwhile has no owner.                              *)
CreateJob(s) ==
    /\ jobs' = jobs \cup {s}
    /\ orphans' = IF s \in alive THEN orphans ELSE orphans \cup {s}
    /\ launches' = [launches EXCEPT ![s] = IF s \in jobs THEN @ ELSE Capped(@, 2)]

ScanApply(s) ==
    /\ spc[s] = "apply"
    /\ CreateJob(s)
    /\ ScanAt(s, "status", sobj[s])
    /\ UNCHANGED <<alive, scan, pod, cms, rules, reports, cacheVars, memVars,
                   queueVars, jobWork, counted, mishaps>>

(* Plausible bug: the claim is given back although the Job may be there.   *)
ScanApplyFailsReleasing(s) ==
    /\ Mishap("apply")
    /\ spc[s] = "apply"
    /\ CreateJob(s)
    /\ Retry(s)
    /\ current' = None
    /\ UNCHANGED <<alive, scan, pod, cms, rules, reports, cacheVars, mu, timer,
                   jobQ, podQ, jobWork, counted>>

(* An error of apply drops the new status; the Job may be there or not.    *)
ScanApplyFails(s) ==
    /\ Mishap("apply")
    /\ spc[s] = "apply"
    /\ CreateJob(s) \/ UNCHANGED <<jobs, orphans, launches>>
    /\ Retry(s)
    /\ UNCHANGED <<alive, scan, pod, cms, rules, reports, cacheVars, memVars,
                   jobQ, podQ, jobWork, counted>>

(* The generated handler writes the status of its copy, if nobody wrote    *)
(* the scan since. Refused, it requeues the key, and the later handlers    *)
(* still get the copy.                                                     *)
ScanStatusWrite(s) ==
    LET next == AfterScan(sobj[s])
        kept == IF next = "idle" THEN {} ELSE {"scanner"}
    IN /\ spc[s] = "status"
       /\ \/ /\ Accepted(s, "scanner")
             /\ ScanTo(s, next, sobj[s])
             /\ Store(s, sobj[s], kept)
             /\ UNCHANGED scanQ
          \/ /\ ~Accepted(s, "scanner")
             /\ ScanAt(s, next, sobj[s])
             /\ scanQ' = scanQ \cup {s}
             /\ UNCHANGED scan
       /\ UNCHANGED <<alive, jobs, orphans, pod, cms, rules, reports, cacheVars,
                      memVars, jobQ, podQ, jobWork, histVars, mishaps>>

(* A finished scheduled scan: before NextScanAt, arm the timer again and   *)
(* record the generation seen; after it, wipe the live scan for a new run, *)
(* whatever it has become since the copy was taken (RetryOnConflict).      *)
ScanSched(s) ==
    LET o    == sobj[s]
        next == AfterSched(o)
        kept == IF next = "idle" THEN {} ELSE {"scanner"}
        seenNow == [o EXCEPT !.observed = TRUE]
    IN /\ spc[s] = "sched"
       /\ \/ /\ Early(o)
             /\ timer' = timer \cup {s}
             /\ \/ /\ ~o.observed /\ Accepted(s, "scanner")
                   /\ Store(s, seenNow, kept)
                   /\ ScanTo(s, next, seenNow)
                   /\ UNCHANGED scanQ
                \/ /\ ~o.observed /\ ~Accepted(s, "scanner")
                   /\ scanQ' = scanQ \cup {s}
                   /\ ScanAt(s, next, seenNow)
                   /\ UNCHANGED scan
                \/ /\ o.observed
                   /\ ScanAt(s, next, o)
                   /\ UNCHANGED <<scan, scanQ>>
             /\ UNCHANGED launches
          \/ /\ ~Early(o)
             /\ \/ /\ s \in alive
                   /\ Store(s, Renewed(scan[s]), {})
                   /\ ScanTo(s, next, o)
                   /\ launches' = [launches EXCEPT ![s] = 0]
                   /\ UNCHANGED scanQ
                \/ /\ s \notin alive
                   /\ scanQ' = scanQ \cup {s}
                   /\ ScanAt(s, next, o)
                   /\ UNCHANGED <<scan, launches>>
             /\ UNCHANGED timer
       /\ UNCHANGED <<alive, jobs, orphans, pod, cms, rules, reports, cacheVars,
                      current, mu, jobQ, podQ, jobWork, counted, mishaps>>

(* The metrics of a finished run, from the copy; then, for a scan with a   *)
(* ScheduledScanConfig, the Alerted condition of the live scan (RetryOnConflict).         *)
ScanMetrics(s) ==
    /\ spc[s] = "metrics"
    /\ counted' = [counted EXCEPT ![s] = Capped(@, 2)]
    /\ ScanTo(s, "idle", Blank)
    /\ \/ /\ ~HasConfig(s)
          /\ Released(s, "scanner", "idle")
          /\ UNCHANGED <<scan, scanQ>>
       \/ /\ HasConfig(s) /\ s \in alive
          /\ Store(s, AlertResolved(scan[s], Configured(s)), {})
          /\ UNCHANGED scanQ
       \/ /\ HasConfig(s) /\ s \notin alive
          /\ Released(s, "scanner", "idle")
          /\ scanQ' = scanQ \cup {s}
          /\ UNCHANGED scan
    /\ UNCHANGED <<alive, jobs, orphans, pod, cms, rules, reports, cacheVars,
                   memVars, jobQ, podQ, jobWork, launches, mishaps>>

(* A call to the API server fails: isScanPresent, or the benchmark cannot  *)
(* be read, after a claim of a deleted scan was forgotten; or a status is  *)
(* not saved. The key is requeued, the later handlers still run, a run     *)
(* counted in the metrics stays counted.                                   *)
ScanCallFails(s) ==
    /\ Mishap("api")
    /\ spc[s] \in {"lock", "status", "sched", "metrics"}
    /\ spc[s] = "lock" => mu = None
    /\ \/ UNCHANGED current
       \/ spc[s] = "lock" /\ ~Blocked /\ current' = None
    /\ scanQ' = scanQ \cup {s}
    /\ ScanAt(s, CASE spc[s] = "status" -> AfterScan(sobj[s])
                   [] spc[s] = "sched"  -> AfterSched(sobj[s])
                   [] OTHER             -> "idle", sobj[s])
    /\ counted' = [counted EXCEPT ![s] = IF spc[s] = "metrics" THEN Capped(@, 2) ELSE @]
    /\ UNCHANGED <<apiVars, cacheVars, mu, timer, jobQ, podQ, jobWork, launches>>

-----------------------------------------------------------------------------
(* The Job handler (handleJobs). It starts with a live Get of the scan.    *)

JobPop(s) ==
    /\ s \in jobQ
    /\ jpc[s] = "idle"
    /\ JobThread

(* The two stages of a run that handleJobs tells apart.                    *)
FinishedEarly(s) == scan[s].ran # "none"
Finished(s) == scan[s].complete
Collectable(s) == ~Finished(s) /\ scan[s].ran = "True"

(* No such Job in the cache, or a run still going on: nothing to do.       *)
JobIgnore(s) ==
    /\ JobPop(s)
    /\ \/ s \notin jobCache
       \/ s \in alive /\ ~Finished(s) /\ ~Collectable(s)
    /\ jobQ' = jobQ \ {s}
    /\ UNCHANGED <<apiVars, cacheVars, fresh, memVars, scanQ, podQ, scanWork,
                   jobWork, histVars, mishaps>>

(* The scan is gone: delete its Job. Deleting a Job that is gone already   *)
(* is an error, and the key stays queued until the cache knows.            *)
JobOfDeletedScan(s) ==
    /\ JobPop(s)
    /\ s \in jobCache /\ s \notin alive
    /\ s \in jobs
    /\ jobs' = jobs \ {s}
    /\ orphans' = orphans \ {s}
    /\ jobQ' = jobQ \ {s}
    /\ UNCHANGED <<alive, scan, pod, cms, rules, reports, cacheVars, fresh,
                   memVars, scanQ, podQ, scanWork, jobWork, histVars, mishaps>>

(* purgeOldClusterScanReports: a scheduled scan keeps its newest reports.  *)
KeptAll(s, n) == n
Kept(s, n) == IF Cron(s) /\ n > Retention THEN Retention ELSE n

(* rescheduleScan: a timer for the next run.                               *)
Rearmed(s) == IF Cron(s) THEN timer \cup {s} ELSE timer

(* A completed scan: the final status in a copy, the next run, the reports *)
(* beyond the retention, and the Job, deleted before the status is saved.  *)
(* If there is no Job to delete, or the call fails, the key is requeued.   *)
JobRetire(s) ==
    /\ JobPop(s)
    /\ s \in jobCache /\ s \in alive
    /\ Finished(s)
    /\ timer' = Rearmed(s)
    /\ reports' = [reports EXCEPT ![s] = Kept(s, @)]
    /\ \/ /\ s \in jobs
          /\ jobs' = jobs \ {s}
          /\ orphans' = orphans \ {s}
          /\ JobTo(s, "cleanup", Retired(scan[s], Cron(s), Strict(s)))
          /\ fresh' = [fresh EXCEPT ![s] = @ \cup {"jobber"}]
          /\ jobQ' = jobQ \ {s}
          /\ UNCHANGED mishaps
       \/ /\ \/ s \notin jobs /\ UNCHANGED mishaps
             \/ Mishap("api")
          /\ UNCHANGED <<jobs, orphans, jobWork, fresh, jobQ>>
    /\ UNCHANGED <<alive, scan, pod, cms, rules, cacheVars, current, mu, scanQ,
                   podQ, scanWork, histVars>>

(* createClusterScanReport and the Create of it.                           *)
Reported(s) == Capped(reports[s], MaxReports)

(* A run that is over: read the output from the cache and create a report, *)
(* unless the run failed; Complete in a copy. Without output, retry.       *)
JobCollect(s) ==
    /\ JobPop(s)
    /\ s \in jobCache /\ s \in alive
    /\ Collectable(s)
    /\ \/ /\ scan[s].failed
          /\ JobTo(s, "complete", Completed(scan[s], scan[s].summary))
          /\ UNCHANGED reports
       \/ /\ ~scan[s].failed
          /\ "output" \in cmCache[s]
          /\ \E summary \in Outcomes : JobTo(s, "complete", Completed(scan[s], summary))
          /\ reports' = [reports EXCEPT ![s] = Reported(s)]
    /\ fresh' = [fresh EXCEPT ![s] = @ \cup {"jobber"}]
    /\ jobQ' = jobQ \ {s}
    /\ UNCHANGED <<alive, scan, jobs, orphans, pod, cms, rules, cacheVars, memVars,
                   scanQ, podQ, scanWork, histVars, mishaps>>

(* Complete is saved and the key enqueued for the retirement; refused, the *)
(* key is requeued and the whole collection done again.                    *)
JobComplete(s) ==
    /\ jpc[s] = "complete"
    /\ JobTo(s, "idle", Blank)
    /\ jobQ' = jobQ \cup {s}
    /\ \/ /\ Accepted(s, "jobber")
          /\ Store(s, jobj[s], {})
       \/ /\ ~Accepted(s, "jobber")
          /\ Released(s, "jobber", "idle")
          /\ UNCHANGED scan
    /\ UNCHANGED <<alive, jobs, orphans, pod, cms, rules, reports, cacheVars,
                   memVars, scanQ, podQ, scanWork, histVars, mishaps>>

(* ensureCleanup: the Pods and the ConfigMaps of the scan that the caches  *)
(* list.                                                                   *)
CleanedOutput(s) == cms[s] \ {"output"}
Cleaned(s) == cms[s] \ cmCache[s]

JobCleanup(s) ==
    /\ jpc[s] = "cleanup"
    /\ pod' = [pod EXCEPT ![s] = IF podCache[s] # "none" THEN "none" ELSE @]
    /\ cms' = [cms EXCEPT ![s] = Cleaned(s)]
    /\ JobAt(s, "finish", jobj[s])
    /\ UNCHANGED <<alive, scan, jobs, orphans, rules, reports, cacheVars, memVars,
                   queueVars, scanWork, histVars, mishaps>>

(* The final status is saved; refused, the key is requeued.                *)
JobFinish(s) ==
    /\ jpc[s] = "finish"
    /\ \/ /\ Accepted(s, "jobber")
          /\ Store(s, jobj[s], {})
          /\ JobTo(s, "release", Blank)
          /\ counted' = [counted EXCEPT ![s] = 0]
          /\ UNCHANGED jobQ
       \/ /\ ~Accepted(s, "jobber")
          /\ JobAt(s, "idle", Blank)
          /\ jobQ' = jobQ \cup {s}
          /\ UNCHANGED <<scan, counted>>
    /\ UNCHANGED <<alive, jobs, orphans, pod, cms, rules, reports, cacheVars,
                   memVars, scanQ, podQ, scanWork, launches, mishaps>>

(* Plausible bug: the claim is kept.                                       *)
JobReleaseForgets(s) ==
    /\ jpc[s] = "release"
    /\ JobAt(s, "idle", Blank)
    /\ UNCHANGED <<apiVars, cacheVars, memVars, queueVars, scanWork, histVars, mishaps>>

(* currentScanName is emptied, without the mutex and whatever it holds.    *)
JobRelease(s) ==
    /\ jpc[s] = "release"
    /\ current' = None
    /\ JobAt(s, "idle", Blank)
    /\ UNCHANGED <<apiVars, cacheVars, mu, timer, queueVars, scanWork, histVars, mishaps>>

(* A call to the API server fails in the middle of a pass: the key is      *)
(* requeued, what was done stays done.                                     *)
JobCallFails(s) ==
    /\ Mishap("api")
    /\ jpc[s] \in {"complete", "cleanup", "finish"}
    /\ JobAt(s, "idle", Blank)
    /\ jobQ' = jobQ \cup {s}
    /\ UNCHANGED <<apiVars, cacheVars, memVars, scanQ, podQ, scanWork, histVars>>

-----------------------------------------------------------------------------
(* The Pod handler (handlePods): a Pod with the completion annotation marks *)
(* the scan, if the Job is cached and nobody marked it before.              *)
Done(s) == podCache[s] \in Verdicts

PodMarks(s) == Done(s) /\ s \in alive /\ s \in jobCache /\ scan[s].ran # "True"

PodIgnore(s) ==
    /\ s \in podQ
    /\ ~PodMarks(s)
    /\ podQ' = podQ \ {s}
    /\ UNCHANGED <<apiVars, cacheVars, fresh, memVars, scanQ, jobQ, scanWork,
                   jobWork, histVars, mishaps>>

PodMark(s) ==
    /\ s \in podQ
    /\ PodMarks(s)
    /\ Store(s, Marked(scan[s], podCache[s], Strict(s)), {})
    /\ podQ' = podQ \ {s}
    /\ jobQ' = jobQ \cup {s}
    /\ UNCHANGED <<alive, jobs, orphans, pod, cms, rules, reports, cacheVars,
                   memVars, scanQ, scanWork, jobWork, histVars, mishaps>>

-----------------------------------------------------------------------------
(* A run takes minutes, and so does the wait for the next one; a watch     *)
(* event or the tail of a handler pass takes much less. Unless "lag" is    *)
(* among the faults, they end only after the operator has saved and seen   *)
(* the state of the scan.                                                  *)
Settled(s) == \/ "lag" \in Faults
              \/ s \notin alive
              \/ /\ spc[s] \notin {"apply", "status", "sched", "metrics"}
                 /\ "cache" \in fresh[s]
                 /\ (s \in jobs) = (s \in jobCache)
                 /\ cmCache[s] = cms[s]

(* The cluster: the Job controller and the runner, garbage collection.     *)

StartPod(s) ==
    /\ s \in jobs
    /\ pod[s] = "none"
    /\ pod' = [pod EXCEPT ![s] = "running"]
    /\ UNCHANGED <<alive, scan, jobs, orphans, cms, rules, reports, cacheVars, fresh,
                   memVars, queueVars, scanWork, jobWork, histVars, mishaps>>

(* The runner ends: its output, then its annotation.                       *)
RunnerDone(s) ==
    /\ pod[s] = "running"
    /\ Settled(s)
    /\ "lag" \in Faults \/ \A t \in Scans : spc[t] \notin {"lock", "claim"}
    /\ \E done \in Verdicts :
          /\ pod' = [pod EXCEPT ![s] = done]
          /\ cms' = [cms EXCEPT ![s] = IF done = "true" THEN @ \cup {"output"} ELSE @]
    /\ UNCHANGED <<alive, scan, jobs, orphans, rules, reports, cacheVars, fresh,
                   memVars, queueVars, scanWork, jobWork, histVars, mishaps>>

JobExpires(s) ==
    /\ Mishap("expire")
    /\ s \in jobs /\ pod[s] # "none"
    /\ jobs' = jobs \ {s}
    /\ orphans' = orphans \ {s}
    /\ UNCHANGED <<alive, scan, pod, cms, rules, reports, cacheVars, fresh, memVars,
                   queueVars, scanWork, jobWork, histVars>>

CollectOrphan(s) ==
    /\ s \in jobs \cap orphans
    /\ jobs' = jobs \ {s}
    /\ orphans' = orphans \ {s}
    /\ UNCHANGED <<alive, scan, pod, cms, rules, reports, cacheVars, fresh, memVars,
                   queueVars, scanWork, jobWork, histVars, mishaps>>

(* A Job is deleted with propagation Background: its Pod goes later.       *)
CollectPod(s) ==
    /\ s \notin jobs /\ pod[s] # "none"
    /\ pod' = [pod EXCEPT ![s] = "none"]
    /\ UNCHANGED <<alive, scan, jobs, orphans, cms, rules, reports, cacheVars, fresh,
                   memVars, queueVars, scanWork, jobWork, histVars, mishaps>>

-----------------------------------------------------------------------------
(* The informers: a cache jumps to the live state, and the key is queued.  *)

SyncScan(s) ==
    /\ IF s \in alive THEN "cache" \notin fresh[s] ELSE s \in seen
    /\ seen' = IF s \in alive THEN seen \cup {s} ELSE seen \ {s}
    /\ scanCache' = [scanCache EXCEPT ![s] = scan[s]]
    /\ fresh' = [fresh EXCEPT ![s] = IF s \in alive THEN @ \cup {"cache"} ELSE @]
    /\ scanQ' = scanQ \cup {s}
    /\ UNCHANGED <<apiVars, jobCache, podCache, cmCache, memVars, jobQ, podQ,
                   scanWork, jobWork, histVars, mishaps>>

SyncJob(s) ==
    /\ (s \in jobs) # (s \in jobCache)
    /\ jobCache' = IF s \in jobs THEN jobCache \cup {s} ELSE jobCache \ {s}
    /\ jobQ' = jobQ \cup {s}
    /\ UNCHANGED <<apiVars, seen, scanCache, podCache, cmCache, fresh, memVars,
                   scanQ, podQ, scanWork, jobWork, histVars, mishaps>>

SyncPod(s) ==
    /\ podCache[s] # pod[s]
    /\ podCache' = [podCache EXCEPT ![s] = pod[s]]
    /\ podQ' = podQ \cup {s}
    /\ UNCHANGED <<apiVars, seen, scanCache, jobCache, cmCache, fresh, memVars,
                   scanQ, jobQ, scanWork, jobWork, histVars, mishaps>>

SyncConfigMaps(s) ==
    /\ cmCache[s] # cms[s]
    /\ cmCache' = [cmCache EXCEPT ![s] = cms[s]]
    /\ UNCHANGED <<apiVars, seen, scanCache, jobCache, podCache, fresh, memVars,
                   queueVars, scanWork, jobWork, histVars, mishaps>>

(* What has not changed is delivered again, and the keys are queued again. *)
(* Unless "lag" is among the faults, that does not happen just when an     *)
(* event of the scan, a pass over it or its timer is about to come.        *)
RedeliverScan(s) ==
    /\ "resync" \in Faults
    /\ s \in seen /\ s \notin scanQ
    /\ \/ "lag" \in Faults
       \/ /\ "cache" \in fresh[s] /\ spc[s] = "idle"
          /\ s \in timer => scan[s].next # "past"
    /\ scanQ' = scanQ \cup {s}
    /\ UNCHANGED <<apiVars, cacheVars, fresh, memVars, jobQ, podQ, scanWork, jobWork,
                   histVars, mishaps>>

RedeliverJob(s) ==
    /\ "resync" \in Faults
    /\ s \in jobCache /\ s \notin jobQ
    /\ jobQ' = jobQ \cup {s}
    /\ UNCHANGED <<apiVars, cacheVars, fresh, memVars, scanQ, podQ, scanWork, jobWork,
                   histVars, mishaps>>

RedeliverPod(s) ==
    /\ "resync" \in Faults
    /\ podCache[s] # "none" /\ s \notin podQ
    /\ podQ' = podQ \cup {s}
    /\ UNCHANGED <<apiVars, cacheVars, fresh, memVars, scanQ, jobQ, scanWork, jobWork,
                   histVars, mishaps>>

-----------------------------------------------------------------------------
(* The clock and the timers of EnqueueAfter.                               *)

(* The time one copy or another of the scan names as its next run comes.   *)
TimePasses(s) ==
    /\ "later" \in {scan[s].next, scanCache[s].next, sobj[s].next, jobj[s].next}
    /\ jpc[s] = "idle" /\ Settled(s)
    /\ "lag" \in Faults \/ s \notin scanQ
    /\ scan' = [scan EXCEPT ![s] = Elapsed(@)]
    /\ scanCache' = [scanCache EXCEPT ![s] = Elapsed(@)]
    /\ sobj' = [sobj EXCEPT ![s] = Elapsed(@)]
    /\ UNCHANGED <<alive, jobs, orphans, pod, cms, rules, reports, seen, jobCache,
                   podCache, cmCache, fresh, memVars, queueVars, spc, jobWork,
                   histVars, mishaps>>

TimerFires(s) ==
    /\ s \in timer
    /\ scan[s].next # "later" /\ jpc[s] = "idle"
    /\ timer' = timer \ {s}
    /\ scanQ' = scanQ \cup {s}
    /\ UNCHANGED <<apiVars, cacheVars, fresh, current, mu, jobQ, podQ, scanWork,
                   jobWork, histVars, mishaps>>

-----------------------------------------------------------------------------
(* Users.                                                                  *)

(* Once scans are deleted, new ones may have the name of an old one. The   *)
(* operator is through with its handler pass over the old one by then.     *)
CreateScan(s) ==
    /\ s \notin alive
    /\ "delete" \in Faults /\ mishaps > 0 => "reuse" \in Faults
    /\ spc[s] = "idle" /\ jpc[s] = "idle"
    /\ alive' = alive \cup {s}
    /\ Store(s, Blank, {})
    /\ launches' = [launches EXCEPT ![s] = 0]
    /\ counted' = [counted EXCEPT ![s] = 0]
    /\ UNCHANGED <<jobs, orphans, pod, cms, rules, reports, cacheVars, memVars,
                   queueVars, scanWork, jobWork, mishaps>>

(* An edit of the scan that changes its resourceVersion and generation.    *)
EditScan(s) ==
    /\ Mishap("edit")
    /\ s \in alive
    /\ Store(s, [scan[s] EXCEPT !.observed = FALSE], {})
    /\ UNCHANGED <<alive, jobs, orphans, pod, cms, rules, reports, cacheVars, memVars,
                   queueVars, scanWork, jobWork, histVars>>

(* Reports and alert rules have the scan as owner and go with it.          *)
DeleteScan(s) ==
    /\ Mishap("delete")
    /\ s \in alive
    /\ alive' = alive \ {s}
    /\ Store(s, Blank, {})
    /\ orphans' = orphans \cup (jobs \cap {s})
    /\ rules' = rules \ {s}
    /\ reports' = [reports EXCEPT ![s] = 0]
    /\ UNCHANGED <<jobs, pod, cms, cacheVars, memVars, queueVars, scanWork, jobWork,
                   histVars>>

-----------------------------------------------------------------------------
(* The operator restarts: its memory is lost, the caches list everything   *)
(* before the first handler runs.                                          *)
Crash ==
    /\ \/ Mishap("crash")
       \/ Mishap("restart") /\ \A s \in Scans : spc[s] = "idle" /\ jpc[s] = "idle"
    /\ current' = None /\ mu' = None /\ timer' = {}
    /\ seen' = alive /\ scanCache' = scan
    /\ jobCache' = jobs /\ podCache' = pod /\ cmCache' = cms
    /\ fresh' = [s \in Scans |-> IF s \in alive THEN {"cache"} ELSE {}]
    /\ scanQ' = alive /\ jobQ' = jobs /\ podQ' = {s \in Scans : pod[s] # "none"}
    /\ spc' = [s \in Scans |-> "idle"] /\ sobj' = [s \in Scans |-> Blank]
    /\ jpc' = [s \in Scans |-> "idle"] /\ jobj' = [s \in Scans |-> Blank]
    /\ counted' = [s \in Scans |-> 0]
    /\ UNCHANGED <<apiVars, launches>>

-----------------------------------------------------------------------------
ScanHandler(s) == \/ ScanStart(s) \/ ScanGate(s) \/ ScanLock(s) \/ ScanClaim(s)
                  \/ ScanApply(s) \/ ScanApplyFails(s) \/ ScanStatusWrite(s)
                  \/ ScanSched(s) \/ ScanMetrics(s) \/ ScanCallFails(s)

JobHandler(s) == \/ JobIgnore(s) \/ JobOfDeletedScan(s) \/ JobRetire(s) \/ JobCollect(s)
                 \/ JobComplete(s) \/ JobCleanup(s) \/ JobFinish(s) \/ JobRelease(s)
                 \/ JobCallFails(s)

PodHandler(s) == PodIgnore(s) \/ PodMark(s)

Cluster(s) == \/ StartPod(s) \/ RunnerDone(s) \/ JobExpires(s)
              \/ CollectOrphan(s) \/ CollectPod(s)

Informers(s) == \/ SyncScan(s) \/ SyncJob(s) \/ SyncPod(s) \/ SyncConfigMaps(s)
                \/ RedeliverScan(s) \/ RedeliverJob(s) \/ RedeliverPod(s)

Clock(s) == TimePasses(s) \/ TimerFires(s)

Users(s) == CreateScan(s) \/ EditScan(s) \/ DeleteScan(s)

Next == \/ \E s \in Scans : \/ ScanHandler(s) \/ JobHandler(s) \/ PodHandler(s)
                            \/ Cluster(s) \/ Informers(s) \/ Clock(s) \/ Users(s)
        \/ Crash

Spec == Init /\ [][Next]_vars

-----------------------------------------------------------------------------
(* Fairness. The workers, the informers, the cluster and the clock always  *)
(* get on; nothing is assumed of users and of faults. The workqueue is     *)
(* FIFO and Go's mutex hands over to a waiter, so a key that keeps coming  *)
(* back is popped, and a waiter gets the mutex, in the end.                *)
ScanFairness(s) ==
    /\ SF_vars(ScanStart(s)) /\ SF_vars(ScanLock(s))
    /\ WF_vars(ScanGate(s)) /\ WF_vars(ScanClaim(s)) /\ WF_vars(ScanApply(s))
    /\ WF_vars(ScanStatusWrite(s)) /\ WF_vars(ScanSched(s)) /\ WF_vars(ScanMetrics(s))

Fairness == \A s \in Scans :
    /\ ScanFairness(s)
    /\ SF_vars(JobHandler(s))
    /\ WF_vars(PodHandler(s))
    /\ WF_vars(StartPod(s)) /\ WF_vars(RunnerDone(s))
    /\ WF_vars(CollectOrphan(s)) /\ WF_vars(CollectPod(s))
    /\ WF_vars(SyncScan(s)) /\ WF_vars(SyncJob(s))
    /\ WF_vars(SyncPod(s)) /\ WF_vars(SyncConfigMaps(s))
    /\ WF_vars(TimePasses(s)) /\ WF_vars(TimerFires(s))

FairSpec == Spec /\ Fairness

-----------------------------------------------------------------------------
(* Properties.                                                             *)

(* At most one runner Job exists at any time: what currentScanName, the    *)
(* runner checks and the mutex of handleClusterScans are for.              *)
SingleRunner == \A s, t \in jobs : s = t

(* Why it holds: a Job, and every step between a claim and its release,    *)
(* belongs to the scan that currentScanName names; a claim is made under   *)
(* the mutex, from empty.                                                  *)
ClaimInv ==
    /\ seen \subseteq alive
    /\ \A s \in Scans : spc[s] # "idle" => s \in alive
    /\ current \in Scans => current \in alive
    /\ jobs \subseteq {current}
    /\ \A s \in Scans : spc[s] = "claim" <=> mu = s
    /\ \A s \in Scans : spc[s] = "claim" => current = None
    /\ \A s \in Scans : spc[s] = "apply" => current = s /\ s \notin jobs
    /\ \A s \in Scans : jpc[s] \in {"cleanup", "finish", "release"}
                        => current = s /\ s \notin jobs /\ spc[s] # "apply"

(* The claim on the runner, as other components see it: taken from empty,  *)
(* given back when the Job is gone, one Job at a time and only under it.   *)
Serial == INSTANCE ScanSerial WITH claim <- current, running <- jobs
Serialised == Serial!Spec

(* currentScanName names a scan that has something left to do that will    *)
(* empty it: its Job is there or about to be applied, or its retirement is *)
(* under way ("Some scan is running, wait"). Otherwise every other scan    *)
(* waits for ever.                                                         *)
ClaimBacked ==
    current \in alive => \/ current \in jobs
                         \/ spc[current] = "apply"
                         \/ jpc[current] \in {"cleanup", "finish", "release"}

(* A Job is taken away from a scan that exists only after its Pod carries  *)
(* the completion annotation: no run is cut short (handleJobs).            *)
NoRunCutShort ==
    [][ \A s \in jobs \ jobs' : s \in alive => pod[s] \in Verdicts ]_vars

(* A scan whose next run is set to a time to come is not launched before   *)
(* it (handleScheduledClusterScans, "process only if the time is right").  *)
TimelyLaunch ==
    [][ \A s \in jobs' \ jobs : scan[s].next # "later" ]_vars

(* A requested run gets one Job: no retry, conflict or stale copy makes    *)
(* handleClusterScans launch it again.                                     *)
LaunchedOnce == \A s \in Scans : launches[s] <= 1

(* Reports match runs: each run of a scan asked for once adds at most one, *)
(* a scheduled scan keeps its retention and the run not yet retired, and a *)
(* pass or fail verdict is never shown without a report (JobCollect).      *)
ReportPerRun ==
    \A s \in alive :
        /\ reports[s] <= IF Cron(s) THEN Retention + 1 ELSE launches[s]
        /\ scan[s].complete /\ scan[s].shown \in {"pass", "fail"} => reports[s] >= 1

(* A completed scan that lacks its next run, its alert state or its final  *)
(* display still has a Job, or a Job handler, that will supply them        *)
(* (handleJobs retires a scan only on an event of its Job).                *)
RetirementPending ==
    \A s \in alive :
        /\ scan[s].complete
        /\ \/ Cron(s) /\ scan[s].next = "none"
           \/ ~scan[s].failed /\ scan[s].alerted = "none"
           \/ scan[s].shown \in {"pending", "running", "reporting"}
        => s \in jobs \/ jpc[s] \in {"cleanup", "finish"}

(* The end of a run is recorded on the launch it belongs to: a Pod never   *)
(* marks a scan whose launch was not saved (handlePods).                   *)
MarkFollowsLaunch ==
    \A s \in alive : scan[s].ran = "True" => scan[s].created /\ scan[s].lastRun

(* A finished scheduled scan is wiped for its next run only when that run  *)
(* is due, and never while a Job of it is there (handleScheduledClusterScans, *)
(* "process only if the time is right").                                   *)
TimelyRerun ==
    [][ \A s \in alive \cap alive' :
            scan[s].lastRun /\ ~scan'[s].lastRun
            => scan[s].next = "past" /\ s \notin jobs ]_vars

(* An alert rule that exists is named in the status of its scan, once the  *)
(* launch that made it is saved: a rule without its name can neither be    *)
(* created again nor used (handleClusterScans, handleClusterScanMetrics).  *)
RuleRecorded ==
    \A s \in rules \cap alive :
        scan[s].rule \/ (spc[s] \in {"apply", "status"} /\ sobj[s].rule)

(* The counter of completed scans counts a run once (handleClusterScanMetrics). *)
CountedOnce == \A s \in Scans : counted[s] <= 1

(* The same of the scans with a ScheduledScanConfig, the only ones that    *)
(* handleClusterScanMetrics marks as counted: no stale copy, re-delivery,  *)
(* requeue or later pass counts a run of theirs again.                     *)
PlannedCountedOnce == \A s \in Planned : counted[s] <= 1

(* The copy of a custom benchmark's ConfigMap stays no longer than the     *)
(* launch, the Job and its cleanup ("this will be cleaned up after scan    *)
(* job finishes", getCustomBenchmarkConfigMap).                            *)
CopyCleaned ==
    \A s \in alive :
        "copy" \in cms[s] => \/ spc[s] \in {"claim", "apply"}
                             \/ s \in jobs
                             \/ jpc[s] = "cleanup"

(* A scan is Failed only because its profile does not validate or because  *)
(* its runner said so.                                                     *)
FailedForCause ==
    \A s \in alive : scan[s].failed => "reject" \in Faults \/ scan[s].ran = "True"

(* A scan whose run is retired shows the verdict its conditions and its    *)
(* summary call for: Complete was saved without a refresh of the display,  *)
(* so this rests on the final status (setClusterScanStatusDisplay).        *)
DisplayTells ==
    \A s \in alive \ jobs :
        scan[s].complete /\ jpc[s] \notin {"cleanup", "finish"} =>
            /\ scan[s].shown \in {"error", "fail", "pass"}
            /\ scan[s].shown = "error" <=> scan[s].failed
            /\ scan[s].shown = "fail"
               <=> /\ ~scan[s].failed
                   /\ \/ scan[s].summary = "failing"
                      \/ scan[s].summary = "warned" /\ Strict(s)

(* The statuses the handlers work on, as lists: what each handler makes of *)
(* the list by the accessors of pkg/condition is what this model says of   *)
(* the conditions, with no type twice and none left over from a past run.  *)
Held == UNION {{scan[s], sobj[s], jobj[s]} : s \in Scans}

ConditionsAgree == \A st \in Held : ListAgrees(st, 1)

(* Every scan that exists finishes, with a verdict users can see.          *)
EveryScanFinishes ==
    \A s \in Scans :
        s \in alive ~> \/ s \notin alive
                       \/ scan[s].complete /\ scan[s].shown \in {"pass", "fail", "error"}

(* A scheduled scan runs again and again.                                  *)
RunsForever ==
    \A s \in Scheduled : /\ s \in alive ~> s \notin alive \/ launches[s] = 1
                         /\ launches[s] = 1 ~> s \notin alive \/ launches[s] = 0
=============================================================================
