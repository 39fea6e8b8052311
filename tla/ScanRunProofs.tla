---------------------------- MODULE ScanRunProofs ----------------------------
(***************************************************************************)
(* Proofs that every scan goes through the phases of ScanRuns, one run     *)
(* after the other, and what follows for launches, reports, rules, copies, *)
(* counts and times, as long as nothing goes wrong but rejections and, for *)
(* most of it, Jobs that expire; informers may deliver again at any time.  *)
(***************************************************************************)
EXTENDS ScanRuns, ScanControllerProofs

-----------------------------------------------------------------------------
(* What the handlers make of unrun, ongoing and finished statuses.         *)

(* The passes of the scan handler over an unrun scan.                      *)
LEMMA PendedUnrun ==
    ASSUME NEW st \in Status, NEW strict \in BOOLEAN, Unrun(st), ~st.pending
    PROVE  LET new == Pended(st, strict)
           IN Unrun(new) /\ new.pending /\ new.rule = st.rule
<1> DEFINE told == [st EXCEPT !.pending = TRUE]
<1>1. told \in Status /\ Unrun(told) /\ told.pending /\ told.rule = st.rule
  BY DEF Status, Unrun, Eligible
<1> HIDE DEF told
<1>2. LET new == Refreshed(told, strict)
      IN Unrun(new) /\ new.pending /\ new.rule = told.rule
  BY <1>1, RefreshedFields DEF Unrun, Eligible
<1> QED BY <1>1, <1>2 DEF Pended, told

(* A refused scan has Failed set and stays unrun (handleClusterScans).     *)
LEMMA RejectedUnrun ==
    ASSUME NEW st \in Status, NEW strict \in BOOLEAN, Unrun(st), "reject" \in Faults
    PROVE  LET new == Rejected(st, strict)
           IN Unrun(new) /\ new.pending /\ new.rule = st.rule
<1> DEFINE told == [Relisted(st) EXCEPT !.failed = TRUE]
<1>1. told \in Status /\ Unrun(told) /\ told.pending /\ told.rule = st.rule
  BY DEF Status, Unrun, Eligible, Relisted, Unconditioned
<1> HIDE DEF told
<1>2. LET new == Refreshed(told, strict)
      IN Unrun(new) /\ new.pending /\ new.rule = told.rule
  BY <1>1, RefreshedFields DEF Unrun, Eligible
<1> QED BY <1>1, <1>2 DEF Rejected, told

(* The status saved at the launch is that of a run under way, and names    *)
(* the alert rule if there is one (handleClusterScans).                    *)
LEMMA LaunchedOngoing ==
    ASSUME NEW st \in Status, NEW strict \in BOOLEAN, NEW rule \in BOOLEAN, Unrun(st)
    PROVE  LET new == Launched(st, rule, strict)
           IN Ongoing(new) /\ new.ran = "Unknown" /\ new.rule = rule
<1> DEFINE told == [Relisted(st) EXCEPT !.created = TRUE, !.ran = "Unknown",
                                        !.lastRun = TRUE, !.rule = rule]
<1>1. told \in Status /\ Ongoing(told) /\ told.ran = "Unknown" /\ told.rule = rule /\ ~told.failed
  BY DEF Status, Unrun, Eligible, Ongoing, Relisted, Unconditioned
<1> HIDE DEF told
<1>2. LET new == Refreshed(told, strict)
      IN Ongoing(new) /\ new.ran = "Unknown" /\ new.rule = told.rule
  BY <1>1, RefreshedFields DEF Ongoing
<1> QED BY <1>1, <1>2 DEF Launched, told

(* The Pod handler marks the end of the run and whether it failed          *)
(* (handlePods).                                                           *)
LEMMA MarkedOngoing ==
    ASSUME NEW st \in Status, NEW strict \in BOOLEAN, NEW done, Ongoing(st), st.ran # "True"
    PROVE  LET new == Marked(st, done, strict)
           IN /\ Ongoing(new) /\ new.ran = "True" /\ ~new.complete
              /\ new.failed = (done # "true") /\ new.rule = st.rule
<1> DEFINE told == [st EXCEPT !.ran = "True", !.failed = @ \/ done # "true"]
<1>1. /\ told \in Status /\ told.ran = "True" /\ ~told.complete
      /\ told.failed = (done # "true") /\ told.rule = st.rule
      /\ told.created /\ told.lastRun /\ told.alerted = "none" /\ told.next = "none"
  BY DEF Status, Ongoing
<1> HIDE DEF told
<1>2. told.failed => ShownState(told, strict) = "error"
  BY DEF ShownState
<1>3. LET new == Refreshed(told, strict)
      IN /\ Ongoing(new) /\ new.ran = "True" /\ ~new.complete
         /\ new.failed = (done # "true") /\ new.rule = st.rule
  BY <1>1, <1>2, RefreshedFields DEF Ongoing
<1> QED BY <1>3 DEF Marked, told

(* The Job handler completes a run that failed or has a summary            *)
(* (handleJobs).                                                           *)
LEMMA CompletedOngoing ==
    ASSUME NEW st \in Status, NEW summary \in Summaries, Ongoing(st), st.ran = "True",
           st.failed \/ summary # "none"
    PROVE  LET new == Completed(st, summary)
           IN Ongoing(new) /\ new.complete /\ new.failed = st.failed /\ new.rule = st.rule
  BY DEF Completed, Ongoing, Status

(* The Job handler's final status is that of a finished run, its next one  *)
(* to come if the scan is scheduled (handleJobs).                          *)
LEMMA RetiredOver ==
    ASSUME NEW st \in Status, NEW strict \in BOOLEAN, NEW cron \in BOOLEAN,
           Ongoing(st), st.complete
    PROVE  LET new == Retired(st, cron, strict)
           IN /\ Over(new, cron) /\ new.next # "past" /\ new.alerted \in {"none", "Unknown"}
              /\ new.failed = st.failed /\ new.rule = st.rule
<1> DEFINE told == [st EXCEPT !.alerted = IF st.failed THEN @ ELSE "Unknown",
                              !.observed = TRUE]
           new  == Refreshed(told, strict)
<1>1. /\ told \in Status /\ told.created /\ told.lastRun /\ told.ran = "True"
      /\ told.complete /\ told.next = "none" /\ told.observed
      /\ told.alerted = (IF told.failed THEN "none" ELSE "Unknown")
      /\ told.failed = st.failed /\ told.rule = st.rule
      /\ told.failed \/ told.summary # "none"
  BY DEF Status, Ongoing
<1> HIDE DEF told
<1>2. ShownState(told, strict) \in (IF told.failed THEN {"error"} ELSE {"pass", "fail"})
  BY <1>1 DEF ShownState, Verdict
<1>3. /\ new \in Status /\ new.created /\ new.lastRun /\ new.ran = "True"
      /\ new.complete /\ new.next = "none" /\ new.observed
      /\ new.alerted = (IF new.failed THEN "none" ELSE "Unknown")
      /\ new.failed = st.failed /\ new.rule = st.rule
      /\ new.shown \in (IF new.failed THEN {"error"} ELSE {"pass", "fail"})
  BY <1>1, <1>2, RefreshedFields, RefreshedType
<1> HIDE DEF new
<1>4. Retired(st, cron, strict) = [new EXCEPT !.next = IF cron THEN "later" ELSE @]
  BY DEF Retired, new, told
<1> QED BY <1>3, <1>4 DEF Over, Status

(* The metrics handler resolves Alerted and changes nothing else           *)
(* (handleClusterScanMetrics).                                             *)
LEMMA ResolvedOver ==
    ASSUME NEW st \in Status, NEW configured \in BOOLEAN, NEW cron \in BOOLEAN,
           Over(st, cron), st.alerted = "Unknown"
    PROVE  LET new == AlertResolved(st, configured)
           IN /\ Over(new, cron) /\ new.alerted # "Unknown" /\ new.next = st.next
              /\ new.failed = st.failed /\ new.rule = st.rule
  BY DEF AlertResolved, Over, Status

(* The status that the scheduled-scan handler wipes for the next run is    *)
(* that of a scan that has not run (handleScheduledClusterScans).          *)
LEMMA RenewedUnrun ==
    ASSUME NEW st \in Status, NEW cron \in BOOLEAN, Over(st, cron)
    PROVE  Unrun(Renewed(st)) /\ ~Renewed(st).pending /\ Renewed(st).rule = st.rule
  BY DEF Renewed, Unconditioned, Unrun, Eligible, Over, Status

(* Time changes no status that waits for nothing.                          *)
LEMMA ElapsedSame ==
    ASSUME NEW st \in Status, st.next # "later"
    PROVE  Elapsed(st) = st
  BY DEF Elapsed, Status

(* Time makes the next run of a finished scan due and changes nothing      *)
(* else.                                                                   *)
LEMMA ElapsedOver ==
    ASSUME NEW st \in Status, NEW cron \in BOOLEAN, Over(st, cron)
    PROVE  LET new == Elapsed(st)
           IN /\ Over(new, cron) /\ new.next # "later"
              /\ new.alerted = st.alerted /\ new.failed = st.failed /\ new.rule = st.rule
  BY DEF Elapsed, Over, Status

(* Who else gets the object of a pass.                                     *)
LEMMA NextHandler ==
    ASSUME NEW st \in Status
    PROVE  /\ Unrun(st) \/ Ongoing(st) => AfterScan(st) = "idle"
           /\ \A cron \in BOOLEAN : Over(st, cron) =>
                 /\ AfterScan(st) = IF cron THEN "sched"
                                    ELSE IF st.alerted = "Unknown" THEN "metrics" ELSE "idle"
                 /\ AfterSched(st) = IF st.alerted = "Unknown" THEN "metrics" ELSE "idle"
  BY DEF Unrun, Eligible, Ongoing, Over, AfterScan, AfterSched, WakesSchedule,
         WakesMetrics, Status

(* Only an unrun scan can be taken by the scan handler.                    *)
LEMMA EligibleUnrun ==
    ASSUME NEW st
    PROVE  /\ Unrun(st) => Eligible(st)
           /\ Ongoing(st) => ~Eligible(st)
           /\ \A cron : Over(st, cron) => ~Eligible(st)
  BY DEF Unrun, Ongoing, Over, Eligible

-----------------------------------------------------------------------------
(* A step of one scan and the phase of another.                            *)

(* What a phase of a scan reads, as a step of another scan leaves it.      *)
Same(s) ==
    /\ (s \in alive') = (s \in alive) /\ (s \in jobs') = (s \in jobs)
    /\ (s \in rules') = (s \in rules) /\ (s \in seen') = (s \in seen)
    /\ (s \in jobCache') = (s \in jobCache) /\ (s \in timer') = (s \in timer)
    /\ (s \in scanQ') = (s \in scanQ)
    /\ scan'[s] = scan[s] /\ scanCache'[s] = scanCache[s]
    /\ pod'[s] = pod[s] /\ podCache'[s] = podCache[s]
    /\ cms'[s] = cms[s] /\ cmCache'[s] = cmCache[s]
    /\ reports'[s] = reports[s] /\ fresh'[s] = fresh[s]
    /\ spc'[s] = spc[s] /\ sobj'[s] = sobj[s]
    /\ jpc'[s] = jpc[s] /\ jobj'[s] = jobj[s]
    /\ launches'[s] = launches[s] /\ counted'[s] = counted[s]

(* A scan stays in its phase while nothing that the phase reads of it      *)
(* changes.                                                                *)
LEMMA PhaseKept ==
    ASSUME NEW s \in Scans, Same(s)
    PROVE  /\ Unborn(s) => Unborn(s)'
           /\ Awaiting(s) => Awaiting(s)'
           /\ Unsaved(s) => Unsaved(s)'
           /\ Running(s) => Running(s)'
           /\ Retiring(s) => Retiring(s)'
           /\ Resting(s) => Resting(s)'
           /\ Stranded(s) /\ current' = current => Stranded(s)'
<1> USE DEF NoRunner, Fresh, TrueCache
<1>1. Unborn(s) => Unborn(s)'
  BY DEF Same, Unborn
<1>2. Awaiting(s) => Awaiting(s)'
  BY DEF Same, Awaiting, LaggingUnrun, Passing, HoldsFresh, OldReports
<1>3. Unsaved(s) => Unsaved(s)'
  BY DEF Same, Unsaved, HoldsFresh, OldReports
<1>4. Running(s) => Running(s)'
  BY DEF Same, Running, Completing, Collected, OldReports, NewReports, RuleNamed
<1>5. Retiring(s) => Retiring(s)'
  BY DEF Same, Retiring, RuleNamed, KeptReports
<1>6. Resting(s) => Resting(s)'
  BY DEF Same, Resting, HoldsFresh, MetricsDue, Unresolved, RerunDue, RuleNamed, KeptReports
<1>7. Stranded(s) /\ current' = current => Stranded(s)'
  BY DEF Same, Stranded, StrandedUnsaved, StrandedSaved, HoldsFresh, Completing, Collected,
         OldReports, NewReports, RuleNamed
<1> QED BY <1>1, <1>2, <1>3, <1>4, <1>5, <1>6, <1>7

(* No handler, informer, user or runner of one scan touches what the phase *)
(* of another scan reads: everything is kept under the name of its scan,   *)
(* except the claim, the mutex and the runner.                             *)
LEMMA Elsewhere ==
    ASSUME AtMostExpiries, TypeOK, NEW s \in Scans, NEW t \in Scans, s # t,
           ScanHandler(t) \/ JobHandler(t) \/ PodHandler(t) \/ Cluster(t)
              \/ Informers(t) \/ Clock(t) \/ Users(t)
    PROVE  Same(s)
<1> USE DEF apiVars, cacheVars, memVars, queueVars, scanWork, jobWork, histVars
<1> USE DEF Same, TypeOK, Store, ScanTo, JobTo, Released, ScanAt, JobAt, Retry
<1>1. CASE ScanHandler(t)
  <2>1. CASE ScanStart(t)
    BY <2>1 DEF ScanStart
  <2>2. CASE ScanGate(t)
    BY <2>2 DEF ScanGate, Reject
  <2>3. CASE ScanLock(t)
    BY <2>3 DEF ScanLock, Reject
  <2>4. CASE ScanClaim(t)
    BY <2>4 DEF ScanClaim
  <2>5. CASE ScanApply(t)
    BY <2>5 DEF ScanApply, CreateJob
  <2>6. CASE ScanStatusWrite(t)
    BY <2>6 DEF ScanStatusWrite
  <2>7. CASE ScanSched(t)
    BY <2>7 DEF ScanSched
  <2>8. CASE ScanMetrics(t)
    BY <2>8 DEF ScanMetrics
  <2>9. ~ScanApplyFails(t) /\ ~ScanCallFails(t)
    BY DEF AtMostExpiries, Mishap, ScanApplyFails, ScanCallFails
  <2> QED BY <1>1, <2>1, <2>2, <2>3, <2>4, <2>5, <2>6, <2>7, <2>8, <2>9 DEF ScanHandler
<1>2. CASE JobHandler(t)
  <2>1. CASE JobIgnore(t) \/ JobOfDeletedScan(t)
    BY <2>1 DEF JobIgnore, JobOfDeletedScan
  <2>2. CASE JobRetire(t)
    BY <2>2 DEF JobRetire, Rearmed
  <2>3. CASE JobCollect(t)
    BY <2>3 DEF JobCollect
  <2>4. CASE JobComplete(t)
    BY <2>4 DEF JobComplete
  <2>5. CASE JobCleanup(t)
    BY <2>5 DEF JobCleanup
  <2>6. CASE JobFinish(t)
    BY <2>6 DEF JobFinish
  <2>7. CASE JobRelease(t)
    BY <2>7 DEF JobRelease
  <2>8. ~JobCallFails(t)
    BY DEF AtMostExpiries, Mishap, JobCallFails
  <2> QED BY <1>2, <2>1, <2>2, <2>3, <2>4, <2>5, <2>6, <2>7, <2>8 DEF JobHandler
<1>3. CASE PodHandler(t)
  BY <1>3 DEF PodHandler, PodIgnore, PodMark
<1>4. CASE Cluster(t)
  BY <1>4 DEF Cluster, StartPod, RunnerDone, JobExpires, CollectOrphan, CollectPod
<1>5. CASE Informers(t)
  BY <1>5 DEF Informers, SyncScan, SyncJob, SyncPod, SyncConfigMaps,
              RedeliverScan, RedeliverJob, RedeliverPod
<1>6. CASE Clock(t)
  BY <1>6 DEF Clock, TimePasses, TimerFires
<1>7. CASE Users(t)
  BY <1>7 DEF Users, CreateScan, EditScan, DeleteScan
<1> QED BY <1>1, <1>2, <1>3, <1>4, <1>5, <1>6, <1>7

-----------------------------------------------------------------------------
(* Each phase leads to itself or to the next, whoever takes a step for the *)
(* scan.                                                                   *)

(* A step for scan s.                                                      *)
Act(s) == ScanHandler(s) \/ JobHandler(s) \/ PodHandler(s) \/ Cluster(s)
              \/ Informers(s) \/ Clock(s) \/ Users(s)

(* The actions that mishaps alone make possible.                           *)
LEMMA Impossible ==
    ASSUME AtMostExpiries, NEW s \in Scans
    PROVE  /\ ~ScanApplyFails(s) /\ ~ScanCallFails(s) /\ ~JobCallFails(s)
           /\ ~EditScan(s) /\ ~DeleteScan(s) /\ ~Crash
           /\ ~Mishap("api") /\ "lag" \notin Faults
           /\ JobExpires(s) => s \in jobs /\ "expire" \in Faults
           /\ RedeliverScan(s) => /\ s \in seen /\ s \notin scanQ
                                  /\ Fresh(s, "cache") /\ spc[s] = "idle"
                                  /\ s \in timer => scan[s].next # "past"
  BY DEF AtMostExpiries, Mishap, ScanApplyFails, ScanCallFails, JobCallFails, JobExpires,
         EditScan, DeleteScan, Crash, RedeliverScan, Fresh

(* Without mishaps no Job expires and no run is stranded.                  *)
LEMMA Unexpired ==
    ASSUME NoMishaps
    PROVE  /\ AtMostExpiries
           /\ \A s \in Scans : ~JobExpires(s) /\ ~Stranded(s) /\ ~Stranded(s)'
  BY DEF NoMishaps, AtMostExpiries, Mishap, JobExpires, Stranded

(* A name no scan has is either left alone or given to a new scan, which   *)
(* waits for its run.                                                      *)
LEMMA FromUnborn ==
    ASSUME AtMostExpiries, TypeOK, ClaimInv, NEW s \in Scans, Unborn(s), Act(s)
    PROVE  Unborn(s)' \/ Awaiting(s)'
<1> USE DEF apiVars, cacheVars, memVars, queueVars, scanWork, jobWork, histVars
<1> USE DEF NoRunner, Fresh, TrueCache
<1>1. CASE CreateScan(s)
  <2>1. Unrun(Blank) /\ Blank \in Status
    BY BlankType DEF Unrun, Blank, Eligible
  <2>2. s \in alive' /\ scan'[s] = Blank /\ fresh'[s] = {} /\ launches'[s] = 0 /\ counted'[s] = 0
    BY <1>1 DEF CreateScan, Store, TypeOK
  <2>3. s \notin seen
    BY DEF Unborn, ClaimInv
  <2>4. Awaiting(s)'
    BY <1>1, <2>1, <2>2, <2>3, BoundsAssumption
    DEF CreateScan, Unborn, Awaiting, Passing, LaggingUnrun, OldReports
  <2> QED BY <2>4
<1>2. CASE JobIgnore(s) \/ PodIgnore(s) \/ RedeliverJob(s) \/ RedeliverPod(s)
  <2>1. Same(s)
    BY <1>2 DEF JobIgnore, PodIgnore, RedeliverJob, RedeliverPod, Same
  <2> QED BY <2>1, PhaseKept
<1>3. CASE SyncPod(s) \/ SyncConfigMaps(s) \/ TimePasses(s)
  <2>1. Unborn(s)'
    BY <1>3 DEF Unborn, SyncPod, SyncConfigMaps, TimePasses, TypeOK
  <2> QED BY <2>1
<1>4. ~ScanHandler(s)
  BY Impossible
  DEF Unborn, ScanHandler, ScanStart, ScanGate, ScanLock, ScanClaim, ScanApply,
      ScanStatusWrite, ScanSched, ScanMetrics
<1>5. JobHandler(s) => JobIgnore(s)
  BY Impossible
  DEF Unborn, JobHandler, JobOfDeletedScan, JobRetire, JobCollect, JobComplete,
      JobCleanup, JobFinish, JobRelease
<1>6. /\ ~PodMark(s) /\ ~Cluster(s) /\ ~SyncScan(s) /\ ~SyncJob(s) /\ ~TimerFires(s)
      /\ ~RedeliverScan(s)
  BY Impossible
  DEF Unborn, ClaimInv, PodMark, PodMarks, Cluster, StartPod, RunnerDone, CollectOrphan,
      CollectPod, SyncScan, SyncJob, TimerFires
<1> QED BY <1>1, <1>2, <1>3, <1>4, <1>5, <1>6, Impossible
        DEF Act, PodHandler, Informers, Clock, Users

(* A scan that waits for its run goes on waiting, whatever pass is made    *)
(* over it, until the pass that applies its objects creates the Job. A     *)
(* pass that is past the first runner check finds no runner at the second  *)
(* one either (handleClusterScans, Handle).                                *)
LEMMA FromAwaiting ==
    ASSUME AtMostExpiries, TypeOK, ClaimInv, GateHolds, NEW s \in Scans, Awaiting(s), Act(s)
    PROVE  Awaiting(s)' \/ Unsaved(s)'
<1> USE DEF apiVars, cacheVars, memVars, queueVars, scanWork, jobWork, histVars
<1> USE DEF NoRunner, Fresh, TrueCache, HoldsFresh
<1>0. /\ scan[s] \in Status /\ scanCache[s] \in Status /\ sobj[s] \in Status
      /\ Strict(s) \in BOOLEAN
  BY ScanFacts
<1>1. CASE ScanStart(s)
  <2> DEFINE o     == scanCache[s]
             first == Eligible(o) /\ ~o.pending
             step  == IF s \notin seen THEN "idle"
                      ELSE IF first THEN "status"
                      ELSE IF Eligible(o) THEN "gate" ELSE AfterScan(o)
             copy  == IF first THEN Pended(o, Strict(s)) ELSE o
  <2>1. s \in scanQ /\ spc[s] = "idle"
    BY <1>1 DEF ScanStart
  <2>2. /\ spc'[s] = step
        /\ step # "idle" => sobj'[s] = copy
        /\ fresh'[s] = (fresh[s] \ {"scanner"}) \cup
                          (IF step # "idle" /\ "cache" \in fresh[s] THEN {"scanner"} ELSE {})
        /\ s \in scanQ' <=> s \in seen /\ first
    BY <1>1 DEF ScanStart, ScanTo, TypeOK
  <2>3. /\ s \in seen => Unrun(o) /\ Eligible(o)
        /\ s \in seen /\ o.pending => Fresh(s, "cache")
        /\ s \in seen /\ ~Fresh(s, "cache") => scan[s].pending
    BY <2>1, EligibleUnrun DEF Awaiting, LaggingUnrun
  <2>4. s \in seen /\ first => Unrun(copy) /\ copy.pending /\ copy.rule = o.rule
    BY <1>0, <2>3, PendedUnrun
  <2>5. UNCHANGED <<apiVars, cacheVars, memVars, jobWork, histVars>>
    BY <1>1 DEF ScanStart
  <2> HIDE DEF o
  <2>6. Passing(s)' /\ TrueCache(s)' /\ LaggingUnrun(s)'
    BY <2>1, <2>2, <2>3, <2>4, <2>5 DEF o, Awaiting, Passing, LaggingUnrun
  <2>7. Awaiting(s)'
    BY <2>1, <2>2, <2>3, <2>5, <2>6 DEF Awaiting, OldReports
  <2> QED BY <2>7
<1>2. CASE ScanGate(s)
  <2>1. /\ spc[s] = "gate" /\ HoldsFresh(s)
        /\ scan[s].pending /\ sobj[s] = scan[s]
    BY <1>2 DEF ScanGate, Awaiting, Passing
  <2>2. UNCHANGED <<apiVars, cacheVars, memVars, jobWork, histVars>>
    BY <1>2 DEF ScanGate
  <2>3. \/ spc'[s] = "idle" /\ fresh'[s] = fresh[s] \ {"scanner"}
        \/ /\ spc'[s] = "lock" /\ sobj'[s] = scan[s]
           /\ fresh'[s] = fresh[s] /\ UNCHANGED scanQ
        \/ /\ "reject" \in Faults /\ spc'[s] = "status"
           /\ sobj'[s] = Rejected(scan[s], Strict(s))
           /\ fresh'[s] = fresh[s] /\ UNCHANGED scanQ
    BY <1>2, <2>1 DEF ScanGate, Retry, Reject, ScanAt, ScanTo, Released, TypeOK
  <2>4. "reject" \in Faults => LET new == Rejected(scan[s], Strict(s))
                               IN Unrun(new) /\ new.pending /\ new.rule = scan[s].rule
    BY <1>0, RejectedUnrun DEF Awaiting
  <2>5. Awaiting(s)'
    BY <2>1, <2>2, <2>3, <2>4 DEF Awaiting, Passing, LaggingUnrun, OldReports
  <2> QED BY <2>5
<1>3. CASE ScanLock(s)
  <2>1. /\ spc[s] = "lock" /\ HoldsFresh(s)
        /\ scan[s].pending /\ sobj[s] = scan[s] /\ cms[s] = {}
    BY <1>3 DEF ScanLock, Awaiting, Passing
  <2>2. UNCHANGED <<alive, scan, jobs, orphans, pod, rules, reports, cacheVars, timer,
                    jobWork, histVars>>
    BY <1>3 DEF ScanLock
  <2>3. \/ spc'[s] = "idle" /\ fresh'[s] = fresh[s] \ {"scanner"} /\ UNCHANGED cms
        \/ /\ spc'[s] = "claim" /\ sobj'[s] = scan[s] /\ fresh'[s] = fresh[s]
           /\ cms'[s] \subseteq {"copy"} /\ UNCHANGED scanQ
    BY <1>3, <2>1, Impossible DEF ScanLock, Retry, Copied, ScanAt, ScanTo, Released, TypeOK
  <2>4. Awaiting(s)'
    BY <2>1, <2>2, <2>3 DEF Awaiting, Passing, LaggingUnrun, OldReports
  <2> QED BY <2>4
<1>4. CASE ScanClaim(s)
  <2>1. /\ spc[s] = "claim" /\ HoldsFresh(s)
        /\ scan[s].pending /\ sobj[s] = scan[s]
    BY <1>4 DEF ScanClaim, Awaiting, Passing
  <2>2. ~RunnerSeen
    <3>1. jobs = {} /\ \A t \in Scans : spc[t] # "apply" /\ ~Stranded(t)
      BY <2>1, ScansAssumption DEF ClaimInv, TypeOK, Stranded
    <3> QED BY <2>1, <3>1 DEF GateHolds
  <2>3. UNCHANGED <<alive, scan, jobs, orphans, pod, cms, reports, cacheVars, timer,
                    scanQ, jobWork, histVars>>
    BY <1>4, <2>2 DEF ScanClaim
  <2>4. PICK created \in BOOLEAN :
            /\ created = RuleMissing(s)
            /\ rules' = IF created THEN rules \cup {s} ELSE rules
            /\ ScanAt(s, "apply", Launched(sobj[s], sobj[s].rule \/ created, Strict(s)))
    BY <1>4, <2>2, Impossible DEF ScanClaim
  <2> DEFINE named == sobj[s].rule \/ created
             new   == Launched(scan[s], named, Strict(s))
  <2>5. named \in BOOLEAN /\ (s \in rules' \/ scan[s].rule => named)
    BY <1>0, <2>1, <2>4 DEF Awaiting
  <2>6. spc'[s] = "apply" /\ sobj'[s] = new /\ fresh'[s] = fresh[s]
    BY <2>1, <2>4 DEF ScanAt, ScanTo, Released, TypeOK
  <2>7. Ongoing(new) /\ new.ran = "Unknown" /\ new.rule = named
    <3> HIDE DEF named
    <3> QED BY <1>0, <2>5, LaunchedOngoing DEF Awaiting
  <2> HIDE DEF named, new
  <2>8. podCache[s] = "none"
    BY <2>2 DEF RunnerSeen
  <2>9. Awaiting(s)'
    BY <2>1, <2>3, <2>5, <2>6, <2>7, <2>8 DEF Awaiting, Passing, LaggingUnrun, OldReports
  <2> QED BY <2>9
<1>5. CASE ScanApply(s)
  <2>1. /\ spc[s] = "apply" /\ HoldsFresh(s)
        /\ Ongoing(sobj[s]) /\ sobj[s].ran = "Unknown" /\ podCache[s] = "none"
    BY <1>5 DEF ScanApply, Awaiting, Passing
  <2>2. UNCHANGED <<alive, scan, pod, cms, rules, reports, cacheVars, memVars,
                    queueVars, jobWork, counted>>
    BY <1>5 DEF ScanApply
  <2>3. /\ spc'[s] = "status" /\ sobj'[s] = sobj[s] /\ fresh'[s] = fresh[s]
        /\ s \in jobs'
    BY <1>5 DEF ScanApply, CreateJob, ScanAt, ScanTo, Released, TypeOK
  <2>4. launches'[s] = 1
    BY <1>5 DEF ScanApply, CreateJob, Capped, Awaiting, TypeOK
  <2>5. s \in rules => sobj[s].rule
    BY <2>1 DEF Awaiting, Passing
  <2>6. Unsaved(s)'
    BY <2>1, <2>2, <2>3, <2>4, <2>5 DEF Awaiting, Unsaved, OldReports
  <2> QED BY <2>6
<1>6. CASE ScanStatusWrite(s)
  <2>1. /\ spc[s] = "status" /\ Unrun(sobj[s]) /\ sobj[s].pending
        /\ Fresh(s, "scanner") => /\ Fresh(s, "cache")
                                  /\ scan[s].pending => s \notin scanQ
                                  /\ sobj[s].rule = scan[s].rule
    BY <1>6 DEF ScanStatusWrite, Awaiting, Passing
  <2>2. AfterScan(sobj[s]) = "idle"
    BY <1>0, <2>1, NextHandler
  <2>3. UNCHANGED <<alive, jobs, orphans, pod, cms, rules, reports, cacheVars,
                      memVars, jobWork, histVars>>
    BY <1>6 DEF ScanStatusWrite
  <2>4. \/ /\ Fresh(s, "scanner") /\ spc'[s] = "idle" /\ scan'[s] = sobj[s]
           /\ fresh'[s] = {} /\ UNCHANGED scanQ
        \/ /\ ~Fresh(s, "scanner") /\ spc'[s] = "idle" /\ UNCHANGED scan
           /\ fresh'[s] = fresh[s] \ {"scanner"} /\ s \in scanQ'
    BY <1>6, <2>2 DEF ScanStatusWrite, Accepted, Awaiting, Store, ScanAt, ScanTo, Released, TypeOK
  <2>5. Awaiting(s)'
    BY <2>1, <2>3, <2>4 DEF Awaiting, Passing, LaggingUnrun, OldReports
  <2> QED BY <2>5
<1>7. CASE JobIgnore(s) \/ PodIgnore(s) \/ RedeliverJob(s) \/ RedeliverPod(s)
  <2>1. Same(s)
    BY <1>7 DEF JobIgnore, PodIgnore, RedeliverJob, RedeliverPod, Same
  <2> QED BY <2>1, PhaseKept
<1>8. CASE CollectPod(s) \/ SyncPod(s) \/ SyncConfigMaps(s)
  <2>1. Awaiting(s)'
    BY <1>8 DEF Awaiting, CollectPod, SyncPod, SyncConfigMaps, Passing, LaggingUnrun,
                OldReports, TypeOK
  <2> QED BY <2>1
<1>9. CASE SyncScan(s)
  <2>1. Awaiting(s)'
    BY <1>9 DEF Awaiting, SyncScan, Passing, LaggingUnrun, OldReports, TypeOK
  <2> QED BY <2>1
<1>10. CASE TimePasses(s)
  <2>1. Fresh(s, "cache") /\ spc[s] \notin {"apply", "status"} /\ scan[s].next # "later"
    BY <1>10, Impossible DEF TimePasses, Settled, Awaiting, Unrun
  <2>2. scan'[s] = scan[s] /\ scanCache'[s] = scanCache[s]
        /\ (spc[s] # "idle" => sobj'[s] = sobj[s])
    BY <1>0, <1>10, <2>1, ElapsedSame DEF TimePasses, Awaiting, Passing, TypeOK
  <2>3. Awaiting(s)'
    BY <1>10, <2>1, <2>2 DEF TimePasses, Awaiting, Passing, LaggingUnrun, OldReports
  <2> QED BY <2>3
<1>11. ~ScanSched(s) /\ ~ScanMetrics(s)
  BY DEF ScanSched, ScanMetrics, Awaiting, Passing
<1>12. JobHandler(s) => JobIgnore(s)
  BY Impossible
  DEF Awaiting, JobHandler, JobOfDeletedScan, JobRetire, JobCollect, JobComplete,
      JobCleanup, JobFinish, JobRelease
<1>13. ~PodMark(s) /\ ~SyncJob(s) /\ ~TimerFires(s) /\ ~CreateScan(s)
       /\ ~StartPod(s) /\ ~RunnerDone(s) /\ ~CollectOrphan(s)
  BY DEF Awaiting, PodMark, PodMarks, SyncJob, TimerFires, CreateScan, StartPod,
         RunnerDone, CollectOrphan
<1>14. ~JobExpires(s)
  BY Impossible DEF Awaiting
<1>15. CASE RedeliverScan(s)
  <2>1. Awaiting(s)'
    BY <1>15, Impossible DEF RedeliverScan, Awaiting, Passing, LaggingUnrun, OldReports
  <2> QED BY <2>1
<1> QED BY <1>1, <1>2, <1>3, <1>4, <1>5, <1>6, <1>7, <1>8, <1>9, <1>10, <1>11, <1>12,
           <1>13, <1>14, <1>15, Impossible
        DEF Act, ScanHandler, PodHandler, Cluster, Informers, Clock, Users

(* Between the creation of its Job and the UpdateStatus of its launch      *)
(* nobody else writes the scan, and the runner cannot end: then the run is *)
(* under way.                                                              *)
LEMMA FromUnsaved ==
    ASSUME AtMostExpiries, TypeOK, ClaimInv, orphans = {}, NEW s \in Scans, Unsaved(s), Act(s)
    PROVE  Unsaved(s)' \/ Running(s)' \/ (JobExpires(s) /\ Stranded(s)')
<1> USE DEF apiVars, cacheVars, memVars, queueVars, scanWork, jobWork, histVars
<1> USE DEF Fresh, TrueCache, HoldsFresh
<1>0. scan[s] \in Status /\ sobj[s] \in Status
  BY ScanFacts
<1>1. CASE ScanStatusWrite(s)
  <2>1. AfterScan(sobj[s]) = "idle"
    BY <1>0, NextHandler DEF Unsaved
  <2>2. UNCHANGED <<alive, jobs, orphans, pod, cms, rules, reports, cacheVars,
                      memVars, scanQ, jobWork, histVars>>
        /\ spc'[s] = "idle" /\ scan'[s] = sobj[s] /\ fresh'[s] = {}
    BY <1>1, <2>1 DEF ScanStatusWrite, Accepted, Unsaved, Store, ScanTo, TypeOK
  <2>3. ~Collected(s)' /\ ~sobj[s].failed /\ Unrun(scanCache[s])
    BY <2>2 DEF Unsaved, Collected, Ongoing
  <2>4. pod[s] \notin Verdicts /\ podCache[s] \notin Verdicts /\ pod[s] # "true"
    BY BehaviourAssumption DEF Unsaved
  <2>5. Running(s)'
    BY <2>2, <2>3, <2>4 DEF Unsaved, Running, OldReports, RuleNamed
  <2> QED BY <2>5
<1>2. CASE JobIgnore(s) \/ PodIgnore(s) \/ RedeliverJob(s) \/ RedeliverPod(s)
  <2>1. Same(s)
    BY <1>2 DEF JobIgnore, PodIgnore, RedeliverJob, RedeliverPod, Same
  <2> QED BY <2>1, PhaseKept
<1>3. CASE StartPod(s) \/ SyncJob(s) \/ SyncPod(s) \/ SyncConfigMaps(s)
  <2>1. Unsaved(s)'
    BY <1>3 DEF Unsaved, StartPod, SyncJob, SyncPod, SyncConfigMaps, OldReports, TypeOK
  <2> QED BY <2>1
<1>4. ScanHandler(s) => ScanStatusWrite(s)
  BY Impossible
  DEF Unsaved, ScanHandler, ScanStart, ScanGate, ScanLock, ScanClaim, ScanApply,
      ScanSched, ScanMetrics
<1>5. JobHandler(s) => JobIgnore(s)
  BY Impossible
  DEF Unsaved, Unrun, JobHandler, JobOfDeletedScan, JobRetire, JobCollect, JobComplete,
      JobCleanup, JobFinish, JobRelease, Finished, Collectable
<1>6. podCache[s] \notin Verdicts
  BY BehaviourAssumption DEF Unsaved
<1>7. ~PodMark(s) /\ ~SyncScan(s) /\ ~TimePasses(s) /\ ~TimerFires(s) /\ ~CreateScan(s)
       /\ ~RunnerDone(s) /\ ~CollectPod(s) /\ ~RedeliverScan(s)
  BY <1>6, Impossible
  DEF Unsaved, PodMark, PodMarks, Done, SyncScan, TimePasses, Settled, TimerFires,
      CreateScan, RunnerDone, CollectPod
<1>8. ~CollectOrphan(s)
  BY DEF CollectOrphan
<1>9. CASE JobExpires(s)
  <2>1. current = s /\ "expire" \in Faults /\ s \notin jobs'
    BY <1>9, Impossible DEF Unsaved, ClaimInv, JobExpires
  <2>2. Stranded(s)'
    BY <1>9, <2>1 DEF JobExpires, Unsaved, Stranded, StrandedUnsaved, OldReports
  <2> QED BY <1>9, <2>2
<1> QED BY <1>1, <1>2, <1>3, <1>4, <1>5, <1>7, <1>8, <1>9, Impossible
        DEF Act, PodHandler, Cluster, Informers, Clock, Users

(* A run under way is marked by the Pod handler, collected by the Job      *)
(* handler, and leaves this phase only by the deletion of its Job          *)
(* (handlePods, handleJobs), or because that expires.                      *)
LEMMA FromRunning ==
    ASSUME AtMostExpiries, TypeOK, ClaimInv, orphans = {}, NEW s \in Scans, Running(s), Act(s)
    PROVE  Running(s)' \/ Retiring(s)' \/ (JobExpires(s) /\ Stranded(s)')
<1> USE DEF apiVars, cacheVars, memVars, queueVars, scanWork, jobWork, histVars
<1> USE DEF Fresh, TrueCache
<1>0. /\ scan[s] \in Status /\ scanCache[s] \in Status /\ jobj[s] \in Status
      /\ Strict(s) \in BOOLEAN /\ Cron(s) \in BOOLEAN
      /\ reports[s] \in Nat /\ counted[s] \in Nat
  BY ScanFacts, BoundsAssumption DEF TypeOK
<1>1. CASE ScanStart(s)
  <2>1. /\ s \in seen /\ s \in scanQ /\ Ongoing(scanCache[s])
    BY <1>1 DEF ScanStart, Running
  <2>2. AfterScan(scanCache[s]) = "idle" /\ ~Eligible(scanCache[s])
    BY <1>0, <2>1, NextHandler, EligibleUnrun
  <2>3. /\ UNCHANGED <<apiVars, cacheVars, memVars, jobWork, histVars>>
        /\ spc'[s] = "idle" /\ fresh'[s] = fresh[s] \ {"scanner"}
    BY <1>1, <2>1, <2>2 DEF ScanStart, ScanTo, TypeOK
  <2>4. Running(s)'
    BY <2>1, <2>3 DEF Running, Completing, Collected, OldReports, NewReports, RuleNamed
  <2> QED BY <2>4
<1>2. CASE JobRetire(s)
  <2>1. /\ jpc[s] = "idle" /\ scan[s].complete /\ s \in jobs
        /\ scan[s].ran = "True"
    BY <1>2 DEF JobRetire, JobPop, Finished, Running, Ongoing
  <2> DEFINE new == Retired(scan[s], Cron(s), Strict(s))
  <2>2. /\ Over(new, Cron(s)) /\ new.next # "past" /\ new.alerted \in {"none", "Unknown"}
        /\ new.failed = scan[s].failed /\ new.rule = scan[s].rule
    BY <1>0, <2>1, RetiredOver DEF Running
  <2>3. /\ UNCHANGED <<alive, scan, pod, cms, rules, cacheVars, scanQ, scanWork, histVars>>
        /\ s \notin jobs' /\ jpc'[s] = "cleanup" /\ jobj'[s] = new
        /\ fresh'[s] = fresh[s] \cup {"jobber"}
        /\ s \in timer' => Cron(s)
        /\ reports'[s] = Kept(s, reports[s])
    BY <1>2, <2>1, Impossible DEF JobRetire, JobTo, Rearmed, Running, TypeOK
  <2>4. /\ pod[s] \in Verdicts /\ podCache[s] = pod[s]
        /\ pod[s] # "running" /\ pod[s] # "none" /\ Ongoing(scanCache[s])
    BY <2>1, BehaviourAssumption DEF Running
  <2>5. cms[s] \subseteq cmCache[s]
    <3>1. cms[s] \subseteq {"output", "copy"}
      BY DEF TypeOK
    <3>2. "copy" \in cms[s] => "copy" \in cmCache[s]
      BY <2>4 DEF Running
    <3>3. "output" \in cms[s] => "output" \in cmCache[s]
      BY <2>1 DEF Running, Collected
    <3> QED BY <3>1, <3>2, <3>3
  <2>6. KeptReports(s)'
    BY <1>0, <2>1, <2>3, BoundsAssumption
    DEF Running, Collected, NewReports, KeptReports, Kept, Cron
  <2> HIDE DEF new
  <2>7. Retiring(s)'
    BY <2>1, <2>2, <2>3, <2>4, <2>5, <2>6 DEF Running, Retiring, NoRunner, RuleNamed, Cron
  <2> QED BY <2>7
<1>3. CASE JobCollect(s)
  <2>1. /\ jpc[s] = "idle" /\ ~scan[s].complete /\ scan[s].ran = "True"
    BY <1>3 DEF JobCollect, JobPop, Collectable, Finished
  <2>2. PICK summary \in Summaries :
            /\ scan[s].failed \/ summary # "none"
            /\ JobTo(s, "complete", Completed(scan[s], summary))
    BY <1>0, <1>3, BehaviourAssumption DEF JobCollect, Status
  <2> DEFINE new == Completed(scan[s], summary)
  <2>3. Ongoing(new) /\ new.complete /\ new.failed = scan[s].failed /\ new.rule = scan[s].rule
    BY <1>0, <2>1, <2>2, CompletedOngoing DEF Running
  <2>4. /\ UNCHANGED <<alive, scan, jobs, orphans, pod, cms, rules, cacheVars, memVars,
                       scanQ, scanWork, histVars>>
        /\ jpc'[s] = "complete" /\ jobj'[s] = new
        /\ fresh'[s] = fresh[s] \cup {"jobber"}
    BY <1>3, <2>2 DEF JobCollect, JobTo, TypeOK
  <2>5. /\ ~scan[s].failed => "output" \in cmCache[s] /\ reports'[s] >= 1
        /\ NewReports(s)'
    BY <1>0, <1>3, <2>1, BoundsAssumption
    DEF JobCollect, Reported, Capped, Running, Collected, OldReports, NewReports, Cron, TypeOK
  <2> HIDE DEF new
  <2>6. Running(s)'
    BY <2>1, <2>3, <2>4, <2>5 DEF Running, Completing, Collected, RuleNamed
  <2> QED BY <2>6
<1>4. CASE JobComplete(s)
  <2>1. jpc[s] = "complete" /\ Completing(s)
    BY <1>4 DEF JobComplete, Running
  <2>2. /\ UNCHANGED <<alive, jobs, orphans, pod, cms, rules, reports, cacheVars,
                       memVars, scanQ, scanWork, histVars>>
        /\ jpc'[s] = "idle" /\ scan'[s] = jobj[s] /\ fresh'[s] = {}
    BY <1>4, <2>1 DEF JobComplete, Accepted, Completing, Running, JobTo, Store, TypeOK
  <2>3. pod[s] \in Verdicts /\ jobj[s].ran = "True"
    BY <2>1 DEF Completing, Running, Ongoing
  <2>4. Running(s)'
    BY <2>1, <2>2, <2>3 DEF Running, Completing, Collected, NewReports, RuleNamed
  <2> QED BY <2>4
<1>5. CASE PodMark(s)
  <2>1. podCache[s] \in Verdicts /\ scan[s].ran # "True" /\ pod[s] = podCache[s]
        /\ jpc[s] = "idle" /\ ~Collected(s)
    BY <1>5 DEF PodMark, PodMarks, Done, Running, Completing, Collected, Ongoing
  <2> DEFINE new == Marked(scan[s], podCache[s], Strict(s))
  <2>2. /\ Ongoing(new) /\ new.ran = "True" /\ ~new.complete
        /\ new.failed = (podCache[s] # "true") /\ new.rule = scan[s].rule
    BY <1>0, <2>1, MarkedOngoing DEF Running
  <2>3. /\ UNCHANGED <<alive, jobs, orphans, pod, cms, rules, reports, cacheVars,
                       memVars, scanQ, scanWork, jobWork, histVars>>
        /\ scan'[s] = new /\ fresh'[s] = {}
    BY <1>5 DEF PodMark, Store, TypeOK
  <2> HIDE DEF new
  <2>4. Running(s)'
    BY <2>1, <2>2, <2>3 DEF Running, Collected, OldReports, RuleNamed
  <2> QED BY <2>4
<1>6. CASE JobIgnore(s) \/ PodIgnore(s) \/ RedeliverJob(s) \/ RedeliverPod(s)
  <2>1. Same(s)
    BY <1>6 DEF JobIgnore, PodIgnore, RedeliverJob, RedeliverPod, Same
  <2> QED BY <2>1, PhaseKept
<1>7. CASE StartPod(s)
  <2>1. pod[s] = "none" /\ pod[s] \notin Verdicts /\ podCache[s] \notin Verdicts
        /\ scan[s].ran # "True" /\ jpc[s] = "idle"
    BY <1>7, BehaviourAssumption DEF StartPod, Running, Completing
  <2>2. pod'[s] = "running" /\ "running" \notin Verdicts
    BY <1>7, BehaviourAssumption DEF StartPod, TypeOK
  <2>3. Running(s)'
    BY <1>7, <2>1, <2>2
    DEF StartPod, Running, Collected, OldReports, NewReports, RuleNamed
  <2> QED BY <2>3
<1>8. CASE RunnerDone(s)
  <2>1. pod[s] = "running" /\ "running" \notin Verdicts
        /\ Fresh(s, "cache") /\ s \in jobCache /\ cmCache[s] = cms[s]
    BY <1>8, Impossible, BehaviourAssumption DEF RunnerDone, Settled, Running
  <2>2. podCache[s] \notin Verdicts /\ scan[s].ran # "True" /\ ~Collected(s)
        /\ Ongoing(scanCache[s]) /\ jpc[s] = "idle" /\ "output" \notin cms[s]
    BY <2>1 DEF Running, Completing, Collected, Ongoing
  <2>3. PICK done \in Verdicts :
            /\ pod'[s] = done
            /\ cms'[s] = IF done = "true" THEN cms[s] \cup {"output"} ELSE cms[s]
    BY <1>8 DEF RunnerDone, TypeOK
  <2>4. Running(s)'
    BY <1>8, <2>1, <2>2, <2>3 DEF RunnerDone, Running, Collected, OldReports, RuleNamed
  <2> QED BY <2>4
<1>9. CASE SyncScan(s)
  <2>1. /\ scanCache'[s] = scan[s] /\ s \in seen' /\ fresh'[s] = fresh[s] \cup {"cache"}
    BY <1>9 DEF SyncScan, Running, TypeOK
  <2>2. Running(s)'
    BY <1>9, <2>1
    DEF SyncScan, Running, Completing, Collected, OldReports, NewReports, RuleNamed
  <2> QED BY <2>2
<1>10. CASE SyncJob(s) \/ SyncPod(s) \/ SyncConfigMaps(s)
  <2>1. CASE SyncJob(s)
    <3>1. s \in jobCache'
      BY <2>1 DEF SyncJob, Running
    <3>2. Running(s)'
      BY <2>1, <3>1
      DEF SyncJob, Running, Completing, Collected, OldReports, NewReports, RuleNamed
    <3> QED BY <3>2
  <2>2. CASE SyncPod(s)
    <3>1. podCache'[s] = pod[s]
      BY <2>2 DEF SyncPod, TypeOK
    <3>2. Running(s)'
      BY <2>2, <3>1
      DEF SyncPod, Running, Completing, Collected, OldReports, NewReports, RuleNamed
    <3> QED BY <3>2
  <2>3. CASE SyncConfigMaps(s)
    <3>1. cmCache'[s] = cms[s]
      BY <2>3 DEF SyncConfigMaps, TypeOK
    <3>2. Collected(s) /\ ~scan[s].failed => "output" \in cms[s]
      BY DEF Running, Completing, Collected, Ongoing
    <3>3. Running(s)'
      BY <2>3, <3>1, <3>2
      DEF SyncConfigMaps, Running, Completing, Collected, OldReports, NewReports, RuleNamed
    <3> QED BY <3>3
  <2> QED BY <1>10, <2>1, <2>2, <2>3
<1>11. CASE TimePasses(s)
  <2>1. Fresh(s, "cache") /\ scan[s].next # "later"
    BY <1>11, Impossible DEF TimePasses, Settled, Running, Ongoing
  <2>2. scan'[s] = scan[s] /\ scanCache'[s] = scanCache[s]
    BY <1>0, <1>11, <2>1, ElapsedSame DEF TimePasses, Running, TypeOK
  <2>3. Running(s)'
    BY <1>11, <2>2
    DEF TimePasses, Running, Completing, Collected, OldReports, NewReports, RuleNamed
  <2> QED BY <2>3
<1>12. ScanHandler(s) => ScanStart(s)
  BY Impossible
  DEF Running, ScanHandler, ScanGate, ScanLock, ScanClaim, ScanApply, ScanStatusWrite,
      ScanSched, ScanMetrics
<1>13. ~JobOfDeletedScan(s) /\ ~JobCleanup(s) /\ ~JobFinish(s) /\ ~JobRelease(s)
  BY DEF Running, JobOfDeletedScan, JobCleanup, JobFinish, JobRelease
<1>14. ~TimerFires(s) /\ ~CreateScan(s) /\ ~CollectPod(s) /\ ~CollectOrphan(s)
  BY DEF Running, TimerFires, CreateScan, CollectPod, CollectOrphan
<1>15. CASE JobExpires(s)
  <2>1. current = s /\ "expire" \in Faults /\ s \notin jobs'
    BY <1>15, Impossible DEF Running, ClaimInv, JobExpires
  <2>2. \/ Ongoing(scanCache[s])
        \/ /\ Unrun(scanCache[s]) /\ ~Fresh(s, "cache")
           /\ s \notin scanQ /\ s \notin timer
           /\ pod[s] \notin Verdicts /\ podCache[s] \notin Verdicts
           /\ scan[s].ran # "True"
    BY DEF Running
  <2>3. Collected(s) /\ ~scan[s].failed => reports[s] >= 1
    BY DEF Running
  <2>4. Stranded(s)'
    BY <1>15, <2>1, <2>2, <2>3
    DEF JobExpires, Running, Stranded, StrandedSaved, Completing, Collected, OldReports,
        NewReports, RuleNamed
  <2> QED BY <1>15, <2>4
<1>16. CASE RedeliverScan(s)
  <2>1. Running(s)'
    BY <1>16, Impossible
    DEF RedeliverScan, Running, Completing, Collected, OldReports, NewReports, RuleNamed
  <2> QED BY <2>1
<1> QED BY <1>1, <1>2, <1>3, <1>4, <1>5, <1>6, <1>7, <1>8, <1>9, <1>10, <1>11, <1>12,
           <1>13, <1>14, <1>15, <1>16, Impossible
        DEF Act, JobHandler, PodHandler, Cluster, Informers, Clock, Users

(* Once the Job is deleted the ConfigMaps go, then the final status is     *)
(* saved (handleJobs, ensureCleanup).                                      *)
LEMMA FromRetiring ==
    ASSUME AtMostExpiries, TypeOK, ClaimInv, orphans = {}, NEW s \in Scans, Retiring(s), Act(s)
    PROVE  Retiring(s)' \/ Resting(s)'
<1> USE DEF apiVars, cacheVars, memVars, queueVars, scanWork, jobWork, histVars
<1> USE DEF Fresh, TrueCache, NoRunner
<1>0. /\ scan[s] \in Status /\ scanCache[s] \in Status /\ jobj[s] \in Status
  BY ScanFacts
<1>1. CASE ScanStart(s)
  <2>1. AfterScan(scanCache[s]) = "idle" /\ ~Eligible(scanCache[s])
    BY <1>0, NextHandler, EligibleUnrun DEF Retiring
  <2>2. /\ UNCHANGED <<apiVars, cacheVars, memVars, jobWork, histVars>>
        /\ spc'[s] = "idle" /\ fresh'[s] = fresh[s] \ {"scanner"}
    BY <1>1, <2>1 DEF ScanStart, ScanTo, TypeOK
  <2>3. Retiring(s)'
    BY <2>2 DEF Retiring, RuleNamed, KeptReports
  <2> QED BY <2>3
<1>2. CASE JobCleanup(s)
  <2>1. /\ UNCHANGED <<alive, scan, jobs, orphans, rules, reports, cacheVars, memVars,
                       queueVars, scanWork, histVars>>
        /\ jpc[s] = "cleanup" /\ jpc'[s] = "finish" /\ jobj'[s] = jobj[s]
        /\ fresh'[s] = fresh[s]
        /\ pod'[s] = IF podCache[s] # "none" THEN "none" ELSE pod[s]
        /\ cms'[s] = cms[s] \ cmCache[s]
    BY <1>2 DEF JobCleanup, JobAt, JobTo, Released, Cleaned, TypeOK
  <2>2. cms'[s] = {}
    BY <2>1 DEF Retiring
  <2>3. Retiring(s)'
    BY <2>1, <2>2 DEF Retiring, RuleNamed, KeptReports
  <2> QED BY <2>3
<1>3. CASE JobFinish(s)
  <2>1. /\ UNCHANGED <<alive, jobs, orphans, pod, cms, rules, reports, cacheVars,
                       memVars, scanQ, podQ, scanWork, launches>>
        /\ jpc[s] = "finish" /\ jpc'[s] = "release"
        /\ scan'[s] = jobj[s] /\ fresh'[s] = {} /\ counted'[s] = 0
    BY <1>3 DEF JobFinish, Accepted, Retiring, JobTo, Store, TypeOK
  <2>2. Resting(s)'
    BY <2>1
    DEF Retiring, Resting, MetricsDue, Unresolved, RuleNamed, KeptReports
  <2> QED BY <2>2
<1>4. CASE JobIgnore(s) \/ PodIgnore(s) \/ RedeliverJob(s) \/ RedeliverPod(s)
  <2>1. Same(s)
    BY <1>4 DEF JobIgnore, PodIgnore, RedeliverJob, RedeliverPod, Same
  <2> QED BY <2>1, PhaseKept
<1>5. CASE CollectPod(s) \/ SyncPod(s) \/ SyncJob(s)
  <2>1. Retiring(s)'
    BY <1>5 DEF CollectPod, SyncPod, SyncJob, Retiring, RuleNamed, KeptReports, TypeOK
  <2> QED BY <2>1
<1>6. CASE SyncConfigMaps(s)
  <2>1. cmCache'[s] = cms[s]
    BY <1>6 DEF SyncConfigMaps, TypeOK
  <2>2. Retiring(s)'
    BY <1>6, <2>1 DEF SyncConfigMaps, Retiring, RuleNamed, KeptReports
  <2> QED BY <2>2
<1>7. CASE SyncScan(s)
  <2>1. /\ scanCache'[s] = scan[s] /\ s \in seen' /\ fresh'[s] = fresh[s] \cup {"cache"}
    BY <1>7 DEF SyncScan, Retiring, TypeOK
  <2>2. Retiring(s)'
    BY <1>7, <2>1 DEF SyncScan, Retiring, RuleNamed, KeptReports
  <2> QED BY <2>2
<1>8. ScanHandler(s) => ScanStart(s)
  BY Impossible
  DEF Retiring, ScanHandler, ScanGate, ScanLock, ScanClaim, ScanApply, ScanStatusWrite,
      ScanSched, ScanMetrics
<1>9. JobHandler(s) => JobIgnore(s) \/ JobCleanup(s) \/ JobFinish(s)
  BY Impossible
  DEF Retiring, JobHandler, JobPop, JobOfDeletedScan, JobRetire, JobCollect, JobComplete,
      JobRelease
<1>10. ~PodMark(s) /\ ~TimePasses(s) /\ ~TimerFires(s) /\ ~CreateScan(s)
       /\ ~StartPod(s) /\ ~RunnerDone(s) /\ ~CollectOrphan(s)
  BY DEF Retiring, Ongoing, PodMark, PodMarks, TimePasses, TimerFires, CreateScan, StartPod,
         RunnerDone, CollectOrphan
<1>11. ~JobExpires(s)
  BY Impossible DEF Retiring, NoRunner
<1>12. CASE RedeliverScan(s)
  <2>1. Retiring(s)'
    BY <1>12 DEF RedeliverScan, Retiring, RuleNamed, KeptReports
  <2> QED BY <2>1
<1> QED BY <1>1, <1>2, <1>3, <1>4, <1>5, <1>6, <1>7, <1>8, <1>9, <1>10, <1>11, <1>12,
           Impossible
        DEF Act, PodHandler, Cluster, Informers, Clock, Users

(* A finished scan is counted, waits for its next run if it is scheduled,  *)
(* and is wiped for it only when that run is due                           *)
(* (handleClusterScanMetrics, handleScheduledClusterScans).                *)
LEMMA FromResting ==
    ASSUME AtMostExpiries, TypeOK, ClaimInv, orphans = {}, NEW s \in Scans, Resting(s), Act(s)
    PROVE  Resting(s)' \/ Awaiting(s)'
<1> USE DEF apiVars, cacheVars, memVars, queueVars, scanWork, jobWork, histVars
<1> USE DEF Fresh, TrueCache, NoRunner, HoldsFresh, Unresolved
<1>0. /\ scan[s] \in Status /\ scanCache[s] \in Status /\ sobj[s] \in Status
      /\ Cron(s) \in BOOLEAN /\ Configured(s) \in BOOLEAN /\ HasConfig(s) \in BOOLEAN
      /\ Cron(s) => HasConfig(s)
      /\ reports[s] \in Nat /\ counted[s] \in Nat
  BY ScanFacts, BoundsAssumption, ScansAssumption DEF TypeOK, Cron, HasConfig
<1>1. CASE ScanStart(s)
  <2> DEFINE o    == scanCache[s]
             step == AfterScan(o)
  <2>1. /\ s \in seen /\ s \in scanQ /\ spc[s] = "idle" /\ ~Eligible(o)
        /\ Ongoing(o) \/ (Over(o, Cron(s)) /\ Fresh(s, "cache") /\ o = scan[s])
    BY <1>0, <1>1, EligibleUnrun DEF ScanStart, Resting
  <2>2. /\ UNCHANGED <<apiVars, cacheVars, memVars, jobWork, histVars>>
        /\ spc'[s] = step
        /\ step # "idle" => sobj'[s] = o
        /\ fresh'[s] = (fresh[s] \ {"scanner"}) \cup
                          (IF step # "idle" /\ "cache" \in fresh[s] THEN {"scanner"} ELSE {})
        /\ s \notin scanQ'
    BY <1>1, <2>1 DEF ScanStart, ScanTo, TypeOK
  <2>3. CASE Ongoing(o)
    <3>1. step = "idle" /\ (Fresh(s, "cache") => ~Unresolved(s))
      BY <1>0, <2>3, NextHandler DEF Resting, Ongoing
    <3>2. Resting(s)'
      BY <2>1, <2>2, <2>3, <3>1
      DEF Resting, MetricsDue, RerunDue, RuleNamed, KeptReports
    <3> QED BY <3>2
  <2>4. CASE Over(o, Cron(s)) /\ Fresh(s, "cache") /\ o = scan[s]
    <3>1. step = IF Cron(s) THEN "sched" ELSE IF Unresolved(s) THEN "metrics" ELSE "idle"
      BY <1>0, <2>4, NextHandler
    <3> HIDE DEF step
    <3>2. step \in {"idle", "sched", "metrics"}
      BY <3>1
    <3>3. Resting(s)'
      BY <2>1, <2>2, <2>4, <3>1, <3>2
      DEF Resting, MetricsDue, RerunDue, RuleNamed, KeptReports, Cron, HasConfig
    <3> QED BY <3>3
  <2> QED BY <2>1, <2>3, <2>4
<1>2. CASE ScanSched(s)
  <2>1. /\ spc[s] = "sched" /\ HoldsFresh(s) /\ sobj[s] = scan[s] /\ Cron(s)
        /\ scan[s].observed /\ scan[s].next # "none" /\ s \in alive
    BY <1>2 DEF ScanSched, Resting, Over
  <2>2. AfterSched(scan[s]) = IF Unresolved(s) THEN "metrics" ELSE "idle"
    BY <1>0, NextHandler DEF Resting
  <2>3. CASE scan[s].next = "later"
    <3>1. /\ UNCHANGED <<alive, scan, jobs, orphans, pod, cms, rules, reports, cacheVars,
                         current, mu, scanQ, jobQ, podQ, jobWork, histVars>>
          /\ timer' = timer \cup {s}
          /\ spc'[s] = AfterSched(scan[s])
          /\ AfterSched(scan[s]) # "idle" => sobj'[s] = scan[s] /\ fresh'[s] = fresh[s]
          /\ fresh[s] \ {"scanner"} \subseteq fresh'[s] /\ fresh'[s] \subseteq fresh[s]
      BY <1>2, <2>1, <2>3 DEF ScanSched, Early, ScanAt, ScanTo, Released, TypeOK
    <3>2. Resting(s)'
      BY <1>0, <2>1, <2>2, <2>3, <3>1
      DEF Resting, MetricsDue, RuleNamed, KeptReports, Cron
    <3> QED BY <3>2
  <2>4. CASE scan[s].next # "later"
    <3>1. scan[s].next = "past" /\ RerunDue(s)
      BY <1>0, <2>1, <2>4 DEF Resting, Status
    <3>2. /\ UNCHANGED <<alive, jobs, orphans, pod, cms, rules, reports, cacheVars, timer,
                         current, mu, scanQ, jobQ, podQ, jobWork, counted>>
          /\ spc'[s] = "idle" /\ scan'[s] = Renewed(scan[s]) /\ fresh'[s] = {}
          /\ launches'[s] = 0
      BY <1>2, <2>1, <2>2, <2>4, <3>1 DEF ScanSched, Early, RerunDue, ScanTo, Store, TypeOK
    <3>3. /\ Unrun(Renewed(scan[s])) /\ ~Renewed(scan[s]).pending
          /\ Renewed(scan[s]).rule = scan[s].rule
      BY <1>0, RenewedUnrun DEF Resting
    <3>4. Awaiting(s)'
      BY <1>0, <2>1, <3>1, <3>2, <3>3
      DEF Resting, RerunDue, MetricsDue, Awaiting, LaggingUnrun, Passing, RuleNamed,
          KeptReports, OldReports, Cron
    <3> QED BY <3>4
  <2> QED BY <2>3, <2>4
<1>3. CASE ScanMetrics(s)
  <2>1. /\ spc[s] = "metrics" /\ HoldsFresh(s) /\ Unresolved(s)
        /\ HasConfig(s) => counted[s] = 0
        /\ s \in alive /\ scan[s].next # "past"
    BY <1>3 DEF ScanMetrics, Resting, MetricsDue, RerunDue
  <2>2. /\ UNCHANGED <<alive, jobs, orphans, pod, cms, rules, reports, cacheVars,
                       memVars, scanQ, jobWork, launches>>
        /\ spc'[s] = "idle" /\ (HasConfig(s) => counted'[s] = 1)
    BY <1>3, <2>1 DEF ScanMetrics, ScanTo, Capped, TypeOK
  <2>3. CASE HasConfig(s)
    <3> DEFINE new == AlertResolved(scan[s], Configured(s))
    <3>1. /\ Over(new, Cron(s)) /\ new.alerted # "Unknown" /\ new.next = scan[s].next
          /\ new.failed = scan[s].failed /\ new.rule = scan[s].rule
      BY <1>0, <2>1, <2>3, ResolvedOver DEF Resting
    <3>2. Store(s, new, {})
      BY <1>3, <2>1, <2>3 DEF ScanMetrics
    <3> HIDE DEF new
    <3>4. scan'[s] = new /\ fresh'[s] = {}
      BY <3>2 DEF Store, TypeOK
    <3>3. Resting(s)'
      BY <2>1, <2>2, <2>3, <3>1, <3>4
      DEF Resting, MetricsDue, RuleNamed, KeptReports, Cron
    <3> QED BY <3>3
  <2>4. CASE ~HasConfig(s)
    <3>1. scan'[s] = scan[s] /\ fresh'[s] = fresh[s] \ {"scanner"}
      BY <1>3, <2>4 DEF ScanMetrics, Released, TypeOK
    <3>2. Resting(s)'
      BY <2>1, <2>2, <2>4, <3>1
      DEF Resting, MetricsDue, RerunDue, RuleNamed, KeptReports, Cron
    <3> QED BY <3>2
  <2> QED BY <2>3, <2>4
<1>4. CASE JobRetire(s)
  <2>1. /\ UNCHANGED <<alive, scan, jobs, orphans, pod, cms, rules, cacheVars, fresh,
                       scanQ, scanWork, jobWork, histVars>>
        /\ s \in timer' => Cron(s)
        /\ reports'[s] = Kept(s, reports[s])
        /\ scan[s].next # "past"
    BY <1>4, Impossible DEF JobRetire, Rearmed, Resting, RerunDue, TypeOK
  <2>2. KeptReports(s)'
    BY <1>0, <2>1, BoundsAssumption DEF Resting, KeptReports, Kept, Cron
  <2>3. Resting(s)'
    BY <2>1, <2>2 DEF Resting, MetricsDue, RuleNamed, Cron
  <2> QED BY <2>3
<1>5. CASE JobRelease(s)
  <2>1. /\ UNCHANGED <<apiVars, cacheVars, timer, queueVars, scanWork, histVars>>
        /\ jpc'[s] = "idle" /\ fresh'[s] = fresh[s] \ {"jobber"}
    BY <1>5 DEF JobRelease, JobAt, JobTo, Released, TypeOK
  <2>2. Resting(s)'
    BY <2>1 DEF Resting, MetricsDue, RerunDue, RuleNamed, KeptReports
  <2> QED BY <2>2
<1>6. CASE JobIgnore(s) \/ PodIgnore(s) \/ RedeliverJob(s) \/ RedeliverPod(s)
  <2>1. Same(s)
    BY <1>6 DEF JobIgnore, PodIgnore, RedeliverJob, RedeliverPod, Same
  <2> QED BY <2>1, PhaseKept
<1>7. CASE CollectPod(s) \/ SyncPod(s) \/ SyncJob(s) \/ SyncConfigMaps(s)
  <2>1. Resting(s)'
    BY <1>7 DEF CollectPod, SyncPod, SyncJob, SyncConfigMaps, Resting, MetricsDue, RerunDue,
                RuleNamed, KeptReports, TypeOK
  <2> QED BY <2>1
<1>8. CASE SyncScan(s)
  <2>1. /\ scanCache'[s] = scan[s] /\ s \in seen' /\ fresh'[s] = fresh[s] \cup {"cache"}
        /\ s \in scanQ' /\ ~Fresh(s, "cache") /\ spc[s] = "idle"
        /\ scan[s].next # "past"
    BY <1>8 DEF SyncScan, Resting, RerunDue, TypeOK
  <2>2. Resting(s)'
    BY <1>8, <2>1 DEF SyncScan, Resting, MetricsDue, RuleNamed, KeptReports
  <2> QED BY <2>2
<1>9. CASE TimePasses(s)
  <2>1. /\ Fresh(s, "cache") /\ spc[s] = "idle" /\ jpc[s] = "idle" /\ s \notin scanQ
        /\ s \notin jobCache /\ scanCache[s] = scan[s]
    BY <1>9, Impossible DEF TimePasses, Settled, Resting
  <2> DEFINE new == Elapsed(scan[s])
  <2>2. /\ scan'[s] = new /\ scanCache'[s] = new
        /\ UNCHANGED <<alive, jobs, orphans, pod, cms, rules, reports, seen, jobCache,
                       podCache, cmCache, fresh, memVars, queueVars, spc, jobWork, histVars>>
    BY <1>9, <2>1 DEF TimePasses, TypeOK
  <2>3. /\ Over(new, Cron(s)) /\ new.next # "later"
        /\ new.alerted = scan[s].alerted /\ new.failed = scan[s].failed
        /\ new.rule = scan[s].rule
    BY <1>0, ElapsedOver DEF Resting
  <2>4. Cron(s) => ~Unresolved(s)
    BY <1>0, <2>1 DEF Resting, MetricsDue
  <2>5. new.next = "past" => Cron(s)
    BY <2>3 DEF Over
  <2> HIDE DEF new
  <2>6. Resting(s)'
    BY <2>1, <2>2, <2>3, <2>4, <2>5
    DEF Resting, MetricsDue, RerunDue, RuleNamed, KeptReports, Cron
  <2> QED BY <2>6
<1>10. CASE TimerFires(s)
  <2>1. scan[s].next = "past"
    BY <1>0, <1>10 DEF TimerFires, Resting, Over, Status
  <2>2. Resting(s)'
    BY <1>10, <2>1 DEF TimerFires, Resting, MetricsDue, RerunDue, RuleNamed, KeptReports
  <2> QED BY <2>2
<1>11. ScanHandler(s) => ScanStart(s) \/ ScanSched(s) \/ ScanMetrics(s)
  BY Impossible
  DEF Resting, ScanHandler, ScanGate, ScanLock, ScanClaim, ScanApply, ScanStatusWrite
<1>12. JobHandler(s) => JobIgnore(s) \/ JobRetire(s) \/ JobRelease(s)
  BY Impossible
  DEF Resting, Over, JobHandler, JobOfDeletedScan, JobCollect, Collectable, Finished,
      JobComplete, JobCleanup, JobFinish
<1>13. ~PodMark(s) /\ ~CreateScan(s) /\ ~StartPod(s) /\ ~RunnerDone(s) /\ ~CollectOrphan(s)
  BY DEF Resting, Over, PodMark, PodMarks, CreateScan, StartPod, RunnerDone, CollectOrphan
<1>14. ~JobExpires(s)
  BY Impossible DEF Resting, NoRunner
<1>15. CASE RedeliverScan(s)
  <2>1. Resting(s)'
    BY <1>15, Impossible DEF RedeliverScan, Resting, MetricsDue, RerunDue, RuleNamed, KeptReports
  <2> QED BY <2>1
<1> QED BY <1>1, <1>2, <1>3, <1>4, <1>5, <1>6, <1>7, <1>8, <1>9, <1>10, <1>11, <1>12,
           <1>13, <1>14, <1>15, Impossible
        DEF Act, PodHandler, Cluster, Informers, Clock, Users

(* Nobody takes the claim of a stranded run: its own handler never gets to *)
(* the release, and no other gets to a claim.                              *)
LEMMA ClaimStays ==
    ASSUME AtMostExpiries, TypeOK, ClaimInv, NEW s \in Scans, NEW t \in Scans, Stranded(s), Act(t)
    PROVE  current' = current
<1> USE DEF apiVars, cacheVars, memVars, queueVars, scanWork, jobWork, histVars
<1>1. current = s /\ s # None /\ Blocked /\ jpc[s] \notin {"cleanup", "finish", "release"}
  BY ScansAssumption DEF Stranded, StrandedUnsaved, StrandedSaved, Blocked
<1>2. spc[t] # "claim" /\ jpc[t] # "release"
  BY <1>1 DEF ClaimInv
<1>3. ScanHandler(t) => UNCHANGED current
  <2>1. ScanLock(t) => UNCHANGED current
    BY <1>1 DEF ScanLock
  <2>2. ~ScanClaim(t)
    BY <1>2 DEF ScanClaim
  <2> QED BY <2>1, <2>2, Impossible
          DEF ScanHandler, ScanStart, ScanGate, ScanApply, ScanStatusWrite, ScanSched,
              ScanMetrics
<1>4. JobHandler(t) => UNCHANGED current
  BY <1>2, Impossible
  DEF JobHandler, JobIgnore, JobOfDeletedScan, JobRetire, JobCollect, JobComplete,
      JobCleanup, JobFinish, JobRelease
<1>5. PodHandler(t) \/ Cluster(t) \/ Informers(t) \/ Clock(t) \/ Users(t) => UNCHANGED current
  BY Impossible
  DEF PodHandler, PodIgnore, PodMark, Cluster, StartPod, RunnerDone, JobExpires,
      CollectOrphan, CollectPod, Informers, SyncScan, SyncJob, SyncPod, SyncConfigMaps,
      RedeliverScan, RedeliverJob, RedeliverPod,
      Clock, TimePasses, TimerFires, Users, CreateScan
<1> QED BY <1>3, <1>4, <1>5 DEF Act

(* A launch whose Job has expired is saved all the same, and then its run  *)
(* is stranded (Handle, sync).                                             *)
LEMMA FromStrandedUnsaved ==
    ASSUME AtMostExpiries, TypeOK, ClaimInv, NEW s \in Scans, Stranded(s), StrandedUnsaved(s), Act(s)
    PROVE  Stranded(s)'
<1> USE DEF apiVars, cacheVars, memVars, queueVars, scanWork, jobWork, histVars
<1> USE DEF Fresh, TrueCache, HoldsFresh
<1>0. scan[s] \in Status /\ sobj[s] \in Status /\ current' = s
  BY ScanFacts, ClaimStays DEF Stranded
<1>1. CASE ScanStatusWrite(s)
  <2>1. AfterScan(sobj[s]) = "idle"
    BY <1>0, NextHandler DEF StrandedUnsaved
  <2>2. UNCHANGED <<alive, jobs, orphans, pod, cms, rules, reports, cacheVars,
                    memVars, scanQ, jobWork, histVars>>
        /\ spc'[s] = "idle" /\ scan'[s] = sobj[s] /\ fresh'[s] = {}
    BY <1>1, <2>1 DEF ScanStatusWrite, Accepted, Stranded, StrandedUnsaved, Store, ScanTo, TypeOK
  <2>3. ~Collected(s)' /\ ~sobj[s].failed /\ Unrun(scanCache[s]) /\ s \in seen
    BY <2>2 DEF Stranded, StrandedUnsaved, Collected, Ongoing
  <2>4. pod[s] \notin Verdicts /\ podCache[s] \notin Verdicts
    BY BehaviourAssumption DEF StrandedUnsaved
  <2>5. StrandedSaved(s)'
    BY <2>2, <2>3, <2>4 DEF StrandedUnsaved, StrandedSaved, OldReports, RuleNamed
  <2> QED BY <2>2, <2>5 DEF Stranded
<1>2. CASE JobIgnore(s) \/ PodIgnore(s) \/ RedeliverJob(s) \/ RedeliverPod(s)
  <2>1. Same(s)
    BY <1>2 DEF JobIgnore, PodIgnore, RedeliverJob, RedeliverPod, Same
  <2> QED BY <1>0, <2>1, PhaseKept DEF Stranded
<1>3. CASE CollectPod(s) \/ SyncJob(s) \/ SyncPod(s) \/ SyncConfigMaps(s)
  <2>1. Stranded(s)'
    BY <1>0, <1>3
    DEF Stranded, StrandedUnsaved, CollectPod, SyncJob, SyncPod, SyncConfigMaps, OldReports,
        TypeOK
  <2> QED BY <2>1
<1>4. ScanHandler(s) => ScanStatusWrite(s)
  BY Impossible
  DEF StrandedUnsaved, ScanHandler, ScanStart, ScanGate, ScanLock, ScanClaim, ScanApply,
      ScanSched, ScanMetrics
<1>5. JobHandler(s) => JobIgnore(s)
  BY Impossible
  DEF Stranded, StrandedUnsaved, Unrun, JobHandler, JobOfDeletedScan, JobRetire, JobCollect,
      JobComplete, JobCleanup, JobFinish, JobRelease, Finished, Collectable
<1>6. podCache[s] \notin Verdicts
  BY BehaviourAssumption DEF StrandedUnsaved
<1>7. ~PodMark(s) /\ ~SyncScan(s) /\ ~TimePasses(s) /\ ~TimerFires(s) /\ ~CreateScan(s)
      /\ ~RunnerDone(s) /\ ~StartPod(s) /\ ~CollectOrphan(s) /\ ~JobExpires(s)
      /\ ~RedeliverScan(s)
  BY <1>6, Impossible
  DEF Stranded, StrandedUnsaved, PodMark, PodMarks, Done, SyncScan, TimePasses, Settled,
      TimerFires, CreateScan, RunnerDone, StartPod, CollectOrphan
<1> QED BY <1>1, <1>2, <1>3, <1>4, <1>5, <1>7, Impossible
        DEF Act, PodHandler, Cluster, Informers, Clock, Users

(* A stranded run may be marked and collected, but there is no Job to      *)
(* delete, so its retirement gets no further (handlePods, handleJobs).     *)
LEMMA FromStrandedSaved ==
    ASSUME AtMostExpiries, TypeOK, ClaimInv, NEW s \in Scans, Stranded(s), StrandedSaved(s), Act(s)
    PROVE  Stranded(s)'
<1> USE DEF apiVars, cacheVars, memVars, queueVars, scanWork, jobWork, histVars
<1> USE DEF Fresh, TrueCache
<1>0. /\ scan[s] \in Status /\ scanCache[s] \in Status /\ jobj[s] \in Status
      /\ Strict(s) \in BOOLEAN /\ Cron(s) \in BOOLEAN
      /\ reports[s] \in Nat /\ counted[s] \in Nat /\ current' = s
  BY ScanFacts, BoundsAssumption, ClaimStays DEF TypeOK, Stranded
<1> USE DEF Stranded
<1>1. CASE ScanStart(s)
  <2>1. /\ s \in seen /\ s \in scanQ /\ Ongoing(scanCache[s])
    BY <1>1 DEF ScanStart, StrandedSaved
  <2>2. AfterScan(scanCache[s]) = "idle" /\ ~Eligible(scanCache[s])
    BY <1>0, <2>1, NextHandler, EligibleUnrun
  <2>3. /\ UNCHANGED <<apiVars, cacheVars, memVars, jobWork, histVars>>
        /\ spc'[s] = "idle" /\ fresh'[s] = fresh[s] \ {"scanner"}
    BY <1>1, <2>1, <2>2 DEF ScanStart, ScanTo, TypeOK
  <2>4. StrandedSaved(s)'
    BY <2>1, <2>3 DEF StrandedSaved, Completing, Collected, OldReports, NewReports, RuleNamed
  <2> QED BY <1>0, <2>3, <2>4
<1>2. CASE JobRetire(s)
  <2>1. /\ jpc[s] = "idle" /\ scan[s].complete /\ scan[s].ran = "True" /\ Ongoing(scanCache[s])
    BY <1>2 DEF JobRetire, JobPop, Finished, StrandedSaved, Ongoing
  <2>2. /\ UNCHANGED <<alive, scan, jobs, pod, cms, rules, cacheVars, scanQ, scanWork,
                       jobWork, histVars, fresh>>
        /\ reports'[s] = Kept(s, reports[s])
    BY <1>2, Impossible DEF JobRetire, TypeOK
  <2>3. NewReports(s)' /\ (~scan[s].failed => reports'[s] >= 1)
    BY <1>0, <2>1, <2>2, BoundsAssumption
    DEF StrandedSaved, Collected, NewReports, Kept, Cron
  <2>4. StrandedSaved(s)'
    BY <2>1, <2>2, <2>3 DEF StrandedSaved, Completing, Collected, RuleNamed
  <2> QED BY <1>0, <2>2, <2>4
<1>3. CASE JobCollect(s)
  <2>1. /\ jpc[s] = "idle" /\ ~scan[s].complete /\ scan[s].ran = "True"
        /\ Ongoing(scanCache[s])
    BY <1>3 DEF JobCollect, JobPop, Collectable, Finished, StrandedSaved
  <2>2. PICK summary \in Summaries :
            /\ scan[s].failed \/ summary # "none"
            /\ JobTo(s, "complete", Completed(scan[s], summary))
    BY <1>0, <1>3, BehaviourAssumption DEF JobCollect, Status
  <2> DEFINE new == Completed(scan[s], summary)
  <2>3. Ongoing(new) /\ new.complete /\ new.failed = scan[s].failed /\ new.rule = scan[s].rule
    BY <1>0, <2>1, <2>2, CompletedOngoing DEF StrandedSaved
  <2>4. /\ UNCHANGED <<alive, scan, jobs, orphans, pod, cms, rules, cacheVars, memVars,
                       scanQ, scanWork, histVars>>
        /\ jpc'[s] = "complete" /\ jobj'[s] = new
        /\ fresh'[s] = fresh[s] \cup {"jobber"}
    BY <1>3, <2>2 DEF JobCollect, JobTo, TypeOK
  <2>5. /\ ~scan[s].failed => reports'[s] >= 1
        /\ NewReports(s)'
    BY <1>0, <1>3, <2>1, BoundsAssumption
    DEF JobCollect, Reported, Capped, StrandedSaved, Collected, OldReports, NewReports, Cron,
        TypeOK
  <2> HIDE DEF new
  <2>6. StrandedSaved(s)'
    BY <2>1, <2>3, <2>4, <2>5 DEF StrandedSaved, Completing, Collected, RuleNamed
  <2> QED BY <1>0, <2>4, <2>6
<1>4. CASE JobComplete(s)
  <2>1. jpc[s] = "complete" /\ Completing(s)
    BY <1>4 DEF JobComplete, StrandedSaved
  <2>2. /\ UNCHANGED <<alive, jobs, orphans, pod, cms, rules, reports, cacheVars,
                       memVars, scanQ, scanWork, histVars>>
        /\ jpc'[s] = "idle" /\ scan'[s] = jobj[s] /\ fresh'[s] = {}
    BY <1>4, <2>1 DEF JobComplete, Accepted, Completing, JobTo, Store, TypeOK
  <2>3. StrandedSaved(s)'
    BY <2>1, <2>2 DEF StrandedSaved, Completing, Collected, NewReports, RuleNamed
  <2> QED BY <2>2, <2>3
<1>5. CASE PodMark(s)
  <2>1. podCache[s] \in Verdicts /\ scan[s].ran # "True" /\ jpc[s] = "idle" /\ ~Collected(s)
        /\ Ongoing(scanCache[s])
    BY <1>5 DEF PodMark, PodMarks, Done, StrandedSaved, Completing, Collected, Ongoing
  <2> DEFINE new == Marked(scan[s], podCache[s], Strict(s))
  <2>2. /\ Ongoing(new) /\ new.ran = "True" /\ ~new.complete /\ new.rule = scan[s].rule
    BY <1>0, <2>1, MarkedOngoing DEF StrandedSaved
  <2>3. /\ UNCHANGED <<alive, jobs, orphans, pod, cms, rules, reports, cacheVars,
                       memVars, scanQ, scanWork, jobWork, histVars>>
        /\ scan'[s] = new /\ fresh'[s] = {}
    BY <1>5 DEF PodMark, Store, TypeOK
  <2> HIDE DEF new
  <2>4. StrandedSaved(s)'
    BY <2>1, <2>2, <2>3 DEF StrandedSaved, Collected, OldReports, RuleNamed
  <2> QED BY <2>3, <2>4
<1>6. CASE JobIgnore(s) \/ PodIgnore(s) \/ RedeliverJob(s) \/ RedeliverPod(s)
  <2>1. Same(s)
    BY <1>6 DEF JobIgnore, PodIgnore, RedeliverJob, RedeliverPod, Same
  <2> QED BY <1>0, <2>1, PhaseKept
<1>7. CASE CollectPod(s) \/ SyncJob(s) \/ SyncPod(s) \/ SyncConfigMaps(s)
  <2>1. StrandedSaved(s)'
    BY <1>7, BehaviourAssumption
    DEF CollectPod, SyncJob, SyncPod, SyncConfigMaps, StrandedSaved, Completing, Collected,
        OldReports, NewReports, RuleNamed, TypeOK
  <2> QED BY <1>0, <1>7, <2>1 DEF CollectPod, SyncJob, SyncPod, SyncConfigMaps
<1>8. CASE RunnerDone(s)
  <2>1. Fresh(s, "cache") /\ Ongoing(scanCache[s])
    BY <1>8, Impossible DEF RunnerDone, Settled, StrandedSaved
  <2>2. StrandedSaved(s)'
    BY <1>8, <2>1
    DEF RunnerDone, StrandedSaved, Completing, Collected, OldReports, NewReports, RuleNamed
  <2> QED BY <1>0, <1>8, <2>2 DEF RunnerDone
<1>9. CASE SyncScan(s)
  <2>1. /\ scanCache'[s] = scan[s] /\ s \in seen' /\ fresh'[s] = fresh[s] \cup {"cache"}
    BY <1>9 DEF SyncScan, TypeOK
  <2>2. StrandedSaved(s)'
    BY <1>9, <2>1
    DEF SyncScan, StrandedSaved, Completing, Collected, OldReports, NewReports, RuleNamed
  <2> QED BY <1>0, <1>9, <2>1, <2>2 DEF SyncScan
<1>10. CASE TimePasses(s)
  <2>1. Fresh(s, "cache") /\ scan[s].next # "later"
    BY <1>10, Impossible DEF TimePasses, Settled, StrandedSaved, Ongoing
  <2>2. scan'[s] = scan[s] /\ scanCache'[s] = scanCache[s]
    BY <1>0, <1>10, <2>1, ElapsedSame DEF TimePasses, TypeOK
  <2>3. StrandedSaved(s)'
    BY <1>10, <2>2
    DEF TimePasses, StrandedSaved, Completing, Collected, OldReports, NewReports, RuleNamed
  <2> QED BY <1>0, <1>10, <2>2, <2>3 DEF TimePasses
<1>11. CASE TimerFires(s)
  <2>1. Ongoing(scanCache[s])
    BY <1>11 DEF TimerFires, StrandedSaved
  <2>2. StrandedSaved(s)'
    BY <1>11, <2>1
    DEF TimerFires, StrandedSaved, Completing, Collected, OldReports, NewReports, RuleNamed
  <2> QED BY <1>0, <1>11, <2>2 DEF TimerFires
<1>12. ScanHandler(s) => ScanStart(s)
  BY Impossible
  DEF StrandedSaved, ScanHandler, ScanGate, ScanLock, ScanClaim, ScanApply, ScanStatusWrite,
      ScanSched, ScanMetrics
<1>13. ~JobOfDeletedScan(s) /\ ~JobCleanup(s) /\ ~JobFinish(s) /\ ~JobRelease(s)
  BY DEF StrandedSaved, JobOfDeletedScan, JobCleanup, JobFinish, JobRelease
<1>14. ~CreateScan(s) /\ ~StartPod(s) /\ ~CollectOrphan(s) /\ ~JobExpires(s)
  BY Impossible DEF CreateScan, StartPod, CollectOrphan
<1>15. CASE RedeliverScan(s)
  <2>1. StrandedSaved(s)'
    BY <1>15, Impossible
    DEF RedeliverScan, StrandedSaved, Completing, Collected, OldReports, NewReports, RuleNamed
  <2> QED BY <1>0, <1>15, <2>1 DEF RedeliverScan
<1> QED BY <1>1, <1>2, <1>3, <1>4, <1>5, <1>6, <1>7, <1>8, <1>9, <1>10, <1>11, <1>12,
           <1>13, <1>14, <1>15, Impossible
        DEF Act, JobHandler, PodHandler, Cluster, Informers, Clock, Users

(* Nothing ends the phase of a stranded run.                               *)
LEMMA StrandedStays ==
    ASSUME AtMostExpiries, TypeOK, ClaimInv, NEW s \in Scans, NEW t \in Scans, Stranded(s), Act(t)
    PROVE  Stranded(s)'
<1>1. CASE s # t
  BY <1>1, Elsewhere, ClaimStays, PhaseKept DEF Act
<1>2. CASE s = t
  BY <1>2, FromStrandedUnsaved, FromStrandedSaved DEF Stranded
<1> QED BY <1>1, <1>2

-----------------------------------------------------------------------------
(* The runner, the runner checks and the claim.                            *)

(* Where the runner of a scan is, by its phase.                            *)
LEMMA RunnerFacts ==
    ASSUME TypeOK, NEW s \in Scans, Phase(s)
    PROVE  /\ s \in jobs => s \in alive
           /\ s \in jobs /\ pod[s] \in Verdicts => s \in jobCache
           /\ s \in jobs /\ scan[s].complete => pod[s] \in Verdicts
           /\ s \notin jobs /\ podCache[s] = "none" => pod[s] = "none" \/ Stranded(s)
           /\ spc[s] = "apply" => pod[s] = "none"
           /\ jpc[s] = "finish" => s \in alive /\ Fresh(s, "jobber")
<1>1. "none" \notin Verdicts /\ "running" \notin Verdicts
  BY BehaviourAssumption
<1>2. CASE Stranded(s)
  <2>1. s \notin jobs /\ spc[s] # "apply" /\ jpc[s] # "finish"
    BY <1>2 DEF Stranded, StrandedUnsaved, StrandedSaved
  <2> QED BY <1>2, <2>1
<1> QED
  BY <1>1, <1>2
  DEF Phase, Unborn, Awaiting, Unsaved, Running, Retiring, Resting, NoRunner, Passing,
      Unrun, Ongoing

(* A scan whose Job is about to be applied stays so until it is.           *)
LEMMA ApplyStep ==
    ASSUME AtMostExpiries, TypeOK, NEW s \in Scans, NEW t \in Scans, Act(t), spc[s] = "apply"
    PROVE  spc'[s] = "apply" \/ (s = t /\ ScanApply(s))
<1> USE DEF apiVars, cacheVars, memVars, queueVars, scanWork, jobWork, histVars
<1>1. CASE s # t
  BY <1>1, Elsewhere DEF Act, Same
<1>2. CASE s = t /\ ~ScanApply(s)
  <2>1. ~ScanHandler(t)
    BY <1>2, Impossible
    DEF ScanHandler, ScanStart, ScanGate, ScanLock, ScanClaim, ScanStatusWrite,
        ScanSched, ScanMetrics
  <2>2. JobHandler(t) => UNCHANGED spc
    BY DEF JobHandler, JobIgnore, JobOfDeletedScan, JobRetire, JobCollect, JobComplete,
           JobCleanup, JobFinish, JobRelease, JobCallFails
  <2>3. PodHandler(t) \/ Cluster(t) \/ Informers(t) \/ Clock(t) \/ Users(t) => UNCHANGED spc
    BY DEF PodHandler, PodIgnore, PodMark, Cluster, StartPod, RunnerDone, JobExpires,
           CollectOrphan, CollectPod, Informers, SyncScan, SyncJob, SyncPod, SyncConfigMaps,
           RedeliverScan, RedeliverJob, RedeliverPod,
           Clock, TimePasses, TimerFires, Users, CreateScan, EditScan, DeleteScan
  <2> QED BY <1>2, <2>1, <2>2, <2>3 DEF Act
<1> QED BY <1>1, <1>2

(* Who makes the runner visible, who lets a scan past the first check, and *)
(* who takes a Job away, or ends its runner.                               *)
LEMMA RunnerSeenStep ==
    ASSUME AtMostExpiries, NEW t \in Scans, Act(t), ~RunnerSeen, RunnerSeen'
    PROVE  SyncJob(t) \/ SyncPod(t)
<1> USE DEF apiVars, cacheVars, memVars, queueVars, scanWork, jobWork, histVars
<1>1. ScanHandler(t) => UNCHANGED <<jobCache, podCache>>
  BY DEF ScanHandler, ScanStart, ScanGate, ScanLock, ScanClaim, ScanApply, ScanApplyFails,
         ScanStatusWrite, ScanSched, ScanMetrics, ScanCallFails
<1>2. JobHandler(t) => UNCHANGED <<jobCache, podCache>>
  BY DEF JobHandler, JobIgnore, JobOfDeletedScan, JobRetire, JobCollect, JobComplete,
         JobCleanup, JobFinish, JobRelease, JobCallFails
<1>3. \/ PodHandler(t) \/ Cluster(t) \/ SyncScan(t) \/ SyncConfigMaps(t)
      \/ RedeliverScan(t) \/ RedeliverJob(t) \/ RedeliverPod(t) \/ Clock(t) \/ Users(t)
      => UNCHANGED <<jobCache, podCache>>
  BY DEF PodHandler, PodIgnore, PodMark, Cluster, StartPod, RunnerDone, JobExpires,
         CollectOrphan, CollectPod, SyncScan, SyncConfigMaps,
         RedeliverScan, RedeliverJob, RedeliverPod,
         Clock, TimePasses, TimerFires, Users, CreateScan, EditScan, DeleteScan
<1>4. ~ UNCHANGED <<jobCache, podCache>>
  BY DEF RunnerSeen
<1> QED BY <1>1, <1>2, <1>3, <1>4 DEF Act, Informers

(* A worker goes past the first runner check only while the caches show no *)
(* runner (isRunnerPodPresent).                                            *)
LEMMA GatePassed ==
    ASSUME AtMostExpiries, TypeOK, NEW s \in Scans, NEW t \in Scans, Act(t),
           spc'[s] \in {"lock", "claim"}, spc[s] \notin {"lock", "claim"}
    PROVE  ~RunnerSeen /\ UNCHANGED <<jobCache, podCache>>
<1> USE DEF apiVars, cacheVars, memVars, queueVars, scanWork, jobWork, histVars
<1>1. s = t
  BY Elsewhere DEF Act, Same
<1>2. CASE ScanGate(t)
  BY <1>1, <1>2 DEF ScanGate, Reject, ScanAt, ScanTo, Retry, TypeOK
<1>3. CASE ScanStart(t) \/ ScanApply(t)
  BY <1>1, <1>3 DEF ScanStart, ScanApply, AfterScan, ScanAt, ScanTo, TypeOK
<1>4. CASE ScanStatusWrite(t) \/ ScanSched(t) \/ ScanMetrics(t)
  BY <1>1, <1>4 DEF ScanStatusWrite, ScanSched, ScanMetrics, AfterScan, AfterSched, ScanAt,
                    ScanTo, TypeOK
<1>5. ~ScanLock(t) /\ ~ScanClaim(t)
  BY <1>1 DEF ScanLock, ScanClaim, Reject, ScanAt, ScanTo, Retry, TypeOK
<1>6. JobHandler(t) => UNCHANGED spc
  BY DEF JobHandler, JobIgnore, JobOfDeletedScan, JobRetire, JobCollect, JobComplete,
         JobCleanup, JobFinish, JobRelease, JobCallFails
<1>7. PodHandler(t) \/ Cluster(t) \/ Informers(t) \/ Clock(t) \/ Users(t) => UNCHANGED spc
  BY DEF PodHandler, PodIgnore, PodMark, Cluster, StartPod, RunnerDone, JobExpires,
         CollectOrphan, CollectPod, Informers, SyncScan, SyncJob, SyncPod, SyncConfigMaps,
         RedeliverScan, RedeliverJob, RedeliverPod,
         Clock, TimePasses, TimerFires, Users, CreateScan, EditScan, DeleteScan
<1> QED BY <1>1, <1>2, <1>3, <1>4, <1>5, <1>6, <1>7, Impossible DEF Act, ScanHandler

(* A Job goes by the Job handler's deletion, once its run has ended, or it *)
(* expires and its run is stranded.                                        *)
LEMMA JobGone ==
    ASSUME AtMostExpiries, TypeOK, ClaimInv, orphans = {}, \A u \in Scans : Phase(u),
           NEW s \in Scans, NEW t \in Scans, Act(t), s \in jobs, s \notin jobs'
    PROVE  /\ s = t
           /\ \/ JobRetire(s) /\ pod[s] \in Verdicts /\ jpc'[s] = "cleanup"
              \/ JobExpires(s) /\ Stranded(s)'
<1> USE DEF apiVars, cacheVars, memVars, queueVars, scanWork, jobWork, histVars
<1>1. s = t
  BY Elsewhere DEF Act, Same
<1>2. s \in alive
  BY RunnerFacts
<1>3. ScanHandler(t) => jobs \subseteq jobs'
  BY Impossible
  DEF ScanHandler, ScanStart, ScanGate, ScanLock, ScanClaim, ScanApply, CreateJob,
      ScanStatusWrite, ScanSched, ScanMetrics
<1>4. JobHandler(t) => JobRetire(t)
  BY <1>1, <1>2, Impossible
  DEF JobHandler, JobIgnore, JobOfDeletedScan, JobCollect, JobComplete,
      JobCleanup, JobFinish, JobRelease
<1>5. /\ ~PodHandler(t) /\ ~Informers(t) /\ ~Clock(t) /\ ~Users(t)
      /\ Cluster(t) => JobExpires(t)
  BY Impossible
  DEF PodHandler, PodIgnore, PodMark, Cluster, StartPod, RunnerDone,
      CollectOrphan, CollectPod, Informers, SyncScan, SyncJob, SyncPod, SyncConfigMaps,
      RedeliverScan, RedeliverJob, RedeliverPod,
      Clock, TimePasses, TimerFires, Users, CreateScan
<1>6. CASE JobRetire(s)
  <2>1. scan[s].complete /\ jpc'[s] = "cleanup"
    BY <1>6 DEF JobRetire, Finished, JobTo, TypeOK
  <2> QED BY <1>1, <1>6, <2>1, RunnerFacts
<1>7. CASE JobExpires(s)
  <2>1. Unsaved(s) \/ Running(s)
    BY DEF Phase, Unborn, Awaiting, Retiring, Resting, Stranded, NoRunner
  <2>2. Unsaved(s)' \/ Running(s)' \/ Retiring(s)' \/ Stranded(s)'
    BY <1>1, <2>1, FromUnsaved, FromRunning
  <2>3. jpc'[s] \notin {"cleanup", "finish"}
    BY <1>7, <2>1 DEF JobExpires, Unsaved, Running
  <2>4. Stranded(s)'
    BY <2>2, <2>3 DEF Unsaved, Running, Retiring
  <2> QED BY <1>1, <1>7, <2>4
<1> QED BY <1>1, <1>3, <1>4, <1>5, <1>6, <1>7 DEF Act

(* What the first runner check of isRunnerPodPresent saw stays true until  *)
(* the claim, or the isScanPresent of the second check stops the worker: a *)
(* step of scan t.                                                         *)
LEMMA GateStep ==
    ASSUME AtMostExpiries, TypeOK, ClaimInv, orphans = {}, \A u \in Scans : Phase(u), GateHolds,
           NEW t \in Scans, Act(t)
    PROVE  GateHolds'
<1> USE DEF apiVars, cacheVars, memVars, queueVars, scanWork, jobWork, histVars
<1> SUFFICES ASSUME NEW s \in Scans, spc'[s] \in {"lock", "claim"}
             PROVE  \/ ~RunnerSeen'
                    \/ \E u \in jobs' : pod'[u] \notin Verdicts
                    \/ \E u \in Scans : spc'[u] = "apply"
                    \/ \E u \in Scans : Stranded(u)'
  BY DEF GateHolds
<1>0. "none" \notin Verdicts /\ "running" \notin Verdicts
  BY BehaviourAssumption
<1>1. CASE ~RunnerSeen /\ ~RunnerSeen'
  BY <1>1
<1>2. CASE ~RunnerSeen /\ RunnerSeen'
  <2>1. SyncJob(t) \/ SyncPod(t)
    BY <1>2, RunnerSeenStep
  <2>2. t \notin jobCache /\ podCache[t] = "none"
    BY <1>2 DEF RunnerSeen
  <2>3. CASE Stranded(t)
    BY <2>3, StrandedStays
  <2>4. CASE ~Stranded(t)
    <3>1. t \in jobs
      BY <2>1, <2>2, <2>4, RunnerFacts DEF SyncJob, SyncPod
    <3>2. pod[t] \notin Verdicts
      BY <2>2, <3>1, RunnerFacts
    <3>3. jobs' = jobs /\ pod' = pod
      BY <2>1 DEF SyncJob, SyncPod
    <3> QED BY <3>1, <3>2, <3>3
  <2> QED BY <2>3, <2>4
<1>3. CASE RunnerSeen
  <2>1. spc[s] \in {"lock", "claim"}
    BY <1>3, GatePassed
  <2>2. CASE \E u \in Scans : spc[u] = "apply"
    <3>1. PICK u \in Scans : spc[u] = "apply"
      BY <2>2
    <3>2. CASE spc'[u] = "apply"
      BY <3>2
    <3>3. CASE ScanApply(u)
      <4>1. u \in jobs' /\ pod'[u] = "none"
        BY <3>1, <3>3, RunnerFacts DEF ScanApply, CreateJob
      <4> QED BY <1>0, <4>1
    <3> QED BY <3>1, <3>2, <3>3, ApplyStep
  <2>3. CASE \E u \in jobs : pod[u] \notin Verdicts
    <3>1. PICK u \in jobs : pod[u] \notin Verdicts
      BY <2>3
    <3>2. u \in Scans
      BY <3>1 DEF TypeOK
    <3>3. CASE u \notin jobs'
      BY <3>1, <3>2, <3>3, JobGone
    <3>4. pod'[u] \notin Verdicts
      <4>1. CASE u # t
        BY <3>1, <3>2, <4>1, Elsewhere DEF Act, Same
      <4>2. CASE u = t
        <5>1. ScanHandler(t) => UNCHANGED pod
          BY DEF ScanHandler, ScanStart, ScanGate, ScanLock, ScanClaim, ScanApply,
                 ScanApplyFails, ScanStatusWrite, ScanSched, ScanMetrics, ScanCallFails
        <5>2. JobHandler(t) => UNCHANGED pod \/ pod'[t] \in {"none", pod[t]}
          BY DEF JobHandler, JobIgnore, JobOfDeletedScan, JobRetire, JobCollect, JobComplete,
                 JobCleanup, JobFinish, JobRelease, JobCallFails, TypeOK
        <5>3. ~RunnerDone(t)
          BY <2>1, Impossible DEF RunnerDone
        <5>4. Cluster(t) => UNCHANGED pod \/ pod'[t] \in {"none", "running"}
          BY <5>3 DEF Cluster, StartPod, JobExpires, CollectOrphan, CollectPod, TypeOK
        <5>5. PodHandler(t) \/ Informers(t) \/ Clock(t) \/ Users(t) => UNCHANGED pod
          BY DEF PodHandler, PodIgnore, PodMark, Informers, SyncScan, SyncJob, SyncPod,
                 SyncConfigMaps, RedeliverScan, RedeliverJob, RedeliverPod,
                 Clock, TimePasses, TimerFires, Users, CreateScan, EditScan,
                 DeleteScan
        <5> QED BY <1>0, <3>1, <4>2, <5>1, <5>2, <5>4, <5>5 DEF Act
      <4> QED BY <4>1, <4>2
    <3> QED BY <3>3, <3>4
  <2>4. CASE \E u \in Scans : Stranded(u)
    BY <2>4, StrandedStays
  <2> QED BY <1>3, <2>1, <2>2, <2>3, <2>4 DEF GateHolds
<1> QED BY <1>1, <1>2, <1>3

(* currentScanName names a scan whose run is under way or about to be: a   *)
(* step of scan t (handleClusterScans takes the claim, handleJobs gives it *)
(* back).                                                                  *)
LEMMA BackedStep ==
    ASSUME NoMishaps, TypeOK, ClaimInv, orphans = {}, \A u \in Scans : Phase(u), ClaimBacked,
           NEW t \in Scans, Act(t)
    PROVE  ClaimBacked'
<1> USE Unexpired
<1> USE DEF apiVars, cacheVars, memVars, queueVars, scanWork, jobWork, histVars
<1> SUFFICES ASSUME current' \in alive'
             PROVE  \/ current' \in jobs'
                    \/ spc'[current'] = "apply"
                    \/ jpc'[current'] \in {"cleanup", "finish", "release"}
  BY DEF ClaimBacked
<1>0. current' \in Scans /\ current' # None
  BY TypeStep, ScansAssumption DEF Act, Next, TypeOK
<1>1. CASE current' # current
  <2>1. ScanClaim(t)
    <3>1. ScanHandler(t) => ScanClaim(t)
      BY <1>0, <1>1
      DEF ScanHandler, ScanStart, ScanGate, ScanLock, ScanApply, ScanApplyFails,
          ScanStatusWrite, ScanSched, ScanMetrics, ScanCallFails
    <3>2. ~JobHandler(t)
      BY <1>0, <1>1
      DEF JobHandler, JobIgnore, JobOfDeletedScan, JobRetire, JobCollect, JobComplete,
          JobCleanup, JobFinish, JobRelease, JobCallFails
    <3>3. ~PodHandler(t) /\ ~Cluster(t) /\ ~Informers(t) /\ ~Clock(t) /\ ~Users(t)
      BY <1>1
      DEF PodHandler, PodIgnore, PodMark, Cluster, StartPod, RunnerDone, JobExpires,
          CollectOrphan, CollectPod, Informers, SyncScan, SyncJob, SyncPod, SyncConfigMaps,
          RedeliverScan, RedeliverJob, RedeliverPod,
          Clock, TimePasses, TimerFires, Users, CreateScan, EditScan, DeleteScan
    <3> QED BY <3>1, <3>2, <3>3 DEF Act
  <2>2. current' = t /\ spc'[t] = "apply"
    BY <1>1, <2>1 DEF ScanClaim, ScanAt, ScanTo, TypeOK
  <2> QED BY <2>2
<1>2. CASE current' = current
  <2>1. current \in alive
    BY <1>0, <1>2 DEF ClaimInv
  <2>2. CASE current \in jobs
    BY <1>0, <1>2, <2>2, JobGone
  <2>3. CASE spc[current] = "apply"
    BY <1>0, <1>2, <2>3, ApplyStep DEF ScanApply, CreateJob
  <2>4. CASE jpc[current] \in {"cleanup", "finish", "release"}
    <3>1. CASE t # current
      BY <1>0, <1>2, <2>4, <3>1, Elsewhere DEF Act, Same
    <3>2. CASE t = current
      <4>1. ScanHandler(t) => UNCHANGED jpc
        BY DEF ScanHandler, ScanStart, ScanGate, ScanLock, ScanClaim, ScanApply,
               ScanApplyFails, ScanStatusWrite, ScanSched, ScanMetrics, ScanCallFails
      <4>2. PodHandler(t) \/ Cluster(t) \/ Informers(t) \/ Clock(t) \/ Users(t) => UNCHANGED jpc
        BY DEF PodHandler, PodIgnore, PodMark, Cluster, StartPod, RunnerDone, JobExpires,
               CollectOrphan, CollectPod, Informers, SyncScan, SyncJob, SyncPod, SyncConfigMaps,
               RedeliverScan, RedeliverJob, RedeliverPod,
               Clock, TimePasses, TimerFires, Users, CreateScan, EditScan, DeleteScan
      <4>3. JobHandler(t) => JobCleanup(t) \/ JobFinish(t)
        BY <1>0, <1>2, <2>1, <2>4, <3>2, Impossible
        DEF JobHandler, JobIgnore, JobOfDeletedScan, JobRetire, JobCollect, JobPop,
            JobComplete, JobRelease
      <4>4. JobCleanup(t) => jpc'[t] = "finish"
        BY DEF JobCleanup, JobAt, JobTo, TypeOK
      <4>5. JobFinish(t) => jpc'[t] = "release"
        BY <2>1, <3>2, RunnerFacts DEF JobFinish, Accepted, Fresh, JobTo, TypeOK
      <4> QED BY <1>2, <2>4, <3>2, <4>1, <4>2, <4>3, <4>4, <4>5 DEF Act
    <3> QED BY <3>1, <3>2
  <2> QED BY <1>2, <2>1, <2>2, <2>3, <2>4 DEF ClaimBacked
<1> QED BY <1>1, <1>2

(* Without deletions no Job outlives its scan: a step of scan t.           *)
LEMMA OrphansStep ==
    ASSUME AtMostExpiries, TypeOK, ClaimInv, orphans = {}, NEW t \in Scans, Act(t)
    PROVE  orphans' = {}
<1> USE DEF apiVars, cacheVars, memVars, queueVars, scanWork, jobWork, histVars
<1>1. ScanHandler(t) => orphans' = {}
  BY Impossible
  DEF ClaimInv, ScanHandler, ScanStart, ScanGate, ScanLock, ScanClaim, ScanApply, CreateJob,
      ScanStatusWrite, ScanSched, ScanMetrics
<1>2. JobHandler(t) => orphans' = {}
  BY Impossible
  DEF JobHandler, JobIgnore, JobOfDeletedScan, JobRetire, JobCollect, JobComplete,
      JobCleanup, JobFinish, JobRelease
<1>3. PodHandler(t) \/ Cluster(t) \/ Informers(t) \/ Clock(t) \/ Users(t) => orphans' = {}
  BY Impossible
  DEF PodHandler, PodIgnore, PodMark, Cluster, StartPod, RunnerDone, JobExpires,
      CollectOrphan, CollectPod, Informers, SyncScan, SyncJob, SyncPod, SyncConfigMaps,
      RedeliverScan, RedeliverJob, RedeliverPod,
      Clock, TimePasses, TimerFires, Users, CreateScan
<1> QED BY <1>1, <1>2, <1>3 DEF Act

-----------------------------------------------------------------------------
(* The phases of a run, one after the other.                               *)

(* Whosever step it is, every scan is in a phase after it.                 *)
LEMMA PhaseStep ==
    ASSUME AtMostExpiries, TypeOK, ClaimInv, RunInv, NEW s \in Scans, NEW t \in Scans, Act(t)
    PROVE  Phase(s)'
<1>1. Stranded(s) => Stranded(s)'
  BY StrandedStays
<1>2. CASE s # t
  BY <1>1, <1>2, Elsewhere, PhaseKept DEF Act, RunInv, Phase
<1>3. CASE s = t
  <2>1. orphans = {} /\ GateHolds /\ Phase(s) /\ Act(s)
    BY <1>3 DEF RunInv
  <2> QED BY <1>1, <2>1, FromUnborn, FromAwaiting, FromUnsaved, FromRunning, FromRetiring,
             FromResting DEF Phase
<1> QED BY <1>2, <1>3

(* No scan is there to begin with.                                         *)
LEMMA RunInit == Init => RunInv
<1> SUFFICES ASSUME Init PROVE RunInv
  OBVIOUS
<1>1. ASSUME NEW s \in Scans PROVE Unborn(s)
  BY DEF Init, Unborn, NoRunner
<1>2. GateHolds
  BY DEF Init, GateHolds
<1> QED BY <1>1, <1>2 DEF Init, RunInv, Phase

(* One step of the controller keeps every scan in a phase of its run.      *)
LEMMA RunStep ==
    ASSUME AtMostExpiries, TypeOK, ClaimInv, RunInv, [Next]_vars
    PROVE  RunInv'
<1>1. CASE UNCHANGED vars
  <2> USE DEF vars, apiVars, cacheVars, memVars, queueVars, scanWork, jobWork, histVars
  <2>1. ASSUME NEW s \in Scans PROVE Phase(s)'
    <3>1. Same(s)
      BY <1>1 DEF Same
    <3>2. current' = current
      BY <1>1
    <3> QED BY <3>1, <3>2, PhaseKept DEF RunInv, Phase
  <2>2. ASSUME NEW s \in Scans, Stranded(s) PROVE Stranded(s)'
    <3>1. Same(s) /\ current' = current
      BY <1>1 DEF Same
    <3> QED BY <2>2, <3>1, PhaseKept
  <2>3. orphans' = {} /\ GateHolds'
    BY <1>1, <2>2 DEF RunInv, GateHolds, RunnerSeen
  <2> QED BY <2>1, <2>3 DEF RunInv
<1>2. CASE \E t \in Scans : Act(t)
  <2>1. PICK t \in Scans : Act(t)
    BY <1>2
  <2>2. \A s \in Scans : Phase(s)'
    BY <2>1, PhaseStep
  <2>3. orphans' = {} /\ GateHolds'
    BY <2>1, OrphansStep, GateStep DEF RunInv
  <2> QED BY <2>2, <2>3 DEF RunInv
<1>3. ~Crash
  BY DEF Crash, Mishap, AtMostExpiries
<1> QED BY <1>1, <1>2, <1>3 DEF Next, Act

(* Rejections, re-deliveries and expiries are neither restarts nor         *)
(* deletions.                                                              *)
LEMMA NoneWorse ==
    AtMostExpiries => NoRestartOrDelete
  BY DEF AtMostExpiries, NoRestartOrDelete

(* At every moment each scan is in one of the phases, whatever the caches  *)
(* have missed or deliver again and however the handlers interleave, as    *)
(* long as nothing goes wrong but rejected profiles and expired Jobs;      *)
(* nobody is let past the runner checks while a runner is seen that will   *)
(* not outlast him                                                         *)
(* (scanHandler.go, jobHandler.go, podHandler.go, scheduledScanHandler.go, *)
(* scanMetricsHandler.go).                                                 *)
THEOREM RunPhases ==
    ASSUME AtMostExpiries
    PROVE  Spec => []RunInv
<1>1. NoRestartOrDelete
  BY NoneWorse
<1>2. Spec => []ClaimInv
  BY <1>1, ClaimDiscipline
<1>3. TypeOK /\ ClaimInv /\ RunInv /\ [Next]_vars => RunInv'
  BY RunStep
<1> QED BY <1>2, <1>3, RunInit, TypeCorrect, PTL DEF Spec

-----------------------------------------------------------------------------
(* What the phases say of every state.                                     *)

(* What the phases say of Jobs, counts and statuses.                       *)
LEMMA PhaseFacts ==
    ASSUME TypeOK, NEW s \in Scans, Phase(s)
    PROVE  /\ launches[s] <= 1 /\ (HasConfig(s) => counted[s] <= 1)
           /\ s \in alive => /\ Unrun(scan[s]) \/ Ongoing(scan[s]) \/ Over(scan[s], Cron(s))
                             /\ \/ Unrun(scan[s]) \/ Over(scan[s], Cron(s)) \/ Stranded(s)
                                \/ s \in jobs \/ jpc[s] \in {"cleanup", "finish"}
<1>1. CASE Stranded(s)
  <2>1. Unrun(scan[s]) \/ Ongoing(scan[s])
    BY <1>1 DEF Stranded, StrandedUnsaved, StrandedSaved
  <2>2. launches[s] <= 1 /\ counted[s] <= 1
    BY <1>1 DEF Stranded
  <2> QED BY <1>1, <2>1, <2>2
<1> QED
  BY <1>1
  DEF TypeOK, Phase, Unborn, Awaiting, Unsaved, Running, Retiring, Resting, MetricsDue

(* A run that is asked for gets one Job, not two, whatever stale copies    *)
(* the scan handler starts its passes from (handleClusterScans, Handle).   *)
THEOREM LaunchesOnce ==
    ASSUME AtMostExpiries
    PROVE  Spec => []LaunchedOnce
<1>1. TypeOK /\ RunInv => LaunchedOnce
  BY PhaseFacts DEF RunInv, LaunchedOnce
<1> QED BY <1>1, RunPhases, TypeCorrect, PTL

(* The metrics count each run of a scan with a ScheduledScanConfig at most *)
(* once, although the metrics handler is called for every event of the     *)
(* scan and for every re-delivery (handleClusterScanMetrics).              *)
THEOREM CountsOnce ==
    ASSUME AtMostExpiries
    PROVE  Spec => []PlannedCountedOnce
<1>1. TypeOK /\ RunInv => PlannedCountedOnce
  BY PhaseFacts, ScansAssumption DEF RunInv, PlannedCountedOnce, HasConfig
<1> QED BY <1>1, RunPhases, TypeCorrect, PTL

(* currentScanName never names a scan that no run or pass backs: the       *)
(* operator is not locked out of further runs (handleClusterScans,         *)
(* handleJobs).                                                            *)
THEOREM ClaimIsBacked ==
    ASSUME NoMishaps
    PROVE  Spec => []ClaimBacked
<1>1. AtMostExpiries /\ NoRestartOrDelete
  BY Unexpired, NoneWorse
<1>2. Init => ClaimBacked
  BY ScansAssumption DEF Init, ClaimBacked
<1>3. TypeOK /\ ClaimInv /\ RunInv /\ ClaimBacked /\ [Next]_vars => ClaimBacked'
  <2>1. CASE UNCHANGED vars
    BY <2>1
    DEF ClaimBacked, vars, apiVars, memVars, scanWork, jobWork
  <2>2. ASSUME TypeOK, ClaimInv, RunInv, ClaimBacked, NEW t \in Scans, Act(t)
        PROVE  ClaimBacked'
    BY <2>2, BackedStep DEF RunInv
  <2>3. ~Crash
    BY DEF Crash, Mishap, NoMishaps
  <2> QED BY <2>1, <2>2, <2>3 DEF Next, Act
<1>4. Spec => []RunInv /\ []ClaimInv
  BY <1>1, RunPhases, ClaimDiscipline, PTL
<1> QED BY <1>2, <1>3, <1>4, TypeCorrect, PTL DEF Spec

(* The copy of a custom benchmark stays no longer than the launch, the Job *)
(* and its cleanup (getCustomBenchmarkConfigMap, ensureCleanup).           *)
THEOREM CopyIsCleaned ==
    ASSUME NoMishaps
    PROVE  Spec => []CopyCleaned
<1>1. TypeOK /\ RunInv => CopyCleaned
  <2>1. ASSUME TypeOK, NEW s \in alive, Phase(s), "copy" \in cms[s]
        PROVE  spc[s] \in {"claim", "apply"} \/ s \in jobs \/ jpc[s] = "cleanup"
    <3>1. s \in Scans /\ ~Stranded(s)
      BY <2>1, Unexpired DEF TypeOK
    <3> QED BY <2>1, <3>1 DEF Phase, Unborn, Awaiting, Unsaved, Running, Retiring, Resting
  <2> QED BY <2>1 DEF RunInv, TypeOK, CopyCleaned
<1> QED BY <1>1, Unexpired, RunPhases, TypeCorrect, PTL

(* A scan is Failed only because its profile was refused, where profiles   *)
(* may be, or its runner ended in an error (handleClusterScans,            *)
(* handlePods).                                                            *)
THEOREM FailsForCause ==
    ASSUME AtMostExpiries
    PROVE  Spec => []FailedForCause
<1>1. TypeOK /\ RunInv => FailedForCause
  BY PhaseFacts DEF RunInv, TypeOK, FailedForCause, Unrun, Ongoing, Over
<1> QED BY <1>1, RunPhases, TypeCorrect, PTL

(* A scan that shows pass or fail has a report, and a scan has no more     *)
(* reports than its retention and the run under way account for            *)
(* (handleJobs, purgeOldClusterScanReports).                               *)
THEOREM ReportsPerRun ==
    ASSUME AtMostExpiries
    PROVE  Spec => []ReportPerRun
<1>1. ASSUME TypeOK, NEW s \in alive, Phase(s)
      PROVE  /\ reports[s] <= IF Cron(s) THEN Retention + 1 ELSE launches[s]
             /\ scan[s].complete /\ scan[s].shown \in {"pass", "fail"} => reports[s] >= 1
  <2>1. s \in Scans /\ reports[s] \in Nat /\ launches[s] \in Nat /\ Retention \in Nat
    BY <1>1, BoundsAssumption DEF TypeOK
  <2>2. CASE Awaiting(s) \/ Unsaved(s)
    BY <2>1, <2>2 DEF Awaiting, Unsaved, OldReports, Unrun
  <2>3. CASE Running(s)
    BY <2>1, <2>3 DEF Running, OldReports, NewReports, Collected, Ongoing
  <2>4. CASE Retiring(s)
    BY <2>1, <2>4 DEF Retiring, KeptReports, Ongoing
  <2>5. CASE Resting(s)
    BY <2>1, <2>5 DEF Resting, KeptReports, Over
  <2>6. CASE Stranded(s)
    <3>1. CASE StrandedUnsaved(s)
      BY <2>1, <2>6, <3>1 DEF Stranded, StrandedUnsaved, OldReports, Unrun
    <3>2. CASE StrandedSaved(s)
      BY <2>1, <2>6, <3>2
      DEF Stranded, StrandedSaved, OldReports, NewReports, Collected, Ongoing
    <3> QED BY <2>6, <3>1, <3>2 DEF Stranded
  <2> QED BY <1>1, <2>2, <2>3, <2>4, <2>5, <2>6 DEF Phase, Unborn
<1>2. TypeOK /\ RunInv => ReportPerRun
  BY <1>1 DEF RunInv, TypeOK, ReportPerRun
<1> QED BY <1>2, RunPhases, TypeCorrect, PTL

(* A scan that is complete without its final status has a handler on its   *)
(* way to that status (handleJobs).                                        *)
THEOREM RetirementIsPending ==
    ASSUME NoMishaps
    PROVE  Spec => []RetirementPending
<1>1. TypeOK /\ RunInv => RetirementPending
  BY Unexpired, PhaseFacts DEF RunInv, TypeOK, RetirementPending, Unrun, Over
<1> QED BY <1>1, Unexpired, RunPhases, TypeCorrect, PTL

(* A Pod never marks a scan whose launch was not saved, and a wipe leaves  *)
(* no mark of the run before (handlePods, handleScheduledClusterScans).    *)
THEOREM MarksFollowLaunch ==
    ASSUME AtMostExpiries
    PROVE  Spec => []MarkFollowsLaunch
<1>1. TypeOK /\ RunInv => MarkFollowsLaunch
  BY PhaseFacts DEF RunInv, TypeOK, MarkFollowsLaunch, Unrun, Ongoing, Over
<1> QED BY <1>1, RunPhases, TypeCorrect, PTL

(* An alert rule that exists is named in the status of its scan, or in the *)
(* status about to be saved (handleClusterScans).                          *)
THEOREM RulesRecorded ==
    ASSUME AtMostExpiries
    PROVE  Spec => []RuleRecorded
<1>1. ASSUME TypeOK, NEW s \in rules \cap alive, Phase(s)
      PROVE  scan[s].rule \/ (spc[s] \in {"apply", "status"} /\ sobj[s].rule)
  BY <1>1
  DEF Phase, Unborn, Awaiting, Unsaved, Running, Retiring, Resting, Stranded, StrandedUnsaved,
      StrandedSaved, RuleNamed
<1>2. TypeOK /\ RunInv => RuleRecorded
  BY <1>1 DEF RunInv, TypeOK, RuleRecorded
<1> QED BY <1>2, RunPhases, TypeCorrect, PTL

-----------------------------------------------------------------------------
(* What the phases say of every step.                                      *)

(* A step that changes nothing changes neither Jobs nor statuses.          *)
LEMMA Stuttered == vars' = vars => jobs' = jobs /\ scan' = scan
  BY DEF vars, apiVars

(* No Job is deleted before its runner has ended, although the Job handler *)
(* decides by conditions of the live scan that an earlier run may have     *)
(* left (handleJobs).                                                      *)
THEOREM NoRunIsCutShort ==
    ASSUME NoMishaps
    PROVE  Spec => NoRunCutShort
<1>1. ASSUME TypeOK, ClaimInv, RunInv, [Next]_vars, NEW s \in jobs \ jobs'
      PROVE  pod[s] \in Verdicts
  <2>1. PICK t \in Scans : Act(t)
    BY <1>1, Stuttered DEF Next, Act, Crash, Mishap, NoMishaps
  <2> QED BY <1>1, <2>1, JobGone, Unexpired DEF RunInv, TypeOK
<1>2. TypeOK /\ ClaimInv /\ RunInv /\ [Next]_vars
      => [ \A s \in jobs \ jobs' : s \in alive => pod[s] \in Verdicts ]_vars
  BY <1>1
<1>3. Spec => []RunInv /\ []ClaimInv
  BY Unexpired, NoneWorse, RunPhases, ClaimDiscipline, PTL
<1> QED BY <1>2, <1>3, TypeCorrect, PTL DEF Spec, NoRunCutShort

(* Only a pass of the scan handler over a scan creates the Job of that     *)
(* scan.                                                                   *)
LEMMA JobNew ==
    ASSUME AtMostExpiries, TypeOK, NEW s \in Scans, NEW t \in Scans, Act(t), s \notin jobs, s \in jobs'
    PROVE  s = t /\ ScanApply(s)
<1> USE DEF apiVars, cacheVars, memVars, queueVars, scanWork, jobWork, histVars
<1>1. s = t
  BY Elsewhere DEF Act, Same
<1>2. ScanHandler(t) => ScanApply(t)
  BY <1>1, Impossible
  DEF ScanHandler, ScanStart, ScanGate, ScanLock, ScanClaim, ScanStatusWrite, ScanSched,
      ScanMetrics
<1>3. ~JobHandler(t)
  BY <1>1
  DEF JobHandler, JobIgnore, JobOfDeletedScan, JobRetire, JobCollect, JobComplete,
      JobCleanup, JobFinish, JobRelease, JobCallFails
<1>4. ~PodHandler(t) /\ ~Cluster(t) /\ ~Informers(t) /\ ~Clock(t) /\ ~Users(t)
  BY <1>1
  DEF PodHandler, PodIgnore, PodMark, Cluster, StartPod, RunnerDone, JobExpires,
      CollectOrphan, CollectPod, Informers, SyncScan, SyncJob, SyncPod, SyncConfigMaps,
      RedeliverScan, RedeliverJob, RedeliverPod,
      Clock, TimePasses, TimerFires, Users, CreateScan, EditScan, DeleteScan
<1> QED BY <1>1, <1>2, <1>3, <1>4 DEF Act

(* A scan whose next run is set to a time to come is not launched before   *)
(* it (handleClusterScans, handleScheduledClusterScans).                   *)
THEOREM LaunchesAreTimely ==
    ASSUME AtMostExpiries
    PROVE  Spec => TimelyLaunch
<1>1. ASSUME TypeOK, TypeOK', RunInv, [Next]_vars, NEW s \in jobs' \ jobs
      PROVE  scan[s].next # "later"
  <2>1. PICK t \in Scans : Act(t)
    BY <1>1, Stuttered DEF Next, Act, Crash, Mishap, AtMostExpiries
  <2>2. s \in Scans
    BY <1>1 DEF TypeOK
  <2>3. spc[s] = "apply" /\ Phase(s)
    BY <1>1, <2>1, <2>2, JobNew DEF ScanApply, RunInv
  <2> QED BY <2>3 DEF Phase, Unborn, Awaiting, Unsaved, Running, Retiring, Resting, Stranded,
                      StrandedUnsaved, StrandedSaved, Unrun
<1>2. TypeOK /\ TypeOK' /\ RunInv /\ [Next]_vars
      => [ \A s \in jobs' \ jobs : scan[s].next # "later" ]_vars
  BY <1>1
<1> QED BY <1>2, RunPhases, TypeCorrect, PTL DEF Spec, TimelyLaunch

(* LastRunTimestamp survives what the other handlers write.                *)
LEMMA LastRunKept ==
    ASSUME NEW st \in Status, NEW strict \in BOOLEAN
    PROVE  /\ \A done : Marked(st, done, strict).lastRun = st.lastRun
           /\ \A configured : AlertResolved(st, configured).lastRun = st.lastRun
           /\ Elapsed(st).lastRun = st.lastRun
           /\ [st EXCEPT !.observed = TRUE].lastRun = st.lastRun
<1>1. ASSUME NEW done PROVE Marked(st, done, strict).lastRun = st.lastRun
  <2> DEFINE told == [st EXCEPT !.ran = "True", !.failed = @ \/ done # "true"]
  <2>1. told \in Status /\ told.lastRun = st.lastRun
    BY DEF Status
  <2> HIDE DEF told
  <2>2. Refreshed(told, strict).lastRun = told.lastRun
    BY <2>1, RefreshedFields
  <2> QED BY <2>1, <2>2 DEF Marked, told
<1>2. /\ \A configured : AlertResolved(st, configured).lastRun = st.lastRun
      /\ Elapsed(st).lastRun = st.lastRun
      /\ [st EXCEPT !.observed = TRUE].lastRun = st.lastRun
  BY DEF AlertResolved, Elapsed, Status
<1> QED BY <1>1, <1>2

(* A scan that has run is as if it had not after one step only.            *)
LEMMA Wiped ==
    ASSUME AtMostExpiries, TypeOK, NEW s \in Scans, Phase(s), Act(s), s \in alive, s \in alive',
           scan[s].lastRun, ~scan'[s].lastRun
    PROVE  ScanSched(s) /\ Resting(s) /\ ~Early(sobj[s])
<1> USE DEF apiVars, cacheVars, memVars, queueVars, scanWork, jobWork, histVars
<1>0. /\ scan[s] \in Status /\ Strict(s) \in BOOLEAN
      /\ Running(s) \/ Retiring(s) \/ Resting(s) \/ StrandedSaved(s)
  BY ScanFacts DEF Phase, Unborn, Awaiting, Unsaved, Stranded, StrandedUnsaved, Unrun, Eligible
<1>1. scan'[s] # scan[s]
  OBVIOUS
<1>2. CASE ScanSched(s)
  <2>1. Resting(s) /\ sobj[s] = scan[s]
    BY <1>0, <1>2 DEF ScanSched, Running, Retiring, Resting, StrandedSaved
  <2>2. CASE Early(sobj[s])
    <3>1. scan'[s] = [scan[s] EXCEPT !.observed = TRUE]
      BY <1>1, <1>2, <2>1, <2>2 DEF ScanSched, Store, TypeOK
    <3> QED BY <1>0, <3>1, LastRunKept
  <2> QED BY <1>2, <2>1, <2>2
<1>3. CASE ScanHandler(s) /\ ~ScanSched(s)
  <2>1. ScanStatusWrite(s) \/ (ScanMetrics(s) /\ Store(s, AlertResolved(scan[s], Configured(s)), {}))
    BY <1>1, <1>3, Impossible
    DEF ScanHandler, ScanStart, ScanGate, ScanLock, ScanClaim, ScanApply, ScanMetrics
  <2>2. ~ScanStatusWrite(s)
    BY <1>0 DEF ScanStatusWrite, Running, Retiring, Resting, StrandedSaved
  <2>3. scan'[s] = AlertResolved(scan[s], Configured(s))
    BY <2>1, <2>2 DEF Store, TypeOK
  <2> QED BY <1>0, <2>3, LastRunKept
<1>4. CASE JobHandler(s)
  <2>1. \/ JobComplete(s) /\ Store(s, jobj[s], {})
        \/ JobFinish(s) /\ Store(s, jobj[s], {})
    BY <1>1, <1>4, Impossible
    DEF JobHandler, JobIgnore, JobOfDeletedScan, JobRetire, JobCollect, JobComplete,
        JobCleanup, JobFinish, JobRelease
  <2>2. scan'[s] = jobj[s]
    BY <2>1 DEF Store, TypeOK
  <2>3. jobj[s].lastRun
    BY <1>0, <2>1
    DEF JobComplete, JobFinish, Running, Completing, Ongoing, Retiring, Over, Resting, StrandedSaved
  <2> QED BY <2>2, <2>3
<1>5. CASE PodHandler(s)
  <2>1. scan'[s] = Marked(scan[s], podCache[s], Strict(s))
    BY <1>1, <1>5 DEF PodHandler, PodIgnore, PodMark, Store, TypeOK
  <2> QED BY <1>0, <2>1, LastRunKept
<1>6. CASE Clock(s)
  <2>1. scan'[s] = Elapsed(scan[s])
    BY <1>1, <1>6 DEF Clock, TimePasses, TimerFires, TypeOK
  <2> QED BY <1>0, <2>1, LastRunKept
<1>7. ~Cluster(s) /\ ~Informers(s) /\ ~Users(s)
  BY <1>1, Impossible
  DEF Cluster, StartPod, RunnerDone, JobExpires, CollectOrphan, CollectPod, Informers,
      SyncScan, SyncJob, SyncPod, SyncConfigMaps, RedeliverScan, RedeliverJob, RedeliverPod,
      Users, CreateScan
<1> QED BY <1>2, <1>3, <1>4, <1>5, <1>6, <1>7 DEF Act

(* A finished scan is wiped for its next run only when that run is due     *)
(* (handleScheduledClusterScans).                                          *)
THEOREM RerunsAreTimely ==
    ASSUME AtMostExpiries
    PROVE  Spec => TimelyRerun
<1>1. ASSUME TypeOK, RunInv, [Next]_vars, NEW s \in alive \cap alive',
             scan[s].lastRun, ~scan'[s].lastRun
      PROVE  scan[s].next = "past" /\ s \notin jobs
  <2>1. PICK t \in Scans : Act(t)
    BY <1>1, Stuttered DEF Next, Act, Crash, Mishap, AtMostExpiries
  <2>2. s \in Scans /\ Phase(s)
    BY <1>1 DEF RunInv, TypeOK
  <2>3. s = t
    BY <1>1, <2>1, <2>2, Elsewhere DEF Act, Same
  <2>4. ScanSched(s) /\ Resting(s) /\ ~Early(sobj[s])
    BY <1>1, <2>1, <2>2, <2>3, Wiped
  <2>5. Cron(s) /\ sobj[s] = scan[s] /\ Over(scan[s], Cron(s)) /\ s \notin jobs
    BY <2>4 DEF ScanSched, Resting, NoRunner
  <2>6. scan[s] \in Status
    BY <1>1, <2>2, ScanFacts
  <2> QED BY <2>4, <2>5, <2>6 DEF Early, Over, Status
<1>2. TypeOK /\ RunInv /\ [Next]_vars
      => [ \A s \in alive \cap alive' :
             scan[s].lastRun /\ ~scan'[s].lastRun
             => scan[s].next = "past" /\ s \notin jobs ]_vars
  BY <1>1
<1> QED BY <1>2, RunPhases, TypeCorrect, PTL DEF Spec, TimelyRerun

(* A run whose Job expired before it was retired keeps the claim for ever, *)
(* so no other scan is launched again: handleJobs has no Job to delete and *)
(* is called for no other event, and every scan handler waits for the scan *)
(* that currentScanName names (handleJobs, isScanPresent).                 *)
THEOREM ExpiryLocksOut ==
    ASSUME AtMostExpiries
    PROVE  Spec => [][ \A s \in Scans : Stranded(s) => /\ Stranded(s)'
                                                       /\ jobs = {} /\ jobs' = {} ]_vars
<1>1. ASSUME TypeOK, TypeOK', ClaimInv, ClaimInv', [Next]_vars, NEW s \in Scans, Stranded(s)
      PROVE  Stranded(s)'
  <2>1. CASE UNCHANGED vars
    <3>1. Same(s) /\ current' = current
      BY <2>1 DEF Same, vars, apiVars, cacheVars, memVars, queueVars, scanWork, jobWork, histVars
    <3> QED BY <1>1, <3>1, PhaseKept
  <2>2. CASE \E t \in Scans : Act(t)
    BY <1>1, <2>2, StrandedStays
  <2>3. ~Crash
    BY DEF Crash, Mishap, AtMostExpiries
  <2> QED BY <1>1, <2>1, <2>2, <2>3 DEF Next, Act
<1>2. ASSUME ClaimInv, NEW s \in Scans, Stranded(s) PROVE jobs = {}
  BY <1>2 DEF ClaimInv, Stranded
<1>3. ASSUME ClaimInv', NEW s \in Scans, Stranded(s)' PROVE jobs' = {}
  BY <1>3 DEF ClaimInv, Stranded
<1>4. TypeOK /\ TypeOK' /\ ClaimInv /\ ClaimInv' /\ [Next]_vars
      => [ \A s \in Scans : Stranded(s) => /\ Stranded(s)'
                                           /\ jobs = {} /\ jobs' = {} ]_vars
  BY <1>1, <1>2, <1>3
<1>5. Spec => []ClaimInv
  BY NoneWorse, ClaimDiscipline
<1> QED BY <1>4, <1>5, TypeCorrect, PTL DEF Spec

-----------------------------------------------------------------------------
(* What a user sees of the runs: the controller implements ScanLife.       *)

(* What a user sees of a scan, by its phase.                               *)
Looks(s) ==
    /\ Unborn(s) => StageOf(s) = "none" /\ OutcomeOf(s) = "none" /\ s \notin dues
    /\ Awaiting(s) => StageOf(s) = "asked" /\ OutcomeOf(s) = "none" /\ s \notin dues
    /\ Unsaved(s) => StageOf(s) = "running" /\ OutcomeOf(s) = "none" /\ s \notin dues
    /\ Running(s) =>
          /\ StageOf(s) = IF pod[s] \in Verdicts THEN "ended" ELSE "running"
          /\ OutcomeOf(s) = IF pod[s] \notin Verdicts THEN "none"
                            ELSE IF pod[s] = "true" THEN "completed" ELSE "failed"
          /\ s \notin dues
    /\ Retiring(s) =>
          /\ StageOf(s) = "retiring" /\ s \notin dues
          /\ OutcomeOf(s) = IF scan[s].failed THEN "failed" ELSE "completed"
    /\ Resting(s) =>
          /\ StageOf(s) = "done"
          /\ OutcomeOf(s) = IF scan[s].failed THEN "failed" ELSE "completed"

(* The phase of a scan, before and after a step, settles what a user sees  *)
(* of it.                                                                  *)
LEMMA LooksOfPhases ==
    ASSUME NEW s \in Scans
    PROVE  Looks(s) /\ Looks(s)'
<1> USE DEF StageOf, OutcomeOf, dues, NoRunner
<1>1. Looks(s)
  BY BehaviourAssumption
  DEF Looks, Unborn, Awaiting, Unsaved, Running, Retiring, Resting, Unrun, Eligible, Ongoing, Over
<1>2. Looks(s)'
  BY BehaviourAssumption
  DEF Looks, Unborn, Awaiting, Unsaved, Running, Retiring, Resting, Unrun, Eligible, Ongoing, Over
<1> QED BY <1>1, <1>2

(* A step of one scan changes what a user sees of that scan only.          *)
LEMMA LooksElsewhere ==
    ASSUME AtMostExpiries, TypeOK, NEW t \in Scans, Act(t), TypeOK'
    PROVE  /\ stages' = [stages EXCEPT ![t] = StageOf(t)']
           /\ outcomes' = [outcomes EXCEPT ![t] = OutcomeOf(t)']
           /\ dues' \ {t} = dues \ {t}
<1>1. ASSUME NEW s \in Scans, s # t
      PROVE  /\ StageOf(s)' = StageOf(s) /\ OutcomeOf(s)' = OutcomeOf(s)
             /\ (s \in dues') = (s \in dues)
  <2>1. Same(s)
    BY <1>1, Elsewhere DEF Act
  <2> QED BY <2>1 DEF Same, StageOf, OutcomeOf, dues
<1>2. stages' = [stages EXCEPT ![t] = StageOf(t)']
  BY <1>1 DEF stages
<1>3. outcomes' = [outcomes EXCEPT ![t] = OutcomeOf(t)']
  BY <1>1 DEF outcomes
<1>4. dues \subseteq Scans /\ dues' \subseteq Scans
  BY DEF dues, TypeOK
<1> QED BY <1>1, <1>2, <1>3, <1>4

(* What the Pod of a run said stays until its Job is deleted.              *)
LEMMA PodKept ==
    ASSUME AtMostExpiries, TypeOK, NEW s \in Scans, Act(s), s \in jobs, s \in jobs',
           pod[s] \in Verdicts, jpc[s] # "cleanup"
    PROVE  pod'[s] = pod[s]
<1> USE DEF apiVars, cacheVars, memVars, queueVars, scanWork, jobWork, histVars
<1>1. CASE ScanHandler(s)
  BY <1>1, Impossible
  DEF ScanHandler, ScanStart, ScanGate, ScanLock, ScanClaim, ScanApply, ScanStatusWrite,
      ScanSched, ScanMetrics
<1>2. CASE JobHandler(s)
  BY <1>2, Impossible
  DEF JobHandler, JobIgnore, JobOfDeletedScan, JobRetire, JobCollect, JobComplete,
      JobCleanup, JobFinish, JobRelease
<1>3. CASE PodHandler(s) \/ Informers(s) \/ Clock(s)
  BY <1>3 DEF PodHandler, PodIgnore, PodMark, Informers, SyncScan, SyncJob, SyncPod, SyncConfigMaps,
  RedeliverScan, RedeliverJob, RedeliverPod,
      Clock, TimePasses, TimerFires
<1>4. CASE Cluster(s) \/ Users(s)
  BY <1>4, Impossible, BehaviourAssumption
  DEF Cluster, StartPod, RunnerDone, JobExpires, CollectOrphan, CollectPod, Users, CreateScan
<1> QED BY <1>1, <1>2, <1>3, <1>4 DEF Act

(* A retirement keeps its copy until it saves it (handleJobs).             *)
LEMMA RetiringStep ==
    ASSUME AtMostExpiries, TypeOK, NEW s \in Scans, Act(s), Retiring(s)
    PROVE  \/ jpc'[s] \in {"cleanup", "finish"} /\ scan'[s] = scan[s] /\ jobj'[s] = jobj[s]
           \/ jpc'[s] = "release" /\ scan'[s] = jobj[s]
<1> USE DEF apiVars, cacheVars, memVars, queueVars, scanWork, jobWork, histVars
<1>1. CASE ScanHandler(s)
  BY <1>1, Impossible
  DEF ScanHandler, ScanStart, ScanGate, ScanLock, ScanClaim, ScanApply, ScanStatusWrite,
      ScanSched, ScanMetrics, Retiring
<1>2. CASE JobCleanup(s)
  BY <1>2 DEF JobCleanup, JobAt, JobTo, TypeOK
<1>3. CASE JobFinish(s)
  BY <1>3 DEF JobFinish, Accepted, Fresh, Store, JobTo, Retiring, TypeOK
<1>4. CASE JobHandler(s) /\ ~JobCleanup(s) /\ ~JobFinish(s)
  BY <1>4, Impossible
  DEF JobHandler, JobIgnore, JobOfDeletedScan, JobPop, JobRetire, JobCollect, JobComplete,
      JobRelease, Retiring
<1>5. CASE PodHandler(s)
  BY <1>5 DEF PodHandler, PodIgnore, PodMark, PodMarks, Retiring, Ongoing
<1>6. CASE Cluster(s) \/ Informers(s) \/ Users(s)
  BY <1>6, Impossible
  DEF Cluster, StartPod, RunnerDone, JobExpires, CollectOrphan, CollectPod, Informers, SyncScan, SyncJob,
      SyncPod, SyncConfigMaps, RedeliverScan, RedeliverJob, RedeliverPod,
      Users, CreateScan, Retiring
<1>7. CASE Clock(s)
  BY <1>7 DEF Clock, TimePasses, TimerFires, Retiring
<1> QED BY <1>1, <1>2, <1>3, <1>4, <1>5, <1>6, <1>7 DEF Act

(* A finished scan is told of its alert and of its schedule, and becomes   *)
(* due (handleClusterScanMetrics, handleScheduledClusterScans); every      *)
(* other write is that of its next run.                                    *)
LEMMA RestingStep ==
    ASSUME AtMostExpiries, TypeOK, NEW s \in Scans, Act(s), Resting(s), scan'[s].complete
    PROVE  \/ scan'[s] = scan[s]
           \/ scan'[s] = AlertResolved(scan[s], Configured(s))
           \/ scan'[s] = Elapsed(scan[s])
           \/ scan'[s] = [scan[s] EXCEPT !.observed = TRUE]
<1> USE DEF apiVars, cacheVars, memVars, queueVars, scanWork, jobWork, histVars
<1>0. scan[s] \in Status
  BY ScanFacts
<1> SUFFICES ASSUME scan'[s] # scan[s]
             PROVE  \/ scan'[s] = AlertResolved(scan[s], Configured(s))
                    \/ scan'[s] = Elapsed(scan[s])
                    \/ scan'[s] = [scan[s] EXCEPT !.observed = TRUE]
  OBVIOUS
<1>1. CASE ScanSched(s)
  <2>1. sobj[s] = scan[s]
    BY <1>1 DEF ScanSched, Resting
  <2>2. \/ scan'[s] = [scan[s] EXCEPT !.observed = TRUE]
        \/ scan'[s] = Renewed(scan[s])
    BY <1>1, <2>1 DEF ScanSched, Store, TypeOK
  <2>3. ~Renewed(scan[s]).complete
    BY <1>0 DEF Renewed, Unconditioned, Status
  <2> QED BY <2>2, <2>3
<1>2. CASE ScanHandler(s) /\ ~ScanSched(s)
  <2>1. ScanMetrics(s) /\ Store(s, AlertResolved(scan[s], Configured(s)), {})
    BY <1>2, Impossible
    DEF ScanHandler, ScanStart, ScanGate, ScanLock, ScanClaim, ScanApply, ScanMetrics,
        ScanStatusWrite, Resting
  <2> QED BY <2>1 DEF Store, TypeOK
<1>3. ~JobHandler(s)
  BY Impossible
  DEF JobHandler, JobIgnore, JobOfDeletedScan, JobRetire, JobCollect, JobComplete,
      JobCleanup, JobFinish, JobRelease, Resting
<1>4. ~PodHandler(s)
  BY DEF PodHandler, PodIgnore, PodMark, PodMarks, Resting, Over
<1>5. CASE Clock(s)
  BY <1>5 DEF Clock, TimePasses, TimerFires, TypeOK
<1>6. ~Cluster(s) /\ ~Informers(s) /\ ~Users(s)
  BY Impossible
  DEF Cluster, StartPod, RunnerDone, JobExpires, CollectOrphan, CollectPod, Informers,
      SyncScan, SyncJob, SyncPod, SyncConfigMaps, RedeliverScan, RedeliverJob, RedeliverPod,
      Users, CreateScan, Resting
<1> QED BY <1>1, <1>2, <1>3, <1>4, <1>5, <1>6 DEF Act

(* So a finished scan keeps its Failed condition, and once it is due stays *)
(* due, until it is wiped for its next run; only a scheduled one falls due. *)
LEMMA StatusKept ==
    ASSUME AtMostExpiries, TypeOK, NEW s \in Scans, Act(s), Resting(s), scan'[s].complete
    PROVE  /\ scan'[s].failed = scan[s].failed
           /\ scan[s].next = "past" => scan'[s].next = "past"
           /\ scan[s].next # "past" /\ scan'[s].next = "past" => Cron(s)
<1>1. scan[s] \in Status /\ Over(scan[s], Cron(s)) /\ Cron(s) \in BOOLEAN
  BY ScanFacts DEF Resting
<1> QED BY <1>1, RestingStep DEF Over, AlertResolved, Elapsed, Status

(* A scan that is wiped is due (handleScheduledClusterScans).              *)
LEMMA RenewedWhenDue ==
    ASSUME AtMostExpiries, TypeOK, NEW s \in Scans, Act(s), Resting(s), Awaiting(s)'
    PROVE  s \in dues
<1>1. /\ s \in alive /\ s \in alive' /\ scan[s].lastRun /\ ~scan'[s].lastRun /\ Phase(s)
      /\ Over(scan[s], Cron(s))
  BY DEF Resting, Over, Awaiting, Unrun, Eligible, Phase
<1>2. ScanSched(s) /\ ~Early(sobj[s])
  BY <1>1, Wiped
<1>3. Cron(s) /\ sobj[s] = scan[s] /\ scan[s] \in Status
  BY <1>2, ScanFacts DEF ScanSched, Resting
<1> QED BY <1>1, <1>2, <1>3 DEF Early, Over, Status, dues

(* Each handler's step for a scan is a step of its life, or is not seen.   *)
LEMMA LifeStep ==
    ASSUME NoMishaps, TypeOK, ClaimInv, RunInv, TypeOK', NEW s \in Scans, Act(s)
    PROVE  Life!Next \/ UNCHANGED Life!vars
<1> USE Unexpired
<1> DEFINE from == StageOf(s)
           to   == StageOf(s)'
<1>0. /\ Looks(s) /\ Looks(s)'
      /\ stages' = [stages EXCEPT ![s] = to]
      /\ outcomes' = [outcomes EXCEPT ![s] = OutcomeOf(s)']
      /\ dues' \ {s} = dues \ {s}
      /\ stages[s] = from /\ outcomes[s] = OutcomeOf(s)
      /\ stages \in [Scans -> {StageOf(u) : u \in Scans}]
      /\ outcomes \in [Scans -> {OutcomeOf(u) : u \in Scans}]
  BY LooksOfPhases, LooksElsewhere DEF stages, outcomes
<1>1. /\ from = to => stages' = stages
      /\ OutcomeOf(s)' = OutcomeOf(s) => outcomes' = outcomes
      /\ (s \in dues') = (s \in dues) => dues' = dues
  <2>1. from = to => stages' = stages
    BY <1>0 DEF stages
  <2>2. OutcomeOf(s)' = OutcomeOf(s) => outcomes' = outcomes
    BY <1>0 DEF outcomes
  <2>3. ASSUME (s \in dues') = (s \in dues)
        PROVE  dues' = dues
    <3>1. ASSUME NEW u
          PROVE  (u \in dues') = (u \in dues)
      <4>1. (u \in dues' \ {s}) = (u \in dues \ {s})
        BY <1>0
      <4> QED BY <2>3, <4>1
    <3> QED BY <3>1
  <2> QED BY <2>1, <2>2, <2>3
<1>2. /\ from # to => Life!Moves(s, from, to)
      /\ stages = stages' /\ outcomes = outcomes' /\ dues = dues' => UNCHANGED Life!vars
  BY <1>0 DEF Life!Moves, Life!vars
<1> HIDE DEF from, to
<1>9. ASSUME from = "running", to = "ended", OutcomeOf(s)' \in {"completed", "failed"},
             s \notin dues, s \notin dues'
      PROVE  Life!End(s)
  <2>1. Life!Moves(s, "running", "ended") /\ dues' = dues
    BY <1>1, <1>2, <1>9
  <2>2. outcomes' = [outcomes EXCEPT ![s] = OutcomeOf(s)']
    BY <1>0
  <2> QED BY <1>9, <2>1, <2>2 DEF Life!End
<1>3. CASE Unborn(s)
  <2>1. Unborn(s)' \/ Awaiting(s)'
    BY <1>3, FromUnborn
  <2>2. UNCHANGED Life!vars \/ Life!Ask(s)
    BY <1>0, <1>1, <1>2, <1>3, <2>1 DEF Looks, Life!Ask, from, to
  <2> QED BY <2>2 DEF Life!Next
<1>4. CASE Awaiting(s)
  <2>1. Awaiting(s)' \/ Unsaved(s)'
    BY <1>4, FromAwaiting DEF RunInv
  <2>2. CASE Awaiting(s)'
    BY <1>0, <1>1, <1>2, <1>4, <2>2 DEF Looks, from, to
  <2>3. CASE Unsaved(s)'
    <3>1. ScanApply(s)
      BY <1>4, <2>3, JobNew DEF Awaiting, NoRunner, Unsaved
    <3>2. jobs = {} /\ \A u \in Scans : jpc[u] \notin {"cleanup", "finish"}
      BY <1>4, <3>1 DEF ClaimInv, ScanApply
    <3>3. ~Life!Taken
      BY <3>2 DEF Life!Taken, stages, StageOf
    <3>4. Life!Launch(s)
      BY <1>0, <1>1, <1>2, <1>4, <2>3, <3>3 DEF Looks, Life!Launch, from, to
    <3> QED BY <3>4 DEF Life!Next
  <2> QED BY <2>1, <2>2, <2>3
<1>5. CASE Unsaved(s)
  <2>1. Unsaved(s)' \/ Running(s)'
    BY <1>5, FromUnsaved DEF RunInv
  <2>2. /\ from = "running" /\ OutcomeOf(s) = "none" /\ s \notin dues /\ s \notin dues'
        /\ \/ to = "running" /\ OutcomeOf(s)' = "none"
           \/ to = "ended" /\ OutcomeOf(s)' \in {"completed", "failed"}
    <3>1. from = "running" /\ OutcomeOf(s) = "none" /\ s \notin dues
      BY <1>0, <1>5 DEF Looks, from
    <3>2. CASE Unsaved(s)'
      BY <1>0, <3>1, <3>2 DEF Looks, to
    <3>3. CASE Running(s)'
      BY <1>0, <3>1, <3>3 DEF Looks, to
    <3> QED BY <2>1, <3>2, <3>3
  <2>3. UNCHANGED Life!vars \/ Life!End(s)
    BY <1>1, <1>2, <1>9, <2>2
  <2> QED BY <2>3 DEF Life!Next
<1>6. CASE Running(s)
  <2>1. Running(s)' \/ Retiring(s)'
    BY <1>6, FromRunning DEF RunInv
  <2>2. CASE Running(s)' /\ pod[s] \in Verdicts
    <3>1. pod'[s] = pod[s]
      BY <1>6, <2>2, PodKept DEF Running
    <3> QED BY <1>0, <1>1, <1>2, <1>6, <2>2, <3>1 DEF Looks, from, to
  <2>3. CASE Running(s)' /\ pod[s] \notin Verdicts
    <3>1. /\ from = "running" /\ OutcomeOf(s) = "none" /\ s \notin dues /\ s \notin dues'
          /\ \/ to = "running" /\ OutcomeOf(s)' = "none"
             \/ to = "ended" /\ OutcomeOf(s)' \in {"completed", "failed"}
      BY <1>0, <1>6, <2>3 DEF Looks, from, to
    <3>2. UNCHANGED Life!vars \/ Life!End(s)
      BY <1>1, <1>2, <1>9, <3>1
    <3> QED BY <3>2 DEF Life!Next
  <2>4. CASE Retiring(s)'
    <3>1. JobRetire(s) /\ pod[s] \in Verdicts
      BY <1>6, <2>4, JobGone DEF RunInv, Running, Retiring, NoRunner
    <3>2. scan'[s].failed = (pod[s] # "true")
      BY <1>6, <2>4, <3>1 DEF JobRetire, Running, Retiring, Ongoing
    <3>3. /\ from = "ended" /\ to = "retiring" /\ s \notin dues /\ s \notin dues'
          /\ OutcomeOf(s) = IF pod[s] = "true" THEN "completed" ELSE "failed"
          /\ OutcomeOf(s)' = IF scan'[s].failed THEN "failed" ELSE "completed"
      BY <1>0, <1>6, <2>4, <3>1 DEF Looks, from, to
    <3>4. OutcomeOf(s)' = OutcomeOf(s)
      BY <3>2, <3>3
    <3>5. Life!TakeDown(s)
      BY <1>1, <1>2, <3>3, <3>4 DEF Life!TakeDown
    <3> QED BY <3>5 DEF Life!Next
  <2> QED BY <2>1, <2>2, <2>3, <2>4
<1>7. CASE Retiring(s)
  <2>1. Retiring(s)' \/ Resting(s)'
    BY <1>7, FromRetiring DEF RunInv
  <2>2. /\ scan'[s].failed = scan[s].failed
        /\ scan'[s].next # "past"
    BY <1>7, RetiringStep DEF Retiring, Ongoing
  <2>3. s \notin dues'
    BY <2>2 DEF dues
  <2>4. UNCHANGED Life!vars \/ Life!Retire(s)
    BY <1>0, <1>1, <1>2, <1>7, <2>1, <2>2, <2>3 DEF Looks, Life!Retire, from, to
  <2> QED BY <2>4 DEF Life!Next
<1>8. CASE Resting(s)
  <2>1. Resting(s)' \/ Awaiting(s)'
    BY <1>8, FromResting DEF RunInv
  <2>2. CASE Resting(s)'
    <3>1. /\ scan'[s].failed = scan[s].failed /\ s \in alive /\ s \in alive'
          /\ scan[s].next = "past" => scan'[s].next = "past"
          /\ scan[s].next # "past" /\ scan'[s].next = "past" => Cron(s)
      BY <1>8, <2>2, StatusKept DEF Resting, Over
    <3>2. UNCHANGED Life!vars \/ Life!FallDue(s)
      BY <1>0, <1>1, <1>2, <1>8, <2>2, <3>1 DEF Looks, Life!FallDue, dues, from, to
    <3> QED BY <3>2 DEF Life!Next
  <2>3. CASE Awaiting(s)'
    <3>1. s \in dues
      BY <1>8, <2>3, RenewedWhenDue
    <3>2. Life!Again(s)
      BY <1>0, <1>1, <1>2, <1>8, <2>3, <3>1 DEF Looks, Life!Again, from, to
    <3> QED BY <3>2 DEF Life!Next
  <2> QED BY <2>1, <2>2, <2>3
<1> QED BY <1>3, <1>4, <1>5, <1>6, <1>7, <1>8 DEF RunInv, Phase

(* The five handlers together do what ScanLife says: each run is asked     *)
(* for, launched while no other run is between its launch and its final    *)
(* status, ended by its runner, taken down, and saved with the outcome the *)
(* runner gave, which the Failed condition and the display then tell; and  *)
(* only a scheduled scan whose next run is due is run again.               *)
THEOREM LivesAsPromised ==
    ASSUME NoMishaps
    PROVE  Spec => Lived
<1> USE Unexpired
<1>1. Init => Life!Init
  BY DEF Init, Life!Init, stages, outcomes, dues, StageOf, OutcomeOf
<1>2. NoRestartOrDelete
  BY NoneWorse
<1>3. Spec => []ClaimInv
  BY <1>2, ClaimDiscipline
<1>4. TypeOK /\ TypeOK' /\ ClaimInv /\ RunInv /\ [Next]_vars => [Life!Next]_(Life!vars)
  <2> SUFFICES ASSUME TypeOK, TypeOK', ClaimInv, RunInv, [Next]_vars
               PROVE  Life!Next \/ UNCHANGED Life!vars
    OBVIOUS
  <2>1. CASE UNCHANGED vars
    BY <2>1 DEF vars, apiVars, cacheVars, memVars, queueVars, scanWork, jobWork, histVars,
                Life!vars, stages, outcomes, dues, StageOf, OutcomeOf
  <2>2. ASSUME NEW s \in Scans, Act(s)
        PROVE  Life!Next \/ UNCHANGED Life!vars
    BY <2>2, LifeStep
  <2>3. ~Crash
    BY DEF Crash, Mishap, AtMostExpiries
  <2> QED BY <2>1, <2>2, <2>3 DEF Next, Act
<1> QED BY <1>1, <1>3, <1>4, RunPhases, TypeCorrect, PTL DEF Spec, Lived, Life!Spec

-----------------------------------------------------------------------------
(* The display of finished scans.                                          *)

(* The final status is refreshed before it is saved (handleJobs,           *)
(* setClusterScanStatusDisplay).                                           *)
LEMMA RetiredShows ==
    ASSUME NEW st \in Status, NEW strict \in BOOLEAN, NEW cron \in BOOLEAN
    PROVE  Shows(Retired(st, cron, strict), strict)
<1> DEFINE ended == [st EXCEPT !.alerted = IF st.failed THEN @ ELSE "Unknown", !.observed = TRUE]
<1>1. ended \in Status
  BY DEF Status
<1>2. Retired(st, cron, strict)
      = [Refreshed(ended, strict) EXCEPT !.next = IF cron THEN "later" ELSE @]
  BY DEF Retired
<1> HIDE DEF ended
<1>3. Refreshed(ended, strict) \in Status
  BY <1>1, RefreshedType
<1> QED BY <1>1, <1>2, <1>3, RefreshedFields DEF Shows, ShownState, Status

(* Nothing the display depends on changes while a finished scan waits.     *)
LEMMA ShownAlike ==
    ASSUME NEW st \in Status, NEW strict \in BOOLEAN, Shows(st, strict)
    PROVE  /\ \A configured : Shows(AlertResolved(st, configured), strict)
           /\ Shows(Elapsed(st), strict)
           /\ Shows([st EXCEPT !.observed = TRUE], strict)
  BY DEF Shows, ShownState, AlertResolved, Elapsed, Status

(* A step of scan s leaves the display of its final status right.          *)
LEMMA DisplayStep ==
    ASSUME NoMishaps, TypeOK, ClaimInv, RunInv, NEW s \in Scans, Act(s),
           Retiring(s) => Shows(jobj[s], Strict(s)), Resting(s) => Shows(scan[s], Strict(s))
    PROVE  /\ Retiring(s)' => Shows(jobj'[s], Strict(s))
           /\ Resting(s)' => Shows(scan'[s], Strict(s))
<1> USE Unexpired
<1> USE DEF apiVars, cacheVars, memVars, queueVars, scanWork, jobWork, histVars
<1>0. /\ scan[s] \in Status /\ jobj[s] \in Status /\ sobj[s] \in Status
      /\ Strict(s) \in BOOLEAN /\ Cron(s) \in BOOLEAN
  BY ScanFacts
<1>1. ASSUME Retiring(s)'
      PROVE  Shows(jobj'[s], Strict(s))
  <2>1. Running(s) \/ Retiring(s)
    <3>1. ~(Unborn(s)' \/ Awaiting(s)' \/ Unsaved(s)' \/ Running(s)' \/ Resting(s)')
      BY <1>1 DEF Retiring, Unborn, Awaiting, Unsaved, Running, Resting, NoRunner
    <3> QED BY <1>1, <3>1, FromUnborn, FromAwaiting, FromUnsaved, FromResting DEF RunInv, Phase
  <2>2. CASE Running(s)
    <3>1. JobRetire(s)
      BY <1>1, <2>2, JobGone DEF RunInv, Running, Retiring, NoRunner
    <3>2. jobj'[s] = Retired(scan[s], Cron(s), Strict(s))
      BY <1>1, <2>2, <3>1 DEF JobRetire, JobTo, TypeOK, Running, Retiring, NoRunner
    <3> QED BY <1>0, <3>2, RetiredShows
  <2>3. CASE Retiring(s)
    <3>1. jobj'[s] = jobj[s]
      BY <1>1, <2>3, RetiringStep DEF Retiring
    <3> QED BY <2>3, <3>1
  <2> QED BY <2>1, <2>2, <2>3
<1>2. ASSUME Resting(s)'
      PROVE  Shows(scan'[s], Strict(s))
  <2>1. Retiring(s) \/ Resting(s)
    <3>1. ~(Unborn(s)' \/ Awaiting(s)' \/ Unsaved(s)' \/ Running(s)' \/ Retiring(s)')
      BY <1>2 DEF Retiring, Unborn, Awaiting, Unsaved, Resting, Running, NoRunner, Unrun, Over
    <3> QED BY <1>2, <3>1, FromUnborn, FromAwaiting, FromUnsaved, FromRunning DEF RunInv, Phase
  <2>2. CASE Retiring(s)
    <3>1. scan'[s] = jobj[s]
      BY <1>2, <2>2, RetiringStep DEF Resting
    <3> QED BY <2>2, <3>1
  <2>3. CASE Resting(s)
    <3>1. \/ scan'[s] = scan[s]
          \/ scan'[s] = AlertResolved(scan[s], Configured(s))
          \/ scan'[s] = Elapsed(scan[s])
          \/ scan'[s] = [scan[s] EXCEPT !.observed = TRUE]
      BY <1>2, <2>3, RestingStep DEF Resting, Over
    <3> QED BY <1>0, <2>3, <3>1, ShownAlike
  <2> QED BY <2>1, <2>2, <2>3
<1> QED BY <1>1, <1>2

(* Whenever a scan's run has been retired, users see error, fail or pass   *)
(* as the Failed condition and the summary call for, although Complete is  *)
(* saved by a pass that does not refresh the display (handleJobs,          *)
(* setClusterScanStatusDisplay).                                           *)
THEOREM DisplayIsRight ==
    ASSUME NoMishaps
    PROVE  Spec => []DisplayTells
<1> USE Unexpired
<1>1. Init => DisplayInv
  BY DEF Init, DisplayInv, Retiring, Resting
<1>2. NoRestartOrDelete
  BY NoneWorse
<1>3. Spec => []ClaimInv
  BY <1>2, ClaimDiscipline
<1>4. TypeOK /\ ClaimInv /\ RunInv /\ DisplayInv /\ [Next]_vars => DisplayInv'
  <2> SUFFICES ASSUME TypeOK, ClaimInv, RunInv, DisplayInv, [Next]_vars, NEW s \in Scans
               PROVE  /\ Retiring(s)' => Shows(jobj'[s], Strict(s))
                      /\ Resting(s)' => Shows(scan'[s], Strict(s))
    BY DEF DisplayInv
  <2>1. CASE UNCHANGED vars
    <3>1. Retiring(s)' = Retiring(s) /\ Resting(s)' = Resting(s)
      BY <2>1
      DEF vars, apiVars, cacheVars, memVars, queueVars, scanWork, jobWork, histVars, Retiring, Resting,
          NoRunner, Fresh, TrueCache, HoldsFresh, MetricsDue, Unresolved, RerunDue, RuleNamed,
          KeptReports
    <3> QED BY <2>1, <3>1
            DEF DisplayInv, vars, apiVars, scanWork, jobWork
  <2>2. ASSUME NEW t \in Scans, Act(t), t # s
        PROVE  /\ Retiring(s)' => Shows(jobj'[s], Strict(s))
               /\ Resting(s)' => Shows(scan'[s], Strict(s))
    <3>1. Same(s) /\ Phase(s)
      BY <2>2, Elsewhere DEF Act, RunInv
    <3>2. (Retiring(s)' => Retiring(s)) /\ (Resting(s)' => Resting(s))
      BY <3>1 DEF Same, Retiring, Resting, NoRunner, Fresh, TrueCache, HoldsFresh, MetricsDue,
                  Unresolved, RerunDue, RuleNamed, KeptReports
    <3> QED BY <3>1, <3>2 DEF Same, DisplayInv
  <2>3. CASE Act(s)
    BY <2>3, DisplayStep DEF DisplayInv
  <2>4. ~Crash
    BY DEF Crash, Mishap, AtMostExpiries
  <2> QED BY <2>1, <2>2, <2>3, <2>4 DEF Next, Act
<1>5. TypeOK /\ RunInv /\ DisplayInv => DisplayTells
  <2> SUFFICES ASSUME TypeOK, RunInv, DisplayInv, NEW s \in alive \ jobs,
                      scan[s].complete, jpc[s] \notin {"cleanup", "finish"}
               PROVE  /\ scan[s].shown \in {"error", "fail", "pass"}
                      /\ scan[s].shown = "error" <=> scan[s].failed
                      /\ scan[s].shown = "fail"
                         <=> /\ ~scan[s].failed
                             /\ \/ scan[s].summary = "failing"
                                \/ scan[s].summary = "warned" /\ Strict(s)
    BY DEF DisplayTells
  <2>1. s \in Scans /\ Resting(s) /\ scan[s] \in Status
    BY ScanFacts DEF TypeOK, RunInv, Phase, Unborn, Awaiting, Unsaved, Running, Retiring, Unrun
  <2>2. Shows(scan[s], Strict(s)) /\ Over(scan[s], Cron(s))
    BY <2>1 DEF DisplayInv, Resting
  <2> QED BY <2>1, <2>2 DEF Shows, ShownState, Verdict, Over
<1> QED BY <1>1, <1>3, <1>4, <1>5, RunPhases, TypeCorrect, PTL DEF Spec
==============================================================================
